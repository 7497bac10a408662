------------------------- MODULE PeerSession_proofs -------------------------
(***************************************************************************)
(* Proofs about PeerSession, for any clients, models and configurations    *)
(* and any bounds: when a session is used by another activation's call,    *)
(* when a call meets no session, how far the nonces of the two sides can   *)
(* be apart, and that a session holds what its client was told.            *)
(***************************************************************************)
EXTENDS PeerSession, TLAPS

----------------------------------------------------------------------------
(* The inductive invariant.                                                *)

IsExchange(k) == k.op = "ExchangeKey"

\* The client of the call is still in the activation it was sent in.
Current(k) == client[k.from].token = k.token

\* The client has the id of a session.
Opened(c) == client[c].state \in {"configure", "active"}

\* The session its id leads to is the one of the client's activation.
Owns(c) ==
    /\ Opened(c)
    /\ Known(client[c].id)
    /\ clientMap[client[c].id].token = client[c].token

\* What a call carries.
ArgOf(op) ==
    CASE op = "Configure" -> Configs
      [] op \in {"LoadModel", "UploadModel", "SetInputTensorInfo", "SetOutputTensorInfo"} -> Models
      [] OTHER -> Maybe(Models \union Configs)

\* The values of the variables, and what each call carries.
Typed == TypeOK /\ \A k \in calls : k.arg \in ArgOf(k.op)

\* How far a call can have got.
StepsOK ==
    /\ \A k \in calls :
           /\ k.step = "created" => IsExchange(k)
           /\ k.step \in {"admitted", "writing"} => ~IsExchange(k)
           /\ k.step = "admitted" => secure
           /\ k.step = "writing" => k.op = "UploadModel"
    /\ server = "down" => DOMAIN clientMap = {} /\ \A k \in calls : k.step = "sent"

\* Tokens tell the activations apart.
TokensOK ==
    /\ \A c \in Clients : /\ client[c].state = "inactive" <=> client[c].token = 0
                          /\ client[c].token <= exchanges
    /\ \A c, d \in Clients : client[c].token = client[d].token /\ client[c].token # 0 => c = d
    /\ \A k \in calls : 1 <= k.token /\ k.token <= exchanges
    /\ \A k \in calls, c \in Clients : client[c].token = k.token => c = k.from

\* A client waits for one call at a time.
OneLive == \A j, k \in calls : j.live /\ k.live /\ j.from = k.from => j = k

\* The calls of an activation follow the client's state.
CallsOK ==
    \A k \in calls :
        /\ k.live => Current(k)
        /\ Current(k) /\ IsExchange(k) => k.live /\ client[k.from].state = "exchange"
        /\ Current(k) /\ ~IsExchange(k) =>
               /\ Opened(k.from)
               /\ k.id = client[k.from].id
               /\ client[k.from].state = "configure" => k.op = "Configure"
        /\ Current(k) /\ ~client[k.from].lost => k.live

\* Nothing is told to an application whose activation is not complete.
Fresh(r) == r.told = Nothing /\ r.model = Nothing /\ r.cache = NoInfo

FreshOK == \A c \in Clients : client[c].state # "active" => Fresh(client[c])

\* As long as no two ExchangeKey() have overlapped, ids are new.
IdsNew ==
    ~overlapped =>
        /\ \A k \in calls : k.step = "created" => k.id = nextPeerId
        /\ \A j, k \in calls : j.step = "created" /\ k.step = "created" => j = k
        /\ \A i \in DOMAIN clientMap : clientMap[i] # Nothing => i < nextPeerId

\* The session of id i is that of the activation token.
IsOf(i, token) == Known(i) /\ (~overlapped => clientMap[i].token = token)

\* A server that was not restarted knows every id that is in use.
IdsKnown ==
    restarts = 0 =>
        /\ server # "crashed"
        /\ server # "down" =>
               /\ \A i \in DOMAIN clientMap : clientMap[i] # Nothing
               /\ \A k \in calls : ~IsExchange(k) => IsOf(k.id, k.token)
               /\ \A c \in Clients : Opened(c) => IsOf(client[c].id, client[c].token)

\* A call that Auth::Process() has let through is one of the session's.
AdmittedOK ==
    secure /\ ~overlapped =>
        \A k \in calls : k.step \in {"admitted", "writing"} => IsOf(k.id, k.token)

\* The nonces of an activation are in a range of their own.
Before(token, n) == GetRandom(token) <= n /\ n <= GetRandom(token) + 2 * sent

Within(token, n) == GetRandom(token) <= n /\ n <= GetRandom(token) + 2 * sent + 1

NoncesApart ==
    secure =>
        /\ \A c \in Clients : Opened(c) => Within(client[c].token, client[c].nonce)
        /\ \A k \in calls : ~IsExchange(k) => Before(k.token, k.nonce)
        /\ \A k \in calls : k.live /\ k.op = "LoadModel" =>
                                Before(client[k.from].token, client[k.from].nonce)
        /\ \A i \in DOMAIN clientMap : clientMap[i] # Nothing =>
                                Within(clientMap[i].token, clientMap[i].nonce)

\* How the nonces of calls follow that of their client.
CallNonces ==
    secure =>
        /\ \A k \in calls : Current(k) /\ ~IsExchange(k) =>
               /\ k.nonce < client[k.from].nonce
               /\ k.live => client[k.from].nonce = k.nonce + 1
        /\ \A j, k \in calls :
               (/\ Current(j) /\ Current(k) /\ j.from = k.from
                /\ ~IsExchange(j) /\ ~IsExchange(k) /\ k.live /\ j # k) => j.nonce < k.nonce

\* No other call has the token of an ExchangeKey().
ExchangeAlone == \A j, k \in calls : IsExchange(k) /\ j.token = k.token => j = k

\* The client waits for a call that Auth::Process() has not seen.
Unchecked(c) == \E k \in calls : k.from = c /\ k.live /\ k.step = "sent"

\* The session's nonce follows the client's.
InStep(c) ==
    LET n == clientMap[client[c].id].nonce IN
    /\ n <= client[c].nonce
    /\ ~client[c].lost => client[c].nonce = IF Unchecked(c) THEN n + 1 ELSE n

SessionNonces ==
    secure =>
        /\ \A k \in calls : k.step = "admitted" /\ Known(k.id) /\ clientMap[k.id].token = k.token
               => k.nonce < clientMap[k.id].nonce
        /\ \A c \in Clients : Owns(c) => InStep(c)

\* The late calls op of the client's session will never be handled.
Harmless(c, op) ==
    \A k \in calls :
        Current(k) /\ k.from = c /\ ~k.live /\ k.op = op =>
            /\ secure
            /\ k.step = "sent"
            /\ k.nonce < clientMap[client[c].id].nonce

\* The session c owns holds what c was told.
Agrees(c) ==
    LET r == client[c]
        g == clientMap[r.id] IN
    /\ r.model # Nothing => g.path = r.model /\ Harmless(c, "LoadModel")
    /\ r.told # Nothing => g.conf = r.told /\ Harmless(c, "Configure")
    /\ \A k \in calls : k.from = c /\ k.live /\ k.op = "UploadModel"
           => g.path = k.arg /\ Harmless(c, "LoadModel")
    /\ ~r.lost => \A s \in Sides : r.cache[s] \in {Nothing, g.info[s]}

InOrder(c) == ~trespass /\ (IF secure THEN ~overtaken ELSE ~client[c].lost)

AgreeOK == \A c \in Clients : Owns(c) /\ InOrder(c) => Agrees(c)

SessionInv ==
    /\ Typed /\ StepsOK /\ TokensOK /\ OneLive /\ CallsOK /\ FreshOK
    /\ IdsNew /\ IdsKnown /\ AdmittedOK /\ Isolation

IsolationInv == SessionInv /\ NoncesApart

NonceInv == IsolationInv /\ ExchangeAlone /\ CallNonces /\ SessionNonces
----------------------------------------------------------------------------
(* Client records.                                                         *)

\* What an answer leaves alone: it can complete an activation, and no more.
Still(r, s) ==
    /\ s.token = r.token /\ s.id = r.id /\ s.nonce = r.nonce
    /\ r.lost => s.lost
    /\ s.state = r.state \/ (r.state = "configure" /\ s.state = "active")
    /\ s.state # "active" /\ Fresh(r) => Fresh(s)

\* The client has been destroyed.
Gone(s) == s.state = "inactive" /\ s.token = 0 /\ Fresh(s)

\* What the application is told after a failure.
ToldLess(r, s, op) ==
    /\ s.model \in {Nothing, r.model} /\ s.told \in {Nothing, r.told} /\ s.cache = r.cache
    /\ op \in {"LoadModel", "UploadModel"} => s.model = Nothing
    /\ op = "Configure" => s.told = Nothing

\* A destroyed client.
LEMMA DestroyedFacts ==
  ASSUME NEW r \in ClientStates
  PROVE  Destroyed(r) \in ClientStates /\ Gone(Destroyed(r))
  BY DEF Destroyed, NewClient, ClientStates, Gone, Fresh, Maybe, NoInfo

\* A failed call destroys a client that is being activated; an active one stays as
\* it is and its application is told no more than before.
LEMMA FailedFacts ==
  ASSUME NEW r \in ClientStates, NEW k \in Calls
  PROVE  /\ Failed(r, k) \in ClientStates
         /\ IF r.state = "active"
            THEN /\ Still(r, Failed(r, k)) /\ Failed(r, k).state = "active"
                 /\ Failed(r, k).lost = r.lost /\ ToldLess(r, Failed(r, k), k.op)
            ELSE Gone(Failed(r, k))
<1>1. CASE r.state = "active"
  BY <1>1 DEF Failed, ClientStates, Maybe, Still, ToldLess
<1>2. CASE r.state # "active"
  BY <1>2, DestroyedFacts DEF Failed
<1> QED BY <1>1, <1>2

\* The same when the connection has broken.
LEMMA BrokenFacts ==
  ASSUME NEW r \in ClientStates, NEW k \in Calls
  PROVE  /\ Failed(Broken(r), k) \in ClientStates
         /\ IF r.state = "active"
            THEN /\ Still(r, Failed(Broken(r), k)) /\ Failed(Broken(r), k).state = "active"
                 /\ Failed(Broken(r), k).lost = TRUE /\ ToldLess(r, Failed(Broken(r), k), k.op)
            ELSE Gone(Failed(Broken(r), k))
<1>1. /\ Broken(r) \in ClientStates /\ Broken(r).state = r.state /\ Broken(r).lost = TRUE
      /\ Broken(r).token = r.token /\ Broken(r).id = r.id /\ Broken(r).nonce = r.nonce
      /\ Broken(r).model = r.model /\ Broken(r).told = r.told /\ Broken(r).cache = r.cache
  BY DEF Broken, ClientStates
<1>2. /\ Failed(Broken(r), k) \in ClientStates
      /\ IF r.state = "active"
         THEN /\ Still(Broken(r), Failed(Broken(r), k)) /\ Failed(Broken(r), k).state = "active"
              /\ Failed(Broken(r), k).lost = TRUE
              /\ ToldLess(Broken(r), Failed(Broken(r), k), k.op)
         ELSE Gone(Failed(Broken(r), k))
  BY <1>1, FailedFacts
<1> QED BY <1>1, <1>2 DEF Still, ToldLess

\* A call that is accepted.
LEMMA ConfigureFacts ==
  ASSUME NEW r \in ClientStates, NEW k, k.arg \in Configs, r.state \in {"configure", "active"}
  PROVE  LET s == ConfigureReturns(r, k)
         IN  /\ s \in ClientStates /\ Still(r, s) /\ s.lost = r.lost
             /\ s.told = k.arg /\ s.model = r.model /\ s.cache = r.cache /\ s.state = "active"
  BY DEF ConfigureReturns, ClientStates, Maybe, Still

\* LoadModel() makes its client forget the tensor information it has cached.
LEMMA LoadModelFacts ==
  ASSUME NEW r \in ClientStates, NEW k, k.arg \in Models, NEW ok, r.state = "active"
  PROVE  LET s == LoadModelReturns(r, ok, k)
         IN  /\ s \in ClientStates /\ Still(r, s) /\ s.lost = r.lost /\ s.state = "active"
             /\ s.model = (IF ok THEN k.arg ELSE Nothing) /\ s.told = r.told
             /\ \A x \in Sides : s.cache[x] = Nothing
  BY DEF LoadModelReturns, ClientStates, Maybe, Still, NoInfo

\* UploadModel() leaves its client with the model it has sent, and all else as it was.
LEMMA UploadFacts ==
  ASSUME NEW r \in ClientStates, NEW k, k.arg \in Models, r.state = "active"
  PROVE  LET s == UploadReturns(r, k)
         IN  /\ s \in ClientStates /\ Still(r, s) /\ s.lost = r.lost /\ s.state = "active"
             /\ s.model = k.arg /\ s.told = r.told /\ s.cache = r.cache
  BY DEF UploadReturns, ClientStates, Maybe, Still

\* An answer with tensor information changes what is cached for one side.
LEMMA InfoFacts ==
  ASSUME NEW r \in ClientStates, NEW x \in Sides, NEW i \in Maybe(Models), r.state = "active"
  PROVE  LET s == TensorInfoReturns(r, x, i)
         IN  /\ s \in ClientStates /\ Still(r, s) /\ s.lost = r.lost /\ s.state = "active"
             /\ s.model = r.model /\ s.told = r.told
             /\ \A y \in Sides : s.cache[y] = IF y = x THEN i ELSE r.cache[y]
  BY DEF TensorInfoReturns, ClientStates, Maybe, Still

\* The next nonce.
LEMMA NextNonceFacts ==
  ASSUME Typed, NEW r \in ClientStates
  PROVE  LET s == NextNonce(r)
         IN  /\ s \in ClientStates /\ s.nonce = IF secure THEN r.nonce + 1 ELSE r.nonce
             /\ s.state = r.state /\ s.token = r.token /\ s.id = r.id /\ s.lost = r.lost
             /\ s.told = r.told /\ s.model = r.model /\ s.cache = r.cache
  BY DEF Typed, TypeOK, NextNonce, ClientStates

\* The fields of clients and calls.
LEMMA Fields ==
  ASSUME Typed
  PROVE  /\ \A c \in Clients :
                /\ client[c] \in ClientStates
                /\ client[c].token \in Nat /\ client[c].id \in Nat /\ client[c].nonce \in Nat
                /\ client[c].lost \in BOOLEAN
                /\ client[c].state \in {"inactive", "exchange", "configure", "active"}
         /\ \A k \in calls :
                /\ k \in Calls /\ k.from \in Clients /\ k.token \in Nat /\ k.id \in Nat
                /\ k.nonce \in Nat /\ k.live \in BOOLEAN /\ k.op \in Ops /\ k.arg \in ArgOf(k.op)
                /\ k.step \in {"sent", "created", "admitted", "writing"}
         /\ \A i \in DOMAIN clientMap : clientMap[i] # Nothing =>
                clientMap[i] \in Gsts /\ clientMap[i].token \in Nat /\ clientMap[i].nonce \in Nat
         /\ exchanges \in Nat /\ sent \in Nat /\ nextPeerId \in Nat /\ restarts \in Nat
<1> USE DEF Typed, TypeOK
<1>1. \A c \in Clients : client[c] \in ClientStates
  OBVIOUS
<1>2. \A k \in calls : k \in Calls
  OBVIOUS
<1>3. \A i \in DOMAIN clientMap : clientMap[i] # Nothing => clientMap[i] \in Gsts
  BY DEF Maybe
<1>4. \A g \in Gsts : g.token \in Nat /\ g.nonce \in Nat
  BY DEF Gsts
<1>5. exchanges \in Nat /\ sent \in Nat /\ nextPeerId \in Nat /\ restarts \in Nat
  BY BoundsAssumption
<1>6. \A r \in ClientStates :
                /\ r.token \in Nat /\ r.id \in Nat /\ r.nonce \in Nat
                /\ r.lost \in BOOLEAN
                /\ r.state \in {"inactive", "exchange", "configure", "active"}
  BY DEF ClientStates
<1>7. \A k \in Calls : /\ k.from \in Clients /\ k.token \in Nat /\ k.id \in Nat
                /\ k.nonce \in Nat /\ k.live \in BOOLEAN /\ k.op \in Ops
                /\ k.step \in {"sent", "created", "admitted", "writing"}
  BY DEF Calls
<1> QED BY <1>1, <1>2, <1>3, <1>4, <1>5, <1>6, <1>7

----------------------------------------------------------------------------
(* The kinds of steps.                                                     *)

\* The sessions keep their tokens and nonces, and what is added is an empty entry
\* for the id of a call.
MapKeeps ==
    /\ DOMAIN clientMap \subseteq DOMAIN clientMap'
    /\ \A i \in DOMAIN clientMap :
           /\ clientMap[i] = Nothing <=> clientMap'[i] = Nothing
           /\ clientMap[i] # Nothing =>
                  /\ clientMap'[i].token = clientMap[i].token
                  /\ clientMap'[i].nonce = clientMap[i].nonce
    /\ \A i \in DOMAIN clientMap' \ DOMAIN clientMap :
           /\ clientMap'[i] = Nothing
           /\ server = "up"
           /\ \E k \in calls : ~IsExchange(k) /\ k.id = i

\* The call k goes on as j, perhaps without its client.
Aged(k, j) ==
    /\ j.from = k.from /\ j.token = k.token /\ j.op = k.op /\ j.arg = k.arg
    /\ j.id = k.id /\ j.nonce = k.nonce
    /\ j.live => k.live
    /\ \/ ~k.live \/ j.live \/ Gone(client'[k.from])
       \/ client'[k.from].lost /\ client[k.from].state = "active"
    /\ \/ j.step = k.step
       \/ /\ j.step = "writing"
          /\ Arrived(k, "UploadModel")

\* One call ends or goes on.
CallEnds(k) ==
    /\ calls' = calls \ {k}
    /\ (secure /\ k.live /\ k.step = "sent" /\ ~IsExchange(k)) =>
           ~Admits(k) \/ Gone(client'[k.from])

CallsAge ==
    \/ calls' = calls
    \/ \E k \in calls : CallEnds(k)
    \/ \E k \in calls, j \in Calls : Aged(k, j) /\ calls' = (calls \ {k}) \union {j}

\* Every client stays as it is in what matters here, or is destroyed with no call left.
ClientsStay ==
    \A c \in Clients :
        \/ Still(client[c], client'[c])
        \/ Gone(client'[c]) /\ \A k \in calls' : k.from = c => ~k.live

\* A step that makes no session, sends no call and moves no nonce on.
Quiet ==
    /\ UNCHANGED <<secure, nextPeerId, exchanges, sent, restarts, overlapped>>
    /\ \/ server' = server
       \/ server = "up" /\ server' = "aborted"
       \/ server = "up" /\ server' = "crashed" /\ restarts # 0
    /\ CallsAge
    /\ ClientsStay
    /\ MapKeeps

\* An active client has an answer to its call, if it waits for one, and sends another.
NewSent ==
    /\ UNCHANGED <<secure, server, nextPeerId, exchanges, restarts, overlapped>>
    /\ MapKeeps
    /\ \E c \in Clients, r \in ClientStates, op \in Ops, arg \in Maybe(Models \union Configs) :
           /\ op # "ExchangeKey"
           /\ client[c].state = "active"
           /\ Still(client[c], r) /\ r.state = "active" /\ r.lost = client[c].lost
           /\ client' = [client EXCEPT ![c] = NextNonce(r)]
           /\ \/ /\ ~Waiting(c)
                 /\ calls' = calls \union {NewCall(c, r, op, arg)}
                 /\ sent' = sent + 1
              \/ \E k \in calls :
                 /\ k.from = c /\ k.live
                 /\ op = "UploadModel"
                 /\ Arrived(k, "LoadModel")
                 /\ calls' = (calls \ {k}) \union {NewCall(c, r, op, arg)}
                 /\ sent' = sent

\* The server is deactivated.
Down ==
    /\ UNCHANGED <<secure, nextPeerId, exchanges, sent, restarts, overlapped>>
    /\ server' = "down"
    /\ DOMAIN clientMap' = {}
    /\ calls' = {}
    /\ ClientsStay

----------------------------------------------------------------------------
(* Each step is of one of these kinds, and the variables keep their types. *)

\* The types of what a step changes.
ClientsTyped == client \in [Clients -> ClientStates]
CallsTyped == calls \subseteq Calls /\ \A k \in calls : k.arg \in ArgOf(k.op)
MapTyped == DOMAIN clientMap \subseteq Nat /\ clientMap \in [DOMAIN clientMap -> Maybe(Gsts)]
RestTyped ==
    /\ secure \in BOOLEAN
    /\ server \in {"up", "down", "aborted", "crashed"}
    /\ nextPeerId \in Nat
    /\ files \subseteq Models
    /\ exchanges \in Nat
    /\ sent \in 0..MaxCalls
    /\ restarts \in Nat
    /\ overlapped \in BOOLEAN /\ overtaken \in BOOLEAN
    /\ trespass \in BOOLEAN

\* The types by parts.
LEMMA TypedParts == Typed <=> ClientsTyped /\ CallsTyped /\ MapTyped /\ RestTyped
  BY DEF Typed, TypeOK, ClientsTyped, CallsTyped, MapTyped, RestTyped

\* The types by parts, after a step.
LEMMA TypedPartsNext == Typed' <=> ClientsTyped' /\ CallsTyped' /\ MapTyped' /\ RestTyped'
  BY DEF Typed, TypeOK, ClientsTyped, CallsTyped, MapTyped, RestTyped

\* Steps of the clients alone.
LEMMA MapUnchanged ==
  ASSUME Typed, clientMap' = clientMap
  PROVE  MapKeeps /\ MapTyped'
  BY TypedParts DEF MapKeeps, MapTyped

\* Steps that leave the calls alone.
LEMMA CallsUnchanged ==
  ASSUME Typed, calls' = calls
  PROVE  CallsAge /\ CallsTyped'
  BY TypedParts DEF CallsAge, CallsTyped

\* A client record is a record that is still as it was.
LEMMA StillItself == \A r : Still(r, r)
  BY DEF Still

\* Steps that leave the clients alone.
LEMMA ClientsUnchanged ==
  ASSUME Typed, client' = client
  PROVE  ClientsStay /\ ClientsTyped'
<1>1. ClientsTyped'
  BY TypedParts DEF ClientsTyped
<1>2. \A c \in Clients : client'[c] = client[c]
  OBVIOUS
<1> QED BY <1>1, <1>2, StillItself DEF ClientsStay

\* A call leaves.
LEMMA CallsDone ==
  ASSUME Typed, NEW k \in calls, calls' = Done(k)
  PROVE  CallsTyped' /\ (CallEnds(k) => CallsAge)
  BY TypedParts DEF CallsAge, CallsTyped, Done

\* The answer of a call reaches the client that waits for it.
LEMMA Answered ==
  ASSUME Typed, OneLive, NEW k \in calls, NEW r, Return(k, r), calls' = Done(k),
         k.live => r \in ClientStates /\ (Still(client[k.from], r) \/ Gone(r))
  PROVE  ClientsStay /\ ClientsTyped' /\ (k.live => client'[k.from] = r)
<1>1. k.from \in Clients /\ client \in [Clients -> ClientStates]
  BY Fields, TypedParts DEF ClientsTyped
<1>2. client' \in [Clients -> ClientStates]
  BY <1>1 DEF Return
<1>3. \A c \in Clients : client'[c] = IF k.live /\ c = k.from THEN r ELSE client[c]
  BY <1>1 DEF Return
<1>4. ASSUME k.live PROVE \A j \in calls' : j.from = k.from => ~j.live
  BY <1>4 DEF OneLive, Done
<1>5. ASSUME NEW c \in Clients
      PROVE  \/ Still(client[c], client'[c])
             \/ Gone(client'[c]) /\ \A j \in calls' : j.from = c => ~j.live
  <2>1. CASE k.live /\ c = k.from
    BY <1>3, <1>4, <2>1
  <2>2. CASE ~(k.live /\ c = k.from)
    BY <1>3, <2>2, StillItself
  <2> QED BY <2>1, <2>2
<1> QED BY <1>1, <1>2, <1>3, <1>5 DEF ClientsStay, ClientsTyped

\* A session's content changes.
LEMMA Stored ==
  ASSUME Typed, NEW k \in calls, Known(k.id), NEW g \in Gsts, Store(k, g),
         g.token = clientMap[k.id].token, g.nonce = clientMap[k.id].nonce
  PROVE  MapKeeps /\ MapTyped' /\ clientMap'[k.id] = g
         /\ \A i \in DOMAIN clientMap : i # k.id => clientMap'[i] = clientMap[i]
<1>1. MapTyped /\ k.id \in DOMAIN clientMap /\ clientMap[k.id] # Nothing
  BY TypedParts DEF Known
<1>2. /\ DOMAIN clientMap' = DOMAIN clientMap /\ clientMap'[k.id] = g
      /\ \A i \in DOMAIN clientMap : i # k.id => clientMap'[i] = clientMap[i]
  BY <1>1 DEF Store, MapTyped
<1>3. g # Nothing
  BY NothingAssumption
<1>4. MapTyped'
  BY <1>1 DEF Store, MapTyped, Maybe
<1> QED BY <1>1, <1>2, <1>3, <1>4 DEF MapKeeps

\* The frame of a quiet step.
Framed ==
    /\ UNCHANGED <<secure, nextPeerId, exchanges, sent, restarts, overlapped>>
    /\ server' = server

\* A live call of a session.
LEMMA LiveCall ==
  ASSUME SessionInv, NEW k \in calls, k.live
  PROVE  /\ client[k.from] \in ClientStates /\ k \in Calls /\ k.arg \in ArgOf(k.op)
         /\ Current(k)
         /\ IF IsExchange(k) THEN client[k.from].state = "exchange"
            ELSE /\ Opened(k.from) /\ k.id = client[k.from].id
                 /\ k.op # "Configure" => client[k.from].state = "active"
  BY Fields DEF SessionInv, CallsOK, Opened

\* A step of one client without a call.
LEMMA OwnStep ==
  ASSUME SessionInv, NEW c \in Clients, NEW r \in ClientStates,
         client' = [client EXCEPT ![c] = r],
         Still(client[c], r) \/ (Gone(r) /\ ~Waiting(c)),
         UNCHANGED <<secure, serverVars, calls, exchanges, sent>>
  PROVE  Quiet /\ Typed'
<1> USE DEF serverVars
<1>1. Typed
  BY DEF SessionInv
<1>2. ClientsTyped /\ RestTyped
  BY <1>1, TypedParts
<1>3. ClientsTyped'
  BY <1>2 DEF ClientsTyped
<1>4. \A d \in Clients : client'[d] = IF d = c THEN r ELSE client[d]
  BY <1>2 DEF ClientsTyped
<1>5. ClientsStay
  <2>1. ~Waiting(c) => \A j \in calls' : j.from = c => ~j.live
    BY DEF Waiting
  <2> QED BY <1>4, <2>1, StillItself DEF ClientsStay
<1>6. CallsAge /\ CallsTyped' /\ MapKeeps /\ MapTyped'
  BY <1>1, CallsUnchanged, MapUnchanged
<1>7. RestTyped'
  BY <1>2 DEF RestTyped
<1> QED BY <1>3, <1>5, <1>6, <1>7, TypedPartsNext DEF Quiet

\* SetInfo(), ConfigureInput() before the activation and Deactivate().
LEMMA OwnSteps ==
  ASSUME SessionInv,
         \/ \E c \in Clients : SetInfo(c)
         \/ \E c \in Clients, conf \in Configs : ReserveConfigure(c, conf)
         \/ \E c \in Clients : Deactivate(c)
  PROVE  Quiet /\ Typed'
<1>1. \A c \in Clients : client[c] \in ClientStates
  BY Fields DEF SessionInv
<1>2. CASE \E c \in Clients : SetInfo(c)
  <2>1. PICK c \in Clients : SetInfo(c)
    BY <1>2
  <2> DEFINE r == [client[c] EXCEPT !.info = TRUE]
  <2>2. r \in ClientStates /\ Still(client[c], r)
    BY <1>1 DEF ClientStates, Still, Fresh
  <2>3. client' = [client EXCEPT ![c] = r] /\ UNCHANGED <<secure, serverVars, calls, exchanges, sent>>
    BY <2>1 DEF SetInfo
  <2> QED BY <2>2, <2>3, OwnStep
<1>3. CASE \E c \in Clients, conf \in Configs : ReserveConfigure(c, conf)
  <2>1. PICK c \in Clients, conf \in Configs : ReserveConfigure(c, conf)
    BY <1>3
  <2> DEFINE r == Reserved(client[c], conf)
  <2>2. r \in ClientStates /\ Still(client[c], r)
    BY <1>1 DEF ClientStates, Still, Fresh, Reserved, Maybe
  <2>3. client' = [client EXCEPT ![c] = r] /\ UNCHANGED <<secure, serverVars, calls, exchanges, sent>>
    BY <2>1 DEF ReserveConfigure
  <2> QED BY <2>2, <2>3, OwnStep
<1>4. CASE \E c \in Clients : Deactivate(c)
  <2>1. PICK c \in Clients : Deactivate(c)
    BY <1>4
  <2> DEFINE r == Destroyed(client[c])
  <2>2. r \in ClientStates /\ Gone(r) /\ ~Waiting(c)
    BY <1>1, <2>1, DestroyedFacts DEF Deactivate
  <2>3. client' = [client EXCEPT ![c] = r] /\ UNCHANGED <<secure, serverVars, calls, exchanges, sent>>
    BY <2>1 DEF Deactivate
  <2> QED BY <2>2, <2>3, OwnStep
<1> QED BY <1>2, <1>3, <1>4

\* A broken connection.
LEMMA LoseSteps ==
  ASSUME SessionInv, NEW k \in calls, Lose(k) \/ UploadCancelled(k)
  PROVE  Quiet /\ Typed'
<1> USE DEF serverVars
<1> DEFINE r == Failed(Broken(client[k.from]), k)
           j == [k EXCEPT !.live = FALSE]
<1>1. /\ k.live /\ client' = [client EXCEPT ![k.from] = r]
      /\ calls' = (calls \ {k}) \union {j}
      /\ UNCHANGED <<secure, serverVars, exchanges, sent>>
  BY DEF Lose, UploadCancelled, Done
<1>2. /\ Typed /\ OneLive /\ ClientsTyped /\ CallsTyped /\ RestTyped
      /\ k \in Calls /\ k.from \in Clients /\ client[k.from] \in ClientStates
  BY TypedParts, Fields DEF SessionInv
<1>3. /\ r \in ClientStates
      /\ \/ Still(client[k.from], r) /\ r.lost = TRUE /\ client[k.from].state = "active"
         \/ Gone(r)
  BY <1>2, BrokenFacts
<1>4. /\ j \in Calls /\ j.from = k.from /\ j.token = k.token /\ j.op = k.op /\ j.arg = k.arg
      /\ j.id = k.id /\ j.nonce = k.nonce /\ j.step = k.step /\ ~j.live
  BY <1>2 DEF Calls
<1> HIDE DEF r, j
<1>5. ClientsTyped'
  BY <1>1, <1>2, <1>3 DEF ClientsTyped
<1>6. \A d \in Clients : client'[d] = IF d = k.from THEN r ELSE client[d]
  BY <1>1, <1>2 DEF ClientsTyped
<1>7. ClientsStay
  <2>1. \A i \in calls' : i.from = k.from => ~i.live
    BY <1>1, <1>2, <1>4 DEF OneLive
  <2> QED BY <1>3, <1>6, <2>1, StillItself DEF ClientsStay
<1>8. CallsTyped'
  BY <1>1, <1>2, <1>4 DEF CallsTyped
<1>9. CallsAge
  <2>1. Aged(k, j)
    BY <1>2, <1>3, <1>4, <1>6 DEF Aged
  <2> QED BY <1>1, <1>4, <2>1 DEF CallsAge
<1>10. MapKeeps /\ MapTyped' /\ RestTyped'
  <2>1. RestTyped'
    BY <1>1, <1>2 DEF RestTyped
  <2> QED BY <1>1, <1>2, <2>1, MapUnchanged
<1> QED BY <1>1, <1>5, <1>7, <1>8, <1>9, <1>10, TypedPartsNext DEF Quiet

\* A call ends with an answer, or without one when its client does not wait.
LEMMA AnswerStep ==
  ASSUME SessionInv, NEW k \in calls, NEW r, Return(k, r), calls' = Done(k),
         k.live => r \in ClientStates /\ (Still(client[k.from], r) \/ Gone(r)),
         Framed, MapKeeps, MapTyped', RestTyped',
         (secure /\ k.live /\ k.step = "sent" /\ ~IsExchange(k)) => ~Admits(k) \/ Gone(client'[k.from])
  PROVE  Quiet /\ Typed'
<1>1. Typed /\ OneLive
  BY DEF SessionInv
<1>2. ClientsStay /\ ClientsTyped'
  BY <1>1, Answered
<1>3. CallsTyped' /\ CallsAge
  BY <1>1, CallsDone DEF CallEnds, Done
<1> QED BY <1>2, <1>3, TypedPartsNext DEF Quiet, Framed

\* A handler's lookup keeps the histories Boolean.
LEMMA BeginFacts ==
  ASSUME Typed, NEW k \in calls, NEW op, Begin(k, op)
  PROVE  /\ server = "up" /\ k.op = op /\ Known(k.id) /\ clientMap[k.id] \in Gsts
         /\ k.id \in DOMAIN clientMap /\ clientMap[k.id] # Nothing
         /\ overtaken' \in BOOLEAN /\ trespass' \in BOOLEAN
         /\ secure => k.step = "admitted"
         /\ ~secure => k.step = "sent"
<1>1. /\ overtaken' = (overtaken \/ \E j \in calls : j # k /\ j.id = k.id /\ j.step = "admitted")
      /\ trespass' = (trespass \/ clientMap[k.id].token # k.token)
  BY DEF Begin
<1>2. overtaken' \in BOOLEAN /\ trespass' \in BOOLEAN
  BY <1>1
<1> QED BY <1>2, Fields DEF Begin, Arrived, Known

\* A handler that answers.
LEMMA HandlerStep ==
  ASSUME SessionInv, NEW k \in calls, NEW op, op # "ExchangeKey", Begin(k, op), NEW r, Return(k, r),
         calls' = Done(k),
         k.live => r \in ClientStates /\ (Still(client[k.from], r) \/ Gone(r)),
         MapKeeps, MapTyped',
         UNCHANGED <<secure, server, nextPeerId, files, exchanges, sent, restarts, overlapped>>
  PROVE  Quiet /\ Typed'
<1>1. Typed /\ RestTyped
  BY TypedParts DEF SessionInv
<1>2. RestTyped' /\ (secure => k.step = "admitted")
  BY <1>1, BeginFacts DEF RestTyped
<1>3. Framed
  BY DEF Framed
<1> QED BY <1>2, <1>3, AnswerStep

\* A call is refused.
LEMMA RefuseFacts ==
  ASSUME Typed, NEW k \in calls
  PROVE  LET r == Failed(client[k.from], k)
         IN  r \in ClientStates /\ (Still(client[k.from], r) \/ Gone(r))
<1>1. client[k.from] \in ClientStates /\ k \in Calls
  BY Fields
<1> QED BY <1>1, FailedFacts

\* A refused ExchangeKey(): its client is destroyed.
LEMMA ExchangeRefusedStep ==
  ASSUME SessionInv, NEW k \in calls, ExchangeRefused(k)
  PROVE  Quiet /\ Typed'
<1> DEFINE r == Failed(client[k.from], k)
<1>1. Typed /\ RestTyped
  BY TypedParts DEF SessionInv
<1>2. /\ Return(k, r) /\ calls' = Done(k) /\ IsExchange(k)
      /\ UNCHANGED <<secure, serverVars, exchanges, sent>>
  BY DEF ExchangeRefused, Refuse, IsExchange
<1>3. r \in ClientStates /\ (Still(client[k.from], r) \/ Gone(r))
  BY <1>1, RefuseFacts
<1> HIDE DEF r
<1>4. Framed /\ RestTyped' /\ MapKeeps /\ MapTyped'
  BY <1>1, <1>2, MapUnchanged DEF Framed, RestTyped, serverVars
<1> QED BY <1>2, <1>3, <1>4, AnswerStep

\* A call refused by Auth::Process(): an unknown id leaves an empty entry.
LEMMA AuthRefusesStep ==
  ASSUME SessionInv, NEW k \in calls, AuthRefuses(k)
  PROVE  Quiet /\ Typed'
<1> DEFINE r == Failed(client[k.from], k)
<1>1. Typed /\ RestTyped /\ MapTyped /\ k.id \in Nat
  BY TypedParts, Fields DEF SessionInv
<1>2. /\ Return(k, r) /\ calls' = Done(k) /\ ~IsExchange(k) /\ ~Admits(k) /\ server = "up"
      /\ clientMap' = [i \in DOMAIN clientMap \union {k.id} |->
                          IF i \in DOMAIN clientMap THEN clientMap[i] ELSE Nothing]
      /\ UNCHANGED <<secure, server, nextPeerId, files, exchanges, sent, restarts,
                     overlapped, overtaken, trespass>>
  BY DEF AuthRefuses, Refuse, IsExchange
<1>3. r \in ClientStates /\ (Still(client[k.from], r) \/ Gone(r))
  BY <1>1, RefuseFacts
<1> HIDE DEF r
<1>4. MapKeeps
  BY <1>2 DEF MapKeeps
<1>5. MapTyped'
  BY <1>1, <1>2 DEF MapTyped, Maybe
<1>6. Framed /\ RestTyped'
  BY <1>1, <1>2 DEF Framed, RestTyped
<1> QED BY <1>2, <1>3, <1>4, <1>5, <1>6, AnswerStep

\* The process ends by a missing session only after a restart.
LEMMA UseMissingSessionStep ==
  ASSUME SessionInv, NEW k \in calls, UseMissingSession(k)
  PROVE  Quiet /\ Typed'
<1>1. Typed /\ RestTyped /\ IdsKnown
  BY TypedParts DEF SessionInv
<1>2. /\ server = "up" /\ ~Known(k.id) /\ ~IsExchange(k) /\ server' = "crashed"
      /\ UNCHANGED <<secure, nextPeerId, clientMap, files, client, calls, exchanges, sent,
                     restarts, overlapped, overtaken, trespass>>
  BY DEF UseMissingSession, IsExchange
<1>3. restarts # 0
  BY <1>1, <1>2 DEF IdsKnown, IsOf
<1>4. RestTyped'
  BY <1>1, <1>2 DEF RestTyped
<1> QED BY <1>1, <1>2, <1>3, <1>4, CallsUnchanged, ClientsUnchanged, MapUnchanged, TypedPartsNext
        DEF Quiet

\* The contents a session can get.
LEMMA GstFacts ==
  ASSUME NEW g \in Gsts
  PROVE  /\ \A conf \in Configs :
                LET h == Configured(g, conf)
                IN  /\ h \in Gsts /\ h.token = g.token /\ h.nonce = g.nonce
                    /\ h.conf = conf /\ h.path = g.path /\ h.info = g.info
         /\ \A m \in Models :
                LET h == SetModelPath(g, m)
                IN  /\ h \in Gsts /\ h.token = g.token /\ h.nonce = g.nonce
                    /\ h.conf = g.conf /\ h.path = m /\ h.info = g.info
         /\ \A s \in Sides, m \in Models :
                LET h == SetInfoOf(g, s, m)
                IN  /\ h \in Gsts /\ h.token = g.token /\ h.nonce = g.nonce
                    /\ h.conf = g.conf /\ h.path = g.path
                    /\ \A x \in Sides : h.info[x] = IF x = s THEN m ELSE g.info[x]
<1>1. ASSUME NEW conf \in Configs
      PROVE  LET h == Configured(g, conf)
             IN  /\ h \in Gsts /\ h.token = g.token /\ h.nonce = g.nonce
                 /\ h.conf = conf /\ h.path = g.path /\ h.info = g.info
  BY DEF Configured, Gsts, Maybe
<1>2. ASSUME NEW m \in Models
      PROVE  LET h == SetModelPath(g, m)
             IN  /\ h \in Gsts /\ h.token = g.token /\ h.nonce = g.nonce
                 /\ h.conf = g.conf /\ h.path = m /\ h.info = g.info
  BY DEF SetModelPath, Gsts, Maybe
<1>3. ASSUME NEW s \in Sides, NEW m \in Models
      PROVE  LET h == SetInfoOf(g, s, m)
             IN  /\ h \in Gsts /\ h.token = g.token /\ h.nonce = g.nonce
                 /\ h.conf = g.conf /\ h.path = g.path
                 /\ \A x \in Sides : h.info[x] = IF x = s THEN m ELSE g.info[x]
  BY DEF SetInfoOf, Gsts, Maybe
<1> QED BY <1>1, <1>2, <1>3

\* Prepare() leaves the information a session has been given.
LEMMA PrepareFacts ==
  ASSUME NEW g \in Gsts, NEW o \in PrepareOutcomes(g)
  PROVE  LET h == o.gst
         IN  /\ h \in Gsts /\ h.token = g.token /\ h.nonce = g.nonce
             /\ h.conf = g.conf /\ h.path = g.path
             /\ \A x \in Sides : g.info[x] # Nothing => h.info[x] = g.info[x]
<1>1. \/ o = [ok |-> FALSE, gst |-> g]
      \/ \E info \in [Sides -> Maybe(Models)] :
            /\ o = [ok |-> TRUE, gst |-> [g EXCEPT !.info = info]]
            /\ \A s \in Sides : info[s] \in InfoOutcomes(g, s)
  BY DEF PrepareOutcomes, PipelineOutcomes
<1>2. CASE o = [ok |-> FALSE, gst |-> g]
  BY <1>2
<1>3. CASE \E info \in [Sides -> Maybe(Models)] :
              /\ o = [ok |-> TRUE, gst |-> [g EXCEPT !.info = info]]
              /\ \A s \in Sides : info[s] \in InfoOutcomes(g, s)
  <2>1. PICK info \in [Sides -> Maybe(Models)] :
              /\ o = [ok |-> TRUE, gst |-> [g EXCEPT !.info = info]]
              /\ \A s \in Sides : info[s] \in InfoOutcomes(g, s)
    BY <1>3
  <2>2. o.gst = [g EXCEPT !.info = info]
    BY <2>1
  <2>3. \A s \in Sides : g.info[s] # Nothing => info[s] = g.info[s]
    BY <2>1 DEF InfoOutcomes
  <2> QED BY <2>2, <2>3 DEF Gsts
<1> QED BY <1>1, <1>2, <1>3

\* Configure() changes its session's configuration.
LEMMA HandleConfigureStep ==
  ASSUME SessionInv, NEW k \in calls, HandleConfigure(k)
  PROVE  Quiet /\ Typed'
<1> DEFINE r == ConfigureReturns(client[k.from], k)
           g == Configured(clientMap[k.id], k.arg)
<1>1. Typed
  BY DEF SessionInv
<1>2. /\ Begin(k, "Configure") /\ Store(k, g) /\ Return(k, r) /\ calls' = Done(k)
      /\ UNCHANGED <<secure, server, nextPeerId, files, exchanges, sent, restarts, overlapped>>
  BY DEF HandleConfigure
<1>3. clientMap[k.id] \in Gsts /\ k.arg \in Configs /\ Known(k.id) /\ k.op = "Configure"
  BY <1>1, <1>2, BeginFacts, Fields DEF ArgOf
<1>4. g \in Gsts /\ g.token = clientMap[k.id].token /\ g.nonce = clientMap[k.id].nonce
  BY <1>3, GstFacts
<1>5. MapKeeps /\ MapTyped'
  <2> HIDE DEF g
  <2> QED BY <1>1, <1>2, <1>3, <1>4, Stored
<1>6. k.live => r \in ClientStates /\ Still(client[k.from], r)
  BY <1>3, LiveCall, ConfigureFacts DEF Opened, IsExchange
<1> HIDE DEF r, g
<1> QED BY <1>2, <1>5, <1>6, HandlerStep

\* LoadModel() ends with an answer or goes on with an upload.
LEMMA HandleLoadModelStep ==
  ASSUME SessionInv, NEW k \in calls, HandleLoadModel(k)
  PROVE  (Quiet \/ NewSent) /\ Typed'
<1> DEFINE found == k.arg \in files
           r == LoadModelReturns(client[k.from], found, k)
           g == SetModelPath(clientMap[k.id], k.arg)
<1>1. Typed /\ RestTyped /\ ClientsTyped /\ CallsTyped
  BY TypedParts DEF SessionInv
<1>2. /\ Begin(k, "LoadModel") /\ Store(k, g)
      /\ IF k.live /\ ~found
         THEN /\ client' = [client EXCEPT ![k.from] = NextNonce(r)]
              /\ calls' = Done(k) \union {NewCall(k.from, r, "UploadModel", k.arg)}
         ELSE Return(k, r) /\ calls' = Done(k)
      /\ UNCHANGED <<secure, server, nextPeerId, files, exchanges, sent, restarts, overlapped>>
  BY DEF HandleLoadModel
<1>3. /\ clientMap[k.id] \in Gsts /\ k.arg \in Models /\ Known(k.id) /\ k.op = "LoadModel"
      /\ k.from \in Clients /\ overtaken' \in BOOLEAN /\ trespass' \in BOOLEAN
      /\ Arrived(k, "LoadModel")
  BY <1>1, <1>2, BeginFacts, Fields DEF ArgOf, Begin
<1>4. g \in Gsts /\ g.token = clientMap[k.id].token /\ g.nonce = clientMap[k.id].nonce
  BY <1>3, GstFacts
<1>5. MapKeeps /\ MapTyped'
  <2> HIDE DEF g
  <2> QED BY <1>1, <1>2, <1>3, <1>4, Stored
<1>6. k.live => /\ r \in ClientStates /\ Still(client[k.from], r) /\ client[k.from].state = "active"
                /\ r.state = "active" /\ r.lost = client[k.from].lost
  BY <1>3, LiveCall, LoadModelFacts DEF Opened, IsExchange
<1> HIDE DEF r, g
<1>7. CASE ~(k.live /\ ~found)
  BY <1>2, <1>5, <1>6, <1>7, HandlerStep
<1>8. CASE k.live /\ ~found
  <2>1. NewSent
    <3>1. "UploadModel" \in Ops /\ k.arg \in Maybe(Models \union Configs)
      BY <1>3 DEF Ops, Maybe
    <3> QED BY <1>2, <1>3, <1>5, <1>6, <1>8, <3>1 DEF NewSent, Done
  <2>2. NextNonce(r) \in ClientStates
    BY <1>1, <1>6, <1>8, NextNonceFacts
  <2>3. ClientsTyped'
    BY <1>1, <1>2, <1>3, <1>8, <2>2 DEF ClientsTyped
  <2>4. NewCall(k.from, r, "UploadModel", k.arg) \in Calls
    BY <1>3, <1>6, <1>8 DEF NewCall, Calls, ClientStates, Ops, Maybe
  <2>5. /\ NewCall(k.from, r, "UploadModel", k.arg).arg = k.arg
        /\ NewCall(k.from, r, "UploadModel", k.arg).op = "UploadModel"
    BY DEF NewCall
  <2>6. k.arg \in ArgOf("UploadModel")
    BY <1>3 DEF ArgOf
  <2>7. CallsTyped'
    BY <1>1, <1>2, <1>8, <2>4, <2>5, <2>6 DEF CallsTyped, Done
  <2>8. RestTyped'
    BY <1>1, <1>2, <1>3 DEF RestTyped
  <2> QED BY <1>5, <2>1, <2>3, <2>7, <2>8, TypedPartsNext
<1> QED BY <1>7, <1>8

\* A handler that leaves the sessions alone.
LEMMA ReadingHandlerStep ==
  ASSUME SessionInv, NEW k \in calls, NEW op, op # "ExchangeKey", Begin(k, op), NEW r, Return(k, r),
         calls' = Done(k),
         k.live => r \in ClientStates /\ (Still(client[k.from], r) \/ Gone(r)),
         UNCHANGED <<secure, server, nextPeerId, clientMap, files, exchanges, sent, restarts, overlapped>>
  PROVE  Quiet /\ Typed'
<1>1. Typed
  BY DEF SessionInv
<1>2. MapKeeps /\ MapTyped'
  BY <1>1, MapUnchanged
<1> QED BY <1>2, HandlerStep

\* A call in a session's upload.
LEMMA UploadOpenStep ==
  ASSUME SessionInv, NEW k \in calls, UploadOpen(k)
  PROVE  Quiet /\ Typed'
<1> DEFINE r == Failed(client[k.from], k)
           j == [k EXCEPT !.step = "writing"]
           path == clientMap[k.id].path
<1>1. Typed /\ RestTyped /\ CallsTyped
  BY TypedParts DEF SessionInv
<1>2. /\ Begin(k, "UploadModel")
      /\ IF path = Nothing
         THEN Return(k, r) /\ calls' = Done(k) /\ UNCHANGED files
         ELSE /\ files' = files \union {path}
              /\ calls' = (calls \ {k}) \union {j}
              /\ UNCHANGED client
      /\ UNCHANGED <<secure, server, nextPeerId, clientMap, exchanges, sent, restarts, overlapped>>
  BY DEF UploadOpen, Refuse, Done
<1>3. /\ clientMap[k.id] \in Gsts /\ k.op = "UploadModel" /\ Arrived(k, "UploadModel")
      /\ overtaken' \in BOOLEAN /\ trespass' \in BOOLEAN /\ k \in Calls /\ k.arg \in ArgOf(k.op)
  BY <1>1, <1>2, BeginFacts, Fields DEF Begin
<1>4. r \in ClientStates /\ (Still(client[k.from], r) \/ Gone(r))
  BY <1>1, RefuseFacts
<1>5. /\ j \in Calls /\ j.from = k.from /\ j.token = k.token /\ j.op = k.op /\ j.arg = k.arg
      /\ j.id = k.id /\ j.nonce = k.nonce /\ j.step = "writing" /\ j.live = k.live
  BY <1>3 DEF Calls
<1>6. path \in Maybe(Models)
  BY <1>3 DEF Gsts
<1> HIDE DEF r, j
<1>7. CASE path = Nothing
  BY <1>2, <1>4, <1>7, ReadingHandlerStep
<1>8. CASE path # Nothing
  <2>1. path \in Models
    BY <1>6, <1>8 DEF Maybe
  <2>2. RestTyped'
    BY <1>1, <1>2, <1>3, <1>8, <2>1 DEF RestTyped
  <2>3. CallsTyped'
    BY <1>1, <1>2, <1>3, <1>5, <1>8 DEF CallsTyped
  <2>4. Aged(k, j)
    BY <1>3, <1>5 DEF Aged
  <2>5. CallsAge
    BY <1>2, <1>5, <1>8, <2>4 DEF CallsAge
  <2> QED BY <1>1, <1>2, <1>8, <2>2, <2>3, <2>5, ClientsUnchanged, MapUnchanged, TypedPartsNext
          DEF Quiet
<1> QED BY <1>7, <1>8

\* An upload whose file cannot be opened only answers.
LEMMA UploadNotOpenedStep ==
  ASSUME SessionInv, NEW k \in calls, UploadNotOpened(k)
  PROVE  Quiet /\ Typed'
<1> DEFINE r == UploadReturns(client[k.from], k)
<1>1. Typed
  BY DEF SessionInv
<1>2. /\ Begin(k, "UploadModel") /\ Return(k, r) /\ calls' = Done(k)
      /\ UNCHANGED <<secure, server, nextPeerId, clientMap, files, exchanges, sent, restarts,
                     overlapped>>
  BY DEF UploadNotOpened
<1>3. k.arg \in Models /\ k.op = "UploadModel"
  BY <1>1, <1>2, BeginFacts, Fields DEF ArgOf
<1>4. k.live => r \in ClientStates /\ Still(client[k.from], r)
  BY <1>3, LiveCall, UploadFacts DEF IsExchange
<1> HIDE DEF r
<1> QED BY <1>2, <1>4, ReadingHandlerStep

\* The end of an upload only answers.
LEMMA UploadCloseStep ==
  ASSUME SessionInv, NEW k \in calls, UploadClose(k)
  PROVE  Quiet /\ Typed'
<1> DEFINE r == UploadReturns(client[k.from], k)
<1>1. Typed /\ RestTyped
  BY TypedParts DEF SessionInv
<1>2. /\ k.step = "writing" /\ Return(k, r) /\ calls' = Done(k)
      /\ UNCHANGED <<secure, server, nextPeerId, clientMap, files, exchanges, sent, restarts,
                     overlapped, overtaken, trespass>>
  BY DEF UploadClose
<1>3. k.op = "UploadModel"
  BY <1>2 DEF SessionInv, StepsOK
<1>4. k.arg \in Models
  BY <1>1, <1>3, Fields DEF ArgOf
<1>5. k.live => r \in ClientStates /\ Still(client[k.from], r)
  BY <1>3, <1>4, LiveCall, UploadFacts DEF IsExchange
<1> HIDE DEF r
<1>6. Framed /\ RestTyped' /\ MapKeeps /\ MapTyped'
  BY <1>1, <1>2, MapUnchanged DEF Framed, RestTyped
<1> QED BY <1>2, <1>5, <1>6, AnswerStep

\* The assertion of GetInput-/OutputTensorInfo() ends the process.
LEMMA AnswerInfoStep ==
  ASSUME SessionInv, NEW k \in calls, NEW op, NEW s \in Sides, Begin(k, op), AnswerInfo(k, s),
         op \notin {"ExchangeKey", "Configure"}
  PROVE  Quiet /\ Typed'
<1> DEFINE i == clientMap[k.id].info[s]
           r == TensorInfoReturns(client[k.from], s, i)
<1>1. Typed /\ RestTyped
  BY TypedParts DEF SessionInv
<1>2. /\ clientMap[k.id] \in Gsts /\ k.op = op /\ server = "up"
      /\ overtaken' \in BOOLEAN /\ trespass' \in BOOLEAN
  BY <1>1, BeginFacts
<1>3. i \in Maybe(Models)
  BY <1>2 DEF Gsts
<1>4. /\ UNCHANGED <<secure, nextPeerId, clientMap, files, exchanges, sent, restarts, overlapped>>
      /\ IF i = Nothing
         THEN server' = "aborted" /\ client' = client /\ calls' = calls
         ELSE Return(k, r) /\ calls' = Done(k) /\ server' = server
  BY DEF AnswerInfo
<1>5. k.live => r \in ClientStates /\ Still(client[k.from], r)
  BY <1>2, <1>3, LiveCall, InfoFacts DEF IsExchange
<1> HIDE DEF r, i
<1>6. CASE i = Nothing
  <2>1. RestTyped'
    BY <1>1, <1>2, <1>4, <1>6 DEF RestTyped
  <2> QED BY <1>1, <1>2, <1>4, <1>6, <2>1, CallsUnchanged, ClientsUnchanged, MapUnchanged,
             TypedPartsNext DEF Quiet
<1>7. CASE i # Nothing
  BY <1>4, <1>5, <1>7, ReadingHandlerStep
<1> QED BY <1>6, <1>7

\* SetInput-/OutputTensorInfo() changes its session's information.
LEMMA TakeInfoStep ==
  ASSUME SessionInv, NEW k \in calls, NEW op, NEW s \in Sides, Begin(k, op), TakeInfo(k, s),
         op \in {"SetInputTensorInfo", "SetOutputTensorInfo"}
  PROVE  Quiet /\ Typed'
<1> DEFINE r == SetTensorInfoReturns(client[k.from], s, k)
           g == SetInfoOf(clientMap[k.id], s, k.arg)
<1>1. Typed
  BY DEF SessionInv
<1>2. /\ Store(k, g) /\ Return(k, r) /\ calls' = Done(k)
      /\ UNCHANGED <<secure, server, nextPeerId, files, exchanges, sent, restarts, overlapped>>
  BY DEF TakeInfo
<1>3. /\ clientMap[k.id] \in Gsts /\ k.arg \in Models /\ Known(k.id) /\ k.op = op
      /\ k.arg \in Maybe(Models)
  BY <1>1, BeginFacts, Fields DEF ArgOf, Maybe
<1>4. g \in Gsts /\ g.token = clientMap[k.id].token /\ g.nonce = clientMap[k.id].nonce
  BY <1>3, GstFacts
<1>5. MapKeeps /\ MapTyped'
  <2> HIDE DEF g
  <2> QED BY <1>1, <1>2, <1>3, <1>4, Stored
<1>6. r = TensorInfoReturns(client[k.from], s, k.arg)
  BY DEF SetTensorInfoReturns, TensorInfoReturns
<1>7. k.live => r \in ClientStates /\ Still(client[k.from], r)
  BY <1>3, <1>6, LiveCall, InfoFacts DEF IsExchange
<1> HIDE DEF r, g
<1> QED BY <1>2, <1>5, <1>7, HandlerStep

\* Prepare() may complete its session's information, or fails.
LEMMA HandlePrepareStep ==
  ASSUME SessionInv, NEW k \in calls, HandlePrepare(k)
  PROVE  Quiet /\ Typed'
<1>1. Typed
  BY DEF SessionInv
<1>2. PICK o \in PrepareOutcomes(clientMap[k.id]) :
          /\ Store(k, o.gst)
          /\ Return(k, IF o.ok THEN client[k.from] ELSE Failed(client[k.from], k))
  BY DEF HandlePrepare
<1> DEFINE r == IF o.ok THEN client[k.from] ELSE Failed(client[k.from], k)
<1>3. /\ Begin(k, "Prepare") /\ calls' = Done(k)
      /\ UNCHANGED <<secure, server, nextPeerId, files, exchanges, sent, restarts, overlapped>>
  BY DEF HandlePrepare
<1>4. clientMap[k.id] \in Gsts /\ Known(k.id) /\ client[k.from] \in ClientStates
  BY <1>1, <1>3, BeginFacts, Fields
<1>5. /\ o.gst \in Gsts /\ o.gst.token = clientMap[k.id].token
      /\ o.gst.nonce = clientMap[k.id].nonce
  BY <1>4, PrepareFacts
<1>6. MapKeeps /\ MapTyped'
  BY <1>1, <1>2, <1>4, <1>5, Stored
<1>7. r \in ClientStates /\ (Still(client[k.from], r) \/ Gone(r))
  BY <1>1, <1>4, RefuseFacts, StillItself
<1>8. Return(k, r)
  BY <1>2
<1> HIDE DEF r
<1> QED BY <1>3, <1>6, <1>7, <1>8, HandlerStep

\* A client that is only told that its call is done.
LEMMA ReturnNothing ==
  ASSUME Typed, NEW k \in calls, client' = client
  PROVE  Return(k, client[k.from])
<1>1. client = [client EXCEPT ![k.from] = client[k.from]]
  BY TypedParts DEF ClientsTyped
<1> QED BY <1>1 DEF Return

\* Stop() and GetInfo() only answer.
LEMMA StopAndInfoSteps ==
  ASSUME SessionInv, NEW k \in calls, HandleStop(k) \/ HandleGetInfo(k)
  PROVE  Quiet /\ Typed'
<1>1. Typed /\ RestTyped /\ client[k.from] \in ClientStates
  BY TypedParts, Fields DEF SessionInv
<1>2. CASE HandleStop(k)
  <2>1. /\ Begin(k, "Stop") /\ calls' = Done(k) /\ client' = client
        /\ UNCHANGED <<secure, server, nextPeerId, clientMap, files, exchanges, sent,
                       restarts, overlapped>>
    BY <1>2 DEF HandleStop
  <2> QED BY <1>1, <2>1, ReturnNothing, ReadingHandlerStep, StillItself
<1>3. CASE HandleGetInfo(k)
  <2>1. /\ Arrived(k, "GetInfo") /\ calls' = Done(k) /\ client' = client
        /\ UNCHANGED <<secure, serverVars, exchanges, sent>>
    BY <1>3 DEF HandleGetInfo
  <2>2. secure => k.step # "sent"
    BY <2>1 DEF Arrived
  <2>3. Framed /\ RestTyped' /\ MapKeeps /\ MapTyped'
    BY <1>1, <2>1, MapUnchanged DEF Framed, RestTyped, serverVars
  <2> QED BY <1>1, <2>1, <2>2, <2>3, ReturnNothing, AnswerStep, StillItself
<1> QED BY <1>2, <1>3

\* The server ends its connections, or its process by an empty entry, which needs a
\* restart.
LEMMA ServerDeactivateStep ==
  ASSUME SessionInv, ServerDeactivate
  PROVE  (Quiet \/ Down) /\ Typed'
<1>1. Typed /\ RestTyped /\ MapTyped /\ ClientsTyped
  BY TypedParts DEF SessionInv
<1>2. /\ server = "up"
      /\ UNCHANGED <<secure, nextPeerId, files, exchanges, sent, restarts, overlapped, overtaken,
                     trespass>>
  BY DEF ServerDeactivate
<1>3. CASE Nothing \in Range(clientMap)
  <2>1. server' = "crashed" /\ clientMap' = clientMap /\ client' = client /\ calls' = calls
    BY <1>3 DEF ServerDeactivate
  <2>2. restarts # 0
    BY <1>2, <1>3 DEF SessionInv, IdsKnown, Range
  <2>3. RestTyped'
    BY <1>1, <1>2, <2>1 DEF RestTyped
  <2> QED BY <1>1, <1>2, <2>1, <2>2, <2>3, CallsUnchanged, ClientsUnchanged, MapUnchanged,
             TypedPartsNext DEF Quiet
<1>4. CASE Nothing \notin Range(clientMap)
  <2> DEFINE K(c) == CHOOSE k \in calls : k.from = c /\ k.live
             r(c) == IF Waiting(c) THEN Failed(Broken(client[c]), K(c)) ELSE client[c]
  <2>1. server' = "down" /\ clientMap' = <<>> /\ calls' = {} /\ client' = [c \in Clients |-> r(c)]
    BY <1>4 DEF ServerDeactivate
  <2>2. ASSUME NEW c \in Clients
        PROVE  r(c) \in ClientStates /\ (Still(client[c], r(c)) \/ Gone(r(c)))
    <3>1. client[c] \in ClientStates
      BY <1>1, Fields
    <3>2. CASE Waiting(c)
      <4>1. K(c) \in calls
        BY <3>2 DEF Waiting
      <4>2. K(c) \in Calls
        BY <1>1, <4>1, Fields
      <4> HIDE DEF K
      <4>3. r(c) = Failed(Broken(client[c]), K(c))
        BY <3>2
      <4> QED BY <3>1, <4>2, <4>3, BrokenFacts
    <3>3. CASE ~Waiting(c)
      BY <3>1, <3>3, StillItself
    <3> QED BY <3>2, <3>3
  <2> HIDE DEF r
  <2>3. ClientsTyped' /\ ClientsStay
    BY <2>1, <2>2 DEF ClientsTyped, ClientsStay
  <2>4. DOMAIN clientMap' = {}
    BY <2>1
  <2>5. MapTyped' /\ CallsTyped'
    BY <2>1, <2>4 DEF MapTyped, CallsTyped
  <2>6. RestTyped'
    BY <1>1, <1>2, <2>1 DEF RestTyped
  <2> QED BY <1>2, <2>1, <2>3, <2>4, <2>5, <2>6, TypedPartsNext DEF Down
<1> QED BY <1>3, <1>4

\* Nonces start at a natural number.
LEMMA RandomNat == \A token \in Nat : GetRandom(token) \in Nat
<1> SUFFICES ASSUME NEW token \in Nat PROVE GetRandom(token) \in Nat
  OBVIOUS
<1>1. 2 * MaxCalls + 2 \in Nat
  BY BoundsAssumption
<1>2. \A x, y \in Nat : x * y \in Nat
  OBVIOUS
<1> QED BY <1>1, <1>2 DEF GetRandom

\* What is sent is what the call carries.
LEMMA ArgsAreValues == \A op \in Ops : ArgOf(op) \subseteq Maybe(Models \union Configs)
  BY DEF ArgOf, Ops, Maybe

\* An active client sends a call.
LEMMA SendStep ==
  ASSUME SessionInv, NEW c \in Clients, NEW op \in Ops, NEW arg \in ArgOf(op), op # "ExchangeKey",
         Send(c, op, arg)
  PROVE  NewSent /\ Typed'
<1> USE DEF serverVars
<1>1. Typed /\ RestTyped /\ ClientsTyped /\ CallsTyped /\ client[c] \in ClientStates
  BY TypedParts, Fields DEF SessionInv
<1>2. /\ client[c].state = "active" /\ ~Waiting(c) /\ sent < MaxCalls /\ sent' = sent + 1
      /\ calls' = calls \union {NewCall(c, client[c], op, arg)}
      /\ client' = [client EXCEPT ![c] = NextNonce(client[c])]
      /\ UNCHANGED <<secure, serverVars, exchanges>>
  BY DEF Send
<1>3. MapKeeps /\ MapTyped'
  BY <1>1, <1>2, MapUnchanged
<1>4. NextNonce(client[c]) \in ClientStates
  BY <1>1, NextNonceFacts
<1>5. ClientsTyped'
  BY <1>1, <1>2, <1>4 DEF ClientsTyped
<1>6. arg \in Maybe(Models \union Configs)
  BY ArgsAreValues
<1> DEFINE j == NewCall(c, client[c], op, arg)
<1>7. j \in Calls /\ j.op = op /\ j.arg = arg
  BY <1>1, <1>6 DEF NewCall, Calls, ClientStates
<1>8. CallsTyped'
  <2>1. j.arg \in ArgOf(j.op) /\ calls' = calls \union {j}
    BY <1>2, <1>7
  <2> HIDE DEF j
  <2> QED BY <1>1, <1>7, <2>1 DEF CallsTyped
<1>9. RestTyped'
  <2>1. sent' \in 0..MaxCalls
    BY <1>1, <1>2, BoundsAssumption DEF RestTyped
  <2> QED BY <1>1, <1>2, <2>1 DEF RestTyped
<1>10. NewSent
  BY <1>1, <1>2, <1>3, <1>6, StillItself DEF NewSent
<1> QED BY <1>3, <1>5, <1>8, <1>9, <1>10, TypedPartsNext

\* The calls of an active client.
LEMMA SendSteps ==
  ASSUME SessionInv,
         \/ \E c \in Clients, conf \in Configs : Configure(c, conf)
         \/ \E c \in Clients, m \in Models : LoadModel(c, m)
         \/ \E c \in Clients : GetInputTensorInfo(c)
         \/ \E c \in Clients : GetOutputTensorInfo(c)
         \/ \E c \in Clients, m \in Models : SetInputTensorInfo(c, m)
         \/ \E c \in Clients, m \in Models : SetOutputTensorInfo(c, m)
         \/ \E c \in Clients : Prepare(c)
         \/ \E c \in Clients : Stop(c)
         \/ \E c \in Clients : GetInfo(c)
  PROVE  NewSent /\ Typed'
<1>1. \E c \in Clients, op \in Ops : op # "ExchangeKey" /\ \E arg \in ArgOf(op) : Send(c, op, arg)
  <2>1. CASE \E c \in Clients, conf \in Configs : Configure(c, conf)
    <3>1. ArgOf("Configure") = Configs /\ "Configure" \in Ops
      BY DEF ArgOf, Ops
    <3> QED BY <2>1, <3>1 DEF Configure
  <2>2. CASE \E c \in Clients, m \in Models : LoadModel(c, m)
    <3>1. ArgOf("LoadModel") = Models /\ "LoadModel" \in Ops
      BY DEF ArgOf, Ops
    <3> QED BY <2>2, <3>1 DEF LoadModel
  <2>3. CASE \E c \in Clients, m \in Models : SetInputTensorInfo(c, m)
    <3>1. ArgOf("SetInputTensorInfo") = Models /\ "SetInputTensorInfo" \in Ops
      BY DEF ArgOf, Ops
    <3> QED BY <2>3, <3>1 DEF SetInputTensorInfo
  <2>4. CASE \E c \in Clients, m \in Models : SetOutputTensorInfo(c, m)
    <3>1. ArgOf("SetOutputTensorInfo") = Models /\ "SetOutputTensorInfo" \in Ops
      BY DEF ArgOf, Ops
    <3> QED BY <2>4, <3>1 DEF SetOutputTensorInfo
  <2>5. CASE \E c \in Clients : \/ GetInputTensorInfo(c) \/ GetOutputTensorInfo(c)
                                \/ Prepare(c) \/ Stop(c) \/ GetInfo(c)
    <3>1. \A op \in {"GetInputTensorInfo", "GetOutputTensorInfo", "Prepare", "Stop", "GetInfo"} :
              Nothing \in ArgOf(op) /\ op \in Ops
      BY DEF ArgOf, Ops, Maybe
    <3>2. \E c \in Clients, op \in {"GetInputTensorInfo", "GetOutputTensorInfo", "Prepare", "Stop",
                                    "GetInfo"} : Send(c, op, Nothing)
      BY <2>5 DEF GetInputTensorInfo, GetOutputTensorInfo, Prepare, Stop, GetInfo
    <3> QED BY <3>1, <3>2
  <2> QED BY <2>1, <2>2, <2>3, <2>4, <2>5
<1> QED BY <1>1, SendStep

\* A client that starts its activation.
LEMMA ConnectedFacts ==
  ASSUME NEW r \in ClientStates, NEW token \in Nat
  PROVE  LET s == Connected(r, token)
         IN  /\ s \in ClientStates /\ s.state = "exchange" /\ s.token = token /\ s.id = r.id
             /\ s.nonce = r.nonce /\ s.lost = r.lost
             /\ s.told = r.told /\ s.model = r.model /\ s.cache = r.cache
  BY DEF Connected, ClientStates

\* The types after the start of an activation.
LEMMA ActivateTyped ==
  ASSUME SessionInv, NEW c \in Clients, Activate(c)
  PROVE  Typed'
<1> USE DEF serverVars
<1> DEFINE r == Connected(client[c], exchanges + 1)
           j == NewCall(c, r, "ExchangeKey", Nothing)
<1>1. Typed /\ RestTyped /\ ClientsTyped /\ CallsTyped /\ client[c] \in ClientStates
      /\ exchanges + 1 \in Nat
  BY TypedParts, Fields DEF SessionInv
<1>2. /\ client' = [client EXCEPT ![c] = r] /\ calls' = calls \union {j}
      /\ exchanges' = exchanges + 1
      /\ UNCHANGED <<secure, serverVars, sent>>
  BY DEF Activate
<1>3. r \in ClientStates
  BY <1>1, ConnectedFacts
<1> HIDE DEF r
<1>4. j \in Calls /\ j.op = "ExchangeKey" /\ j.arg = Nothing
  <2>1. "ExchangeKey" \in Ops /\ Nothing \in Maybe(Models \union Configs)
    BY DEF Ops, Maybe
  <2> QED BY <1>3, <2>1 DEF NewCall, Calls, ClientStates
<1> HIDE DEF j
<1>5. Nothing \in ArgOf("ExchangeKey")
  BY DEF ArgOf, Maybe
<1>6. ClientsTyped' /\ CallsTyped'
  BY <1>1, <1>2, <1>3, <1>4, <1>5 DEF ClientsTyped, CallsTyped
<1>7. RestTyped' /\ MapTyped'
  BY <1>1, <1>2, MapUnchanged DEF RestTyped
<1> QED BY <1>6, <1>7, TypedPartsNext

\* The types after ExchangeKey() has read its id.
LEMMA ExchangeCreateTyped ==
  ASSUME SessionInv, NEW k \in calls, ExchangeCreate(k)
  PROVE  Typed'
<1> DEFINE j == [k EXCEPT !.step = "created", !.id = nextPeerId]
<1>1. Typed /\ RestTyped /\ ClientsTyped /\ CallsTyped /\ k \in Calls /\ nextPeerId \in Nat
  BY TypedParts, Fields DEF SessionInv
<1>2. /\ calls' = (calls \ {k}) \union {j}
      /\ overlapped' = (overlapped \/ \E i \in calls : i.step = "created")
      /\ UNCHANGED <<secure, server, nextPeerId, clientMap, files, client, exchanges, sent,
                     restarts, overtaken, trespass>>
  BY DEF ExchangeCreate, Done
<1>3. j \in Calls /\ j.op = k.op /\ j.arg = k.arg
  BY <1>1 DEF Calls
<1> HIDE DEF j
<1>4. CallsTyped'
  BY <1>1, <1>2, <1>3 DEF CallsTyped
<1>5. overlapped' \in BOOLEAN
  BY <1>2
<1>6. RestTyped'
  BY <1>1, <1>2, <1>5 DEF RestTyped
<1> QED BY <1>1, <1>2, <1>4, <1>6, MapUnchanged, ClientsUnchanged, TypedPartsNext

\* What Auth::Process() changes in the session of the call it lets through.
LEMMA AuthProcessTyped ==
  ASSUME SessionInv, NEW k \in calls, AuthProcess(k)
  PROVE  /\ Typed' /\ DOMAIN clientMap' = DOMAIN clientMap
         /\ \A i \in DOMAIN clientMap : i # k.id => clientMap'[i] = clientMap[i]
         /\ clientMap'[k.id] # Nothing
         /\ clientMap'[k.id].nonce = k.nonce + 1
         /\ clientMap'[k.id].token = clientMap[k.id].token
         /\ clientMap'[k.id].conf = clientMap[k.id].conf
         /\ clientMap'[k.id].path = clientMap[k.id].path
         /\ clientMap'[k.id].info = clientMap[k.id].info
<1> DEFINE j == [k EXCEPT !.step = "admitted"]
           g == [clientMap[k.id] EXCEPT !.nonce = k.nonce + 1]
<1>1. /\ Typed /\ RestTyped /\ ClientsTyped /\ CallsTyped /\ MapTyped
      /\ k \in Calls /\ k.nonce \in Nat /\ k.id \in Nat
  BY TypedParts, Fields DEF SessionInv
<1>2. /\ calls' = (calls \ {k}) \union {j} /\ Admits(k)
      /\ clientMap' = [clientMap EXCEPT ![k.id] = g]
      /\ UNCHANGED <<secure, server, nextPeerId, files, client, exchanges, sent, restarts,
                     overlapped, overtaken, trespass>>
  BY DEF AuthProcess, Done
<1>3. k.id \in DOMAIN clientMap /\ clientMap[k.id] \in Gsts
  BY <1>1, <1>2, Fields DEF Admits, Known
<1>4. /\ g \in Gsts /\ g.nonce = k.nonce + 1 /\ g.token = clientMap[k.id].token
      /\ g.conf = clientMap[k.id].conf /\ g.path = clientMap[k.id].path
      /\ g.info = clientMap[k.id].info
  BY <1>1, <1>3 DEF Gsts
<1>5. j \in Calls /\ j.op = k.op /\ j.arg = k.arg
  BY <1>1 DEF Calls
<1> HIDE DEF j, g
<1>6. CallsTyped'
  BY <1>1, <1>2, <1>5 DEF CallsTyped
<1>7. MapTyped'
  BY <1>1, <1>2, <1>3, <1>4 DEF MapTyped, Maybe
<1>8. RestTyped'
  BY <1>1, <1>2 DEF RestTyped
<1>9. /\ DOMAIN clientMap' = DOMAIN clientMap /\ clientMap'[k.id] = g
      /\ \A i \in DOMAIN clientMap : i # k.id => clientMap'[i] = clientMap[i]
  BY <1>1, <1>2, <1>3 DEF MapTyped
<1>10. g # Nothing
  BY <1>4, NothingAssumption
<1> QED BY <1>1, <1>2, <1>4, <1>6, <1>7, <1>8, <1>9, <1>10, ClientsUnchanged, TypedPartsNext

\* The types after a restart of the server.
LEMMA ServerActivateTyped ==
  ASSUME SessionInv, ServerActivate
  PROVE  Typed'
<1>1. Typed /\ RestTyped /\ ClientsTyped /\ CallsTyped /\ MapTyped
  BY TypedParts DEF SessionInv
<1>2. /\ server' = "up" /\ nextPeerId' = 0 /\ restarts' = restarts + 1
      /\ UNCHANGED <<secure, clientMap, files, client, calls, exchanges, sent,
                     overlapped, overtaken, trespass>>
  BY DEF ServerActivate
<1>3. RestTyped'
  BY <1>1, <1>2 DEF RestTyped
<1> QED BY <1>1, <1>2, <1>3, MapUnchanged, ClientsUnchanged, CallsUnchanged, TypedPartsNext

\* What the end of an activation makes of the client.
LEMMA ActivatedFacts ==
  ASSUME Typed, NEW r \in ClientStates, NEW id \in Nat, NEW s \in Activated(r, id)
  PROVE  /\ s \in ClientStates
         /\ \/ Gone(s)
            \/ /\ s.state \in {"configure", "active"}
               /\ s.state = "configure" => s.reserved \in Configs
               /\ s.id = id /\ s.token = r.token /\ s.lost = FALSE
               /\ s.nonce = (IF secure THEN GetRandom(r.token) ELSE 0)
               /\ s.told = r.told /\ s.model = r.model /\ s.cache = r.cache
<1> DEFINE a == [r EXCEPT !.id = id, !.nonce = IF secure THEN GetRandom(r.token) ELSE 0,
                          !.lost = FALSE]
<1>1. Destroyed(r) \in ClientStates /\ Gone(Destroyed(r))
  BY DestroyedFacts
<1>2. GetRandom(r.token) \in Nat
  BY RandomNat DEF ClientStates
<1>3. /\ a \in ClientStates /\ a.id = id /\ a.token = r.token /\ a.lost = FALSE
      /\ a.nonce = (IF secure THEN GetRandom(r.token) ELSE 0) /\ a.reserved = r.reserved
      /\ a.told = r.told /\ a.model = r.model /\ a.cache = r.cache
  BY <1>2 DEF ClientStates
<1>4. \/ s = Destroyed(r)
      \/ s = [a EXCEPT !.state = "active"]
      \/ s = [a EXCEPT !.state = "configure"] /\ r.reserved # Nothing
  BY DEF Activated
<1> HIDE DEF a
<1>5. CASE s = Destroyed(r)
  BY <1>1, <1>5
<1>6. CASE s = [a EXCEPT !.state = "active"]
  BY <1>3, <1>6 DEF ClientStates
<1>7. CASE s = [a EXCEPT !.state = "configure"] /\ r.reserved # Nothing
  BY <1>3, <1>7 DEF ClientStates, Maybe
<1> QED BY <1>4, <1>5, <1>6, <1>7

\* A new session is a session.
LEMMA NewGstFacts ==
  ASSUME NEW token \in Nat
  PROVE  LET g == NewGst(token)
         IN  /\ g \in Gsts /\ g # Nothing /\ g.token = token
             /\ g.nonce = (IF secure THEN GetRandom(token) ELSE 0)
<1>1. GetRandom(token) \in Nat
  BY RandomNat
<1>2. NewGst(token) \in Gsts
  BY <1>1 DEF NewGst, Gsts, Maybe, NoInfo
<1> QED BY <1>2, NothingAssumption DEF NewGst

\* ExchangeKey() ends: the session is entered, and the client, if it still waits, has
\* its id and sends its reserved configuration.
Entered(k) ==
    /\ DOMAIN clientMap' = DOMAIN clientMap \union {k.id}
    /\ \A i \in DOMAIN clientMap : i # k.id => clientMap'[i] = clientMap[i]
    /\ clientMap'[k.id] # Nothing
    /\ clientMap'[k.id].token = k.token
    /\ clientMap'[k.id].nonce = IF secure THEN GetRandom(k.token) ELSE 0

Inserted(k) ==
    /\ UNCHANGED <<secure, server, files, exchanges, sent, restarts, overlapped, overtaken, trespass>>
    /\ k.step = "created" /\ server = "up"
    /\ nextPeerId' \in Nat
    /\ k.id = nextPeerId => nextPeerId' = nextPeerId + 1
    /\ Entered(k)
    /\ \/ ~k.live /\ client' = client /\ calls' = calls \ {k}
       \/ k.live /\ \E s \in ClientStates :
              /\ \/ Gone(s)
                 \/ /\ s.state \in {"configure", "active"}
                    /\ s.id = k.id /\ s.token = client[k.from].token /\ s.lost = FALSE
                    /\ s.nonce = (IF secure THEN GetRandom(s.token) ELSE 0)
                    /\ Fresh(client[k.from]) => Fresh(s)
              /\ \/ s.state # "configure" /\ client' = [client EXCEPT ![k.from] = s]
                                          /\ calls' = calls \ {k}
                 \/ /\ s.state = "configure" /\ s.reserved \in Configs
                    /\ client' = [client EXCEPT ![k.from] = NextNonce(s)]
                    /\ calls' = (calls \ {k}) \union {NewCall(k.from, s, "Configure", s.reserved)}

\* What the end of ExchangeKey() changes.
LEMMA ExchangeInsertStep ==
  ASSUME SessionInv, NEW k \in calls, ExchangeInsert(k)
  PROVE  Inserted(k) /\ Typed'
<1>1. /\ Typed /\ RestTyped /\ ClientsTyped /\ CallsTyped /\ MapTyped
      /\ k \in Calls /\ k.from \in Clients /\ k.id \in Nat /\ k.token \in Nat
      /\ client[k.from] \in ClientStates /\ nextPeerId \in Nat
  BY TypedParts, Fields DEF SessionInv
<1>2. PICK s \in Activated(client[k.from], k.id) :
           IF k.live /\ s.state = "configure"
           THEN /\ client' = [client EXCEPT ![k.from] = NextNonce(s)]
                /\ calls' = (calls \ {k}) \union {NewCall(k.from, s, "Configure", s.reserved)}
           ELSE /\ Return(k, s)
                /\ calls' = calls \ {k}
  BY DEF ExchangeInsert, Done
<1>3. /\ server = "up" /\ k.step = "created" /\ nextPeerId' \in NextIds(k)
      /\ clientMap' = Enter(k)
      /\ UNCHANGED <<secure, server, files, exchanges, sent, restarts, overlapped, overtaken,
                     trespass>>
  BY DEF ExchangeInsert
<1>4. nextPeerId' \in Nat /\ (k.id = nextPeerId => nextPeerId' = nextPeerId + 1)
  BY <1>1, <1>3 DEF NextIds
<1>5. /\ s \in ClientStates
      /\ \/ Gone(s)
         \/ /\ s.state \in {"configure", "active"}
            /\ s.state = "configure" => s.reserved \in Configs
            /\ s.id = k.id /\ s.token = client[k.from].token /\ s.lost = FALSE
            /\ s.nonce = (IF secure THEN GetRandom(s.token) ELSE 0)
            /\ Fresh(client[k.from]) => Fresh(s)
  <2> DEFINE r == client[k.from]
  <2>1. r \in ClientStates /\ s \in Activated(r, k.id)
    BY <1>1
  <2> HIDE DEF r
  <2>2. /\ s \in ClientStates
        /\ \/ Gone(s)
           \/ /\ s.state \in {"configure", "active"}
              /\ s.state = "configure" => s.reserved \in Configs
              /\ s.id = k.id /\ s.token = r.token /\ s.lost = FALSE
              /\ s.nonce = (IF secure THEN GetRandom(r.token) ELSE 0)
              /\ s.told = r.told /\ s.model = r.model /\ s.cache = r.cache
    BY <1>1, <2>1, ActivatedFacts
  <2> QED BY <2>2 DEF Fresh, r
<1>6. Entered(k) /\ MapTyped'
  <2>1. /\ NewGst(k.token) \in Gsts /\ NewGst(k.token) # Nothing /\ NewGst(k.token).token = k.token
        /\ NewGst(k.token).nonce = (IF secure THEN GetRandom(k.token) ELSE 0)
    BY <1>1, NewGstFacts
  <2>2. Entered(k)
    BY <1>3, <2>1 DEF Entered, Enter
  <2>3. MapTyped'
    BY <1>1, <1>3, <2>1 DEF Enter, MapTyped, Maybe
  <2> QED BY <2>2, <2>3
<1>7. RestTyped'
  BY <1>1, <1>3, <1>4 DEF RestTyped
<1>8. CASE k.live /\ s.state = "configure"
  <2>1. /\ client' = [client EXCEPT ![k.from] = NextNonce(s)]
        /\ calls' = (calls \ {k}) \union {NewCall(k.from, s, "Configure", s.reserved)}
    BY <1>2, <1>8
  <2>2. s.reserved \in Configs /\ ~Gone(s)
    BY <1>5, <1>8 DEF Gone
  <2>3. Inserted(k)
    BY <1>3, <1>4, <1>5, <1>6, <1>8, <2>1, <2>2 DEF Inserted
  <2>4. NextNonce(s) \in ClientStates
    BY <1>1, <1>5, NextNonceFacts
  <2> DEFINE j == NewCall(k.from, s, "Configure", s.reserved)
  <2>5. j \in Calls /\ j.op = "Configure" /\ j.arg = s.reserved
    BY <1>1, <1>5, <2>2 DEF NewCall, Calls, ClientStates, Ops, Maybe
  <2>6. j.arg \in ArgOf(j.op) /\ calls' = (calls \ {k}) \union {j}
    BY <2>1, <2>2, <2>5 DEF ArgOf
  <2> HIDE DEF j
  <2>7. ClientsTyped' /\ CallsTyped'
    BY <1>1, <2>1, <2>4, <2>5, <2>6 DEF ClientsTyped, CallsTyped
  <2> QED BY <1>6, <1>7, <2>3, <2>7, TypedPartsNext
<1>9. CASE ~(k.live /\ s.state = "configure")
  <2>1. Return(k, s) /\ calls' = calls \ {k}
    BY <1>2, <1>9
  <2>2. IF k.live THEN client' = [client EXCEPT ![k.from] = s] ELSE client' = client
    BY <2>1 DEF Return
  <2>3. Inserted(k)
    <3>1. CASE k.live
      BY <1>3, <1>4, <1>5, <1>6, <1>9, <2>1, <2>2, <3>1 DEF Inserted
    <3>2. CASE ~k.live
      BY <1>3, <1>4, <1>6, <2>1, <2>2, <3>2 DEF Inserted
    <3> QED BY <3>1, <3>2
  <2>4. ClientsTyped' /\ CallsTyped'
    BY <1>1, <1>5, <2>1, <2>2 DEF ClientsTyped, CallsTyped
  <2> QED BY <1>6, <1>7, <2>3, <2>4, TypedPartsNext
<1> QED BY <1>8, <1>9

\* Every step is of one of these kinds.
LEMMA StepKinds ==
  ASSUME SessionInv, Next
  PROVE  /\ Typed'
         /\ \/ Quiet \/ NewSent \/ Down \/ ServerActivate
            \/ \E c \in Clients : Activate(c)
            \/ \E k \in calls : ExchangeCreate(k) \/ Inserted(k) \/ AuthProcess(k)
<1>1. CASE \/ \E c \in Clients : SetInfo(c)
           \/ \E c \in Clients, conf \in Configs : ReserveConfigure(c, conf)
           \/ \E c \in Clients : Deactivate(c)
  BY <1>1, OwnSteps
<1>2. CASE \E c \in Clients : Activate(c)
  BY <1>2, ActivateTyped
<1>3. CASE \/ \E c \in Clients, conf \in Configs : Configure(c, conf)
           \/ \E c \in Clients, m \in Models : LoadModel(c, m)
           \/ \E c \in Clients : GetInputTensorInfo(c)
           \/ \E c \in Clients : GetOutputTensorInfo(c)
           \/ \E c \in Clients, m \in Models : SetInputTensorInfo(c, m)
           \/ \E c \in Clients, m \in Models : SetOutputTensorInfo(c, m)
           \/ \E c \in Clients : Prepare(c)
           \/ \E c \in Clients : Stop(c)
           \/ \E c \in Clients : GetInfo(c)
  BY <1>3, SendSteps
<1>4. CASE \E k \in calls : Lose(k) \/ UploadCancelled(k)
  BY <1>4, LoseSteps
<1>5. CASE \E k \in calls : ExchangeCreate(k) \/ AuthProcess(k)
  BY <1>5, ExchangeCreateTyped, AuthProcessTyped
<1>6. CASE \E k \in calls : ExchangeInsert(k)
  BY <1>6, ExchangeInsertStep
<1>7. CASE \E k \in calls : ExchangeRefused(k) \/ AuthRefuses(k) \/ UseMissingSession(k)
  BY <1>7, ExchangeRefusedStep, AuthRefusesStep, UseMissingSessionStep
<1>8. CASE \E k \in calls : HandleConfigure(k) \/ HandleLoadModel(k) \/ HandlePrepare(k)
  BY <1>8, HandleConfigureStep, HandleLoadModelStep, HandlePrepareStep
<1>9. CASE \E k \in calls : UploadOpen(k) \/ UploadNotOpened(k) \/ UploadClose(k)
  BY <1>9, UploadOpenStep, UploadNotOpenedStep, UploadCloseStep
<1>10. CASE \E k \in calls : HandleGetInputTensorInfo(k) \/ HandleGetOutputTensorInfo(k)
  <2>1. "input" \in Sides /\ "output" \in Sides
    BY DEF Sides
  <2>2. PICK k \in calls : HandleGetInputTensorInfo(k) \/ HandleGetOutputTensorInfo(k)
    BY <1>10
  <2>3. CASE HandleGetInputTensorInfo(k)
    BY <2>1, <2>3, AnswerInfoStep DEF HandleGetInputTensorInfo
  <2>4. CASE HandleGetOutputTensorInfo(k)
    BY <2>1, <2>4, AnswerInfoStep DEF HandleGetOutputTensorInfo
  <2> QED BY <2>2, <2>3, <2>4
<1>11. CASE \E k \in calls : HandleSetInputTensorInfo(k) \/ HandleSetOutputTensorInfo(k)
  <2>1. "input" \in Sides /\ "output" \in Sides
    BY DEF Sides
  <2>2. PICK k \in calls : HandleSetInputTensorInfo(k) \/ HandleSetOutputTensorInfo(k)
    BY <1>11
  <2>3. CASE HandleSetInputTensorInfo(k)
    BY <2>1, <2>3, TakeInfoStep DEF HandleSetInputTensorInfo
  <2>4. CASE HandleSetOutputTensorInfo(k)
    BY <2>1, <2>4, TakeInfoStep DEF HandleSetOutputTensorInfo
  <2> QED BY <2>2, <2>3, <2>4
<1>12. CASE \E k \in calls : HandleStop(k) \/ HandleGetInfo(k)
  BY <1>12, StopAndInfoSteps
<1>13. CASE ServerDeactivate
  BY <1>13, ServerDeactivateStep
<1>14. CASE ServerActivate
  BY <1>14, ServerActivateTyped
<1> QED BY <1>1, <1>2, <1>3, <1>4, <1>5, <1>6, <1>7, <1>8, <1>9, <1>10, <1>11, <1>12, <1>13, <1>14
        DEF Next

\* A step that changes nothing is a quiet one.
LEMMA Stutter ==
  ASSUME SessionInv, UNCHANGED vars
  PROVE  Quiet /\ Typed'
<1> USE DEF vars
<1>1. Typed /\ RestTyped
  BY TypedParts DEF SessionInv
<1>2. RestTyped'
  BY <1>1 DEF RestTyped
<1> QED BY <1>1, <1>2, CallsUnchanged, ClientsUnchanged, MapUnchanged, TypedPartsNext DEF Quiet

----------------------------------------------------------------------------
(* Quiet steps keep the invariant of the sessions.                         *)

\* Where the calls of a quiet step come from.
LEMMA CallsFrom ==
  ASSUME CallsAge, Typed
  PROVE  \A j \in calls' : \E k \in calls : Aged(k, j)
<1>1. \A k \in calls : Aged(k, k)
  BY Fields DEF Aged
<1>2. CASE calls' = calls
  BY <1>1, <1>2
<1>3. CASE \E k \in calls : CallEnds(k)
  BY <1>1, <1>3 DEF CallEnds
<1>4. CASE \E k \in calls, j \in Calls : Aged(k, j) /\ calls' = (calls \ {k}) \union {j}
  BY <1>1, <1>4
<1> QED BY <1>2, <1>3, <1>4 DEF CallsAge

\* Two calls of a quiet step come from two.
LEMMA CallsApart ==
  ASSUME CallsAge, Typed, NEW i \in calls', NEW j \in calls', i # j
  PROVE  \E k, l \in calls : k # l /\ Aged(k, i) /\ Aged(l, j)
<1>1. \A k \in calls : Aged(k, k)
  BY Fields DEF Aged
<1>2. CASE calls' = calls
  BY <1>1, <1>2
<1>3. CASE \E k \in calls : CallEnds(k)
  BY <1>1, <1>3 DEF CallEnds
<1>4. CASE \E k \in calls, h \in Calls : Aged(k, h) /\ calls' = (calls \ {k}) \union {h}
  <2>1. PICK k \in calls, h \in Calls : Aged(k, h) /\ calls' = (calls \ {k}) \union {h}
    BY <1>4
  <2>2. (i \in calls \ {k} \/ i = h) /\ (j \in calls \ {k} \/ j = h)
    BY <2>1
  <2> QED BY <1>1, <2>1, <2>2
<1> QED BY <1>2, <1>3, <1>4 DEF CallsAge

\* The sessions that are known stay known, with their tokens and nonces.
LEMMA KnownKept ==
  ASSUME MapKeeps
  PROVE  /\ \A i \in DOMAIN clientMap' :
                clientMap'[i] # Nothing => i \in DOMAIN clientMap /\ clientMap[i] # Nothing
         /\ \A i : Known(i) => /\ i \in DOMAIN clientMap' /\ clientMap'[i] # Nothing
                               /\ clientMap'[i].token = clientMap[i].token
                               /\ clientMap'[i].nonce = clientMap[i].nonce
  BY DEF MapKeeps, Known

\* After a quiet step every call is still where it can be.
LEMMA QuietStepsOK ==
  ASSUME SessionInv, Quiet, Typed'
  PROVE  StepsOK'
<1>1. Typed /\ StepsOK /\ CallsAge /\ MapKeeps /\ secure' = secure
  BY DEF SessionInv, Quiet
<1>2. server' = server \/ (server = "up" /\ server' # "down")
  BY DEF Quiet
<1>3. ASSUME NEW j \in calls'
      PROVE  /\ j.step = "created" => IsExchange(j)
             /\ j.step \in {"admitted", "writing"} => ~IsExchange(j)
             /\ j.step = "admitted" => secure'
             /\ j.step = "writing" => j.op = "UploadModel"
             /\ server' = "down" => j.step = "sent"
  <2>1. PICK k \in calls : Aged(k, j)
    BY <1>1, CallsFrom
  <2> QED BY <1>1, <1>2, <2>1 DEF Aged, StepsOK, IsExchange, Arrived
<1>4. server' = "down" => DOMAIN clientMap' = {}
  BY <1>1, <1>2 DEF MapKeeps, StepsOK
<1> QED BY <1>3, <1>4 DEF StepsOK

\* After a quiet step tokens still tell the activations apart.
LEMMA QuietTokensOK ==
  ASSUME SessionInv, Quiet, Typed'
  PROVE  TokensOK'
<1>1. Typed /\ TokensOK /\ CallsAge /\ ClientsStay /\ exchanges' = exchanges
  BY DEF SessionInv, Quiet
<1>2. \A c \in Clients : /\ client[c].token \in Nat
                         /\ client'[c].token = client[c].token \/ client'[c].token = 0
  BY <1>1, Fields DEF ClientsStay, Still, Gone
<1>3. ASSUME NEW c \in Clients
      PROVE  /\ client'[c].state = "inactive" <=> client'[c].token = 0
             /\ client'[c].token <= exchanges'
  <2>1. client[c].token \in Nat /\ exchanges \in Nat
    BY <1>1, Fields
  <2> QED BY <1>1, <2>1 DEF ClientsStay, Still, Gone, TokensOK
<1>4. ASSUME NEW j \in calls'
      PROVE  /\ 1 <= j.token /\ j.token <= exchanges'
             /\ \A c \in Clients : client'[c].token = j.token => c = j.from
  <2>1. PICK k \in calls : Aged(k, j)
    BY <1>1, CallsFrom
  <2>2. j.from = k.from /\ j.token = k.token /\ k.token \in Nat
    BY <1>1, <2>1, Fields DEF Aged
  <2>3. 1 <= j.token /\ j.token <= exchanges' /\ j.token # 0
    BY <1>1, <2>2 DEF TokensOK
  <2> QED BY <1>1, <1>2, <2>2, <2>3 DEF TokensOK
<1>5. \A c, d \in Clients : client'[c].token = client'[d].token /\ client'[c].token # 0 => c = d
  BY <1>1, <1>2 DEF TokensOK
<1> QED BY <1>3, <1>4, <1>5 DEF TokensOK

\* After a quiet step a client still waits for one call at most.
LEMMA QuietOneLive ==
  ASSUME SessionInv, Quiet
  PROVE  OneLive'
<1>1. Typed /\ OneLive /\ CallsAge
  BY DEF SessionInv, Quiet
<1>2. ASSUME NEW i \in calls', NEW j \in calls', i.live, j.live, i.from = j.from, i # j
      PROVE  FALSE
  BY <1>1, <1>2, CallsApart DEF OneLive, Aged
<1> QED BY <1>2 DEF OneLive

\* After a quiet step the calls still follow their client's state.
LEMMA QuietCallsOK ==
  ASSUME SessionInv, Quiet, Typed'
  PROVE  CallsOK'
<1>1. Typed /\ TokensOK /\ CallsOK /\ CallsAge /\ ClientsStay
  BY DEF SessionInv, Quiet
<1> SUFFICES ASSUME NEW j \in calls'
             PROVE  (/\ j.live => Current(j)
                     /\ Current(j) /\ IsExchange(j) => j.live /\ client[j.from].state = "exchange"
                     /\ Current(j) /\ ~IsExchange(j) =>
                            /\ Opened(j.from)
                            /\ j.id = client[j.from].id
                            /\ client[j.from].state = "configure" => j.op = "Configure"
                     /\ Current(j) /\ ~client[j.from].lost => j.live)'
  BY DEF CallsOK
<1>2. PICK k \in calls : Aged(k, j)
  BY <1>1, CallsFrom
<1>3. /\ j.from = k.from /\ j.token = k.token /\ j.op = k.op /\ j.id = k.id /\ j.token # 0
      /\ j.live => k.live
      /\ \/ ~k.live \/ j.live \/ Gone(client'[k.from])
         \/ client'[k.from].lost /\ client[k.from].state = "active"
  BY <1>1, <1>2 DEF Aged, TokensOK
<1>4. k.from \in Clients
  BY <1>1, Fields
<1>5. CASE Gone(client'[k.from]) /\ \A i \in calls' : i.from = k.from => ~i.live
  <2>1. ~Current(j)' /\ ~j.live
    BY <1>3, <1>5 DEF Gone, Current
  <2> QED BY <2>1
<1>6. CASE Still(client[k.from], client'[k.from])
  <2> DEFINE r == client[k.from]
             s == client'[k.from]
  <2>1. /\ s.token = r.token /\ s.id = r.id
        /\ r.lost => s.lost
        /\ s.state = r.state \/ (r.state = "configure" /\ s.state = "active")
        /\ s.token = j.token /\ k.live => j.live \/ (s.lost /\ r.state = "active")
    BY <1>3, <1>6 DEF Still, Gone
  <2>2. /\ k.live => r.token = k.token
        /\ r.token = k.token /\ k.op = "ExchangeKey" => k.live /\ r.state = "exchange"
        /\ r.token = k.token /\ k.op # "ExchangeKey" =>
               /\ r.state \in {"configure", "active"}
               /\ k.id = r.id
               /\ r.state = "configure" => k.op = "Configure"
        /\ r.token = k.token /\ ~r.lost => k.live
    BY <1>1 DEF CallsOK, Current, IsExchange, Opened
  <2>3. s.token = j.token /\ j.op = "ExchangeKey" => j.live
    BY <1>3, <2>1, <2>2
  <2> HIDE DEF r, s
  <2>4. /\ j.live => s.token = j.token
        /\ s.token = j.token /\ j.op = "ExchangeKey" => j.live /\ s.state = "exchange"
        /\ s.token = j.token /\ j.op # "ExchangeKey" =>
               /\ s.state \in {"configure", "active"}
               /\ j.id = s.id
               /\ s.state = "configure" => j.op = "Configure"
        /\ s.token = j.token /\ ~s.lost => j.live
    BY <1>3, <2>1, <2>2, <2>3
  <2> QED BY <1>3, <2>4 DEF Current, IsExchange, Opened, s
<1> QED BY <1>1, <1>4, <1>5, <1>6 DEF ClientsStay

\* Nothing is told to an application whose activation is not complete.
LEMMA QuietFreshOK ==
  ASSUME SessionInv, ClientsStay
  PROVE  FreshOK'
<1>1. ASSUME NEW c \in Clients, client'[c].state # "active"
      PROVE  Fresh(client'[c])
  <2>1. CASE Still(client[c], client'[c])
    <3>1. client[c].state # "active"
      BY <1>1, <2>1 DEF Still
    <3> QED BY <1>1, <2>1, <3>1 DEF Still, SessionInv, FreshOK
  <2>2. CASE Gone(client'[c])
    BY <2>2 DEF Gone
  <2> QED BY <2>1, <2>2 DEF ClientsStay
<1> QED BY <1>1 DEF FreshOK

\* What is created in a quiet step was created before.
LEMMA QuietIdsNew ==
  ASSUME SessionInv, Quiet
  PROVE  IdsNew'
<1>1. /\ Typed /\ IdsNew /\ CallsAge /\ MapKeeps
      /\ overlapped' = overlapped /\ nextPeerId' = nextPeerId
  BY DEF SessionInv, Quiet
<1>2. ASSUME NEW j \in calls', j.step = "created", ~overlapped PROVE j.id = nextPeerId
  BY <1>1, <1>2, CallsFrom DEF Aged, IdsNew
<1>3. ASSUME NEW i \in calls', NEW j \in calls', i.step = "created", j.step = "created",
             ~overlapped, i # j
      PROVE  FALSE
  BY <1>1, <1>3, CallsApart DEF Aged, IdsNew
<1>4. ASSUME NEW i \in DOMAIN clientMap', clientMap'[i] # Nothing, ~overlapped
      PROVE  i < nextPeerId
  BY <1>1, <1>4, KnownKept DEF IdsNew
<1> QED BY <1>1, <1>2, <1>3, <1>4 DEF IdsNew

\* What has a session keeps it, and no empty entry is added.
LEMMA QuietIdsKnown ==
  ASSUME SessionInv, Quiet
  PROVE  IdsKnown'
<1>1. /\ Typed /\ IdsKnown /\ CallsAge /\ MapKeeps /\ ClientsStay
      /\ overlapped' = overlapped /\ restarts' = restarts
      /\ \/ server' = server
         \/ server = "up" /\ server' = "aborted"
         \/ server = "up" /\ server' = "crashed" /\ restarts # 0
  BY DEF SessionInv, Quiet
<1>2. ASSUME restarts = 0 PROVE server' # "crashed"
  BY <1>1, <1>2 DEF IdsKnown
<1>3. ASSUME restarts = 0, server' # "down"
      PROVE  /\ \A i \in DOMAIN clientMap' : clientMap'[i] # Nothing
             /\ \A j \in calls' : ~IsExchange(j) =>
                    /\ j.id \in DOMAIN clientMap' /\ clientMap'[j.id] # Nothing
                    /\ ~overlapped => clientMap'[j.id].token = j.token
             /\ \A c \in Clients : client'[c].state \in {"configure", "active"} =>
                    /\ client'[c].id \in DOMAIN clientMap' /\ clientMap'[client'[c].id] # Nothing
                    /\ ~overlapped => clientMap'[client'[c].id].token = client'[c].token
  <2>1. /\ \A i \in DOMAIN clientMap : clientMap[i] # Nothing
        /\ \A k \in calls : ~IsExchange(k) => IsOf(k.id, k.token)
        /\ \A c \in Clients : Opened(c) => IsOf(client[c].id, client[c].token)
    BY <1>1, <1>3 DEF IdsKnown
  <2>2. ASSUME NEW i \in DOMAIN clientMap' PROVE clientMap'[i] # Nothing
    <3>1. CASE i \in DOMAIN clientMap
      BY <1>1, <2>1, <3>1 DEF MapKeeps
    <3>2. CASE i \notin DOMAIN clientMap
      BY <1>1, <2>1, <3>2 DEF MapKeeps, IsOf, Known
    <3> QED BY <3>1, <3>2
  <2>3. ASSUME NEW j \in calls', ~IsExchange(j)
        PROVE  /\ j.id \in DOMAIN clientMap' /\ clientMap'[j.id] # Nothing
               /\ ~overlapped => clientMap'[j.id].token = j.token
    <3>1. PICK k \in calls : Aged(k, j)
      BY <1>1, CallsFrom
    <3>2. j.id = k.id /\ j.token = k.token /\ IsOf(k.id, k.token)
      BY <2>1, <2>3, <3>1 DEF Aged, IsExchange
    <3> QED BY <1>1, <3>2, KnownKept DEF IsOf
  <2>4. ASSUME NEW c \in Clients, client'[c].state \in {"configure", "active"}
        PROVE  /\ client'[c].id \in DOMAIN clientMap' /\ clientMap'[client'[c].id] # Nothing
               /\ ~overlapped => clientMap'[client'[c].id].token = client'[c].token
    <3>1. Still(client[c], client'[c])
      BY <1>1, <2>4 DEF ClientsStay, Gone
    <3>2. IsOf(client[c].id, client[c].token)
      BY <2>1, <2>4, <3>1 DEF Still, Opened
    <3>3. client'[c].id = client[c].id /\ client'[c].token = client[c].token
      BY <3>1 DEF Still
    <3> QED BY <1>1, <3>2, <3>3, KnownKept DEF IsOf
  <2> QED BY <2>2, <2>3, <2>4
<1> QED BY <1>1, <1>2, <1>3 DEF IdsKnown, IsOf, Known, Opened

\* A call that has been let through keeps its session.
LEMMA QuietAdmittedOK ==
  ASSUME SessionInv, Quiet
  PROVE  AdmittedOK'
<1>1. /\ Typed /\ AdmittedOK /\ CallsAge /\ MapKeeps
      /\ overlapped' = overlapped /\ secure' = secure
  BY DEF SessionInv, Quiet
<1>2. ASSUME secure, ~overlapped, NEW j \in calls', j.step \in {"admitted", "writing"}
      PROVE  /\ j.id \in DOMAIN clientMap' /\ clientMap'[j.id] # Nothing
             /\ clientMap'[j.id].token = j.token
  <2>1. PICK k \in calls : Aged(k, j)
    BY <1>1, CallsFrom
  <2>2. j.id = k.id /\ j.token = k.token /\ k.step \in {"admitted", "writing"}
    BY <1>2, <2>1 DEF Aged, Arrived
  <2>3. IsOf(k.id, k.token)
    BY <1>1, <1>2, <2>2 DEF AdmittedOK
  <2> QED BY <1>1, <1>2, <2>2, <2>3, KnownKept DEF IsOf
<1> QED BY <1>1, <1>2 DEF AdmittedOK, IsOf, Known

----------------------------------------------------------------------------
(* A client that sends a call.                                             *)

\* The client c sends j: after a call that has been answered, or instead of one.
SentBy(c, j) ==
    /\ client[c].state = "active"
    /\ \A d \in Clients : d # c => client'[d] = client[d]
    /\ client'[c].state = "active" /\ client'[c].token = client[c].token
    /\ client'[c].id = client[c].id /\ client'[c].lost = client[c].lost
    /\ client'[c].nonce = IF secure THEN client[c].nonce + 1 ELSE client[c].nonce
    /\ j.from = c /\ j.token = client[c].token /\ j.id = client[c].id
    /\ j.nonce = client[c].nonce /\ j.live /\ j.step = "sent" /\ j.op # "ExchangeKey"
    /\ \A i \in calls' : i = j \/ (i \in calls /\ ~(i.live /\ i.from = c))
    /\ \A i \in calls : i \in calls' \/ (i.live /\ i.from = c /\ Arrived(i, "LoadModel"))
    /\ \/ sent' = sent + 1 /\ ~Waiting(c)
       \/ /\ sent' = sent /\ j.op = "UploadModel"
          /\ \E k \in calls : k.live /\ k.from = c /\ Arrived(k, "LoadModel")

\* What a client that sends a call changes.
LEMMA SentFacts ==
  ASSUME SessionInv, NewSent
  PROVE  \E c \in Clients, j \in calls' : SentBy(c, j)
<1>1. Typed /\ OneLive /\ ClientsTyped
  BY TypedParts DEF SessionInv
<1>2. PICK c \in Clients, r \in ClientStates, op \in Ops, arg \in Maybe(Models \union Configs) :
           /\ op # "ExchangeKey"
           /\ client[c].state = "active"
           /\ Still(client[c], r) /\ r.state = "active" /\ r.lost = client[c].lost
           /\ client' = [client EXCEPT ![c] = NextNonce(r)]
           /\ \/ /\ ~Waiting(c)
                 /\ calls' = calls \union {NewCall(c, r, op, arg)}
                 /\ sent' = sent + 1
              \/ \E k \in calls :
                 /\ k.from = c /\ k.live
                 /\ op = "UploadModel"
                 /\ Arrived(k, "LoadModel")
                 /\ calls' = (calls \ {k}) \union {NewCall(c, r, op, arg)}
                 /\ sent' = sent
  BY DEF NewSent
<1> DEFINE j == NewCall(c, r, op, arg)
           s == NextNonce(r)
<1>3. /\ j.from = c /\ j.token = r.token /\ j.id = r.id /\ j.nonce = r.nonce
      /\ j.live /\ j.step = "sent" /\ j.op = op
  BY DEF NewCall
<1>4. /\ s.nonce = (IF secure THEN r.nonce + 1 ELSE r.nonce)
      /\ s.state = r.state /\ s.token = r.token /\ s.id = r.id /\ s.lost = r.lost
  BY <1>1, NextNonceFacts
<1>5. /\ client' = [client EXCEPT ![c] = s]
      /\ \/ /\ ~Waiting(c)
            /\ calls' = calls \union {j}
            /\ sent' = sent + 1
         \/ \E k \in calls :
            /\ k.from = c /\ k.live
            /\ op = "UploadModel"
            /\ Arrived(k, "LoadModel")
            /\ calls' = (calls \ {k}) \union {j}
            /\ sent' = sent
  BY <1>2
<1> HIDE DEF j, s
<1>6. client'[c] = s /\ \A d \in Clients : d # c => client'[d] = client[d]
  BY <1>1, <1>5 DEF ClientsTyped
<1>7. r.token = client[c].token /\ r.id = client[c].id /\ r.nonce = client[c].nonce
  BY <1>2 DEF Still
<1>8. /\ client[c].state = "active"
      /\ client'[c].state = "active" /\ client'[c].token = client[c].token
      /\ client'[c].id = client[c].id /\ client'[c].lost = client[c].lost
      /\ client'[c].nonce = (IF secure THEN client[c].nonce + 1 ELSE client[c].nonce)
      /\ j.from = c /\ j.token = client[c].token /\ j.id = client[c].id
      /\ j.nonce = client[c].nonce /\ j.live /\ j.step = "sent" /\ j.op # "ExchangeKey"
  BY <1>2, <1>3, <1>4, <1>6, <1>7
<1>9. CASE ~Waiting(c) /\ calls' = calls \union {j} /\ sent' = sent + 1
  <2>1. /\ j \in calls'
        /\ \A i \in calls' : i = j \/ (i \in calls /\ ~(i.live /\ i.from = c))
        /\ \A i \in calls : i \in calls'
    BY <1>9 DEF Waiting
  <2> QED BY <1>6, <1>8, <1>9, <2>1 DEF SentBy
<1>10. CASE \E k \in calls :
               /\ k.from = c /\ k.live
               /\ op = "UploadModel"
               /\ Arrived(k, "LoadModel")
               /\ calls' = (calls \ {k}) \union {j}
               /\ sent' = sent
  <2>1. PICK k \in calls :
               /\ k.from = c /\ k.live
               /\ op = "UploadModel"
               /\ Arrived(k, "LoadModel")
               /\ calls' = (calls \ {k}) \union {j}
               /\ sent' = sent
    BY <1>10
  <2>2. /\ j \in calls'
        /\ \A i \in calls' : i = j \/ (i \in calls /\ ~(i.live /\ i.from = c))
        /\ \A i \in calls : i \in calls' \/ (i.live /\ i.from = c /\ Arrived(i, "LoadModel"))
    BY <1>1, <2>1 DEF OneLive
  <2> QED BY <1>3, <1>6, <1>8, <2>1, <2>2 DEF SentBy
<1> QED BY <1>5, <1>9, <1>10

\* The call that is sent is one of the client's activation, and its only one.
LEMMA SentCallsKept ==
  ASSUME SessionInv, NewSent, Typed'
  PROVE  StepsOK' /\ TokensOK' /\ OneLive' /\ CallsOK'
<1>1. Typed /\ StepsOK /\ TokensOK /\ OneLive /\ CallsOK
  BY DEF SessionInv
<1>2. secure' = secure /\ server' = server /\ exchanges' = exchanges /\ MapKeeps
  BY DEF NewSent
<1>3. PICK c \in Clients, j \in calls' : SentBy(c, j)
  BY SentFacts
<1>4. StepsOK'
  <2>1. server = "down" => DOMAIN clientMap' = {}
    BY <1>1, <1>2 DEF StepsOK, MapKeeps
  <2> QED BY <1>1, <1>2, <1>3, <2>1 DEF StepsOK, SentBy, IsExchange
<1>5. TokensOK'
  <2>1. client[c].token # 0 /\ client[c].token <= exchanges /\ client[c].token \in Nat
    BY <1>1, <1>3, Fields DEF TokensOK, SentBy
  <2>2. 1 <= client[c].token
    BY <2>1
  <2>3. \A d \in Clients : /\ client'[d].token = client[d].token
                           /\ client'[d].state = client[d].state
    BY <1>3 DEF SentBy
  <2>4. \A i \in calls' : i = j \/ i \in calls
    BY <1>3 DEF SentBy
  <2>5. j.token = client[c].token /\ j.from = c
    BY <1>3 DEF SentBy
  <2>6. ASSUME NEW i \in calls'
        PROVE  /\ 1 <= i.token /\ i.token <= exchanges'
               /\ \A d \in Clients : client'[d].token = i.token => d = i.from
    BY <1>1, <1>2, <2>1, <2>2, <2>3, <2>4, <2>5, <2>6 DEF TokensOK
  <2>7. /\ \A d \in Clients : /\ client'[d].state = "inactive" <=> client'[d].token = 0
                              /\ client'[d].token <= exchanges'
        /\ \A d, e \in Clients : client'[d].token = client'[e].token /\ client'[d].token # 0 => d = e
    BY <1>1, <1>2, <2>3 DEF TokensOK
  <2> QED BY <2>6, <2>7 DEF TokensOK
<1>6. OneLive'
  BY <1>1, <1>3 DEF OneLive, SentBy
<1>7. CallsOK'
  <2>1. ASSUME NEW i \in calls, ~(i.live /\ i.from = c)
        PROVE  (/\ i.live => Current(i)
                /\ Current(i) /\ IsExchange(i) => i.live /\ client[i.from].state = "exchange"
                /\ Current(i) /\ ~IsExchange(i) =>
                       /\ Opened(i.from)
                       /\ i.id = client[i.from].id
                       /\ client[i.from].state = "configure" => i.op = "Configure"
                /\ Current(i) /\ ~client[i.from].lost => i.live)'
    <3>1. i.from \in Clients
      BY <1>1, Fields
    <3>2. /\ client'[i.from].token = client[i.from].token /\ client'[i.from].id = client[i.from].id
          /\ client'[i.from].state = client[i.from].state
          /\ client'[i.from].lost = client[i.from].lost
      BY <1>3, <3>1 DEF SentBy
    <3> QED BY <1>1, <3>2 DEF CallsOK, Current, Opened, IsExchange
  <2>2. (/\ j.live => Current(j)
         /\ Current(j) /\ IsExchange(j) => j.live /\ client[j.from].state = "exchange"
         /\ Current(j) /\ ~IsExchange(j) =>
                /\ Opened(j.from)
                /\ j.id = client[j.from].id
                /\ client[j.from].state = "configure" => j.op = "Configure"
         /\ Current(j) /\ ~client[j.from].lost => j.live)'
    BY <1>3 DEF SentBy, Current, Opened, IsExchange
  <2>3. \A i \in calls' : i = j \/ (i \in calls /\ ~(i.live /\ i.from = c))
    BY <1>3 DEF SentBy
  <2> QED BY <2>1, <2>2, <2>3 DEF CallsOK
<1> QED BY <1>4, <1>5, <1>6, <1>7

\* The id of the call is the client's.
LEMMA SentIdsKept ==
  ASSUME SessionInv, NewSent
  PROVE  FreshOK' /\ IdsNew' /\ IdsKnown' /\ AdmittedOK'
<1>1. Typed /\ StepsOK /\ FreshOK /\ IdsNew /\ IdsKnown /\ AdmittedOK
  BY DEF SessionInv
<1>2. UNCHANGED <<secure, server, nextPeerId, exchanges, restarts, overlapped>> /\ MapKeeps
  BY DEF NewSent
<1>3. PICK c \in Clients, j \in calls' : SentBy(c, j)
  BY SentFacts
<1>4. FreshOK'
  <2>1. ASSUME NEW d \in Clients, client'[d].state # "active" PROVE Fresh(client'[d])
    <3>1. client'[d] = client[d]
      BY <1>3, <2>1 DEF SentBy
    <3> QED BY <1>1, <2>1, <3>1 DEF FreshOK
  <2> QED BY <2>1 DEF FreshOK
<1>5. \A i \in calls' : i = j \/ i \in calls
  BY <1>3 DEF SentBy
<1>6. IdsNew'
  <2>1. j.step # "created"
    BY <1>3 DEF SentBy
  <2> QED BY <1>1, <1>2, <1>5, <2>1, KnownKept DEF IdsNew
<1>7. IdsKnown'
  <2>1. ASSUME restarts = 0 PROVE server' # "crashed"
    BY <1>1, <1>2, <2>1 DEF IdsKnown
  <2>2. ASSUME restarts = 0, server # "down"
        PROVE  /\ \A i \in DOMAIN clientMap' : clientMap'[i] # Nothing
               /\ \A i \in calls' : ~IsExchange(i) =>
                      /\ i.id \in DOMAIN clientMap' /\ clientMap'[i.id] # Nothing
                      /\ ~overlapped => clientMap'[i.id].token = i.token
               /\ \A d \in Clients : client'[d].state \in {"configure", "active"} =>
                      /\ client'[d].id \in DOMAIN clientMap' /\ clientMap'[client'[d].id] # Nothing
                      /\ ~overlapped => clientMap'[client'[d].id].token = client'[d].token
    <3>1. /\ \A i \in DOMAIN clientMap : clientMap[i] # Nothing
          /\ \A k \in calls : ~IsExchange(k) => IsOf(k.id, k.token)
          /\ \A d \in Clients : Opened(d) => IsOf(client[d].id, client[d].token)
      BY <1>1, <2>2 DEF IdsKnown
    <3>2. \A i \in DOMAIN clientMap' : clientMap'[i] # Nothing
      <4>1. ASSUME NEW i \in DOMAIN clientMap', i \notin DOMAIN clientMap PROVE FALSE
        BY <1>2, <3>1, <4>1 DEF MapKeeps, IsOf, Known
      <4>2. \A i \in DOMAIN clientMap : clientMap'[i] # Nothing
        BY <1>2, <3>1 DEF MapKeeps
      <4> QED BY <4>1, <4>2
    <3>3. \A d \in Clients : /\ client'[d].id = client[d].id /\ client'[d].token = client[d].token
                             /\ client'[d].state = client[d].state
      BY <1>3 DEF SentBy
    <3>4. ASSUME NEW d \in Clients, client'[d].state \in {"configure", "active"}
          PROVE  /\ client'[d].id \in DOMAIN clientMap' /\ clientMap'[client'[d].id] # Nothing
                 /\ ~overlapped => clientMap'[client'[d].id].token = client'[d].token
      <4>1. IsOf(client[d].id, client[d].token)
        BY <3>1, <3>3, <3>4 DEF Opened
      <4> QED BY <1>2, <3>3, <4>1, KnownKept DEF IsOf
    <3>5. j.id = client[c].id /\ j.token = client[c].token /\ client'[c].state = "active"
      BY <1>3 DEF SentBy
    <3>6. ASSUME NEW i \in calls', ~IsExchange(i)
          PROVE  /\ i.id \in DOMAIN clientMap' /\ clientMap'[i.id] # Nothing
                 /\ ~overlapped => clientMap'[i.id].token = i.token
      <4>1. CASE i = j
        BY <3>3, <3>4, <3>5, <4>1
      <4>2. CASE i \in calls
        <5>1. IsOf(i.id, i.token)
          BY <3>1, <3>6, <4>2
        <5> QED BY <1>2, <5>1, KnownKept DEF IsOf
      <4> QED BY <1>5, <4>1, <4>2
    <3> QED BY <3>2, <3>4, <3>6
  <2> QED BY <1>2, <2>1, <2>2 DEF IdsKnown, IsOf, Known, Opened
<1>8. AdmittedOK'
  <2>1. j.step = "sent"
    BY <1>3 DEF SentBy
  <2>2. ASSUME secure, ~overlapped, NEW i \in calls', i.step \in {"admitted", "writing"}
        PROVE  /\ i.id \in DOMAIN clientMap' /\ clientMap'[i.id] # Nothing
               /\ clientMap'[i.id].token = i.token
    <3>1. i \in calls
      BY <1>5, <2>1, <2>2
    <3>2. IsOf(i.id, i.token)
      BY <1>1, <2>2, <3>1 DEF AdmittedOK
    <3> QED BY <1>2, <2>2, <3>2, KnownKept DEF IsOf
  <2> QED BY <1>2, <2>2 DEF AdmittedOK, IsOf, Known
<1> QED BY <1>4, <1>6, <1>7, <1>8

----------------------------------------------------------------------------
(* The server's life, and the start of an activation.                      *)

\* Without calls and sessions.
LEMMA DownKept ==
  ASSUME SessionInv, Down, Typed'
  PROVE  /\ StepsOK' /\ TokensOK' /\ OneLive' /\ CallsOK'
         /\ FreshOK' /\ IdsNew' /\ IdsKnown' /\ AdmittedOK'
<1>1. /\ Typed /\ TokensOK /\ ClientsStay /\ exchanges' = exchanges /\ calls' = {}
      /\ DOMAIN clientMap' = {} /\ server' = "down"
  BY DEF SessionInv, Down
<1>2. StepsOK' /\ OneLive' /\ CallsOK' /\ IdsNew' /\ IdsKnown' /\ AdmittedOK'
  BY <1>1 DEF StepsOK, OneLive, CallsOK, IdsNew, IdsKnown, AdmittedOK
<1>3. FreshOK'
  BY <1>1, QuietFreshOK
<1>4. TokensOK'
  <2>1. ASSUME NEW c \in Clients
        PROVE  /\ client'[c].state = "inactive" <=> client'[c].token = 0
               /\ client'[c].token <= exchanges'
    <3>1. client[c].token \in Nat /\ exchanges \in Nat
      BY <1>1, Fields
    <3> QED BY <1>1, <3>1 DEF ClientsStay, Still, Gone, TokensOK
  <2>2. \A c \in Clients : client'[c].token = client[c].token \/ client'[c].token = 0
    BY <1>1 DEF ClientsStay, Still, Gone
  <2>3. \A c, d \in Clients : client'[c].token = client'[d].token /\ client'[c].token # 0 => c = d
    BY <1>1, <2>2 DEF TokensOK
  <2> QED BY <1>1, <2>1, <2>3 DEF TokensOK
<1> QED BY <1>2, <1>3, <1>4

\* The server starts again, without sessions.
LEMMA ServerActivateKept ==
  ASSUME SessionInv, ServerActivate
  PROVE  /\ StepsOK' /\ TokensOK' /\ OneLive' /\ CallsOK'
         /\ FreshOK' /\ IdsNew' /\ IdsKnown' /\ AdmittedOK'
<1>1. /\ Typed /\ StepsOK /\ TokensOK /\ OneLive /\ CallsOK /\ FreshOK /\ restarts \in Nat
  BY Fields DEF SessionInv
<1>2. /\ server = "down" /\ server' = "up" /\ nextPeerId' = 0 /\ restarts' = restarts + 1
      /\ UNCHANGED <<secure, clientMap, files, client, calls, exchanges, sent,
                     overlapped, overtaken, trespass>>
  BY DEF ServerActivate
<1>3. DOMAIN clientMap' = {} /\ \A k \in calls' : k.step = "sent"
  BY <1>1, <1>2 DEF StepsOK
<1>4. StepsOK' /\ IdsNew' /\ AdmittedOK'
  BY <1>1, <1>2, <1>3 DEF StepsOK, IsExchange, IdsNew, AdmittedOK
<1>5. IdsKnown'
  <2>1. restarts' # 0
    BY <1>1, <1>2
  <2> QED BY <2>1 DEF IdsKnown
<1>6. TokensOK' /\ OneLive' /\ FreshOK'
  BY <1>1, <1>2 DEF TokensOK, OneLive, FreshOK
<1>7. CallsOK'
  BY <1>1, <1>2 DEF CallsOK, Current, Opened, IsExchange
<1> QED BY <1>4, <1>5, <1>6, <1>7

\* What a client changes that starts its activation.
LEMMA ActivateFacts ==
  ASSUME SessionInv, NEW c \in Clients, Activate(c)
  PROVE  \E j \in calls' :
         /\ client[c].state = "inactive" /\ client[c].token = 0
         /\ \A d \in Clients : d # c => client'[d] = client[d]
         /\ client'[c].state = "exchange" /\ client'[c].token = exchanges + 1
         /\ client'[c].told = client[c].told /\ client'[c].model = client[c].model
         /\ client'[c].cache = client[c].cache
         /\ calls' = calls \union {j}
         /\ j.from = c /\ j.token = exchanges + 1 /\ IsExchange(j) /\ j.live /\ j.step = "sent"
         /\ exchanges' = exchanges + 1
         /\ UNCHANGED <<secure, serverVars, sent>>
<1> DEFINE r == Connected(client[c], exchanges + 1)
           j == NewCall(c, r, "ExchangeKey", Nothing)
<1>1. ClientsTyped /\ client[c] \in ClientStates /\ exchanges + 1 \in Nat /\ TokensOK
  BY TypedParts, Fields DEF SessionInv
<1>2. /\ client' = [client EXCEPT ![c] = r] /\ calls' = calls \union {j}
      /\ client[c].state = "inactive"
      /\ exchanges' = exchanges + 1
      /\ UNCHANGED <<secure, serverVars, sent>>
  BY DEF Activate
<1>3. /\ r \in ClientStates /\ r.state = "exchange" /\ r.token = exchanges + 1
      /\ r.told = client[c].told /\ r.model = client[c].model /\ r.cache = client[c].cache
  BY <1>1, ConnectedFacts
<1> HIDE DEF r
<1>4. /\ j.from = c /\ j.token = exchanges + 1 /\ IsExchange(j) /\ j.live /\ j.step = "sent"
  BY <1>3 DEF NewCall, IsExchange
<1> HIDE DEF j
<1>5. client'[c] = r /\ \A d \in Clients : d # c => client'[d] = client[d]
  BY <1>1, <1>2 DEF ClientsTyped
<1>6. client[c].token = 0 /\ j \in calls'
  BY <1>1, <1>2 DEF TokensOK
<1> QED BY <1>2, <1>3, <1>4, <1>5, <1>6

\* The call of a new activation.
LEMMA ActivateKept ==
  ASSUME SessionInv, NEW c \in Clients, Activate(c)
  PROVE  /\ StepsOK' /\ TokensOK' /\ OneLive' /\ CallsOK'
         /\ FreshOK' /\ IdsNew' /\ IdsKnown' /\ AdmittedOK'
<1>1. /\ Typed /\ StepsOK /\ TokensOK /\ OneLive /\ CallsOK /\ FreshOK
      /\ IdsNew /\ IdsKnown /\ AdmittedOK /\ exchanges \in Nat
  BY Fields DEF SessionInv
<1>2. PICK j \in calls' :
         /\ client[c].state = "inactive" /\ client[c].token = 0
         /\ \A d \in Clients : d # c => client'[d] = client[d]
         /\ client'[c].state = "exchange" /\ client'[c].token = exchanges + 1
         /\ client'[c].told = client[c].told /\ client'[c].model = client[c].model
         /\ client'[c].cache = client[c].cache
         /\ calls' = calls \union {j}
         /\ j.from = c /\ j.token = exchanges + 1 /\ IsExchange(j) /\ j.live /\ j.step = "sent"
         /\ exchanges' = exchanges + 1
         /\ UNCHANGED <<secure, serverVars, sent>>
  BY ActivateFacts
<1> USE DEF serverVars
<1>3. \A k \in calls : k.from = c => ~k.live
  <2>1. ASSUME NEW k \in calls, k.from = c, k.live PROVE FALSE
    <3>1. client[c].token = k.token /\ k.token \in Nat /\ 1 <= k.token
      BY <1>1, <2>1, Fields DEF CallsOK, Current, TokensOK
    <3> QED BY <1>2, <3>1
  <2> QED BY <2>1
<1>4. StepsOK' /\ OneLive'
  <2>1. StepsOK'
    BY <1>1, <1>2 DEF StepsOK, IsExchange
  <2>2. OneLive'
    BY <1>1, <1>2, <1>3 DEF OneLive
  <2> QED BY <2>1, <2>2
<1>5. TokensOK'
  <2>1. \A d \in Clients : client[d].token \in Nat /\ client[d].token <= exchanges
    BY <1>1, Fields DEF TokensOK
  <2>2. \A k \in calls : k.token \in Nat /\ 1 <= k.token /\ k.token <= exchanges
    BY <1>1, Fields DEF TokensOK
  <2>3. /\ exchanges + 1 # 0 /\ exchanges + 1 <= exchanges + 1 /\ 1 <= exchanges + 1
        /\ \A n \in Nat : n <= exchanges => n <= exchanges + 1 /\ n # exchanges + 1
    BY <1>1
  <2>4. \A d \in Clients : /\ client'[d].state = "inactive" <=> client'[d].token = 0
                           /\ client'[d].token <= exchanges'
    BY <1>1, <1>2, <2>1, <2>3 DEF TokensOK
  <2>5. \A d, e \in Clients : client'[d].token = client'[e].token /\ client'[d].token # 0 => d = e
    BY <1>1, <1>2, <2>1, <2>3 DEF TokensOK
  <2>6. ASSUME NEW k \in calls' PROVE 1 <= k.token /\ k.token <= exchanges'
    BY <1>2, <2>2, <2>3, <2>6
  <2>7. ASSUME NEW k \in calls', NEW d \in Clients, client'[d].token = k.token
        PROVE  d = k.from
    <3>1. CASE k = j
      BY <1>2, <2>1, <2>3, <2>7, <3>1
    <3>2. CASE k \in calls
      BY <1>1, <1>2, <2>2, <2>3, <2>7, <3>2 DEF TokensOK
    <3> QED BY <1>2, <3>1, <3>2
  <2> QED BY <2>4, <2>5, <2>6, <2>7 DEF TokensOK
<1>6. CallsOK'
  <2>1. ASSUME NEW k \in calls
        PROVE  (/\ k.live => Current(k)
                /\ Current(k) /\ IsExchange(k) => k.live /\ client[k.from].state = "exchange"
                /\ Current(k) /\ ~IsExchange(k) =>
                       /\ Opened(k.from)
                       /\ k.id = client[k.from].id
                       /\ client[k.from].state = "configure" => k.op = "Configure"
                /\ Current(k) /\ ~client[k.from].lost => k.live)'
    <3>1. k.from \in Clients /\ k.token \in Nat /\ k.token <= exchanges
      BY <1>1, Fields DEF TokensOK
    <3>2. CASE k.from = c
      <4>1. ~k.live /\ k.token # exchanges + 1
        BY <1>1, <1>3, <3>1, <3>2
      <4>2. ~Current(k)'
        BY <1>2, <3>2, <4>1 DEF Current
      <4> QED BY <4>1, <4>2
    <3>3. CASE k.from # c
      <4>1. client'[k.from] = client[k.from]
        BY <1>2, <3>1, <3>3
      <4> QED BY <1>1, <4>1 DEF CallsOK, Current, Opened, IsExchange
    <3> QED BY <3>2, <3>3
  <2>2. (/\ j.live => Current(j)
         /\ Current(j) /\ IsExchange(j) => j.live /\ client[j.from].state = "exchange"
         /\ Current(j) /\ ~IsExchange(j) =>
                /\ Opened(j.from)
                /\ j.id = client[j.from].id
                /\ client[j.from].state = "configure" => j.op = "Configure"
         /\ Current(j) /\ ~client[j.from].lost => j.live)'
    BY <1>2 DEF Current, IsExchange
  <2>3. \A k \in calls' : k = j \/ k \in calls
    BY <1>2
  <2> QED BY <2>1, <2>2, <2>3 DEF CallsOK
<1>7. FreshOK'
  <2>1. ASSUME NEW d \in Clients, client'[d].state # "active" PROVE Fresh(client'[d])
    BY <1>1, <1>2, <2>1 DEF FreshOK, Fresh
  <2> QED BY <2>1 DEF FreshOK
<1>8. IdsNew' /\ AdmittedOK'
  BY <1>1, <1>2 DEF IdsNew, AdmittedOK, IsOf, Known
<1>9. IdsKnown'
  <2>1. \A d \in Clients : client'[d].state \in {"configure", "active"} =>
            client'[d] = client[d]
    BY <1>2
  <2> QED BY <1>1, <1>2, <2>1 DEF IdsKnown, IsOf, Known, Opened, IsExchange
<1> QED BY <1>4, <1>5, <1>6, <1>7, <1>8, <1>9

\* ExchangeKey() has read the id of the new session.
LEMMA ExchangeCreateKept ==
  ASSUME SessionInv, NEW k \in calls, ExchangeCreate(k)
  PROVE  /\ StepsOK' /\ TokensOK' /\ OneLive' /\ CallsOK'
         /\ FreshOK' /\ IdsNew' /\ IdsKnown' /\ AdmittedOK'
<1> DEFINE j == [k EXCEPT !.step = "created", !.id = nextPeerId]
<1>1. /\ Typed /\ StepsOK /\ TokensOK /\ OneLive /\ CallsOK /\ FreshOK
      /\ IdsNew /\ IdsKnown /\ AdmittedOK /\ k \in Calls
  BY Fields DEF SessionInv
<1>2. /\ server = "up" /\ k.op = "ExchangeKey"
      /\ calls' = (calls \ {k}) \union {j}
      /\ overlapped' = (overlapped \/ \E i \in calls : i.step = "created")
      /\ UNCHANGED <<secure, server, nextPeerId, clientMap, files, client, exchanges, sent,
                     restarts, overtaken, trespass>>
  BY DEF ExchangeCreate, Done
<1>3. /\ j.op = "ExchangeKey" /\ j.from = k.from /\ j.token = k.token /\ j.live = k.live
      /\ j.step = "created" /\ j.id = nextPeerId
  BY <1>1, <1>2 DEF Calls
<1> HIDE DEF j
<1>4. StepsOK' /\ TokensOK' /\ OneLive' /\ FreshOK'
  BY <1>1, <1>2, <1>3 DEF StepsOK, TokensOK, OneLive, FreshOK, IsExchange
<1>5. CallsOK'
  BY <1>1, <1>2, <1>3 DEF CallsOK, Current, Opened, IsExchange
<1>6. ~overlapped' => ~overlapped /\ \A i \in calls : i.step # "created"
  BY <1>2
<1>7. IdsNew'
  BY <1>1, <1>2, <1>3, <1>6 DEF IdsNew
<1>8. IdsKnown' /\ AdmittedOK'
  BY <1>1, <1>2, <1>3, <1>6 DEF IdsKnown, AdmittedOK, IsOf, Known, Opened, IsExchange
<1> QED BY <1>4, <1>5, <1>7, <1>8

----------------------------------------------------------------------------
(* The end of ExchangeKey().                                               *)

\* The client of the call k has its id, and may send j.
Settled(k, j) ==
    /\ \A d \in Clients : d # k.from => client'[d] = client[d]
    /\ \/ ~k.live /\ client'[k.from] = client[k.from] /\ calls' = calls \ {k}
       \/ k.live /\ Gone(client'[k.from]) /\ calls' = calls \ {k}
       \/ /\ k.live
          /\ client'[k.from].id = k.id /\ client'[k.from].token = k.token
          /\ client'[k.from].lost = FALSE /\ Fresh(client'[k.from])
          /\ \/ /\ client'[k.from].state = "active" /\ calls' = calls \ {k}
                /\ client'[k.from].nonce = IF secure THEN GetRandom(k.token) ELSE 0
             \/ /\ client'[k.from].state = "configure" /\ calls' = (calls \ {k}) \union {j}
                /\ client'[k.from].nonce = (IF secure THEN GetRandom(k.token) + 1 ELSE 0)
                /\ j.nonce = IF secure THEN GetRandom(k.token) ELSE 0
                /\ j.from = k.from /\ j.token = k.token /\ j.id = k.id
                /\ j.live /\ j.step = "sent" /\ j.op = "Configure"

\* What the end of ExchangeKey() makes of its client.
LEMMA SettledFacts ==
  ASSUME SessionInv, NEW k \in calls, Inserted(k)
  PROVE  /\ \E j : Settled(k, j)
         /\ IsExchange(k)
         /\ k.live => /\ client[k.from].token = k.token
                      /\ \A i \in calls : i # k /\ i.from = k.from => ~i.live /\ i.token # k.token
<1>1. /\ Typed /\ StepsOK /\ OneLive /\ CallsOK /\ FreshOK /\ ClientsTyped
      /\ k.from \in Clients
  BY TypedParts, Fields DEF SessionInv
<1>2. IsExchange(k)
  BY <1>1 DEF Inserted, StepsOK
<1>3. k.live => /\ client[k.from].token = k.token /\ client[k.from].state = "exchange"
                /\ Fresh(client[k.from])
  BY <1>1, <1>2 DEF CallsOK, Current, FreshOK
<1>4. ASSUME k.live, NEW i \in calls, i # k, i.from = k.from
      PROVE  ~i.live /\ i.token # k.token
  <2>1. ~i.live
    BY <1>1, <1>4 DEF OneLive
  <2> QED BY <1>1, <1>3, <1>4, <2>1 DEF CallsOK, Current, Opened
<1>5. CASE ~k.live
  <2>1. Settled(k, k)
    BY <1>1, <1>5 DEF Inserted, Settled
  <2> QED BY <1>2, <1>5, <2>1
<1>6. CASE k.live
  <2>1. PICK s \in ClientStates :
              /\ \/ Gone(s)
                 \/ /\ s.state \in {"configure", "active"}
                    /\ s.id = k.id /\ s.token = client[k.from].token /\ s.lost = FALSE
                    /\ s.nonce = (IF secure THEN GetRandom(s.token) ELSE 0)
                    /\ Fresh(client[k.from]) => Fresh(s)
              /\ \/ s.state # "configure" /\ client' = [client EXCEPT ![k.from] = s]
                                          /\ calls' = calls \ {k}
                 \/ /\ s.state = "configure" /\ s.reserved \in Configs
                    /\ client' = [client EXCEPT ![k.from] = NextNonce(s)]
                    /\ calls' = (calls \ {k}) \union {NewCall(k.from, s, "Configure", s.reserved)}
    BY <1>6 DEF Inserted
  <2>2. CASE s.state # "configure"
    <3>1. client'[k.from] = s /\ \A d \in Clients : d # k.from => client'[d] = client[d]
      BY <1>1, <2>1, <2>2 DEF ClientsTyped
    <3>2. calls' = calls \ {k}
      BY <2>1, <2>2
    <3>3. \/ Gone(client'[k.from])
          \/ /\ client'[k.from].id = k.id /\ client'[k.from].token = k.token
             /\ client'[k.from].lost = FALSE /\ Fresh(client'[k.from])
             /\ client'[k.from].state = "active"
             /\ client'[k.from].nonce = IF secure THEN GetRandom(k.token) ELSE 0
      BY <1>3, <1>6, <2>1, <2>2, <3>1
    <3>4. Settled(k, k)
      BY <1>6, <3>1, <3>2, <3>3 DEF Settled
    <3> QED BY <1>2, <1>3, <1>4, <3>4
  <2>3. CASE s.state = "configure"
    <3> DEFINE j == NewCall(k.from, s, "Configure", s.reserved)
               n == NextNonce(s)
    <3>1. /\ client' = [client EXCEPT ![k.from] = n] /\ calls' = (calls \ {k}) \union {j}
          /\ s.id = k.id /\ s.token = k.token /\ s.lost = FALSE /\ Fresh(s)
          /\ s.nonce = (IF secure THEN GetRandom(k.token) ELSE 0)
      BY <1>3, <1>6, <2>1, <2>3 DEF Gone
    <3>2. /\ n.nonce = (IF secure THEN s.nonce + 1 ELSE s.nonce)
          /\ n.state = s.state /\ n.token = s.token /\ n.id = s.id /\ n.lost = s.lost
          /\ n.told = s.told /\ n.model = s.model /\ n.cache = s.cache
      BY <1>1, NextNonceFacts
    <3>3. /\ j.from = k.from /\ j.token = s.token /\ j.id = s.id /\ j.nonce = s.nonce
          /\ j.live /\ j.step = "sent" /\ j.op = "Configure"
      BY DEF NewCall
    <3> HIDE DEF j, n
    <3>4. client'[k.from] = n /\ \A d \in Clients : d # k.from => client'[d] = client[d]
      BY <1>1, <3>1 DEF ClientsTyped
    <3>5. Fresh(n)
      BY <3>1, <3>2 DEF Fresh
    <3>6. /\ n.nonce = (IF secure THEN GetRandom(k.token) + 1 ELSE 0)
          /\ j.nonce = (IF secure THEN GetRandom(k.token) ELSE 0)
      BY <3>1, <3>2, <3>3
    <3>7. Settled(k, j)
      BY <1>6, <2>3, <3>1, <3>2, <3>3, <3>4, <3>5, <3>6 DEF Settled
    <3> QED BY <1>2, <1>3, <1>4, <3>7
  <2> QED BY <2>2, <2>3
<1> QED BY <1>2, <1>3, <1>4, <1>5, <1>6

\* The calls after the end of ExchangeKey().
LEMMA InsertedCallsKept ==
  ASSUME SessionInv, NEW k \in calls, Inserted(k)
  PROVE  StepsOK' /\ TokensOK' /\ OneLive' /\ CallsOK' /\ FreshOK'
<1>1. /\ Typed /\ StepsOK /\ TokensOK /\ OneLive /\ CallsOK /\ FreshOK /\ k.from \in Clients
      /\ k.token \in Nat
  BY Fields DEF SessionInv
<1>2. PICK j : Settled(k, j)
  BY SettledFacts
<1>3. /\ IsExchange(k) /\ server' = server /\ server = "up" /\ secure' = secure
      /\ exchanges' = exchanges
      /\ k.live => /\ client[k.from].token = k.token
                   /\ \A i \in calls : i # k /\ i.from = k.from => ~i.live /\ i.token # k.token
  BY SettledFacts DEF Inserted
<1>4. StepsOK'
  BY <1>1, <1>2, <1>3 DEF StepsOK, Settled, IsExchange
<1>5. TokensOK'
  <2>1. k.token # 0 /\ 1 <= k.token /\ k.token <= exchanges
    BY <1>1 DEF TokensOK
  <2>2. \A d \in Clients : client'[d].token = client[d].token \/ client'[d].token = 0
    BY <1>2, <1>3 DEF Settled, Gone
  <2>3. \A i \in calls' : \/ i \in calls
                          \/ i.token = k.token /\ i.from = k.from
    BY <1>2 DEF Settled
  <2>4. ASSUME NEW d \in Clients
        PROVE  /\ client'[d].state = "inactive" <=> client'[d].token = 0
               /\ client'[d].token <= exchanges'
    <3>1. CASE d # k.from
      BY <1>1, <1>2, <1>3, <3>1 DEF TokensOK, Settled
    <3>2. CASE d = k.from /\ Gone(client'[k.from])
      <4>1. exchanges \in Nat
        BY <1>1, Fields
      <4> QED BY <1>3, <3>2, <4>1 DEF Gone
    <3>3. CASE d = k.from /\ ~Gone(client'[k.from])
      BY <1>1, <1>2, <1>3, <2>1, <3>3 DEF TokensOK, Settled
    <3> QED BY <3>1, <3>2, <3>3
  <2>5. \A d, e \in Clients : client'[d].token = client'[e].token /\ client'[d].token # 0 => d = e
    BY <1>1, <2>2 DEF TokensOK
  <2>6. ASSUME NEW i \in calls' PROVE 1 <= i.token /\ i.token <= exchanges'
    BY <1>1, <1>3, <2>1, <2>3, <2>6 DEF TokensOK
  <2>7. ASSUME NEW i \in calls', NEW d \in Clients, client'[d].token = i.token PROVE d = i.from
    <3>1. client[d].token = i.token /\ i.token # 0
      BY <1>1, <2>1, <2>2, <2>3, <2>7 DEF TokensOK
    <3> QED BY <1>1, <2>3, <3>1 DEF TokensOK
  <2> QED BY <2>4, <2>5, <2>6, <2>7 DEF TokensOK
<1>6. OneLive'
  BY <1>1, <1>2, <1>3 DEF OneLive, Settled
<1>7. CallsOK'
  <2>1. ASSUME NEW i \in calls, i # k
        PROVE  (/\ i.live => Current(i)
                /\ Current(i) /\ IsExchange(i) => i.live /\ client[i.from].state = "exchange"
                /\ Current(i) /\ ~IsExchange(i) =>
                       /\ Opened(i.from)
                       /\ i.id = client[i.from].id
                       /\ client[i.from].state = "configure" => i.op = "Configure"
                /\ Current(i) /\ ~client[i.from].lost => i.live)'
    <3>1. i.from \in Clients /\ i.token # 0
      BY <1>1, Fields DEF TokensOK
    <3>2. CASE k.live /\ i.from = k.from
      <4>1. ~i.live /\ i.token # k.token
        BY <1>3, <2>1, <3>2
      <4>2. client'[k.from].token = k.token \/ client'[k.from].token = 0
        BY <1>2, <3>2 DEF Settled, Gone
      <4>3. ~Current(i)'
        BY <3>1, <3>2, <4>1, <4>2 DEF Current
      <4> QED BY <4>1, <4>3
    <3>3. CASE ~(k.live /\ i.from = k.from)
      <4>1. client'[i.from] = client[i.from]
        BY <1>2, <3>1, <3>3 DEF Settled
      <4> QED BY <1>1, <4>1 DEF CallsOK, Current, Opened, IsExchange
    <3> QED BY <3>2, <3>3
  <2>2. CASE calls' = calls \ {k}
    BY <2>1, <2>2 DEF CallsOK
  <2>3. CASE calls' # calls \ {k}
    <3>1. /\ client'[j.from].state = "configure" /\ calls' = (calls \ {k}) \union {j}
          /\ client'[j.from].id = j.id /\ client'[j.from].token = j.token
          /\ j.live /\ j.op = "Configure"
      BY <1>2, <2>3 DEF Settled
    <3>2. (/\ j.live => Current(j)
           /\ Current(j) /\ IsExchange(j) => j.live /\ client[j.from].state = "exchange"
           /\ Current(j) /\ ~IsExchange(j) =>
                  /\ Opened(j.from)
                  /\ j.id = client[j.from].id
                  /\ client[j.from].state = "configure" => j.op = "Configure"
           /\ Current(j) /\ ~client[j.from].lost => j.live)'
      BY <3>1 DEF Current, Opened, IsExchange
    <3>3. \A i \in calls' : i = j \/ (i \in calls /\ i # k)
      BY <3>1
    <3> QED BY <2>1, <3>2, <3>3 DEF CallsOK
  <2> QED BY <2>2, <2>3
<1>8. FreshOK'
  <2>1. ASSUME NEW d \in Clients, client'[d].state # "active" PROVE Fresh(client'[d])
    BY <1>1, <1>2, <2>1 DEF FreshOK, Settled, Gone
  <2> QED BY <2>1 DEF FreshOK
<1> QED BY <1>4, <1>5, <1>6, <1>7, <1>8

\* As long as no two ExchangeKey() have overlapped, a new session replaces none.
LEMMA InsertedKnown ==
  ASSUME SessionInv, NEW k \in calls, Inserted(k)
  PROVE  /\ \A i : Known(i) => i \in DOMAIN clientMap' /\ clientMap'[i] # Nothing
         /\ ~overlapped => \A i : Known(i) => clientMap'[i] = clientMap[i]
<1>1. IdsNew /\ Typed /\ Entered(k) /\ k.step = "created"
  BY DEF SessionInv, Inserted
<1>2. ASSUME ~overlapped, NEW i, Known(i) PROVE i # k.id
  <2>1. i < nextPeerId /\ k.id = nextPeerId /\ nextPeerId \in Nat
    BY <1>1, <1>2, Fields DEF IdsNew, Known
  <2> QED BY <2>1
<1> QED BY <1>1, <1>2 DEF Entered, Known

\* The ids after the end of ExchangeKey().
LEMMA InsertedIdsKept ==
  ASSUME SessionInv, NEW k \in calls, Inserted(k)
  PROVE  IdsNew' /\ IdsKnown' /\ AdmittedOK'
<1>1. /\ Typed /\ IdsNew /\ IdsKnown /\ AdmittedOK /\ StepsOK /\ k.id \in Nat
      /\ nextPeerId \in Nat /\ k.from \in Clients
  BY Fields DEF SessionInv
<1>2. PICK j : Settled(k, j)
  BY SettledFacts
<1>3. /\ IsExchange(k) /\ server' = server /\ server = "up" /\ secure' = secure
      /\ overlapped' = overlapped /\ restarts' = restarts /\ k.step = "created"
      /\ Entered(k) /\ (k.id = nextPeerId => nextPeerId' = nextPeerId + 1)
      /\ k.live => client[k.from].token = k.token
  BY SettledFacts DEF Inserted
<1>4. \A i \in calls' : \/ i \in calls /\ i # k
                        \/ i.step = "sent" /\ i.id = k.id /\ i.token = k.token
  BY <1>2 DEF Settled
<1>5. IdsNew'
  <2>1. ASSUME ~overlapped
        PROVE  /\ k.id = nextPeerId /\ nextPeerId' = nextPeerId + 1
               /\ \A i \in calls' : i.step # "created"
    BY <1>1, <1>3, <1>4, <2>1 DEF IdsNew
  <2>2. ASSUME ~overlapped, NEW i \in DOMAIN clientMap', clientMap'[i] # Nothing
        PROVE  i < nextPeerId'
    <3>1. CASE i = k.id
      BY <1>1, <2>1, <2>2, <3>1
    <3>2. CASE i # k.id
      <4>1. i \in DOMAIN clientMap /\ clientMap[i] # Nothing
        BY <1>3, <2>2, <3>2 DEF Entered
      <4>2. i < nextPeerId /\ i \in Nat
        BY <1>1, <2>2, <4>1, TypedParts DEF IdsNew, MapTyped
      <4> QED BY <1>1, <2>1, <2>2, <4>2
    <3> QED BY <3>1, <3>2
  <2> QED BY <1>3, <2>1, <2>2 DEF IdsNew
<1>6. AdmittedOK'
  <2>1. ASSUME secure, ~overlapped, NEW i \in calls', i.step \in {"admitted", "writing"}
        PROVE  /\ i.id \in DOMAIN clientMap' /\ clientMap'[i.id] # Nothing
               /\ clientMap'[i.id].token = i.token
    <3>1. i \in calls
      BY <1>4, <2>1
    <3>2. IsOf(i.id, i.token)
      BY <1>1, <2>1, <3>1 DEF AdmittedOK
    <3> QED BY <2>1, <3>2, InsertedKnown DEF IsOf
  <2> QED BY <1>3, <2>1 DEF AdmittedOK, IsOf, Known
<1>7. IdsKnown'
  <2>1. ASSUME restarts = 0 PROVE server' # "crashed"
    BY <1>1, <1>3, <2>1 DEF IdsKnown
  <2>2. ASSUME restarts = 0
        PROVE  /\ \A i \in DOMAIN clientMap' : clientMap'[i] # Nothing
               /\ \A i \in calls' : ~IsExchange(i) =>
                      /\ i.id \in DOMAIN clientMap' /\ clientMap'[i.id] # Nothing
                      /\ ~overlapped => clientMap'[i.id].token = i.token
               /\ \A d \in Clients : client'[d].state \in {"configure", "active"} =>
                      /\ client'[d].id \in DOMAIN clientMap' /\ clientMap'[client'[d].id] # Nothing
                      /\ ~overlapped => clientMap'[client'[d].id].token = client'[d].token
    <3>1. /\ \A i \in DOMAIN clientMap : clientMap[i] # Nothing
          /\ \A i \in calls : ~IsExchange(i) => IsOf(i.id, i.token)
          /\ \A d \in Clients : Opened(d) => IsOf(client[d].id, client[d].token)
      BY <1>1, <1>3, <2>2 DEF IdsKnown
    <3>2. \A i \in DOMAIN clientMap' : clientMap'[i] # Nothing
      BY <1>3, <3>1 DEF Entered
    <3>3. ASSUME NEW i \in calls', ~IsExchange(i)
          PROVE  /\ i.id \in DOMAIN clientMap' /\ clientMap'[i.id] # Nothing
                 /\ ~overlapped => clientMap'[i.id].token = i.token
      <4>1. CASE i \in calls
        <5>1. IsOf(i.id, i.token)
          BY <3>1, <3>3, <4>1
        <5> QED BY <5>1, InsertedKnown DEF IsOf
      <4>2. CASE i.id = k.id /\ i.token = k.token
        BY <1>3, <4>2 DEF Entered
      <4> QED BY <1>4, <4>1, <4>2
    <3>4. ASSUME NEW d \in Clients, client'[d].state \in {"configure", "active"}
          PROVE  /\ client'[d].id \in DOMAIN clientMap' /\ clientMap'[client'[d].id] # Nothing
                 /\ ~overlapped => clientMap'[client'[d].id].token = client'[d].token
      <4>1. \/ client'[d] = client[d]
            \/ client'[d].id = k.id /\ client'[d].token = k.token
        BY <1>2, <3>4 DEF Settled, Gone
      <4>2. CASE client'[d] = client[d]
        <5>1. IsOf(client[d].id, client[d].token)
          BY <3>1, <3>4, <4>2 DEF Opened
        <5> QED BY <4>2, <5>1, InsertedKnown DEF IsOf
      <4>3. CASE client'[d].id = k.id /\ client'[d].token = k.token
        BY <1>3, <4>3 DEF Entered
      <4> QED BY <4>1, <4>2, <4>3
    <3> QED BY <3>2, <3>3, <3>4
  <2> QED BY <1>3, <2>1, <2>2 DEF IdsKnown, IsOf, Known, Opened
<1> QED BY <1>5, <1>6, <1>7

----------------------------------------------------------------------------
(* The nonces of two activations never meet.                               *)

\* The random numbers of two activations are further apart than their calls.
LEMMA RandomApart ==
  ASSUME NEW a \in Nat, NEW b \in Nat, a < b
  PROVE  GetRandom(a) + 2 * MaxCalls + 2 <= GetRandom(b)
<1> DEFINE d == 2 * MaxCalls + 2
           e == b - (a + 1)
<1>1. d \in Nat /\ e \in Nat /\ b = a + 1 + e
  BY BoundsAssumption
<1>2. \A x, y, z \in Nat : (x + 1 + y) * z = x * z + z + y * z /\ y * z \in Nat /\ x * z \in Nat
  OBVIOUS
<1>3. GetRandom(a) = a * d /\ GetRandom(b) = b * d
  BY DEF GetRandom
<1> HIDE DEF d, e
<1>4. b * d = a * d + d + e * d /\ e * d \in Nat /\ a * d \in Nat
  BY <1>1, <1>2
<1>5. GetRandom(a) + d <= GetRandom(b)
  BY <1>1, <1>3, <1>4
<1>6. MaxCalls \in Nat /\ GetRandom(a) \in Nat
  BY BoundsAssumption, RandomNat
<1> QED BY <1>5, <1>6 DEF d

\* A nonce tells the activation it belongs to.
LEMMA SameActivation ==
  ASSUME Typed, NEW s \in Nat, NEW t \in Nat, NEW n \in Nat, Within(s, n), Within(t, n)
  PROVE  s = t
<1>1. sent \in Nat /\ sent <= MaxCalls /\ MaxCalls \in Nat
  BY BoundsAssumption DEF Typed, TypeOK
<1>2. GetRandom(s) \in Nat /\ GetRandom(t) \in Nat
  BY RandomNat
<1>3. ASSUME s < t PROVE FALSE
  <2>1. GetRandom(s) + 2 * MaxCalls + 2 <= GetRandom(t)
    BY <1>3, RandomApart
  <2> QED BY <1>1, <1>2, <2>1 DEF Within
<1>4. ASSUME t < s PROVE FALSE
  <2>1. GetRandom(t) + 2 * MaxCalls + 2 <= GetRandom(s)
    BY <1>4, RandomApart
  <2> QED BY <1>1, <1>2, <2>1 DEF Within
<1> QED BY <1>3, <1>4

\* The ranges grow with the calls.
LEMMA Ranges ==
  ASSUME Typed, NEW t \in Nat, NEW n \in Nat
  PROVE  /\ Before(t, n) => Within(t, n)
         /\ Before(t, n) => GetRandom(t) <= n + 1 /\ n + 1 <= GetRandom(t) + 2 * sent + 1
         /\ sent' = sent \/ sent' = sent + 1 =>
                /\ Within(t, n) => GetRandom(t) <= n /\ n <= GetRandom(t) + 2 * sent' + 1
                /\ Before(t, n) => GetRandom(t) <= n /\ n <= GetRandom(t) + 2 * sent'
         /\ sent' = sent + 1 /\ Within(t, n) =>
                /\ n <= GetRandom(t) + 2 * sent'
                /\ GetRandom(t) <= n + 1 /\ n + 1 <= GetRandom(t) + 2 * sent'
         /\ GetRandom(t) <= GetRandom(t) + 2 * sent
         /\ GetRandom(t) + 1 <= GetRandom(t) + 2 * sent + 1
         /\ GetRandom(t) <= GetRandom(t) + 1
         /\ GetRandom(t) <= GetRandom(t) + 2 * sent + 1
<1>1. sent \in Nat /\ GetRandom(t) \in Nat
  BY RandomNat, Fields
<1> HIDE DEF GetRandom
<1> QED BY <1>1 DEF Before, Within

\* Quiet steps, and a server that goes down, move no nonce.
LEMMA QuietNoncesApart ==
  ASSUME SessionInv, NoncesApart, Quiet \/ Down
  PROVE  NoncesApart'
<1>1. /\ Typed /\ ClientsStay /\ secure' = secure /\ sent' = sent
  BY DEF SessionInv, Quiet, Down
<1>2. ASSUME secure, NEW c \in Clients, client'[c].state \in {"configure", "active"}
      PROVE  /\ GetRandom(client'[c].token) <= client'[c].nonce
             /\ client'[c].nonce <= GetRandom(client'[c].token) + 2 * sent + 1
  <2>1. Still(client[c], client'[c])
    BY <1>1, <1>2 DEF ClientsStay, Gone
  <2> QED BY <1>2, <2>1 DEF Still, NoncesApart, Opened, Within
<1>3. ASSUME secure, NEW j \in calls'
      PROVE  \E k \in calls : Aged(k, j)
  <2>1. CASE Quiet
    BY <1>1, <2>1, CallsFrom DEF Quiet
  <2>2. CASE Down
    BY <2>2 DEF Down
  <2> QED BY <2>1, <2>2
<1>4. ASSUME secure, NEW j \in calls'
      PROVE  /\ ~IsExchange(j) => Before(j.token, j.nonce)
             /\ j.live /\ j.op = "LoadModel" =>
                    /\ GetRandom(client'[j.from].token) <= client'[j.from].nonce
                    /\ client'[j.from].nonce <= GetRandom(client'[j.from].token) + 2 * sent
  <2>1. PICK k \in calls : Aged(k, j)
    BY <1>3, <1>4
  <2>2. /\ j.from = k.from /\ j.token = k.token /\ j.nonce = k.nonce /\ j.op = k.op
        /\ (j.live => k.live) /\ k.from \in Clients
    BY <1>1, <2>1, Fields DEF Aged
  <2>3. j.live => Still(client[j.from], client'[j.from])
    BY <1>1, <1>4, <2>2 DEF ClientsStay
  <2>4. ~IsExchange(j) => Before(j.token, j.nonce)
    BY <1>4, <2>2 DEF NoncesApart, IsExchange
  <2>5. j.live /\ j.op = "LoadModel" => Before(client[j.from].token, client[j.from].nonce)
    BY <1>4, <2>2 DEF NoncesApart
  <2> QED BY <2>3, <2>4, <2>5 DEF Still, Before
<1>5. ASSUME secure, NEW i \in DOMAIN clientMap', clientMap'[i] # Nothing
      PROVE  /\ GetRandom(clientMap'[i].token) <= clientMap'[i].nonce
             /\ clientMap'[i].nonce <= GetRandom(clientMap'[i].token) + 2 * sent + 1
  <2>1. MapKeeps
    BY <1>5 DEF Quiet, Down
  <2>2. /\ i \in DOMAIN clientMap /\ clientMap[i] # Nothing
        /\ clientMap'[i].token = clientMap[i].token /\ clientMap'[i].nonce = clientMap[i].nonce
    BY <1>5, <2>1, KnownKept DEF Known
  <2> QED BY <1>5, <2>2 DEF NoncesApart, Within
<1> QED BY <1>1, <1>2, <1>4, <1>5 DEF NoncesApart, Opened, Before, Within, IsExchange

\* A call takes the next nonce of its client.
LEMMA SentNoncesApart ==
  ASSUME SessionInv, NoncesApart, NewSent
  PROVE  NoncesApart'
<1>1. /\ Typed /\ secure' = secure /\ MapKeeps /\ sent \in Nat
  BY Fields DEF SessionInv, NewSent
<1>2. PICK c \in Clients, j \in calls' : SentBy(c, j)
  BY SentFacts
<1>3. sent' = sent \/ sent' = sent + 1
  BY <1>2 DEF SentBy
<1>4. client[c].token \in Nat /\ client[c].nonce \in Nat
  BY <1>1, Fields
<1>5. ASSUME secure
      PROVE  /\ Within(client[c].token, client[c].nonce)
             /\ sent' = sent => Before(client[c].token, client[c].nonce)
  <2>1. sent' = sent => \E k \in calls : k.live /\ k.from = c /\ k.op = "LoadModel"
    BY <1>1, <1>2 DEF SentBy, Arrived
  <2> QED BY <1>2, <1>5, <2>1 DEF SentBy, NoncesApart, Opened
<1>6. ASSUME secure
      PROVE  /\ GetRandom(client[c].token) <= client[c].nonce
             /\ client[c].nonce <= GetRandom(client[c].token) + 2 * sent'
             /\ GetRandom(client[c].token) <= client[c].nonce + 1
             /\ client[c].nonce + 1 <= GetRandom(client[c].token) + 2 * sent' + 1
             /\ sent' = sent + 1 =>
                    client[c].nonce + 1 <= GetRandom(client[c].token) + 2 * sent'
  <2> DEFINE t == client[c].token
             n == client[c].nonce
  <2>1. t \in Nat /\ n \in Nat /\ Within(t, n) /\ (sent' = sent => Before(t, n))
    BY <1>4, <1>5, <1>6
  <2>2. GetRandom(t) \in Nat
    BY <2>1, RandomNat
  <2> HIDE DEF t, n
  <2>3. /\ GetRandom(t) <= n
        /\ n <= GetRandom(t) + 2 * sent'
        /\ GetRandom(t) <= n + 1
        /\ n + 1 <= GetRandom(t) + 2 * sent' + 1
        /\ sent' = sent + 1 => n + 1 <= GetRandom(t) + 2 * sent'
    <3> HIDE DEF GetRandom
    <3>1. CASE sent' = sent
      BY <1>1, <2>1, <2>2, <3>1 DEF Before, Within
    <3>2. CASE sent' = sent + 1
      BY <1>1, <2>1, <2>2, <3>2 DEF Before, Within
    <3> QED BY <1>3, <3>1, <3>2
  <2> QED BY <2>3 DEF t, n
<1>7. ASSUME secure, NEW d \in Clients, client'[d].state \in {"configure", "active"}
      PROVE  /\ GetRandom(client'[d].token) <= client'[d].nonce
             /\ client'[d].nonce <= GetRandom(client'[d].token) + 2 * sent' + 1
  <2>1. CASE d = c
    BY <1>2, <1>6, <1>7, <2>1 DEF SentBy
  <2>2. CASE d # c
    <3>1. client'[d] = client[d] /\ client[d].token \in Nat /\ client[d].nonce \in Nat
      BY <1>1, <1>2, <2>2, Fields DEF SentBy
    <3>2. Within(client[d].token, client[d].nonce)
      BY <1>7, <3>1 DEF NoncesApart, Opened
    <3> QED BY <1>1, <1>3, <3>1, <3>2, Ranges
  <2> QED BY <2>1, <2>2
<1>8. ASSUME secure, NEW i \in calls', ~IsExchange(i)
      PROVE  GetRandom(i.token) <= i.nonce /\ i.nonce <= GetRandom(i.token) + 2 * sent'
  <2>1. CASE i = j
    BY <1>2, <1>6, <1>8, <2>1 DEF SentBy
  <2>2. CASE i # j
    <3>1. i \in calls /\ i.token \in Nat /\ i.nonce \in Nat
      BY <1>1, <1>2, <2>2, Fields DEF SentBy
    <3>2. Before(i.token, i.nonce)
      BY <1>8, <3>1 DEF NoncesApart
    <3> QED BY <1>1, <1>3, <3>1, <3>2, Ranges
  <2> QED BY <2>1, <2>2
<1>9. ASSUME secure, NEW i \in calls', i.live, i.op = "LoadModel"
      PROVE  /\ GetRandom(client'[i.from].token) <= client'[i.from].nonce
             /\ client'[i.from].nonce <= GetRandom(client'[i.from].token) + 2 * sent'
  <2>1. CASE i = j
    <3>1. /\ sent' = sent + 1 /\ i.from = c /\ client'[c].token = client[c].token
          /\ client'[c].nonce = client[c].nonce + 1
      BY <1>2, <1>9, <2>1 DEF SentBy
    <3> QED BY <1>6, <1>9, <3>1
  <2>2. CASE i # j
    <3>1. i \in calls /\ i.from # c
      BY <1>2, <1>9, <2>2 DEF SentBy
    <3>2. i.from \in Clients
      BY <1>1, <3>1, Fields
    <3> DEFINE r == client[i.from]
    <3>3. client'[i.from] = r /\ r.token \in Nat /\ r.nonce \in Nat
      BY <1>1, <1>2, <3>1, <3>2, Fields DEF SentBy
    <3>4. Before(r.token, r.nonce)
      BY <1>9, <3>1 DEF NoncesApart
    <3> HIDE DEF r
    <3> QED BY <1>1, <1>3, <3>3, <3>4, Ranges
  <2> QED BY <2>1, <2>2
<1>10. ASSUME secure, NEW i \in DOMAIN clientMap', clientMap'[i] # Nothing
       PROVE  /\ GetRandom(clientMap'[i].token) <= clientMap'[i].nonce
              /\ clientMap'[i].nonce <= GetRandom(clientMap'[i].token) + 2 * sent' + 1
  <2> DEFINE g == clientMap[i]
  <2>1. /\ i \in DOMAIN clientMap /\ g # Nothing
        /\ clientMap'[i].token = g.token /\ clientMap'[i].nonce = g.nonce
    BY <1>1, <1>10, KnownKept DEF Known
  <2>2. g.token \in Nat /\ g.nonce \in Nat /\ Within(g.token, g.nonce)
    BY <1>1, <1>10, <2>1, Fields DEF NoncesApart
  <2> HIDE DEF g
  <2> QED BY <1>1, <1>3, <2>1, <2>2, Ranges
<1> QED BY <1>1, <1>7, <1>8, <1>9, <1>10 DEF NoncesApart, Opened, Before, Within, IsExchange

\* The start of an activation moves no nonce.
LEMMA StartNoncesApart ==
  ASSUME SessionInv, NoncesApart, CallsOK',
         ServerActivate \/ (\E c \in Clients : Activate(c)) \/ (\E k \in calls : ExchangeCreate(k))
  PROVE  NoncesApart'
<1>1. CASE ServerActivate
  BY <1>1 DEF ServerActivate, NoncesApart, Opened, Within, Before, IsExchange
<1>2. CASE \E k \in calls : ExchangeCreate(k)
  <2>1. PICK k \in calls : ExchangeCreate(k)
    BY <1>2
  <2> DEFINE j == [k EXCEPT !.step = "created", !.id = nextPeerId]
  <2>2. k \in Calls
    BY Fields DEF SessionInv
  <2>3. /\ j.op = "ExchangeKey" /\ calls' = (calls \ {k}) \union {j}
        /\ UNCHANGED <<secure, clientMap, client, sent>>
    BY <2>1, <2>2 DEF ExchangeCreate, Done, Calls
  <2> HIDE DEF j
  <2> QED BY <2>3 DEF NoncesApart, Opened, Within, Before, IsExchange
<1>3. CASE \E c \in Clients : Activate(c)
  <2>1. PICK c \in Clients : Activate(c)
    BY <1>3
  <2>2. PICK j \in calls' :
         /\ client[c].state = "inactive" /\ client[c].token = 0
         /\ \A d \in Clients : d # c => client'[d] = client[d]
         /\ client'[c].state = "exchange" /\ client'[c].token = exchanges + 1
         /\ client'[c].told = client[c].told /\ client'[c].model = client[c].model
         /\ client'[c].cache = client[c].cache
         /\ calls' = calls \union {j}
         /\ j.from = c /\ j.token = exchanges + 1 /\ IsExchange(j) /\ j.live /\ j.step = "sent"
         /\ exchanges' = exchanges + 1
         /\ UNCHANGED <<secure, serverVars, sent>>
    BY <2>1, ActivateFacts
  <2>3. \A i \in calls' : i.live /\ i.op = "LoadModel" => i \in calls /\ i.from # c
    BY <2>2 DEF CallsOK, Current, IsExchange, Opened
  <2>4. /\ \A i \in calls' : ~IsExchange(i) => i \in calls
        /\ \A i \in calls : i.from \in Clients
        /\ \A d \in Clients : client'[d].state \in {"configure", "active"} => client'[d] = client[d]
    BY <2>2, Fields DEF SessionInv
  <2>5. secure' = secure /\ clientMap' = clientMap /\ sent' = sent
    BY <2>2 DEF serverVars
  <2>6. \A i \in calls' : i.live /\ i.op = "LoadModel" => client'[i.from] = client[i.from]
    BY <2>2, <2>3, <2>4
  <2> QED BY <2>3, <2>4, <2>5, <2>6 DEF NoncesApart, Opened, Within, Before, IsExchange
<1> QED BY <1>1, <1>2, <1>3

\* A session and its client start with the nonce of their activation.
LEMMA InsertedNoncesApart ==
  ASSUME SessionInv, NoncesApart, NEW k \in calls, Inserted(k)
  PROVE  NoncesApart'
<1>1. Typed /\ k.from \in Clients /\ k.token \in Nat
  BY Fields DEF SessionInv
<1>2. PICK j : Settled(k, j)
  BY SettledFacts
<1>3. /\ secure' = secure /\ sent' = sent /\ Entered(k)
      /\ k.live => \A i \in calls : i # k /\ i.from = k.from => ~i.live
  BY SettledFacts DEF Inserted
<1>4. /\ GetRandom(k.token) <= GetRandom(k.token) + 2 * sent
      /\ GetRandom(k.token) + 1 <= GetRandom(k.token) + 2 * sent + 1
      /\ GetRandom(k.token) <= GetRandom(k.token) + 1
      /\ GetRandom(k.token) <= GetRandom(k.token) + 2 * sent + 1
      /\ GetRandom(k.token) <= GetRandom(k.token)
  <2>1. GetRandom(k.token) <= GetRandom(k.token)
    BY <1>1, RandomNat
  <2> QED BY <1>1, <2>1, Ranges
<1>5. ASSUME secure, NEW d \in Clients, client'[d].state \in {"configure", "active"}
      PROVE  /\ GetRandom(client'[d].token) <= client'[d].nonce
             /\ client'[d].nonce <= GetRandom(client'[d].token) + 2 * sent + 1
  <2>1. \/ client'[d] = client[d]
        \/ /\ client'[d].token = k.token
           /\ \/ client'[d].nonce = GetRandom(k.token)
              \/ client'[d].nonce = GetRandom(k.token) + 1
    BY <1>2, <1>5 DEF Settled, Gone
  <2>2. CASE client'[d] = client[d]
    BY <1>5, <2>2 DEF NoncesApart, Opened, Within
  <2>3. CASE client'[d] # client[d]
    BY <1>4, <2>1, <2>3
  <2> QED BY <2>2, <2>3
<1>6. ASSUME secure, NEW i \in calls'
      PROVE  /\ ~IsExchange(i) => Before(i.token, i.nonce)
             /\ i.live /\ i.op = "LoadModel" =>
                    /\ GetRandom(client'[i.from].token) <= client'[i.from].nonce
                    /\ client'[i.from].nonce <= GetRandom(client'[i.from].token) + 2 * sent
  <2>1. \/ i \in calls /\ i # k
        \/ i.token = k.token /\ i.nonce = GetRandom(k.token) /\ i.op = "Configure"
    BY <1>2, <1>6 DEF Settled
  <2>2. CASE i \in calls /\ i # k
    <3>1. ~IsExchange(i) => Before(i.token, i.nonce)
      BY <1>6, <2>2 DEF NoncesApart
    <3>2. i.live => client'[i.from] = client[i.from]
      <4>1. i.from \in Clients
        BY <1>1, <2>2, Fields
      <4> QED BY <1>2, <1>3, <2>2, <4>1 DEF Settled
    <3>3. i.live /\ i.op = "LoadModel" => Before(client[i.from].token, client[i.from].nonce)
      BY <1>6, <2>2 DEF NoncesApart
    <3> QED BY <3>1, <3>2, <3>3 DEF Before
  <2>3. CASE i.token = k.token /\ i.nonce = GetRandom(k.token) /\ i.op = "Configure"
    BY <1>4, <2>3 DEF Before
  <2> QED BY <2>1, <2>2, <2>3
<1>7. ASSUME secure, NEW i \in DOMAIN clientMap', clientMap'[i] # Nothing
      PROVE  /\ GetRandom(clientMap'[i].token) <= clientMap'[i].nonce
             /\ clientMap'[i].nonce <= GetRandom(clientMap'[i].token) + 2 * sent + 1
  <2>1. CASE i = k.id
    BY <1>3, <1>4, <1>7, <2>1 DEF Entered
  <2>2. CASE i # k.id
    <3>1. i \in DOMAIN clientMap /\ clientMap'[i] = clientMap[i]
      BY <1>3, <2>2 DEF Entered
    <3> QED BY <1>7, <3>1 DEF NoncesApart, Within
  <2> QED BY <2>1, <2>2
<1> QED BY <1>3, <1>5, <1>6, <1>7 DEF NoncesApart, Opened, Before, Within, IsExchange

----------------------------------------------------------------------------
(* Auth::Process() lets a call through.                                    *)

\* What it changes: the session's nonce and the call's step.
AuthDone(k, j) ==
    /\ secure /\ server = "up" /\ ~IsExchange(k) /\ k.step = "sent"
    /\ Known(k.id) /\ clientMap[k.id].nonce = k.nonce
    /\ clientMap[k.id].token = k.token
    /\ calls' = (calls \ {k}) \union {j}
    /\ j.from = k.from /\ j.token = k.token /\ j.op = k.op /\ j.arg = k.arg /\ j.id = k.id
    /\ j.nonce = k.nonce /\ j.live = k.live /\ j.step = "admitted"
    /\ DOMAIN clientMap' = DOMAIN clientMap
    /\ \A i \in DOMAIN clientMap : i # k.id => clientMap'[i] = clientMap[i]
    /\ clientMap'[k.id] # Nothing
    /\ clientMap'[k.id].nonce = k.nonce + 1
    /\ clientMap'[k.id].token = clientMap[k.id].token
    /\ clientMap'[k.id].conf = clientMap[k.id].conf
    /\ clientMap'[k.id].path = clientMap[k.id].path
    /\ clientMap'[k.id].info = clientMap[k.id].info
    /\ UNCHANGED <<secure, server, nextPeerId, files, client, exchanges, sent, restarts,
                   overlapped, overtaken, trespass>>

\* The session whose nonce the call has is that of its own activation.
LEMMA AuthFacts ==
  ASSUME SessionInv, NoncesApart, NEW k \in calls, AuthProcess(k)
  PROVE  \E j : AuthDone(k, j)
<1> DEFINE j == [k EXCEPT !.step = "admitted"]
           g == clientMap[k.id]
<1>1. Typed /\ k \in Calls /\ k.nonce \in Nat /\ k.token \in Nat
  BY Fields DEF SessionInv
<1>2. /\ secure /\ server = "up" /\ ~IsExchange(k) /\ k.step = "sent"
      /\ Known(k.id) /\ g.nonce = k.nonce /\ k.id \in DOMAIN clientMap /\ g # Nothing
      /\ calls' = (calls \ {k}) \union {j}
      /\ UNCHANGED <<secure, server, nextPeerId, files, client, exchanges, sent, restarts,
                     overlapped, overtaken, trespass>>
  BY DEF AuthProcess, Admits, Known, Done, IsExchange
<1>3. /\ DOMAIN clientMap' = DOMAIN clientMap
      /\ \A i \in DOMAIN clientMap : i # k.id => clientMap'[i] = clientMap[i]
      /\ clientMap'[k.id] # Nothing
      /\ clientMap'[k.id].nonce = k.nonce + 1
      /\ clientMap'[k.id].token = clientMap[k.id].token
      /\ clientMap'[k.id].conf = clientMap[k.id].conf
      /\ clientMap'[k.id].path = clientMap[k.id].path
      /\ clientMap'[k.id].info = clientMap[k.id].info
  BY AuthProcessTyped
<1>4. g.token = k.token
  <2> DEFINE t == g.token
             n == k.nonce
  <2>1. t \in Nat /\ n \in Nat /\ Within(t, n)
    BY <1>1, <1>2, Fields DEF NoncesApart
  <2>2. Within(k.token, n)
    BY <1>1, <1>2, Ranges DEF NoncesApart
  <2> HIDE DEF t, n
  <2>3. t = k.token
    BY <1>1, <2>1, <2>2, SameActivation
  <2> QED BY <2>3 DEF t
<1>5. /\ j.from = k.from /\ j.token = k.token /\ j.op = k.op /\ j.arg = k.arg /\ j.id = k.id
      /\ j.nonce = k.nonce /\ j.live = k.live /\ j.step = "admitted"
  BY <1>1 DEF Calls
<1> HIDE DEF j
<1>6. AuthDone(k, j)
  BY <1>2, <1>3, <1>4, <1>5 DEF AuthDone
<1> QED BY <1>6

\* The call is let through to its own session.
LEMMA AuthKept ==
  ASSUME SessionInv, NoncesApart, NEW k \in calls, AuthProcess(k)
  PROVE  /\ StepsOK' /\ TokensOK' /\ OneLive' /\ CallsOK'
         /\ FreshOK' /\ IdsNew' /\ IdsKnown' /\ AdmittedOK'
<1>1. /\ Typed /\ StepsOK /\ TokensOK /\ OneLive /\ CallsOK /\ FreshOK
      /\ IdsNew /\ IdsKnown /\ AdmittedOK
  BY DEF SessionInv
<1>2. PICK j : AuthDone(k, j)
  BY AuthFacts
<1>3. /\ \A i \in calls' : (i \in calls /\ i # k) \/ i = j
      /\ secure' = secure /\ server' = server /\ nextPeerId' = nextPeerId /\ client' = client
      /\ exchanges' = exchanges /\ restarts' = restarts /\ overlapped' = overlapped
      /\ server = "up" /\ secure
  BY <1>2 DEF AuthDone
<1>4. \A i : Known(i) => /\ i \in DOMAIN clientMap' /\ clientMap'[i] # Nothing
                         /\ clientMap'[i].token = clientMap[i].token
  BY <1>2 DEF AuthDone, Known
<1>5. \A i \in DOMAIN clientMap' :
         clientMap'[i] # Nothing => i \in DOMAIN clientMap /\ clientMap[i] # Nothing
  BY <1>2 DEF AuthDone, Known
<1>6. /\ j.from = k.from /\ j.token = k.token /\ j.op = k.op /\ j.id = k.id /\ j.live = k.live
      /\ j.step = "admitted" /\ ~IsExchange(k)
  BY <1>2 DEF AuthDone
<1>7. StepsOK' /\ TokensOK' /\ OneLive' /\ FreshOK'
  <2>1. StepsOK'
    BY <1>3, <1>1, <1>6 DEF StepsOK, IsExchange
  <2>2. TokensOK'
    BY <1>3, <1>1, <1>6 DEF TokensOK
  <2>3. OneLive'
    BY <1>3, <1>1, <1>6 DEF OneLive
  <2> QED BY <1>1, <1>3, <2>1, <2>2, <2>3 DEF FreshOK
<1>8. CallsOK'
  BY <1>1, <1>3, <1>6 DEF CallsOK, Current, Opened, IsExchange
<1>9. IdsNew'
  BY <1>1, <1>3, <1>5, <1>6 DEF IdsNew
<1>10. AdmittedOK'
  <2>1. ASSUME ~overlapped, NEW i \in calls', i.step \in {"admitted", "writing"}
        PROVE  /\ i.id \in DOMAIN clientMap' /\ clientMap'[i.id] # Nothing
               /\ clientMap'[i.id].token = i.token
    <3>1. Known(i.id) /\ clientMap[i.id].token = i.token
      <4>1. CASE i = j
        BY <1>2, <4>1 DEF AuthDone
      <4>2. CASE i \in calls
        BY <1>1, <1>3, <2>1, <4>2 DEF AdmittedOK, IsOf
      <4> QED BY <1>3, <4>1, <4>2
    <3> QED BY <1>4, <3>1
  <2> QED BY <1>3, <2>1 DEF AdmittedOK, IsOf, Known
<1>11. IdsKnown'
  <2>1. ASSUME restarts = 0
        PROVE  /\ server' # "crashed"
               /\ \A i \in DOMAIN clientMap' : clientMap'[i] # Nothing
               /\ \A i \in calls' : ~IsExchange(i) =>
                      /\ i.id \in DOMAIN clientMap' /\ clientMap'[i.id] # Nothing
                      /\ ~overlapped => clientMap'[i.id].token = i.token
               /\ \A d \in Clients : client[d].state \in {"configure", "active"} =>
                      /\ client[d].id \in DOMAIN clientMap' /\ clientMap'[client[d].id] # Nothing
                      /\ ~overlapped => clientMap'[client[d].id].token = client[d].token
    <3>1. /\ \A i \in DOMAIN clientMap : clientMap[i] # Nothing
          /\ \A i \in calls : ~IsExchange(i) => IsOf(i.id, i.token)
          /\ \A d \in Clients : Opened(d) => IsOf(client[d].id, client[d].token)
      BY <1>1, <1>3, <2>1 DEF IdsKnown
    <3>2. \A i \in DOMAIN clientMap' : clientMap'[i] # Nothing
      BY <1>2, <3>1 DEF AuthDone
    <3>3. ASSUME NEW i \in calls', ~IsExchange(i)
          PROVE  /\ i.id \in DOMAIN clientMap' /\ clientMap'[i.id] # Nothing
                 /\ ~overlapped => clientMap'[i.id].token = i.token
      <4>1. IsOf(i.id, i.token)
        BY <1>3, <1>6, <3>1, <3>3
      <4> QED BY <1>4, <4>1 DEF IsOf
    <3>4. ASSUME NEW d \in Clients, client[d].state \in {"configure", "active"}
          PROVE  /\ client[d].id \in DOMAIN clientMap' /\ clientMap'[client[d].id] # Nothing
                 /\ ~overlapped => clientMap'[client[d].id].token = client[d].token
      <4>1. IsOf(client[d].id, client[d].token)
        BY <3>1, <3>4 DEF Opened
      <4> QED BY <1>4, <4>1 DEF IsOf
    <3> QED BY <1>3, <3>2, <3>3, <3>4
  <2> QED BY <1>3, <2>1 DEF IdsKnown, IsOf, Known, Opened
<1> QED BY <1>7, <1>8, <1>9, <1>10, <1>11

\* The session's nonce has moved on within its range.
LEMMA AuthNoncesApart ==
  ASSUME SessionInv, NoncesApart, NEW k \in calls, AuthProcess(k)
  PROVE  NoncesApart'
<1>1. Typed /\ k.token \in Nat /\ k.nonce \in Nat
  BY Fields DEF SessionInv
<1>2. PICK j : AuthDone(k, j)
  BY AuthFacts
<1>3. /\ \A i \in calls' : (i \in calls /\ i # k) \/ i = j
      /\ secure' = secure /\ sent' = sent /\ client' = client
      /\ j.from = k.from /\ j.token = k.token /\ j.op = k.op /\ j.nonce = k.nonce
      /\ j.live = k.live /\ secure /\ ~IsExchange(k)
  BY <1>2 DEF AuthDone
<1>4. /\ GetRandom(k.token) <= k.nonce + 1
      /\ k.nonce + 1 <= GetRandom(k.token) + 2 * sent + 1
  BY <1>1, <1>3, Ranges DEF NoncesApart
<1>5. ASSUME NEW i \in DOMAIN clientMap', clientMap'[i] # Nothing
      PROVE  /\ GetRandom(clientMap'[i].token) <= clientMap'[i].nonce
             /\ clientMap'[i].nonce <= GetRandom(clientMap'[i].token) + 2 * sent + 1
  <2>1. CASE i = k.id
    BY <1>2, <1>4, <2>1 DEF AuthDone
  <2>2. CASE i # k.id
    BY <1>2, <1>3, <1>5, <2>2 DEF AuthDone, NoncesApart, Within
  <2> QED BY <2>1, <2>2
<1> QED BY <1>3, <1>5 DEF NoncesApart, Opened, Before, Within, IsExchange

----------------------------------------------------------------------------
(* A session is looked up by a call of its own activation.                 *)

\* Only a handler's own lookup can meet another activation's session, or come before
\* that of an older call.
LEMMA Lookup ==
  ASSUME Next
  PROVE  \/ trespass' = trespass /\ overtaken' = overtaken
         \/ \E k \in calls, op \in Ops \ {"ExchangeKey"} : Begin(k, op)
<1>1. CASE \/ \E c \in Clients : SetInfo(c) \/ Activate(c) \/ Deactivate(c)
           \/ \E c \in Clients, conf \in Configs : ReserveConfigure(c, conf)
  BY <1>1 DEF SetInfo, Activate, Deactivate, ReserveConfigure, serverVars
<1>2. CASE \/ \E c \in Clients, conf \in Configs : Configure(c, conf)
           \/ \E c \in Clients, m \in Models : LoadModel(c, m)
           \/ \E c \in Clients : GetInputTensorInfo(c) \/ GetOutputTensorInfo(c)
           \/ \E c \in Clients, m \in Models : SetInputTensorInfo(c, m)
           \/ \E c \in Clients, m \in Models : SetOutputTensorInfo(c, m)
           \/ \E c \in Clients : Prepare(c) \/ Stop(c) \/ GetInfo(c)
  <2>1. \E c \in Clients : \E op, arg : Send(c, op, arg)
    BY <1>2 DEF Configure, LoadModel, GetInputTensorInfo, GetOutputTensorInfo,
                SetInputTensorInfo, SetOutputTensorInfo, Prepare, Stop, GetInfo
  <2> QED BY <2>1 DEF Send, serverVars
<1>3. CASE \E k \in calls : \/ Lose(k) \/ UploadCancelled(k) \/ ExchangeCreate(k)
                            \/ ExchangeRefused(k) \/ ExchangeInsert(k) \/ AuthProcess(k)
                            \/ AuthRefuses(k) \/ UseMissingSession(k)
  BY <1>3 DEF Lose, UploadCancelled, ExchangeCreate, ExchangeRefused, ExchangeInsert, AuthProcess,
              AuthRefuses, UseMissingSession, serverVars
<1>4. CASE \E k \in calls : \/ HandleConfigure(k) \/ HandleLoadModel(k) \/ UploadOpen(k)
                            \/ UploadNotOpened(k) \/ HandlePrepare(k) \/ HandleStop(k)
  BY <1>4 DEF HandleConfigure, HandleLoadModel, UploadOpen, UploadNotOpened, HandlePrepare,
              HandleStop, Ops
<1>5. CASE \E k \in calls : \/ HandleGetInputTensorInfo(k) \/ HandleGetOutputTensorInfo(k)
                            \/ HandleSetInputTensorInfo(k) \/ HandleSetOutputTensorInfo(k)
  BY <1>5 DEF HandleGetInputTensorInfo, HandleGetOutputTensorInfo,
              HandleSetInputTensorInfo, HandleSetOutputTensorInfo, Ops
<1>6. CASE \E k \in calls : UploadClose(k) \/ HandleGetInfo(k)
  BY <1>6 DEF UploadClose, HandleGetInfo, serverVars
<1>7. CASE ServerDeactivate \/ ServerActivate
  BY <1>7 DEF ServerDeactivate, ServerActivate
<1> QED BY <1>1, <1>2, <1>3, <1>4, <1>5, <1>6, <1>7 DEF Next

\* The call a handler runs for has the session of its activation, but for what
\* Isolation allows.
LEMMA BeginOwn ==
  ASSUME SessionInv, NEW k \in calls, NEW op, op # "ExchangeKey", Begin(k, op),
         clientMap[k.id].token # k.token
  PROVE  overlapped \/ (~secure /\ restarts > 0)
<1>1. Typed /\ IdsKnown /\ AdmittedOK /\ restarts \in Nat
  BY Fields DEF SessionInv
<1>2. /\ server = "up" /\ k.op = op /\ (secure => k.step = "admitted")
  BY <1>1, BeginFacts
<1>3. CASE secure
  BY <1>1, <1>2, <1>3 DEF AdmittedOK, IsOf
<1>4. CASE ~secure
  <2>1. restarts = 0 => IsOf(k.id, k.token)
    BY <1>1, <1>2 DEF IdsKnown, IsExchange
  <2> QED BY <1>1, <1>4, <2>1 DEF IsOf
<1> QED BY <1>3, <1>4

\* Overlaps and restarts are not forgotten.
LEMMA HistoryKept ==
  ASSUME SessionInv, Next
  PROVE  /\ secure' = secure /\ (overlapped => overlapped') /\ (restarts > 0 => restarts' > 0)
<1>1. restarts \in Nat
  BY Fields DEF SessionInv
<1>2. CASE Quiet \/ NewSent \/ Down
  BY <1>2 DEF Quiet, NewSent, Down
<1>3. CASE ServerActivate
  BY <1>1, <1>3 DEF ServerActivate
<1>4. CASE \E c \in Clients : Activate(c)
  BY <1>4 DEF Activate, serverVars
<1>5. CASE \E k \in calls : ExchangeCreate(k)
  BY <1>5 DEF ExchangeCreate
<1>6. CASE \E k \in calls : Inserted(k)
  BY <1>6 DEF Inserted
<1>7. CASE \E k \in calls : AuthProcess(k)
  BY <1>7 DEF AuthProcess
<1> QED BY <1>2, <1>3, <1>4, <1>5, <1>6, <1>7, StepKinds

\* Isolation is kept.
LEMMA IsolationKept ==
  ASSUME SessionInv, Next
  PROVE  Isolation'
<1>1. Isolation
  BY DEF SessionInv
<1>2. CASE trespass' = trespass
  BY <1>1, <1>2, HistoryKept DEF Isolation
<1>3. CASE \E k \in calls, op \in Ops \ {"ExchangeKey"} : Begin(k, op)
  <2>1. PICK k \in calls, op \in Ops \ {"ExchangeKey"} : Begin(k, op)
    BY <1>3
  <2>2. trespass' => trespass \/ clientMap[k.id].token # k.token
    BY <2>1 DEF Begin
  <2>3. trespass' => overlapped \/ (~secure /\ restarts > 0)
    BY <1>1, <2>1, <2>2, BeginOwn DEF Isolation
  <2> QED BY <2>3, HistoryKept DEF Isolation
<1> QED BY <1>2, <1>3, Lookup

\* The invariant holds initially: no calls, no sessions, no activations.
LEMMA IsolationStart ==
  ASSUME Init
  PROVE  IsolationInv
<1>1. PICK conf \in Configs \union {Nothing} : client = [c \in Clients |-> NewClient(conf)]
  BY DEF Init
<1>2. NewClient(conf) \in ClientStates
  BY DEF NewClient, ClientStates, Maybe, NoInfo
<1>3. \A c \in Clients : client[c] = NewClient(conf)
  BY <1>1
<1>4. /\ secure \in BOOLEAN /\ server = "up" /\ nextPeerId = 0 /\ DOMAIN clientMap = {}
      /\ clientMap = <<>> /\ files = {} /\ calls = {} /\ exchanges = 0 /\ sent = 0 /\ restarts = 0
      /\ overlapped = FALSE /\ overtaken = FALSE /\ trespass = FALSE
  BY DEF Init
<1>5. Typed
  <2>1. ClientsTyped
    BY <1>1, <1>2 DEF ClientsTyped
  <2>2. MapTyped
    <3>1. clientMap = [i \in {} |-> Nothing]
      BY <1>4
    <3> QED BY <1>4, <3>1 DEF MapTyped
  <2>3. CallsTyped
    BY <1>4 DEF CallsTyped
  <2>4. sent \in 0..MaxCalls
    BY <1>4, BoundsAssumption
  <2>5. RestTyped
    BY <1>4, <2>4 DEF RestTyped
  <2> QED BY <2>1, <2>2, <2>3, <2>5, TypedParts
<1>6. \A c \in Clients : client[c].state = "inactive" /\ client[c].token = 0 /\ Fresh(client[c])
  BY <1>3 DEF NewClient, Fresh
<1>7. StepsOK /\ OneLive /\ CallsOK /\ FreshOK /\ IdsNew /\ AdmittedOK /\ Isolation
  BY <1>4, <1>6 DEF StepsOK, OneLive, CallsOK, FreshOK, IdsNew, AdmittedOK, Isolation
<1>8. TokensOK
  BY <1>4, <1>6 DEF TokensOK
<1>9. IdsKnown /\ NoncesApart
  BY <1>4, <1>6 DEF IdsKnown, NoncesApart, Opened
<1> QED BY <1>5, <1>7, <1>8, <1>9 DEF IsolationInv, SessionInv

\* Every step keeps it.
LEMMA IsolationStep ==
  ASSUME IsolationInv, [Next]_vars
  PROVE  IsolationInv'
<1>1. SessionInv /\ NoncesApart
  BY DEF IsolationInv
<1>2. Isolation'
  <2>1. CASE Next
    BY <1>1, <2>1, IsolationKept
  <2>2. CASE UNCHANGED vars
    BY <1>1, <2>2 DEF vars, SessionInv, Isolation
  <2> QED BY <2>1, <2>2
<1>3. /\ Typed'
      /\ \/ Quiet \/ NewSent \/ Down \/ ServerActivate
         \/ \E c \in Clients : Activate(c)
         \/ \E k \in calls : ExchangeCreate(k) \/ Inserted(k) \/ AuthProcess(k)
  BY <1>1, StepKinds, Stutter
<1>4. CASE Quiet
  BY <1>1, <1>2, <1>3, <1>4, QuietStepsOK, QuietTokensOK, QuietOneLive, QuietCallsOK, QuietFreshOK,
     QuietIdsNew, QuietIdsKnown, QuietAdmittedOK, QuietNoncesApart
     DEF IsolationInv, SessionInv, Quiet
<1>5. CASE NewSent
  BY <1>1, <1>2, <1>3, <1>5, SentCallsKept, SentIdsKept, SentNoncesApart DEF IsolationInv, SessionInv
<1>6. CASE Down
  BY <1>1, <1>2, <1>3, <1>6, DownKept, QuietNoncesApart DEF IsolationInv, SessionInv
<1>7. CASE ServerActivate
  BY <1>1, <1>2, <1>3, <1>7, ServerActivateKept, StartNoncesApart DEF IsolationInv, SessionInv
<1>8. CASE \E c \in Clients : Activate(c)
  BY <1>1, <1>2, <1>3, <1>8, ActivateKept, StartNoncesApart DEF IsolationInv, SessionInv
<1>9. CASE \E k \in calls : ExchangeCreate(k)
  BY <1>1, <1>2, <1>3, <1>9, ExchangeCreateKept, StartNoncesApart DEF IsolationInv, SessionInv
<1>10. CASE \E k \in calls : Inserted(k)
  BY <1>1, <1>2, <1>3, <1>10, InsertedCallsKept, InsertedIdsKept, InsertedNoncesApart
     DEF IsolationInv, SessionInv
<1>11. CASE \E k \in calls : AuthProcess(k)
  BY <1>1, <1>2, <1>3, <1>11, AuthKept, AuthNoncesApart DEF IsolationInv, SessionInv
<1> QED BY <1>3, <1>4, <1>5, <1>6, <1>7, <1>8, <1>9, <1>10, <1>11

\* The invariant of the sessions.
THEOREM SessionInvariant == Spec => []IsolationInv
<1>1. Init => IsolationInv
  BY IsolationStart
<1>2. IsolationInv /\ [Next]_vars => IsolationInv'
  BY IsolationStep
<1> QED BY <1>1, <1>2, PTL DEF Spec

\* The values of the variables.
THEOREM SessionTypeCorrect == Spec => []TypeOK
<1>1. IsolationInv => TypeOK
  BY DEF IsolationInv, SessionInv, Typed
<1> QED BY <1>1, SessionInvariant, PTL

\* No handler runs in a session that another activation has made, unless two
\* ExchangeKey() calls have overlapped or, without nonces, the server was
\* restarted (peer_grpc_server.cc:239).
THEOREM IsolationHolds == Spec => []Isolation
<1>1. IsolationInv => Isolation
  BY DEF IsolationInv, SessionInv
<1> QED BY <1>1, SessionInvariant, PTL

\* Only a server that was restarted can be asked for a session it does not have
\* (peer_grpc_server.cc:163).
THEOREM CrashNeedsRestartHolds == Spec => []CrashNeedsRestart
<1>1. IsolationInv => CrashNeedsRestart
  <2>1. IsolationInv => Typed /\ IdsKnown /\ restarts \in Nat
    BY Fields DEF IsolationInv, SessionInv
  <2> QED BY <2>1 DEF IdsKnown, CrashNeedsRestart
<1> QED BY <1>1, SessionInvariant, PTL

----------------------------------------------------------------------------
(* The nonces of calls follow that of their client.                        *)

\* A call that is current after a quiet step was so before.
LEMMA CurrentBefore ==
  ASSUME SessionInv, Quiet, NEW k \in calls, NEW j, Aged(k, j), client'[k.from].token = k.token
  PROVE  Current(k) /\ Still(client[k.from], client'[k.from])
<1>1. Typed /\ TokensOK /\ ClientsStay /\ k.from \in Clients /\ k.token \in Nat
  BY Fields DEF SessionInv, Quiet
<1>2. k.token # 0
  BY <1>1 DEF TokensOK
<1> QED BY <1>1, <1>2 DEF ClientsStay, Gone, Still, Current

\* Quiet steps keep the order of the calls.
LEMMA QuietCallNonces ==
  ASSUME NonceInv, Quiet
  PROVE  ExchangeAlone' /\ CallNonces'
<1>1. /\ SessionInv /\ Typed /\ ExchangeAlone /\ CallNonces /\ CallsAge /\ secure' = secure
  BY DEF NonceInv, IsolationInv, SessionInv, Quiet
<1>2. ExchangeAlone'
  <2>1. ASSUME NEW i \in calls', NEW j \in calls', IsExchange(j), i.token = j.token, i # j
        PROVE  FALSE
    BY <1>1, <2>1, CallsApart DEF Aged, ExchangeAlone, IsExchange
  <2> QED BY <2>1 DEF ExchangeAlone, IsExchange
<1>3. ASSUME secure, NEW j \in calls', client'[j.from].token = j.token, ~IsExchange(j)
      PROVE  /\ j.nonce < client'[j.from].nonce
             /\ j.live => client'[j.from].nonce = j.nonce + 1
  <2>1. PICK k \in calls : Aged(k, j)
    BY <1>1, CallsFrom
  <2>2. /\ j.from = k.from /\ j.token = k.token /\ j.nonce = k.nonce /\ j.op = k.op
        /\ (j.live => k.live)
    BY <2>1 DEF Aged
  <2>3. Current(k) /\ Still(client[k.from], client'[k.from])
    BY <1>1, <1>3, <2>1, <2>2, CurrentBefore
  <2> QED BY <1>1, <1>3, <2>2, <2>3 DEF CallNonces, Still, IsExchange
<1>4. ASSUME secure, NEW i \in calls', NEW j \in calls', client'[i.from].token = i.token,
             client'[j.from].token = j.token, i.from = j.from, ~IsExchange(i), ~IsExchange(j),
             j.live, i # j
      PROVE  i.nonce < j.nonce
  <2>1. PICK k, l \in calls : k # l /\ Aged(k, i) /\ Aged(l, j)
    BY <1>1, <1>4, CallsApart
  <2>2. /\ i.from = k.from /\ i.token = k.token /\ i.nonce = k.nonce /\ i.op = k.op
        /\ j.from = l.from /\ j.token = l.token /\ j.nonce = l.nonce /\ j.op = l.op
        /\ l.live
    BY <1>4, <2>1 DEF Aged
  <2>3. Current(k) /\ Current(l)
    BY <1>1, <1>4, <2>1, <2>2, CurrentBefore
  <2> QED BY <1>1, <1>4, <2>1, <2>2, <2>3 DEF CallNonces, IsExchange
<1> QED BY <1>1, <1>2, <1>3, <1>4 DEF CallNonces, Current, IsExchange

\* The call that is sent is the last of its activation.
LEMMA SentCallNonces ==
  ASSUME NonceInv, NewSent
  PROVE  ExchangeAlone' /\ CallNonces'
<1>1. /\ SessionInv /\ Typed /\ ExchangeAlone /\ CallNonces /\ secure' = secure
      /\ TokensOK /\ CallsOK
  BY DEF NonceInv, IsolationInv, SessionInv, NewSent
<1>2. PICK c \in Clients, j \in calls' : SentBy(c, j)
  BY <1>1, SentFacts
<1>3. /\ \A i \in calls' : i = j \/ (i \in calls /\ ~(i.live /\ i.from = c))
      /\ \A i \in calls : i.from \in Clients /\ i.nonce \in Nat
      /\ client[c].nonce \in Nat
  BY <1>1, <1>2, Fields DEF SentBy
<1>4. ExchangeAlone'
  <2>1. ASSUME NEW i \in calls, IsExchange(i), i.token = j.token
        PROVE  FALSE
    <3>1. i.from = c /\ Current(i)
      BY <1>1, <1>2, <2>1 DEF TokensOK, SentBy, Current
    <3> QED BY <1>1, <1>2, <2>1, <3>1 DEF CallsOK, SentBy
  <2>2. ~IsExchange(j)
    BY <1>2 DEF SentBy, IsExchange
  <2> QED BY <1>1, <1>3, <2>1, <2>2 DEF ExchangeAlone, IsExchange
<1>5. ASSUME secure, NEW i \in calls, client'[i.from].token = i.token, ~IsExchange(i)
      PROVE  /\ Current(i) /\ i.nonce < client[i.from].nonce
             /\ i.live => client[i.from].nonce = i.nonce + 1
  <2>1. client'[i.from].token = client[i.from].token
    BY <1>2, <1>3 DEF SentBy
  <2> QED BY <1>1, <1>5, <2>1 DEF CallNonces, Current
<1>6. ASSUME secure, NEW i \in calls', client'[i.from].token = i.token, ~IsExchange(i)
      PROVE  /\ i.nonce < client'[i.from].nonce
             /\ i.live => client'[i.from].nonce = i.nonce + 1
  <2>1. CASE i = j
    BY <1>2, <1>3, <1>6, <2>1 DEF SentBy
  <2>2. CASE i # j /\ i.from = c
    <3>1. i \in calls /\ ~i.live /\ i.nonce < client[c].nonce /\ client'[c].nonce = client[c].nonce + 1
      BY <1>2, <1>3, <1>5, <1>6, <2>2 DEF SentBy
    <3> QED BY <1>3, <2>2, <3>1
  <2>3. CASE i # j /\ i.from # c
    <3>1. i \in calls /\ client'[i.from] = client[i.from]
      BY <1>2, <1>3, <2>3 DEF SentBy
    <3> QED BY <1>5, <1>6, <3>1
  <2> QED BY <2>1, <2>2, <2>3
<1>7. ASSUME secure, NEW i \in calls', NEW k \in calls', client'[i.from].token = i.token,
             client'[k.from].token = k.token, i.from = k.from, ~IsExchange(i), ~IsExchange(k),
             k.live, i # k
      PROVE  i.nonce < k.nonce
  <2>1. CASE k = j
    <3>1. i \in calls /\ i.from = c /\ k.nonce = client[c].nonce
      BY <1>2, <1>3, <1>7, <2>1 DEF SentBy
    <3> QED BY <1>5, <1>7, <3>1
  <2>2. CASE k # j
    <3>1. k \in calls /\ k.from # c /\ i \in calls
      BY <1>2, <1>3, <1>7, <2>2 DEF SentBy
    <3> QED BY <1>1, <1>5, <1>7, <3>1 DEF CallNonces
  <2> QED BY <2>1, <2>2
<1> QED BY <1>1, <1>4, <1>6, <1>7 DEF CallNonces, Current, IsExchange

\* No call, or the calls as they were.
LEMMA StartCallNonces ==
  ASSUME NonceInv, CallsOK',
         Down \/ ServerActivate \/ (\E c \in Clients : Activate(c))
              \/ (\E k \in calls : ExchangeCreate(k))
  PROVE  ExchangeAlone' /\ CallNonces'
<1>1. SessionInv /\ Typed /\ ExchangeAlone /\ CallNonces /\ TokensOK
  BY DEF NonceInv, IsolationInv, SessionInv
<1>2. CASE Down
  BY <1>2 DEF Down, ExchangeAlone, CallNonces
<1>3. CASE ServerActivate
  BY <1>1, <1>3 DEF ServerActivate, ExchangeAlone, CallNonces, Current, IsExchange
<1>4. CASE \E k \in calls : ExchangeCreate(k)
  <2>1. PICK k \in calls : ExchangeCreate(k)
    BY <1>4
  <2> DEFINE j == [k EXCEPT !.step = "created", !.id = nextPeerId]
  <2>2. k \in Calls
    BY <1>1, Fields
  <2>3. /\ IsExchange(k) /\ j.op = "ExchangeKey" /\ j.token = k.token
        /\ calls' = (calls \ {k}) \union {j}
        /\ UNCHANGED <<secure, client>>
    BY <2>1, <2>2 DEF ExchangeCreate, Done, Calls, IsExchange
  <2> HIDE DEF j
  <2>4. ExchangeAlone'
    BY <1>1, <2>3 DEF ExchangeAlone, IsExchange
  <2>5. CallNonces'
    BY <1>1, <2>3 DEF CallNonces, Current, IsExchange
  <2> QED BY <2>4, <2>5
<1>5. CASE \E c \in Clients : Activate(c)
  <2>1. PICK c \in Clients : Activate(c)
    BY <1>5
  <2>2. PICK j \in calls' :
         /\ client[c].state = "inactive" /\ client[c].token = 0
         /\ \A d \in Clients : d # c => client'[d] = client[d]
         /\ client'[c].state = "exchange" /\ client'[c].token = exchanges + 1
         /\ client'[c].told = client[c].told /\ client'[c].model = client[c].model
         /\ client'[c].cache = client[c].cache
         /\ calls' = calls \union {j}
         /\ j.from = c /\ j.token = exchanges + 1 /\ IsExchange(j) /\ j.live /\ j.step = "sent"
         /\ exchanges' = exchanges + 1
         /\ UNCHANGED <<secure, serverVars, sent>>
    BY <1>1, <2>1, ActivateFacts
  <2>3. \A i \in calls : i.token \in Nat /\ i.token <= exchanges /\ exchanges \in Nat
                         /\ i.from \in Clients
    BY <1>1, Fields DEF TokensOK
  <2>4. ExchangeAlone'
    <3>1. \A i \in calls : i.token # j.token
      BY <2>2, <2>3
    <3> QED BY <1>1, <2>2, <3>1 DEF ExchangeAlone, IsExchange
  <2>5. \A i \in calls' : client'[i.from].token = i.token /\ ~IsExchange(i) =>
                              i \in calls /\ client'[i.from] = client[i.from]
    BY <2>2, <2>3 DEF CallsOK, Current, Opened, IsExchange
  <2>6. CallNonces'
    BY <1>1, <2>2, <2>5 DEF CallNonces, Current, IsExchange
  <2> QED BY <2>4, <2>6
<1> QED BY <1>2, <1>3, <1>4, <1>5

\* The first call of an activation.
LEMMA InsertedCallNonces ==
  ASSUME NonceInv, NEW k \in calls, Inserted(k)
  PROVE  ExchangeAlone' /\ CallNonces'
<1>1. SessionInv /\ Typed /\ ExchangeAlone /\ CallNonces /\ k.from \in Clients /\ k.token \in Nat
  BY Fields DEF NonceInv, IsolationInv, SessionInv
<1>2. PICK j : Settled(k, j)
  BY <1>1, SettledFacts
<1>3. /\ IsExchange(k) /\ secure' = secure
      /\ k.live => /\ client[k.from].token = k.token
                   /\ \A i \in calls : i # k /\ i.from = k.from => ~i.live /\ i.token # k.token
  BY <1>1, SettledFacts DEF Inserted
<1>4. \A i \in calls' : \/ i \in calls /\ i # k
                        \/ i = j /\ k.live /\ j.token = k.token /\ j.op = "Configure"
  BY <1>2 DEF Settled
<1>5. ExchangeAlone'
  BY <1>1, <1>3, <1>4 DEF ExchangeAlone, IsExchange
<1>6. ASSUME NEW i \in calls, i # k, client'[i.from].token = i.token, ~IsExchange(i)
      PROVE  client'[i.from] = client[i.from] /\ ~(k.live /\ i.from = k.from)
  <2>1. i.from \in Clients /\ i.token # 0
    BY <1>1, Fields DEF SessionInv, TokensOK
  <2>2. ASSUME k.live, i.from = k.from PROVE FALSE
    BY <1>2, <1>3, <1>6, <2>1, <2>2 DEF Settled, Gone
  <2> QED BY <1>2, <2>1, <2>2 DEF Settled
<1>7. ASSUME secure, NEW i \in calls', client'[i.from].token = i.token, ~IsExchange(i)
      PROVE  /\ i.nonce < client'[i.from].nonce
             /\ i.live => client'[i.from].nonce = i.nonce + 1
  <2>1. CASE i \in calls /\ i # k
    BY <1>1, <1>6, <1>7, <2>1 DEF CallNonces, Current
  <2>2. CASE ~(i \in calls /\ i # k)
    <3>1. /\ i = j /\ j.from = k.from /\ client'[k.from].nonce = GetRandom(k.token) + 1
          /\ j.nonce = GetRandom(k.token) /\ GetRandom(k.token) \in Nat
      BY <1>1, <1>2, <1>7, <2>2, RandomNat DEF Settled
    <3> QED BY <3>1
  <2> QED BY <2>1, <2>2
<1>8. ASSUME secure, NEW i \in calls', NEW h \in calls', client'[i.from].token = i.token,
             client'[h.from].token = h.token, i.from = h.from, ~IsExchange(i), ~IsExchange(h),
             h.live, i # h
      PROVE  i.nonce < h.nonce
  <2>1. CASE i \in calls /\ i # k /\ h \in calls /\ h # k
    BY <1>1, <1>6, <1>8, <2>1 DEF CallNonces, Current
  <2>2. CASE ~(i \in calls /\ i # k /\ h \in calls /\ h # k)
    <3>1. /\ k.live /\ j.from = k.from
          /\ \/ i = j /\ h \in calls /\ h # k
             \/ h = j /\ i \in calls /\ i # k
      BY <1>2, <1>4, <1>8, <2>2 DEF Settled
    <3> QED BY <1>6, <1>8, <3>1
  <2> QED BY <2>1, <2>2
<1> QED BY <1>3, <1>5, <1>7, <1>8 DEF CallNonces, Current, IsExchange

\* A call that is let through keeps its nonce.
LEMMA AuthCallNonces ==
  ASSUME NonceInv, NEW k \in calls, AuthProcess(k)
  PROVE  ExchangeAlone' /\ CallNonces'
<1>1. SessionInv /\ NoncesApart /\ ExchangeAlone /\ CallNonces
  BY DEF NonceInv, IsolationInv
<1>2. PICK j : AuthDone(k, j)
  BY <1>1, AuthFacts
<1>3. /\ calls' = (calls \ {k}) \union {j} /\ secure' = secure /\ client' = client
      /\ j.from = k.from /\ j.token = k.token /\ j.op = k.op /\ j.nonce = k.nonce
      /\ j.live = k.live
  BY <1>2 DEF AuthDone
<1>4. ExchangeAlone'
  BY <1>1, <1>3 DEF ExchangeAlone, IsExchange
<1>5. CallNonces'
  BY <1>1, <1>3 DEF CallNonces, Current, IsExchange
<1> QED BY <1>4, <1>5

----------------------------------------------------------------------------
(* The session's nonce follows the client's.                               *)

\* A client that has not lost a call keeps the one that is to be checked.
LEMMA UncheckedKept ==
  ASSUME NonceInv, Quiet, secure, NEW c \in Clients, Owns(c), Still(client[c], client'[c]),
         ~client'[c].lost
  PROVE  Unchecked(c)' <=> Unchecked(c)
<1>1. /\ SessionInv /\ Typed /\ CallNonces /\ SessionNonces /\ CallsAge /\ CallsOK
      /\ client[c].nonce \in Nat
  BY Fields DEF NonceInv, IsolationInv, SessionInv, Quiet
<1>2. ~client[c].lost /\ client[c].state \in {"configure", "active"}
  BY <1>1, Fields DEF Still, Owns, Opened
<1>3. ASSUME Unchecked(c)' PROVE Unchecked(c)
  <2>1. PICK j \in calls' : j.from = c /\ j.live /\ j.step = "sent"
    BY <1>3 DEF Unchecked
  <2>2. PICK k \in calls : Aged(k, j)
    BY <1>1, CallsFrom
  <2> QED BY <2>1, <2>2 DEF Aged, Unchecked
<1>4. ASSUME Unchecked(c) PROVE Unchecked(c)'
  <2>1. PICK k \in calls : k.from = c /\ k.live /\ k.step = "sent"
    BY <1>4 DEF Unchecked
  <2>2. Current(k) /\ ~IsExchange(k) /\ k.id = client[c].id /\ k.nonce \in Nat
    BY <1>1, <1>2, <2>1, Fields DEF CallsOK, Current
  <2>3. client[c].nonce = clientMap[client[c].id].nonce + 1
    BY <1>1, <1>2, <1>4 DEF SessionNonces, InStep
  <2>4. clientMap[client[c].id].nonce \in Nat
    BY <1>1, Fields DEF Owns, Known
  <2>5. client[c].nonce = k.nonce + 1
    BY <1>1, <2>1, <2>2 DEF CallNonces
  <2>6. clientMap[client[c].id].nonce = k.nonce
    BY <2>2, <2>3, <2>4, <2>5
  <2>7. Admits(k)
    BY <2>2, <2>6 DEF Admits, Owns
  <2>8. ~Gone(client'[c])
    BY <1>2 DEF Still, Gone
  <2>9. CASE calls' = calls
    BY <2>1, <2>9 DEF Unchecked
  <2>10. CASE \E x \in calls : CallEnds(x)
    <3>1. k \in calls'
      BY <2>1, <2>2, <2>7, <2>8, <2>10 DEF CallEnds
    <3> QED BY <2>1, <3>1 DEF Unchecked
  <2>11. CASE \E x \in calls, j \in Calls : Aged(x, j) /\ calls' = (calls \ {x}) \union {j}
    <3>1. PICK x \in calls, j \in Calls : Aged(x, j) /\ calls' = (calls \ {x}) \union {j}
      BY <2>11
    <3>2. CASE x = k
      BY <2>1, <2>8, <3>1, <3>2 DEF Aged, Arrived, Unchecked
    <3>3. CASE x # k
      BY <2>1, <3>1, <3>3 DEF Unchecked
    <3> QED BY <3>2, <3>3
  <2> QED BY <1>1, <2>9, <2>10, <2>11 DEF CallsAge
<1> QED BY <1>3, <1>4

\* Quiet steps move no nonce.
LEMMA QuietSessionNonces ==
  ASSUME NonceInv, Quiet
  PROVE  SessionNonces'
<1>1. /\ SessionInv /\ Typed /\ SessionNonces /\ CallsAge /\ ClientsStay /\ MapKeeps
      /\ secure' = secure
  BY DEF NonceInv, IsolationInv, SessionInv, Quiet
<1>2. ASSUME secure, NEW j \in calls', j.step = "admitted", j.id \in DOMAIN clientMap',
             clientMap'[j.id] # Nothing, clientMap'[j.id].token = j.token
      PROVE  j.nonce < clientMap'[j.id].nonce
  <2>1. PICK k \in calls : Aged(k, j)
    BY <1>1, CallsFrom
  <2>2. k.step = "admitted" /\ j.id = k.id /\ j.token = k.token /\ j.nonce = k.nonce
    BY <1>2, <2>1 DEF Aged
  <2>3. Known(k.id)
    BY <1>1, <1>2, <2>2, KnownKept DEF Known
  <2> QED BY <1>1, <1>2, <2>2, <2>3, KnownKept DEF SessionNonces
<1>3. ASSUME secure, NEW c \in Clients, Owns(c)'
      PROVE  InStep(c)'
  <2>1. Still(client[c], client'[c])
    BY <1>1, <1>3 DEF ClientsStay, Gone, Owns, Opened
  <2>2. Opened(c) /\ client'[c].id = client[c].id /\ client'[c].token = client[c].token
        /\ client'[c].nonce = client[c].nonce
    BY <1>3, <2>1 DEF Still, Owns, Opened
  <2>3. Known(client[c].id)
    BY <1>1, <1>3, <2>2, KnownKept DEF Owns, Known
  <2>4. /\ clientMap'[client[c].id].token = clientMap[client[c].id].token
        /\ clientMap'[client[c].id].nonce = clientMap[client[c].id].nonce
    BY <1>1, <2>3, KnownKept
  <2>5. Owns(c)
    BY <1>3, <2>2, <2>3, <2>4 DEF Owns
  <2>6. InStep(c)
    BY <1>1, <1>3, <2>5 DEF SessionNonces
  <2>7. ~client'[c].lost => ~client[c].lost /\ (Unchecked(c)' <=> Unchecked(c))
    <3>1. ~client'[c].lost => (Unchecked(c)' <=> Unchecked(c))
      BY <1>3, <2>1, <2>5, UncheckedKept
    <3>2. client[c].lost => client'[c].lost
      BY <2>1 DEF Still
    <3> QED BY <3>1, <3>2
  <2> HIDE DEF Unchecked
  <2> QED BY <2>2, <2>4, <2>6, <2>7 DEF InStep
<1> QED BY <1>1, <1>2, <1>3 DEF SessionNonces, Known

\* The session expects the call that is sent.
LEMMA SentSessionNonces ==
  ASSUME NonceInv, NewSent
  PROVE  SessionNonces'
<1>1. /\ SessionInv /\ Typed /\ SessionNonces /\ MapKeeps /\ OneLive /\ secure' = secure
  BY DEF NonceInv, IsolationInv, SessionInv, NewSent
<1>2. PICK c \in Clients, j \in calls' : SentBy(c, j)
  BY <1>1, SentFacts
<1>3. ASSUME secure, NEW i \in calls', i.step = "admitted", i.id \in DOMAIN clientMap',
             clientMap'[i.id] # Nothing, clientMap'[i.id].token = i.token
      PROVE  i.nonce < clientMap'[i.id].nonce
  <2>1. i \in calls
    BY <1>2, <1>3 DEF SentBy
  <2>2. Known(i.id)
    BY <1>1, <1>3, KnownKept DEF Known
  <2> QED BY <1>1, <1>3, <2>1, <2>2, KnownKept DEF SessionNonces
<1>4. ASSUME secure, NEW d \in Clients, Owns(d)'
      PROVE  InStep(d)'
  <2>1. Opened(d) /\ client'[d].id = client[d].id /\ client'[d].token = client[d].token
        /\ client'[d].lost = client[d].lost
    BY <1>2, <1>4 DEF SentBy, Owns, Opened
  <2>2. Known(client[d].id)
    BY <1>1, <1>4, <2>1, KnownKept DEF Owns, Known
  <2>3. /\ clientMap'[client[d].id].token = clientMap[client[d].id].token
        /\ clientMap'[client[d].id].nonce = clientMap[client[d].id].nonce
        /\ clientMap[client[d].id].nonce \in Nat /\ client[d].nonce \in Nat
    BY <1>1, <2>2, KnownKept, Fields DEF Known
  <2>4. InStep(d)
    BY <1>1, <1>4, <2>1, <2>2, <2>3 DEF SessionNonces, Owns
  <2>5. CASE d = c
    <3>1. ~Unchecked(c)
      <4>1. CASE ~Waiting(c)
        BY <4>1 DEF Waiting, Unchecked
      <4>2. CASE \E k \in calls : k.live /\ k.from = c /\ Arrived(k, "LoadModel")
        BY <1>1, <1>4, <4>2 DEF OneLive, Arrived, Unchecked
      <4> QED BY <1>2, <4>1, <4>2 DEF SentBy
    <3>2. Unchecked(c)'
      BY <1>2 DEF SentBy, Unchecked
    <3>3. client'[c].nonce = client[c].nonce + 1
      BY <1>2, <1>4 DEF SentBy
    <3>4. /\ clientMap[client[c].id].nonce <= client[c].nonce
          /\ ~client[c].lost => client[c].nonce = clientMap[client[c].id].nonce
      BY <2>4, <2>5, <3>1 DEF InStep
    <3> QED BY <2>1, <2>3, <2>5, <3>2, <3>3, <3>4 DEF InStep
  <2>6. CASE d # c
    <3>1. client'[d].nonce = client[d].nonce
      BY <1>2, <2>6 DEF SentBy
    <3>2. Unchecked(d)' <=> Unchecked(d)
      BY <1>2, <2>6 DEF SentBy, Unchecked
    <3> HIDE DEF Unchecked
    <3> QED BY <2>1, <2>3, <2>4, <3>1, <3>2 DEF InStep
  <2> QED BY <2>5, <2>6
<1> QED BY <1>1, <1>3, <1>4 DEF SessionNonces, Known

\* No session, or the sessions as they were.
LEMMA StartSessionNonces ==
  ASSUME NonceInv,
         Down \/ ServerActivate \/ (\E c \in Clients : Activate(c))
              \/ (\E k \in calls : ExchangeCreate(k))
  PROVE  SessionNonces'
<1>1. SessionInv /\ Typed /\ SessionNonces /\ StepsOK /\ CallsOK
  BY DEF NonceInv, IsolationInv, SessionInv
<1>2. CASE Down \/ ServerActivate
  <2>1. DOMAIN clientMap' = {}
    BY <1>1, <1>2 DEF Down, ServerActivate, StepsOK
  <2> QED BY <2>1 DEF SessionNonces, Owns, Known
<1>3. ASSUME secure' = secure, clientMap' = clientMap,
             \A d \in Clients : Opened(d)' => client'[d] = client[d] /\ (Unchecked(d)' <=> Unchecked(d)),
             \A i \in calls' : i.step = "admitted" => i \in calls
      PROVE  SessionNonces'
  <2>1. ASSUME secure, NEW d \in Clients, Owns(d)' PROVE InStep(d)'
    <3>1. client'[d] = client[d] /\ (Unchecked(d)' <=> Unchecked(d))
      BY <1>3, <2>1 DEF Owns
    <3>2. Owns(d)
      BY <1>3, <2>1, <3>1 DEF Owns, Opened, Known
    <3>3. InStep(d)
      BY <1>1, <2>1, <3>2 DEF SessionNonces
    <3> HIDE DEF Unchecked
    <3> QED BY <1>3, <3>1, <3>3 DEF InStep
  <2> QED BY <1>1, <1>3, <2>1 DEF SessionNonces, Known
<1>4. CASE \E k \in calls : ExchangeCreate(k)
  <2>1. PICK k \in calls : ExchangeCreate(k)
    BY <1>4
  <2> DEFINE j == [k EXCEPT !.step = "created", !.id = nextPeerId]
  <2>2. k \in Calls
    BY <1>1, Fields
  <2>3. /\ IsExchange(k) /\ j.from = k.from /\ j.step = "created"
        /\ calls' = (calls \ {k}) \union {j}
        /\ UNCHANGED <<secure, client, clientMap>>
    BY <2>1, <2>2 DEF ExchangeCreate, Done, Calls, IsExchange
  <2> HIDE DEF j
  <2>4. ASSUME NEW d \in Clients, Opened(d) PROVE Unchecked(d)' <=> Unchecked(d)
    <3>1. ~(k.live /\ k.from = d)
      BY <1>1, <2>3, <2>4 DEF CallsOK, Opened
    <3> QED BY <2>3, <3>1 DEF Unchecked
  <2>5. \A d \in Clients : Opened(d)' => Opened(d)
    BY <2>3 DEF Opened
  <2> QED BY <1>3, <2>3, <2>4, <2>5
<1>5. CASE \E c \in Clients : Activate(c)
  <2>1. PICK c \in Clients : Activate(c)
    BY <1>5
  <2>2. PICK j \in calls' :
         /\ client[c].state = "inactive" /\ client[c].token = 0
         /\ \A d \in Clients : d # c => client'[d] = client[d]
         /\ client'[c].state = "exchange" /\ client'[c].token = exchanges + 1
         /\ client'[c].told = client[c].told /\ client'[c].model = client[c].model
         /\ client'[c].cache = client[c].cache
         /\ calls' = calls \union {j}
         /\ j.from = c /\ j.token = exchanges + 1 /\ IsExchange(j) /\ j.live /\ j.step = "sent"
         /\ exchanges' = exchanges + 1
         /\ UNCHANGED <<secure, serverVars, sent>>
    BY <1>1, <2>1, ActivateFacts
  <2>3. ASSUME NEW d \in Clients, Opened(d)'
        PROVE  client'[d] = client[d] /\ (Unchecked(d)' <=> Unchecked(d))
    <3>1. d # c
      BY <2>2, <2>3 DEF Opened
    <3> QED BY <2>2, <3>1 DEF Unchecked
  <2>4. \A i \in calls' : i.step = "admitted" => i \in calls
    BY <2>2
  <2>5. secure' = secure /\ clientMap' = clientMap
    BY <2>2 DEF serverVars
  <2> QED BY <1>3, <2>3, <2>4, <2>5
<1> QED BY <1>2, <1>4, <1>5

\* A session and its client start with the same nonce.
LEMMA InsertedSessionNonces ==
  ASSUME NonceInv, TokensOK', NEW k \in calls, Inserted(k)
  PROVE  SessionNonces'
<1>1. /\ SessionInv /\ Typed /\ SessionNonces /\ ExchangeAlone /\ StepsOK /\ TokensOK /\ CallsOK
      /\ k.from \in Clients /\ k.token \in Nat /\ k.token # 0 /\ GetRandom(k.token) \in Nat
  <2>1. SessionInv /\ ExchangeAlone /\ SessionNonces
    BY DEF NonceInv, IsolationInv
  <2>2. Typed /\ StepsOK /\ TokensOK /\ CallsOK
    BY <2>1 DEF SessionInv
  <2>3. k.from \in Clients /\ k.token \in Nat
    BY <2>2, Fields
  <2>4. k.token # 0
    BY <2>2, <2>3 DEF TokensOK
  <2> QED BY <2>1, <2>2, <2>3, <2>4, RandomNat
<1>2. PICK j : Settled(k, j)
  BY <1>1, SettledFacts
<1>3. /\ IsExchange(k) /\ secure' = secure /\ Entered(k)
      /\ k.live => /\ client[k.from].token = k.token
                   /\ \A i \in calls : i # k /\ i.from = k.from => ~i.live /\ i.token # k.token
  BY <1>1, SettledFacts DEF Inserted
<1>4. ASSUME secure, NEW i \in calls', i.step = "admitted", i.id \in DOMAIN clientMap',
             clientMap'[i.id] # Nothing, clientMap'[i.id].token = i.token
      PROVE  i.nonce < clientMap'[i.id].nonce
  <2>1. i \in calls /\ i # k
    BY <1>2, <1>4 DEF Settled
  <2>2. i.token # k.token
    BY <1>1, <1>3, <2>1 DEF ExchangeAlone
  <2>3. i.id # k.id
    BY <1>3, <1>4, <2>2 DEF Entered
  <2>4. Known(i.id) /\ clientMap'[i.id] = clientMap[i.id]
    BY <1>3, <1>4, <2>3 DEF Entered, Known
  <2> QED BY <1>1, <1>4, <2>1, <2>4 DEF SessionNonces
<1>5. ASSUME secure, NEW d \in Clients, Owns(d)'
      PROVE  InStep(d)'
  <2>1. CASE k.live /\ d = k.from
    <3>1. ~Gone(client'[d]) /\ client'[d].token = k.token /\ client'[d].id = k.id
      BY <1>2, <1>5, <2>1 DEF Settled, Owns, Opened, Gone
    <3>2. clientMap'[client'[d].id].nonce = GetRandom(k.token)
      BY <1>3, <1>5, <3>1 DEF Entered
    <3>3. CASE client'[d].state = "active"
      <4>1. client'[d].nonce = GetRandom(k.token) /\ calls' = calls \ {k}
        BY <1>2, <1>5, <2>1, <3>1, <3>3 DEF Settled
      <4>2. ~Unchecked(d)'
        BY <1>3, <2>1, <4>1 DEF Unchecked
      <4> QED BY <1>1, <3>2, <4>1, <4>2 DEF InStep
    <3>4. CASE client'[d].state # "active"
      <4>1. client'[d].nonce = GetRandom(k.token) + 1 /\ calls' = (calls \ {k}) \union {j}
            /\ j.from = d /\ j.live /\ j.step = "sent"
        BY <1>2, <1>5, <2>1, <3>1, <3>4 DEF Settled
      <4>2. Unchecked(d)'
        BY <4>1 DEF Unchecked
      <4> QED BY <1>1, <3>2, <4>1, <4>2 DEF InStep
    <3> QED BY <3>3, <3>4
  <2>2. CASE ~(k.live /\ d = k.from)
    <3>1. client'[d] = client[d]
      BY <1>2, <2>2 DEF Settled
    <3>2. Opened(d)
      BY <1>5, <3>1 DEF Owns, Opened
    <3>3. client[d].token # k.token
      <4>1. ASSUME client[d].token = k.token PROVE FALSE
        <5>1. d = k.from /\ Current(k)
          BY <1>1, <4>1 DEF TokensOK, Current
        <5> QED BY <1>1, <1>3, <3>2, <5>1 DEF CallsOK, Opened
      <4> QED BY <4>1
    <3>4. client[d].id # k.id
      BY <1>3, <1>5, <3>1, <3>3 DEF Owns, Entered
    <3>5. clientMap'[client[d].id] = clientMap[client[d].id] /\ Known(client[d].id)
      BY <1>3, <1>5, <3>1, <3>4 DEF Owns, Entered, Known
    <3>6. Owns(d)
      BY <1>5, <3>1, <3>2, <3>5 DEF Owns
    <3>7. InStep(d)
      BY <1>1, <1>5, <3>6 DEF SessionNonces
    <3>8. Unchecked(d)' <=> Unchecked(d)
      <4>1. ~(k.live /\ k.from = d)
        BY <2>2
      <4>2. ASSUME Unchecked(d)' PROVE Unchecked(d)
        BY <1>2, <4>1, <4>2 DEF Unchecked, Settled
      <4>3. ASSUME Unchecked(d) PROVE Unchecked(d)'
        BY <1>2, <4>1, <4>3 DEF Unchecked, Settled
      <4> QED BY <4>2, <4>3
    <3> HIDE DEF Unchecked
    <3> QED BY <3>1, <3>5, <3>7, <3>8 DEF InStep
  <2> QED BY <2>1, <2>2
<1> QED BY <1>3, <1>4, <1>5 DEF SessionNonces, Known

\* The session's nonce moves on with the call that is let through.
LEMMA AuthSessionNonces ==
  ASSUME NonceInv, NEW k \in calls, AuthProcess(k)
  PROVE  SessionNonces'
<1>1. /\ SessionInv /\ Typed /\ NoncesApart /\ CallNonces /\ SessionNonces /\ TokensOK /\ CallsOK
      /\ OneLive /\ k.from \in Clients /\ k.nonce \in Nat
  <2>1. SessionInv /\ NoncesApart /\ CallNonces /\ SessionNonces
    BY DEF NonceInv, IsolationInv
  <2>2. Typed /\ OneLive /\ TokensOK /\ CallsOK
    BY <2>1 DEF SessionInv
  <2> QED BY <2>1, <2>2, Fields
<1>2. PICK j : AuthDone(k, j)
  BY <1>1, AuthFacts
<1>3. /\ secure' = secure /\ secure /\ client' = client
      /\ calls' = (calls \ {k}) \union {j} /\ ~IsExchange(k) /\ k.step = "sent"
      /\ j.from = k.from /\ j.token = k.token /\ j.id = k.id /\ j.nonce = k.nonce
      /\ j.live = k.live /\ j.step = "admitted"
      /\ Known(k.id) /\ clientMap[k.id].nonce = k.nonce /\ clientMap[k.id].token = k.token
      /\ DOMAIN clientMap' = DOMAIN clientMap
      /\ \A i \in DOMAIN clientMap : i # k.id => clientMap'[i] = clientMap[i]
      /\ clientMap'[k.id].nonce = k.nonce + 1 /\ clientMap'[k.id].token = k.token
      /\ clientMap'[k.id] # Nothing
  BY <1>2 DEF AuthDone
<1>4. ASSUME NEW i \in calls', i.step = "admitted", i.id \in DOMAIN clientMap',
             clientMap'[i.id] # Nothing, clientMap'[i.id].token = i.token
      PROVE  i.nonce < clientMap'[i.id].nonce
  <2>1. CASE i = j
    BY <1>1, <1>3, <2>1
  <2>2. CASE i # j /\ i.id = k.id
    <3>1. i \in calls /\ Known(i.id) /\ clientMap[i.id].token = i.token /\ i.nonce \in Nat
      BY <1>1, <1>3, <1>4, <2>2, Fields
    <3>2. i.nonce < k.nonce
      BY <1>1, <1>3, <1>4, <2>2, <3>1 DEF SessionNonces
    <3> QED BY <1>1, <1>3, <2>2, <3>1, <3>2
  <2>3. CASE i # j /\ i.id # k.id
    <3>1. i \in calls /\ Known(i.id) /\ clientMap'[i.id] = clientMap[i.id]
      BY <1>3, <1>4, <2>3 DEF Known
    <3> QED BY <1>1, <1>3, <1>4, <3>1 DEF SessionNonces
  <2> QED BY <2>1, <2>2, <2>3
<1>5. ASSUME NEW c \in Clients, Owns(c)'
      PROVE  InStep(c)'
  <2>1. Owns(c)
    BY <1>3, <1>5 DEF Owns, Opened, Known
  <2>2. InStep(c)
    BY <1>1, <1>3, <2>1 DEF SessionNonces
  <2>3. CASE client[c].id = k.id
    <3>1. client[c].token = k.token
      BY <1>3, <2>1, <2>3 DEF Owns
    <3>2. c = k.from /\ Current(k)
      BY <1>1, <3>1 DEF TokensOK, Current
    <3>3. k.nonce < client[c].nonce /\ client[c].nonce \in Nat
      BY <1>1, <1>3, <3>2, Fields DEF CallNonces
    <3>4. ASSUME ~client[c].lost PROVE client[c].nonce = k.nonce + 1 /\ ~Unchecked(c)'
      <4>1. k.live
        BY <1>1, <3>2, <3>4 DEF CallsOK
      <4>2. client[c].nonce = k.nonce + 1
        BY <1>1, <1>3, <3>2, <4>1 DEF CallNonces
      <4>3. \A i \in calls' : i.from = c /\ i.live => i.step # "sent"
        BY <1>1, <1>3, <3>2, <4>1 DEF OneLive
      <4> QED BY <4>2, <4>3 DEF Unchecked
    <3>5. k.nonce + 1 <= client[c].nonce
      BY <1>1, <3>3
    <3> QED BY <1>3, <2>3, <3>4, <3>5 DEF InStep
  <2>4. CASE client[c].id # k.id
    <3>1. clientMap'[client[c].id] = clientMap[client[c].id]
      BY <1>3, <2>1, <2>4 DEF Owns, Known
    <3>2. ~(k.live /\ k.from = c)
      BY <1>1, <1>3, <2>4 DEF CallsOK
    <3>3. Unchecked(c)' <=> Unchecked(c)
      BY <1>3, <3>2 DEF Unchecked
    <3> HIDE DEF Unchecked
    <3> QED BY <1>3, <2>2, <3>1, <3>3 DEF InStep
  <2> QED BY <2>3, <2>4
<1> QED BY <1>3, <1>4, <1>5 DEF SessionNonces, Known

\* The invariant holds initially.
LEMMA NonceStart ==
  ASSUME Init
  PROVE  NonceInv
<1>1. IsolationInv
  BY IsolationStart
<1>2. calls = {} /\ DOMAIN clientMap = {}
  BY DEF Init
<1> QED BY <1>1, <1>2 DEF NonceInv, ExchangeAlone, CallNonces, SessionNonces, Owns, Known

\* Every step keeps it.
LEMMA NonceStep ==
  ASSUME NonceInv, [Next]_vars
  PROVE  NonceInv'
<1>1. IsolationInv /\ SessionInv
  BY DEF NonceInv, IsolationInv
<1>2. IsolationInv' /\ CallsOK' /\ TokensOK'
  <2>1. IsolationInv'
    BY <1>1, IsolationStep
  <2> QED BY <2>1 DEF IsolationInv, SessionInv
<1>3. \/ Quiet \/ NewSent \/ Down \/ ServerActivate
      \/ \E c \in Clients : Activate(c)
      \/ \E k \in calls : ExchangeCreate(k) \/ Inserted(k) \/ AuthProcess(k)
  BY <1>1, StepKinds, Stutter
<1>4. ExchangeAlone' /\ CallNonces'
  BY <1>2, <1>3, QuietCallNonces, SentCallNonces, StartCallNonces, InsertedCallNonces, AuthCallNonces
<1>5. SessionNonces'
  BY <1>2, <1>3, QuietSessionNonces, SentSessionNonces, StartSessionNonces, InsertedSessionNonces,
     AuthSessionNonces
<1> QED BY <1>2, <1>4, <1>5 DEF NonceInv

\* The invariant of the nonces.
THEOREM NonceInvariant == Spec => []NonceInv
<1>1. Init => NonceInv
  BY NonceStart
<1>2. NonceInv /\ [Next]_vars => NonceInv'
  BY NonceStep
<1> QED BY <1>1, <1>2, PTL DEF Spec

\* As long as no call of a secured client is lost, its next nonce is the one the
\* server expects, and the server is never ahead of its client
\* (peer_grpc_client_auth.cc:48, peer_grpc_server_auth.cc:98).
THEOREM NonceInStepHolds == Spec => []NonceInStep
<1>1. NonceInv => NonceInStep
  <2> SUFFICES ASSUME NonceInv, NEW c \in Clients, secure, Own(c)
               PROVE  /\ clientMap[client[c].id].nonce <= client[c].nonce
                      /\ (~client[c].lost /\ ~Waiting(c)) =>
                             clientMap[client[c].id].nonce = client[c].nonce
    BY DEF NonceInStep
  <2>1. SessionNonces /\ Owns(c)
    BY DEF NonceInv, Own, Owns, Opened
  <2>2. InStep(c) /\ (~Waiting(c) => ~Unchecked(c))
    BY <2>1 DEF SessionNonces, Waiting, Unchecked
  <2> QED BY <2>2 DEF InStep
<1> QED BY <1>1, NonceInvariant, PTL

----------------------------------------------------------------------------
(* What a client was told is what its session holds.                       *)

AgreeInv == NonceInv /\ AgreeOK

\* The application knows no more than before.
RecordLess(r, s) ==
    /\ s.model \in {Nothing, r.model}
    /\ s.told \in {Nothing, r.told}
    /\ \A x \in Sides : s.cache[x] \in {Nothing, r.cache[x]}

\* A session keeps what it holds; information it does not have may be added.
SameData(g, h) ==
    /\ h.path = g.path /\ h.conf = g.conf
    /\ \A x \in Sides : g.info[x] = Nothing \/ h.info[x] = g.info[x]

\* The call j of c is one there was before; when it has just been lost, c is told so.
FromOld(c, j) ==
    \E k \in calls :
        /\ k.from = c /\ k.token = j.token /\ k.op = j.op /\ k.arg = j.arg /\ k.nonce = j.nonce
        /\ \/ j.live /\ k.live
           \/ /\ ~j.live /\ ~k.live
              /\ (secure /\ k.step = "sent" /\ k.nonce < clientMap[client[c].id].nonce)
                     => j.step = "sent"
           \/ /\ ~j.live /\ k.live
              /\ k.op = "LoadModel" => client'[c].model = Nothing
              /\ k.op = "Configure" => client'[c].told = Nothing
              /\ \A i \in calls' : i.from = c => ~i.live

\* The calls of c's activation are old ones, but for one that uploads nothing.
CallsLess(c) ==
    \A j \in calls' :
        j.from = c /\ j.token = client[c].token =>
            (j.live /\ j.op # "UploadModel") \/ FromOld(c, j)

\* The histories only grow.
HistoryGrows == (trespass => trespass') /\ (overtaken => overtaken')

\* A client agrees with its session as long as neither learns anything.
LEMMA AgreesFrom ==
  ASSUME Typed, NEW c \in Clients, Agrees(c), secure' = secure,
         client'[c].id = client[c].id, client'[c].token = client[c].token,
         client[c].lost => client'[c].lost,
         RecordLess(client[c], client'[c]),
         SameData(clientMap[client[c].id], clientMap'[client[c].id]),
         clientMap[client[c].id].nonce \in Nat, clientMap'[client[c].id].nonce \in Nat,
         clientMap[client[c].id].nonce <= clientMap'[client[c].id].nonce,
         CallsLess(c), CallsOK'
  PROVE  Agrees(c)'
<1> DEFINE r == client[c]
           s == client'[c]
           g == clientMap[client[c].id]
           h == clientMap'[client[c].id]
<1>1. /\ r.model # Nothing => g.path = r.model /\ Harmless(c, "LoadModel")
      /\ r.told # Nothing => g.conf = r.told /\ Harmless(c, "Configure")
      /\ \A k \in calls : k.from = c /\ k.live /\ k.op = "UploadModel"
             => g.path = k.arg /\ Harmless(c, "LoadModel")
      /\ ~r.lost => \A x \in Sides : r.cache[x] \in {Nothing, g.info[x]}
  BY DEF Agrees
<1>2. /\ s.model \in {Nothing, r.model} /\ s.told \in {Nothing, r.told}
      /\ \A x \in Sides : s.cache[x] \in {Nothing, r.cache[x]}
      /\ h.path = g.path /\ h.conf = g.conf
      /\ \A x \in Sides : g.info[x] = Nothing \/ h.info[x] = g.info[x]
      /\ s.id = r.id /\ s.token = r.token /\ (r.lost => s.lost)
  BY DEF RecordLess, SameData
<1>3. \A k \in calls : k.nonce \in Nat
  BY Fields
<1>4. ASSUME NEW op \in {"LoadModel", "Configure"}, Harmless(c, op),
             op = "LoadModel" => s.model # Nothing \/ \E i \in calls' : i.from = c /\ i.live,
             op = "Configure" => s.told # Nothing
      PROVE  Harmless(c, op)'
  <2>1. ASSUME NEW j \in calls', s.token = j.token, j.from = c, ~j.live, j.op = op
        PROVE  secure /\ j.step = "sent" /\ j.nonce < h.nonce
    <3>1. FromOld(c, j)
      BY <1>2, <2>1 DEF CallsLess
    <3>2. PICK k \in calls :
            /\ k.from = c /\ k.token = j.token /\ k.op = j.op /\ k.arg = j.arg
            /\ k.nonce = j.nonce
            /\ \/ j.live /\ k.live
               \/ /\ ~j.live /\ ~k.live
                  /\ (secure /\ k.step = "sent" /\ k.nonce < g.nonce) => j.step = "sent"
               \/ /\ ~j.live /\ k.live
                  /\ k.op = "LoadModel" => s.model = Nothing
                  /\ k.op = "Configure" => s.told = Nothing
                  /\ \A i \in calls' : i.from = c => ~i.live
      BY <3>1 DEF FromOld
    <3>3. ~k.live /\ ((secure /\ k.step = "sent" /\ k.nonce < g.nonce) => j.step = "sent")
      BY <1>4, <2>1, <3>2
    <3>4. secure /\ k.step = "sent" /\ k.nonce < g.nonce
      BY <1>2, <1>4, <2>1, <3>2, <3>3 DEF Harmless, Current
    <3>5. j.nonce < h.nonce
      BY <1>3, <3>2, <3>4
    <3> QED BY <3>3, <3>4, <3>5
  <2> QED BY <1>2, <2>1 DEF Harmless, Current
<1>5. s.model # Nothing => h.path = s.model /\ Harmless(c, "LoadModel")'
  BY <1>1, <1>2, <1>4
<1>6. s.told # Nothing => h.conf = s.told /\ Harmless(c, "Configure")'
  BY <1>1, <1>2, <1>4
<1>7. ASSUME NEW j \in calls', j.from = c, j.live, j.op = "UploadModel", j.token = s.token
      PROVE  h.path = j.arg /\ Harmless(c, "LoadModel")'
  <2>1. FromOld(c, j)
    BY <1>2, <1>7 DEF CallsLess
  <2>2. PICK k \in calls : k.from = c /\ k.op = j.op /\ k.arg = j.arg /\ k.live
    BY <1>7, <2>1 DEF FromOld
  <2> QED BY <1>1, <1>2, <1>4, <1>7, <2>2
<1>8. ~s.lost => \A x \in Sides : s.cache[x] \in {Nothing, h.info[x]}
  BY <1>1, <1>2
<1>9. \A j \in calls' : j.from = c /\ j.live => j.token = s.token
  BY DEF CallsOK, Current
<1> QED BY <1>2, <1>5, <1>6, <1>7, <1>8, <1>9 DEF Agrees

\* The session a client owns after a quiet step is the one it owned before.
LEMMA OwnsBefore ==
  ASSUME NonceInv, Quiet, NEW c \in Clients, Owns(c)'
  PROVE  /\ Owns(c) /\ Still(client[c], client'[c])
         /\ clientMap'[client[c].id].nonce = clientMap[client[c].id].nonce
         /\ clientMap[client[c].id].nonce \in Nat
<1>1. Typed /\ ClientsStay /\ MapKeeps
  BY DEF NonceInv, IsolationInv, SessionInv, Quiet
<1>2. Still(client[c], client'[c])
  BY <1>1 DEF ClientsStay, Gone, Owns, Opened
<1>3. Opened(c) /\ client'[c].id = client[c].id /\ client'[c].token = client[c].token
  BY <1>2 DEF Still, Owns, Opened
<1>4. Known(client[c].id)
  BY <1>1, <1>3, KnownKept DEF Owns, Known
<1>5. /\ clientMap'[client[c].id].token = clientMap[client[c].id].token
      /\ clientMap'[client[c].id].nonce = clientMap[client[c].id].nonce
      /\ clientMap[client[c].id].nonce \in Nat
  BY <1>1, <1>4, KnownKept, Fields DEF Known
<1> QED BY <1>2, <1>3, <1>4, <1>5 DEF Owns

\* A client whose order is kept had it kept before.
LEMMA InOrderBefore ==
  ASSUME NEW c \in Clients, HistoryGrows, InOrder(c)', secure' = secure,
         client[c].lost => client'[c].lost
  PROVE  InOrder(c)
  BY DEF HistoryGrows, InOrder

\* A quiet step by which c learns nothing, and its session neither.
LEMMA QuietAgrees ==
  ASSUME AgreeInv, Quiet, Typed', HistoryGrows, NEW c \in Clients, Owns(c)', InOrder(c)',
         RecordLess(client[c], client'[c]),
         SameData(clientMap[client[c].id], clientMap'[client[c].id]),
         CallsLess(c)
  PROVE  Agrees(c)'
<1>1. NonceInv /\ AgreeOK /\ SessionInv /\ Typed /\ secure' = secure
  BY DEF AgreeInv, NonceInv, IsolationInv, SessionInv, Quiet
<1>2. /\ Owns(c) /\ Still(client[c], client'[c])
      /\ clientMap'[client[c].id].nonce = clientMap[client[c].id].nonce
      /\ clientMap[client[c].id].nonce \in Nat
  BY <1>1, OwnsBefore
<1>3. /\ client'[c].id = client[c].id /\ client'[c].token = client[c].token
      /\ client[c].lost => client'[c].lost
  BY <1>2 DEF Still
<1>4. Agrees(c)
  BY <1>1, <1>2, <1>3, InOrderBefore DEF AgreeOK
<1>5. CallsOK'
  BY <1>1, QuietCallsOK
<1>6. clientMap[client[c].id].nonce <= clientMap'[client[c].id].nonce
  BY <1>2
<1> QED BY <1>1, <1>2, <1>3, <1>4, <1>5, <1>6, AgreesFrom

\* The same for all clients.
LEMMA Passive ==
  ASSUME AgreeInv, Quiet, Typed', HistoryGrows,
         \A c \in Clients : Opened(c)' => RecordLess(client[c], client'[c]),
         \A i : Known(i) => SameData(clientMap[i], clientMap'[i]),
         \A c \in Clients : Opened(c)' => CallsLess(c)
  PROVE  AgreeOK'
<1>1. ASSUME NEW c \in Clients, Owns(c)', InOrder(c)' PROVE Agrees(c)'
  <2>1. Opened(c)' /\ NonceInv
    BY <1>1 DEF Owns, AgreeInv
  <2>2. Known(client[c].id)
    BY <1>1, <2>1, OwnsBefore DEF Owns
  <2> QED BY <1>1, <2>1, <2>2, QuietAgrees
<1> QED BY <1>1 DEF AgreeOK

\* Calls that only leave.
LEMMA CallsLeave ==
  ASSUME calls' \subseteq calls, NEW c \in Clients
  PROVE  CallsLess(c)
  BY DEF CallsLess, FromOld

\* Nothing new is known.
LEMMA SameIsLess ==
  /\ \A r : RecordLess(r, r)
  /\ \A g : SameData(g, g)
  BY DEF RecordLess, SameData

\* After a failure the application is told no more.
LEMMA FailedLess ==
  ASSUME Typed, NEW k \in calls, Return(k, Failed(client[k.from], k)), NEW c \in Clients,
         Opened(c)'
  PROVE  RecordLess(client[c], client'[c])
<1>1. /\ client \in [Clients -> ClientStates] /\ k \in Calls /\ k.from \in Clients
      /\ client[k.from] \in ClientStates
  BY Fields DEF Typed, TypeOK
<1> DEFINE r == client[k.from]
           s == Failed(r, k)
<1>2. IF r.state = "active" THEN ToldLess(r, s, k.op) ELSE Gone(s)
  BY <1>1, FailedFacts
<1>3. client' = IF k.live THEN [client EXCEPT ![k.from] = s] ELSE client
  BY DEF Return
<1> HIDE DEF s
<1>4. CASE k.live /\ c = k.from
  <2>1. client'[c] = s
    BY <1>1, <1>3, <1>4
  <2>2. ToldLess(r, s, k.op)
    BY <1>2, <2>1 DEF Gone, Opened
  <2> QED BY <1>4, <2>1, <2>2 DEF ToldLess, RecordLess
<1>5. CASE ~(k.live /\ c = k.from)
  <2>1. client'[c] = client[c]
    BY <1>1, <1>3, <1>5
  <2> QED BY <2>1, SameIsLess
<1> QED BY <1>4, <1>5

----------------------------------------------------------------------------
(* Steps by which nothing is learnt.                                       *)

\* Steps of a client without a call.
LEMMA OwnAgree ==
  ASSUME AgreeInv, HistoryGrows,
         \/ \E c \in Clients : SetInfo(c)
         \/ \E c \in Clients, conf \in Configs : ReserveConfigure(c, conf)
         \/ \E c \in Clients : Deactivate(c)
  PROVE  AgreeOK'
<1>1. SessionInv /\ ClientsTyped
  BY TypedParts DEF AgreeInv, NonceInv, IsolationInv, SessionInv
<1>2. Quiet /\ Typed'
  BY <1>1, OwnSteps
<1>3. clientMap' = clientMap /\ calls' = calls
  BY DEF SetInfo, ReserveConfigure, Deactivate, serverVars
<1>4. ASSUME NEW c \in Clients, Opened(c)' PROVE RecordLess(client[c], client'[c])
  <2>1. CASE \E d \in Clients : SetInfo(d)
    <3>1. PICK d \in Clients : client' = [client EXCEPT ![d].info = TRUE]
      BY <2>1 DEF SetInfo
    <3>2. client'[c] = client[c] \/ client'[c] = [client[c] EXCEPT !.info = TRUE]
      BY <1>1, <3>1 DEF ClientsTyped
    <3>3. client[c] \in ClientStates
      BY <1>1 DEF ClientsTyped
    <3>4. /\ client'[c].model = client[c].model /\ client'[c].told = client[c].told
          /\ client'[c].cache = client[c].cache
      BY <3>2, <3>3 DEF ClientStates
    <3> QED BY <3>4 DEF RecordLess
  <2>2. CASE \E d \in Clients, conf \in Configs : ReserveConfigure(d, conf)
    <3>1. PICK d \in Clients, conf \in Configs :
              client' = [client EXCEPT ![d] = Reserved(client[d], conf)]
      BY <2>2 DEF ReserveConfigure
    <3>2. client'[c] = client[c] \/ client'[c] = [client[c] EXCEPT !.reserved = conf]
      BY <1>1, <3>1 DEF ClientsTyped, Reserved
    <3>3. client[c] \in ClientStates
      BY <1>1 DEF ClientsTyped
    <3>4. /\ client'[c].model = client[c].model /\ client'[c].told = client[c].told
          /\ client'[c].cache = client[c].cache
      BY <3>2, <3>3 DEF ClientStates
    <3> QED BY <3>4 DEF RecordLess
  <2>3. CASE \E d \in Clients : Deactivate(d)
    <3>1. PICK d \in Clients : client' = [client EXCEPT ![d] = Destroyed(client[d])]
      BY <2>3 DEF Deactivate
    <3>2. client'[c] = client[c] \/ client'[c] = Destroyed(client[c])
      BY <1>1, <3>1 DEF ClientsTyped
    <3>3. Gone(Destroyed(client[c]))
      BY <1>1, DestroyedFacts DEF ClientsTyped
    <3> QED BY <1>4, <3>2, <3>3, SameIsLess DEF Gone, Opened
  <2> QED BY <2>1, <2>2, <2>3
<1>5. /\ \A c \in Clients : CallsLess(c)
      /\ \A i : Known(i) => SameData(clientMap[i], clientMap'[i])
  BY <1>3, CallsLeave, SameIsLess
<1> QED BY <1>2, <1>4, <1>5, Passive

\* Refused calls, and calls whose answer tells nothing.
LEMMA RefuseAgree ==
  ASSUME AgreeInv, HistoryGrows, NEW k \in calls,
         \/ ExchangeRefused(k) \/ AuthRefuses(k) \/ UseMissingSession(k)
         \/ HandleStop(k) \/ HandleGetInfo(k)
  PROVE  AgreeOK'
<1>1. SessionInv /\ Typed
  BY DEF AgreeInv, NonceInv, IsolationInv, SessionInv
<1>2. Quiet /\ Typed'
  BY <1>1, ExchangeRefusedStep, AuthRefusesStep, UseMissingSessionStep, StopAndInfoSteps
<1>3. Return(k, Failed(client[k.from], k)) \/ client' = client
  BY DEF ExchangeRefused, AuthRefuses, UseMissingSession, HandleStop, HandleGetInfo, Refuse
<1>4. calls' \subseteq calls
  BY DEF ExchangeRefused, AuthRefuses, UseMissingSession, HandleStop, HandleGetInfo, Refuse, Done
<1>5. \A i : Known(i) => clientMap'[i] = clientMap[i]
  BY DEF ExchangeRefused, AuthRefuses, UseMissingSession, HandleStop, HandleGetInfo, Known, serverVars
<1>6. \A c \in Clients : Opened(c)' => RecordLess(client[c], client'[c])
  BY <1>1, <1>3, FailedLess, SameIsLess
<1>7. /\ \A c \in Clients : CallsLess(c)
      /\ \A i : Known(i) => SameData(clientMap[i], clientMap'[i])
  BY <1>4, <1>5, CallsLeave, SameIsLess
<1> QED BY <1>2, <1>6, <1>7, Passive

\* A broken connection: the application is told that its call has failed.
LEMMA LoseAgree ==
  ASSUME AgreeInv, HistoryGrows, NEW k \in calls, Lose(k) \/ UploadCancelled(k)
  PROVE  AgreeOK'
<1> DEFINE r == client[k.from]
           s == Failed(Broken(r), k)
           j == [k EXCEPT !.live = FALSE]
<1>1. /\ SessionInv /\ Typed /\ OneLive /\ ClientsTyped /\ k \in Calls /\ k.from \in Clients
      /\ r \in ClientStates
  <2>1. SessionInv /\ Typed /\ OneLive
    BY DEF AgreeInv, NonceInv, IsolationInv, SessionInv
  <2> QED BY <2>1, TypedParts, Fields
<1>2. Quiet /\ Typed'
  BY <1>1, LoseSteps
<1>3. /\ k.live /\ client' = [client EXCEPT ![k.from] = s]
      /\ calls' = (calls \ {k}) \union {j} /\ clientMap' = clientMap
  BY DEF Lose, UploadCancelled, Done, serverVars
<1>4. IF r.state = "active" THEN ToldLess(r, s, k.op) ELSE Gone(s)
  BY <1>1, BrokenFacts
<1>5. /\ j.from = k.from /\ j.token = k.token /\ j.op = k.op /\ j.arg = k.arg
      /\ j.nonce = k.nonce /\ ~j.live
  BY <1>1 DEF Calls
<1> HIDE DEF s, j
<1>6. client'[k.from] = s /\ \A c \in Clients : c # k.from => client'[c] = client[c]
  BY <1>1, <1>3 DEF ClientsTyped
<1>7. Opened(k.from)' => ToldLess(r, s, k.op)
  BY <1>4, <1>6 DEF Gone, Opened
<1>8. ASSUME NEW c \in Clients, Opened(c)' PROVE RecordLess(client[c], client'[c])
  <2>1. CASE c = k.from
    BY <1>6, <1>7, <1>8, <2>1 DEF ToldLess, RecordLess
  <2>2. CASE c # k.from
    BY <1>6, <2>2, SameIsLess
  <2> QED BY <2>1, <2>2
<1>9. ASSUME NEW c \in Clients, Opened(c)' PROVE CallsLess(c)
  <2>1. ASSUME NEW i \in calls', i.from = c PROVE FromOld(c, i)
    <3>1. CASE i = j
      <4>1. /\ k.op = "LoadModel" => client'[c].model = Nothing
            /\ k.op = "Configure" => client'[c].told = Nothing
        BY <1>5, <1>6, <1>7, <1>9, <2>1, <3>1 DEF ToldLess
      <4>2. \A h \in calls' : h.from = c => ~h.live
        BY <1>1, <1>3, <1>5, <2>1, <3>1 DEF OneLive
      <4> QED BY <1>3, <1>5, <2>1, <3>1, <4>1, <4>2 DEF FromOld
    <3>2. CASE i # j
      BY <1>3, <2>1, <3>2 DEF FromOld
    <3> QED BY <3>1, <3>2
  <2> QED BY <2>1 DEF CallsLess
<1>10. \A i : Known(i) => SameData(clientMap[i], clientMap'[i])
  BY <1>3, SameIsLess
<1> QED BY <1>2, <1>8, <1>9, <1>10, Passive

\* UploadModel() opens its file, or refuses.
LEMMA UploadOpenAgree ==
  ASSUME AgreeInv, HistoryGrows, NEW k \in calls, UploadOpen(k)
  PROVE  AgreeOK'
<1>1. SessionInv /\ Typed /\ k \in Calls
  BY Fields DEF AgreeInv, NonceInv, IsolationInv, SessionInv
<1>2. Quiet /\ Typed'
  BY <1>1, UploadOpenStep
<1>3. clientMap' = clientMap /\ (secure => k.step = "admitted")
  BY DEF UploadOpen, Begin, Arrived
<1>4. \A i : Known(i) => SameData(clientMap[i], clientMap'[i])
  BY <1>3, SameIsLess
<1>5. CASE clientMap[k.id].path = Nothing
  <2>1. Return(k, Failed(client[k.from], k)) /\ calls' \subseteq calls
    BY <1>5 DEF UploadOpen, Refuse, Done
  <2>2. /\ \A c \in Clients : Opened(c)' => RecordLess(client[c], client'[c])
        /\ \A c \in Clients : CallsLess(c)
    BY <1>1, <2>1, FailedLess, CallsLeave
  <2> QED BY <1>2, <1>4, <2>2, Passive
<1>6. CASE clientMap[k.id].path # Nothing
  <2> DEFINE j == [k EXCEPT !.step = "writing"]
  <2>1. client' = client /\ calls' = (calls \ {k}) \union {j}
    BY <1>6 DEF UploadOpen, Done
  <2>2. /\ j.from = k.from /\ j.token = k.token /\ j.op = k.op /\ j.arg = k.arg
        /\ j.nonce = k.nonce /\ j.live = k.live
    BY <1>1 DEF Calls
  <2> HIDE DEF j
  <2>3. ASSUME NEW c \in Clients, NEW i \in calls', i.from = c PROVE FromOld(c, i)
    <3>1. CASE i = j
      BY <1>3, <2>2, <2>3, <3>1 DEF FromOld
    <3>2. CASE i # j
      BY <2>1, <2>3, <3>2 DEF FromOld
    <3> QED BY <3>1, <3>2
  <2>4. \A c \in Clients : RecordLess(client[c], client'[c]) /\ CallsLess(c)
    BY <2>1, <2>3, SameIsLess DEF CallsLess
  <2> QED BY <1>2, <1>4, <2>4, Passive
<1> QED BY <1>5, <1>6

----------------------------------------------------------------------------
(* Handlers that change what a session holds or what a client knows.       *)

\* As long as no handler has run in another activation's session, the handler that
\* finds c's session runs for c.
LEMMA Mine ==
  ASSUME SessionInv, NEW k \in calls, NEW op, Begin(k, op), ~trespass', NEW c \in Clients,
         Owns(c), client[c].id = k.id
  PROVE  c = k.from /\ Current(k) /\ clientMap[k.id].token = k.token
<1>1. clientMap[k.id].token = k.token
  BY DEF Begin
<1>2. client[c].token = k.token
  BY <1>1 DEF Owns
<1> QED BY <1>1, <1>2 DEF SessionInv, TokensOK, Current

\* A call that is being answered leads to the session of its client.
LEMMA LiveIsMine ==
  ASSUME SessionInv, NEW k \in calls, k.live, ~IsExchange(k)
  PROVE  Current(k) /\ Opened(k.from) /\ k.id = client[k.from].id
  BY DEF SessionInv, CallsOK

\* The late calls of a kind stay harmless when nothing happens to them.
LEMMA HarmlessKept ==
  ASSUME NEW c \in Clients, NEW op, Harmless(c, op), \A i \in calls' : i.live \/ i \in calls,
         client'[c].token = client[c].token, client'[c].id = client[c].id,
         clientMap'[client[c].id].nonce = clientMap[client[c].id].nonce, secure' = secure
  PROVE  Harmless(c, op)'
  BY DEF Harmless, Current

\* When the handler of the client's call runs in order, the late calls of before will
\* not be handled any more.
LEMMA HarmlessNow ==
  ASSUME NonceInv, NEW k \in calls, Begin(k, k.op), NEW op \in {"LoadModel", "Configure"},
         k.live, ~IsExchange(k), NEW c \in Clients, c = k.from,
         InOrder(c)', client[c].lost => client'[c].lost, HistoryGrows,
         \A i \in calls' : i.live \/ i \in calls,
         client'[c].token = client[c].token, client'[c].id = client[c].id,
         clientMap'[client[c].id].nonce = clientMap[client[c].id].nonce, secure' = secure,
         clientMap[k.id].token = k.token
  PROVE  Harmless(c, op)'
<1>1. /\ SessionInv /\ Typed /\ StepsOK /\ CallsOK /\ CallNonces /\ SessionNonces
  BY DEF NonceInv, IsolationInv, SessionInv
<1>2. Current(k) /\ k.id = client[c].id
  BY <1>1, LiveIsMine
<1>3. ASSUME NEW i \in calls, ~i.live, i.from = c, client[c].token = i.token, i.op = op
      PROVE  secure /\ i.step = "sent" /\ i.nonce < clientMap[client[c].id].nonce
  <2>1. Current(i) /\ ~IsExchange(i) /\ i # k /\ i.id = k.id
    BY <1>1, <1>2, <1>3 DEF Current, IsExchange, CallsOK
  <2>2. secure
    BY <1>1, <1>3, <2>1 DEF InOrder, CallsOK
  <2>3. k.step = "admitted" /\ Known(k.id) /\ clientMap[k.id].nonce \in Nat
    BY <1>1, <2>2, BeginFacts, Fields
  <2>4. k.nonce < clientMap[k.id].nonce /\ k.nonce \in Nat /\ i.nonce \in Nat
    BY <1>1, <2>2, <2>3, Fields DEF SessionNonces
  <2>5. i.nonce < k.nonce
    BY <1>1, <1>2, <1>3, <2>1, <2>2 DEF CallNonces
  <2>6. i.step # "admitted"
    BY <2>1, <2>2 DEF InOrder, Begin
  <2>7. i.step = "sent"
    BY <1>1, <1>3, <2>1, <2>6, Fields DEF StepsOK
  <2> QED BY <1>2, <2>2, <2>3, <2>4, <2>5, <2>7
<1> QED BY <1>3 DEF Harmless, Current

\* A late call that is handled was not harmless.
LEMMA NotHarmless ==
  ASSUME Typed, NEW k \in calls, NEW op, Begin(k, op), ~k.live, Current(k), NEW c \in Clients,
         c = k.from
  PROVE  ~Harmless(c, op)
<1>1. k.op = op /\ (secure => k.step = "admitted")
  BY BeginFacts
<1> QED BY <1>1 DEF Harmless

\* What holds before a quiet step by which c may learn something.
LEMMA AgreedBefore ==
  ASSUME AgreeInv, Quiet, HistoryGrows, NEW c \in Clients, Owns(c)', InOrder(c)'
  PROVE  /\ Owns(c) /\ Agrees(c) /\ Opened(c) /\ Known(client[c].id)
         /\ client'[c].id = client[c].id /\ client'[c].token = client[c].token
         /\ client[c].lost => client'[c].lost
         /\ clientMap'[client[c].id].nonce = clientMap[client[c].id].nonce
         /\ secure' = secure
<1>1. NonceInv /\ AgreeOK /\ secure' = secure
  BY DEF AgreeInv, Quiet
<1>2. /\ Owns(c) /\ Still(client[c], client'[c])
      /\ clientMap'[client[c].id].nonce = clientMap[client[c].id].nonce
  BY <1>1, OwnsBefore
<1>3. /\ client'[c].id = client[c].id /\ client'[c].token = client[c].token
      /\ client[c].lost => client'[c].lost
  BY <1>2 DEF Still
<1>4. InOrder(c)
  BY <1>1, <1>3, InOrderBefore
<1> QED BY <1>1, <1>2, <1>3, <1>4 DEF AgreeOK, Owns

\* Configure(): the session has the configuration its client is told about.
LEMMA HandleConfigureAgree ==
  ASSUME AgreeInv, HistoryGrows, NEW k \in calls, HandleConfigure(k)
  PROVE  AgreeOK'
<1> DEFINE r == ConfigureReturns(client[k.from], k)
           g == Configured(clientMap[k.id], k.arg)
<1>1. NonceInv /\ SessionInv /\ Typed /\ ClientsTyped /\ k.from \in Clients
  <2>1. NonceInv /\ SessionInv /\ Typed
    BY DEF AgreeInv, NonceInv, IsolationInv, SessionInv
  <2> QED BY <2>1, TypedParts, Fields
<1>2. Quiet /\ Typed'
  BY <1>1, HandleConfigureStep
<1>3. Begin(k, "Configure") /\ Store(k, g) /\ Return(k, r) /\ calls' = calls \ {k}
  BY DEF HandleConfigure, Done
<1>4. /\ k.op = "Configure" /\ ~IsExchange(k) /\ k.arg \in Configs /\ Known(k.id)
      /\ clientMap[k.id] \in Gsts
  BY <1>1, <1>3, BeginFacts, Fields DEF IsExchange, ArgOf
<1>5. /\ g \in Gsts /\ g.token = clientMap[k.id].token /\ g.nonce = clientMap[k.id].nonce
      /\ g.conf = k.arg /\ g.path = clientMap[k.id].path /\ g.info = clientMap[k.id].info
  BY <1>4, GstFacts
<1>6. k.live => r.told = k.arg /\ r.model = client[k.from].model /\ r.cache = client[k.from].cache
  <2>1. k.live => client[k.from] \in ClientStates /\ client[k.from].state \in {"configure", "active"}
    BY <1>1, <1>4, LiveIsMine, Fields DEF Opened
  <2> QED BY <1>4, <2>1, ConfigureFacts
<1> HIDE DEF g, r
<1>7. clientMap'[k.id] = g /\ \A i \in DOMAIN clientMap : i # k.id => clientMap'[i] = clientMap[i]
  BY <1>1, <1>3, <1>4, <1>5, Stored
<1>8. \A c \in Clients : client'[c] = IF k.live /\ c = k.from THEN r ELSE client[c]
  BY <1>1, <1>3 DEF Return, ClientsTyped
<1>9. ASSUME NEW c \in Clients, Owns(c)', InOrder(c)' PROVE Agrees(c)'
  <2>1. /\ Owns(c) /\ Agrees(c) /\ Opened(c) /\ Known(client[c].id)
        /\ client'[c].id = client[c].id /\ client'[c].token = client[c].token
        /\ client[c].lost => client'[c].lost
        /\ clientMap'[client[c].id].nonce = clientMap[client[c].id].nonce
        /\ secure' = secure
    BY <1>2, <1>9, AgreedBefore
  <2>2. CASE client[c].id # k.id
    <3>1. client'[c] = client[c]
      BY <1>1, <1>4, <1>8, <2>2, LiveIsMine
    <3>2. clientMap'[client[c].id] = clientMap[client[c].id]
      BY <1>7, <2>1, <2>2 DEF Known
    <3>3. CallsLess(c)
      BY <1>3, CallsLeave
    <3> QED BY <1>2, <1>9, <3>1, <3>2, <3>3, SameIsLess, QuietAgrees
  <2>3. CASE client[c].id = k.id
    <3>1. c = k.from /\ Current(k) /\ clientMap[k.id].token = k.token
      BY <1>1, <1>3, <1>9, <2>1, <2>3, Mine DEF InOrder
    <3>2. \A i \in calls' : i.live \/ i \in calls
      BY <1>3
    <3>3. \A op : Harmless(c, op) => Harmless(c, op)'
      BY <2>1, <3>2, HarmlessKept
    <3>4. /\ client'[c].model = client[c].model /\ client'[c].cache = client[c].cache
          /\ client'[c].told # Nothing => client'[c].told = k.arg /\ Harmless(c, "Configure")'
      <4>1. CASE k.live
        <5>1. Harmless(c, "Configure")'
          BY <1>1, <1>3, <1>4, <1>9, <2>1, <3>1, <3>2, <4>1, HarmlessNow
        <5> QED BY <1>6, <1>8, <3>1, <4>1, <5>1
      <4>2. CASE ~k.live
        <5>1. client[c].told = Nothing
          BY <1>1, <1>3, <2>1, <3>1, <4>2, NotHarmless DEF Agrees
        <5> QED BY <1>8, <4>2, <5>1
      <4> QED BY <4>1, <4>2
    <3>5. clientMap'[client[c].id] = g /\ clientMap[client[c].id] = clientMap[k.id]
      BY <1>7, <2>3
    <3>6. \A i \in calls' : i \in calls
      BY <1>3
    <3> QED BY <1>5, <2>1, <3>3, <3>4, <3>5, <3>6 DEF Agrees
  <2> QED BY <2>2, <2>3
<1> QED BY <1>9 DEF AgreeOK

\* LoadModel(): the session has the path its client is told about, or sends a file for.
LEMMA HandleLoadModelAgree ==
  ASSUME AgreeInv, HistoryGrows, NEW k \in calls, HandleLoadModel(k)
  PROVE  AgreeOK'
<1> DEFINE found == k.arg \in files
           r == LoadModelReturns(client[k.from], found, k)
           s == IF found THEN r ELSE NextNonce(r)
           j == NewCall(k.from, r, "UploadModel", k.arg)
           g == SetModelPath(clientMap[k.id], k.arg)
<1>1. /\ NonceInv /\ SessionInv /\ Typed /\ ClientsTyped /\ k.from \in Clients /\ OneLive
      /\ AgreeOK
  <2>1. NonceInv /\ SessionInv /\ Typed /\ OneLive /\ AgreeOK
    BY DEF AgreeInv, NonceInv, IsolationInv, SessionInv
  <2> QED BY <2>1, TypedParts, Fields
<1>2. CallsOK' /\ secure' = secure
  <2>1. (Quiet \/ NewSent) /\ Typed'
    BY <1>1, HandleLoadModelStep
  <2> QED BY <1>1, <2>1, QuietCallsOK, SentCallsKept DEF Quiet, NewSent
<1>3. /\ Begin(k, "LoadModel") /\ Store(k, g)
      /\ IF k.live /\ ~found
         THEN /\ client' = [client EXCEPT ![k.from] = NextNonce(r)]
              /\ calls' = (calls \ {k}) \union {j}
         ELSE Return(k, r) /\ calls' = calls \ {k}
  BY DEF HandleLoadModel, Done
<1>4. /\ k.op = "LoadModel" /\ ~IsExchange(k) /\ k.arg \in Models /\ Known(k.id)
      /\ clientMap[k.id] \in Gsts
  BY <1>1, <1>3, BeginFacts, Fields DEF IsExchange, ArgOf
<1>5. /\ g \in Gsts /\ g.token = clientMap[k.id].token /\ g.nonce = clientMap[k.id].nonce
      /\ g.conf = clientMap[k.id].conf /\ g.path = k.arg /\ g.info = clientMap[k.id].info
  BY <1>4, GstFacts
<1>6. k.live => /\ s.id = client[k.from].id /\ s.token = client[k.from].token
                /\ s.lost = client[k.from].lost /\ s.told = client[k.from].told
                /\ s.model = (IF found THEN k.arg ELSE Nothing)
                /\ \A x \in Sides : s.cache[x] = Nothing
  <2>1. k.live => client[k.from] \in ClientStates /\ client[k.from].state = "active"
    BY <1>1, <1>4, LiveCall
  <2>2. k.live => /\ r \in ClientStates /\ Still(client[k.from], r) /\ r.lost = client[k.from].lost
                  /\ r.told = client[k.from].told
                  /\ r.model = (IF found THEN k.arg ELSE Nothing)
                  /\ \A x \in Sides : r.cache[x] = Nothing
    <3> DEFINE q == client[k.from]
               b == found
    <3>1. CASE k.live
      <4>1. q \in ClientStates /\ q.state = "active" /\ b \in BOOLEAN
        BY <2>1, <3>1
      <4> HIDE DEF q, b
      <4>2. LET t == LoadModelReturns(q, b, k) IN
              /\ t \in ClientStates /\ Still(q, t) /\ t.lost = q.lost /\ t.told = q.told
              /\ t.model = (IF b THEN k.arg ELSE Nothing)
              /\ \A x \in Sides : t.cache[x] = Nothing
        BY <1>4, <4>1, LoadModelFacts
      <4> QED BY <4>2 DEF q, b
    <3> QED BY <3>1
  <2> HIDE DEF r
  <2>3. k.live => /\ s.id = r.id /\ s.token = r.token /\ s.lost = r.lost /\ s.told = r.told
                  /\ s.model = r.model /\ s.cache = r.cache
    BY <1>1, <2>2, NextNonceFacts
  <2> HIDE DEF s
  <2> QED BY <2>2, <2>3 DEF Still
<1>7. j.from = k.from /\ j.live /\ j.op = "UploadModel" /\ j.arg = k.arg
  BY DEF NewCall
<1>8. \A c \in Clients : client'[c] = IF k.live /\ c = k.from THEN s ELSE client[c]
  <2> HIDE DEF r
  <2> QED BY <1>1, <1>3 DEF Return, ClientsTyped
<1>9. \/ calls' = calls \ {k}
      \/ k.live /\ calls' = (calls \ {k}) \union {j}
  BY <1>3
<1> HIDE DEF g, s, j
<1>10. clientMap'[k.id] = g /\ \A i \in DOMAIN clientMap : i # k.id => clientMap'[i] = clientMap[i]
  BY <1>1, <1>3, <1>4, <1>5, Stored
<1>11. MapKeeps
  BY <1>1, <1>3, <1>4, <1>5, Stored
<1>12. ASSUME NEW c \in Clients, Owns(c)', InOrder(c)' PROVE Agrees(c)'
  <2>1. /\ client'[c].id = client[c].id /\ client'[c].token = client[c].token
        /\ client'[c].lost = client[c].lost
    BY <1>6, <1>8
  <2>2. Opened(c)
    BY <1>1, <1>4, <1>8, <1>12, LiveIsMine DEF Owns, Opened
  <2>3. Known(client[c].id)
    BY <1>11, <1>12, <2>1, KnownKept DEF Owns, Known
  <2>4. /\ clientMap'[client[c].id].token = clientMap[client[c].id].token
        /\ clientMap'[client[c].id].nonce = clientMap[client[c].id].nonce
        /\ clientMap[client[c].id].nonce \in Nat
    BY <1>1, <1>11, <2>3, KnownKept, Fields DEF Known
  <2>5. Owns(c) /\ Agrees(c)
    <3>1. Owns(c)
      BY <1>12, <2>1, <2>2, <2>3, <2>4 DEF Owns
    <3>2. InOrder(c)
      BY <1>2, <1>12, <2>1, InOrderBefore
    <3> QED BY <1>1, <3>1, <3>2 DEF AgreeOK
  <2>6. CASE client[c].id # k.id
    <3>1. ~(k.live /\ c = k.from) /\ client'[c] = client[c]
      BY <1>1, <1>4, <1>8, <2>6, LiveIsMine
    <3>2. clientMap'[client[c].id] = clientMap[client[c].id]
      BY <1>10, <2>3, <2>6 DEF Known
    <3>3. \A i \in calls' : i.from = c => i \in calls
      BY <1>7, <1>9, <3>1
    <3>4. CallsLess(c)
      BY <3>3 DEF CallsLess, FromOld
    <3>5. clientMap[client[c].id].nonce <= clientMap'[client[c].id].nonce
      BY <2>4, <3>2
    <3> QED BY <1>1, <1>2, <2>1, <2>4, <2>5, <3>1, <3>2, <3>4, <3>5, SameIsLess, AgreesFrom
  <2>7. CASE client[c].id = k.id
    <3>1. c = k.from /\ Current(k) /\ clientMap[k.id].token = k.token
      BY <1>1, <1>3, <1>12, <2>5, <2>7, Mine DEF InOrder
    <3>2. \A i \in calls' : i.live \/ i \in calls
      BY <1>7, <1>9
    <3>3. \A op : Harmless(c, op) => Harmless(c, op)'
      BY <1>2, <2>1, <2>4, <3>2, HarmlessKept
    <3>4. clientMap'[client[c].id] = g /\ clientMap[client[c].id] = clientMap[k.id]
      BY <1>10, <2>7
    <3>5. CASE k.live
      <4>1. Harmless(c, "LoadModel")'
        BY <1>1, <1>2, <1>3, <1>4, <1>12, <2>1, <2>4, <3>1, <3>2, <3>5, HarmlessNow
      <4>2. /\ client'[c].told = client[c].told /\ client'[c].model \in {Nothing, k.arg}
            /\ \A x \in Sides : client'[c].cache[x] = Nothing
        BY <1>6, <1>8, <3>1, <3>5
      <4>3. \A i \in calls' : i.from = c /\ i.live => i.arg = k.arg
        BY <1>1, <1>7, <1>9, <3>1, <3>5 DEF OneLive
      <4> QED BY <1>5, <2>1, <2>5, <3>3, <3>4, <4>1, <4>2, <4>3 DEF Agrees
    <3>6. CASE ~k.live
      <4>1. ~Harmless(c, "LoadModel")
        BY <1>1, <1>3, <3>1, <3>6, NotHarmless
      <4>2. /\ client[c].model = Nothing
            /\ \A i \in calls : i.from = c /\ i.live => i.op # "UploadModel"
        BY <2>5, <4>1 DEF Agrees
      <4>3. client'[c] = client[c] /\ \A i \in calls' : i \in calls
        BY <1>8, <1>9, <3>6
      <4> QED BY <1>5, <2>5, <3>3, <3>4, <4>2, <4>3 DEF Agrees
    <3> QED BY <3>5, <3>6
  <2> QED BY <2>6, <2>7
<1> QED BY <1>12 DEF AgreeOK

\* UploadModel() ends: the session's path is that of the model that was sent.
LEMMA UploadAgree ==
  ASSUME AgreeInv, HistoryGrows, NEW k \in calls, UploadNotOpened(k) \/ UploadClose(k)
  PROVE  AgreeOK'
<1> DEFINE r == UploadReturns(client[k.from], k)
<1>1. /\ NonceInv /\ SessionInv /\ Typed /\ ClientsTyped /\ k.from \in Clients /\ StepsOK
      /\ CallsOK /\ OneLive
  <2>1. NonceInv /\ SessionInv /\ Typed /\ StepsOK /\ CallsOK /\ OneLive
    BY DEF AgreeInv, NonceInv, IsolationInv, SessionInv
  <2> QED BY <2>1, TypedParts, Fields
<1>2. Quiet /\ Typed'
  BY <1>1, UploadNotOpenedStep, UploadCloseStep
<1>3. Return(k, r) /\ calls' = calls \ {k} /\ clientMap' = clientMap
  BY DEF UploadNotOpened, UploadClose, Done
<1>4. k.op = "UploadModel" /\ ~IsExchange(k) /\ k.arg \in Models
  <2>1. k.op = "UploadModel"
    BY <1>1 DEF UploadNotOpened, UploadClose, Begin, Arrived, StepsOK
  <2> QED BY <1>1, <2>1, Fields DEF IsExchange, ArgOf
<1>5. k.live => /\ r.model = k.arg /\ r.told = client[k.from].told /\ r.cache = client[k.from].cache
  <2>1. k.live => client[k.from] \in ClientStates /\ client[k.from].state = "active"
    BY <1>1, <1>4, LiveCall
  <2> QED BY <1>4, <2>1, UploadFacts
<1> HIDE DEF r
<1>6. \A c \in Clients : client'[c] = IF k.live /\ c = k.from THEN r ELSE client[c]
  BY <1>1, <1>3 DEF Return, ClientsTyped
<1>7. ASSUME NEW c \in Clients, Owns(c)', InOrder(c)' PROVE Agrees(c)'
  <2>1. /\ Owns(c) /\ Agrees(c) /\ Opened(c) /\ Known(client[c].id)
        /\ client'[c].id = client[c].id /\ client'[c].token = client[c].token
        /\ client[c].lost => client'[c].lost
        /\ clientMap'[client[c].id].nonce = clientMap[client[c].id].nonce
        /\ secure' = secure
    BY <1>2, <1>7, AgreedBefore
  <2>2. CASE k.live /\ c = k.from
    <3>1. \A op : Harmless(c, op) => Harmless(c, op)'
      BY <1>3, <2>1, HarmlessKept
    <3>2. clientMap[client[c].id].path = k.arg /\ Harmless(c, "LoadModel")
      BY <1>4, <2>1, <2>2 DEF Agrees
    <3>3. /\ client'[c].model = k.arg /\ client'[c].told = client[c].told
          /\ client'[c].cache = client[c].cache
      BY <1>5, <1>6, <2>2
    <3>4. \A i \in calls' : i.from = c => ~i.live
      BY <1>1, <1>3, <2>2 DEF OneLive
    <3> QED BY <1>3, <2>1, <3>1, <3>2, <3>3, <3>4 DEF Agrees
  <2>3. CASE ~(k.live /\ c = k.from)
    <3>1. client'[c] = client[c] /\ CallsLess(c)
      BY <1>3, <1>6, <2>3, CallsLeave
    <3>2. clientMap'[client[c].id] = clientMap[client[c].id]
      BY <1>3
    <3> QED BY <1>2, <1>7, <3>1, <3>2, SameIsLess, QuietAgrees
  <2> QED BY <2>2, <2>3
<1> QED BY <1>7 DEF AgreeOK

\* GetInput-/OutputTensorInfo(): the client caches what the session holds.
LEMMA AnswerInfoAgree ==
  ASSUME AgreeInv, HistoryGrows, NEW k \in calls, NEW op, NEW s \in Sides, Begin(k, op),
         AnswerInfo(k, s), op \notin {"ExchangeKey", "Configure"}
  PROVE  AgreeOK'
<1> DEFINE r == TensorInfoReturns(client[k.from], s, clientMap[k.id].info[s])
<1>1. /\ NonceInv /\ SessionInv /\ Typed /\ ClientsTyped /\ k.from \in Clients
  <2>1. NonceInv /\ SessionInv /\ Typed
    BY DEF AgreeInv, NonceInv, IsolationInv, SessionInv
  <2> QED BY <2>1, TypedParts, Fields
<1>2. Quiet /\ Typed'
  BY <1>1, AnswerInfoStep
<1>3. clientMap' = clientMap /\ k.op = op /\ ~IsExchange(k) /\ clientMap[k.id] \in Gsts
  BY <1>1, BeginFacts DEF AnswerInfo, IsExchange
<1>4. \A i : Known(i) => SameData(clientMap[i], clientMap'[i])
  BY <1>3, SameIsLess
<1>5. CASE clientMap[k.id].info[s] = Nothing
  <2>1. client' = client /\ calls' = calls
    BY <1>5 DEF AnswerInfo
  <2> QED BY <1>2, <1>4, <2>1, CallsLeave, SameIsLess, Passive
<1>6. CASE clientMap[k.id].info[s] # Nothing
  <2>1. Return(k, r) /\ calls' = calls \ {k}
    BY <1>6 DEF AnswerInfo, Done
  <2>2. clientMap[k.id].info[s] \in Maybe(Models)
    BY <1>3 DEF Gsts
  <2>3. k.live => client[k.from] \in ClientStates /\ client[k.from].state = "active"
    BY <1>1, <1>3, LiveCall
  <2>4. k.live =>
          /\ r.model = client[k.from].model /\ r.told = client[k.from].told
          /\ \A x \in Sides : r.cache[x] = IF x = s THEN clientMap[k.id].info[s]
                                           ELSE client[k.from].cache[x]
    BY <2>2, <2>3, InfoFacts
  <2> HIDE DEF r
  <2>5. \A c \in Clients : client'[c] = IF k.live /\ c = k.from THEN r ELSE client[c]
    BY <1>1, <2>1 DEF Return, ClientsTyped
  <2>6. ASSUME NEW c \in Clients, Owns(c)', InOrder(c)' PROVE Agrees(c)'
    <3>1. /\ Owns(c) /\ Agrees(c) /\ Opened(c) /\ Known(client[c].id)
          /\ client'[c].id = client[c].id /\ client'[c].token = client[c].token
          /\ client[c].lost => client'[c].lost
          /\ clientMap'[client[c].id].nonce = clientMap[client[c].id].nonce
          /\ secure' = secure
      BY <1>2, <2>6, AgreedBefore
    <3>2. CASE k.live /\ c = k.from
      <4>1. \A o : Harmless(c, o) => Harmless(c, o)'
        BY <2>1, <3>1, HarmlessKept
      <4>2. client[c].id = k.id
        BY <1>1, <1>3, <3>2, LiveIsMine
      <4>3. /\ client'[c].model = client[c].model /\ client'[c].told = client[c].told
            /\ \A x \in Sides : client'[c].cache[x] = IF x = s THEN clientMap[client[c].id].info[x]
                                                      ELSE client[c].cache[x]
        BY <2>4, <2>5, <3>2, <4>2
      <4>4. \A i \in calls' : i \in calls
        BY <2>1
      <4> QED BY <1>3, <3>1, <4>1, <4>3, <4>4 DEF Agrees
    <3>3. CASE ~(k.live /\ c = k.from)
      <4>1. client'[c] = client[c] /\ CallsLess(c)
        BY <2>1, <2>5, <3>3, CallsLeave
      <4>2. clientMap'[client[c].id] = clientMap[client[c].id]
        BY <1>3
      <4> QED BY <1>2, <2>6, <4>1, <4>2, SameIsLess, QuietAgrees
    <3> QED BY <3>2, <3>3
  <2> QED BY <2>6 DEF AgreeOK
<1> QED BY <1>5, <1>6

\* SetInput-/OutputTensorInfo(): the session holds what the client caches.
LEMMA TakeInfoAgree ==
  ASSUME AgreeInv, HistoryGrows, NEW k \in calls, NEW op, NEW s \in Sides, Begin(k, op),
         TakeInfo(k, s), op \in {"SetInputTensorInfo", "SetOutputTensorInfo"}
  PROVE  AgreeOK'
<1> DEFINE r == SetTensorInfoReturns(client[k.from], s, k)
           g == SetInfoOf(clientMap[k.id], s, k.arg)
<1>1. /\ NonceInv /\ SessionInv /\ Typed /\ ClientsTyped /\ k.from \in Clients /\ CallsOK
  <2>1. NonceInv /\ SessionInv /\ Typed /\ CallsOK
    BY DEF AgreeInv, NonceInv, IsolationInv, SessionInv
  <2> QED BY <2>1, TypedParts, Fields
<1>2. Quiet /\ Typed'
  BY <1>1, TakeInfoStep
<1>3. Store(k, g) /\ Return(k, r) /\ calls' = calls \ {k}
  BY DEF TakeInfo, Done
<1>4. /\ k.op = op /\ ~IsExchange(k) /\ k.arg \in Models /\ Known(k.id) /\ k.op # "Configure"
      /\ clientMap[k.id] \in Gsts
  BY <1>1, BeginFacts, Fields DEF IsExchange, ArgOf
<1>5. /\ g \in Gsts /\ g.token = clientMap[k.id].token /\ g.nonce = clientMap[k.id].nonce
      /\ g.conf = clientMap[k.id].conf /\ g.path = clientMap[k.id].path
      /\ \A x \in Sides : g.info[x] = IF x = s THEN k.arg ELSE clientMap[k.id].info[x]
  BY <1>4, GstFacts
<1>6. k.live =>
          /\ r.model = client[k.from].model /\ r.told = client[k.from].told
          /\ \A x \in Sides : r.cache[x] = IF x = s THEN k.arg ELSE client[k.from].cache[x]
  <2>1. k.live => client[k.from] \in ClientStates /\ client[k.from].state = "active"
    BY <1>1, <1>4, LiveCall
  <2>2. r = TensorInfoReturns(client[k.from], s, k.arg) /\ k.arg \in Maybe(Models)
    BY <1>4 DEF SetTensorInfoReturns, TensorInfoReturns, Maybe
  <2> QED BY <2>1, <2>2, InfoFacts
<1> HIDE DEF g, r
<1>7. clientMap'[k.id] = g /\ \A i \in DOMAIN clientMap : i # k.id => clientMap'[i] = clientMap[i]
  BY <1>1, <1>3, <1>4, <1>5, Stored
<1>8. \A c \in Clients : client'[c] = IF k.live /\ c = k.from THEN r ELSE client[c]
  BY <1>1, <1>3 DEF Return, ClientsTyped
<1>9. ASSUME NEW c \in Clients, Owns(c)', InOrder(c)' PROVE Agrees(c)'
  <2>1. /\ Owns(c) /\ Agrees(c) /\ Opened(c) /\ Known(client[c].id)
        /\ client'[c].id = client[c].id /\ client'[c].token = client[c].token
        /\ client[c].lost => client'[c].lost
        /\ clientMap'[client[c].id].nonce = clientMap[client[c].id].nonce
        /\ secure' = secure
    BY <1>2, <1>9, AgreedBefore
  <2>2. CASE client[c].id # k.id
    <3>1. client'[c] = client[c]
      BY <1>1, <1>4, <1>8, <2>2, LiveIsMine
    <3>2. clientMap'[client[c].id] = clientMap[client[c].id]
      BY <1>7, <2>1, <2>2 DEF Known
    <3>3. CallsLess(c)
      BY <1>3, CallsLeave
    <3> QED BY <1>2, <1>9, <3>1, <3>2, <3>3, SameIsLess, QuietAgrees
  <2>3. CASE client[c].id = k.id
    <3>1. c = k.from /\ Current(k) /\ clientMap[k.id].token = k.token
      BY <1>1, <1>9, <2>1, <2>3, Mine DEF InOrder
    <3>2. \A o : Harmless(c, o) => Harmless(c, o)'
      BY <1>3, <2>1, HarmlessKept
    <3>3. clientMap'[client[c].id] = g /\ clientMap[client[c].id] = clientMap[k.id]
      BY <1>7, <2>3
    <3>4. /\ client'[c].model = client[c].model /\ client'[c].told = client[c].told
          /\ ~client'[c].lost =>
                 \A x \in Sides : client'[c].cache[x] = IF x = s THEN k.arg ELSE client[c].cache[x]
      <4>1. CASE k.live
        BY <1>6, <1>8, <3>1, <4>1
      <4>2. CASE ~k.live
        <5>1. client'[c].lost
          BY <1>1, <2>1, <3>1, <4>2, Fields DEF CallsOK
        <5> QED BY <1>8, <4>2, <5>1
      <4> QED BY <4>1, <4>2
    <3>5. \A i \in calls' : i \in calls
      BY <1>3
    <3> QED BY <1>5, <2>1, <3>2, <3>3, <3>4, <3>5 DEF Agrees
  <2> QED BY <2>2, <2>3
<1> QED BY <1>9 DEF AgreeOK

\* Prepare() only adds information the session does not have.
LEMMA HandlePrepareAgree ==
  ASSUME AgreeInv, HistoryGrows, NEW k \in calls, HandlePrepare(k)
  PROVE  AgreeOK'
<1>1. NonceInv /\ SessionInv /\ Typed
  BY DEF AgreeInv, NonceInv, IsolationInv, SessionInv
<1>2. Quiet /\ Typed'
  BY <1>1, HandlePrepareStep
<1>3. Begin(k, "Prepare") /\ calls' = calls \ {k}
  BY DEF HandlePrepare, Done
<1>4. Known(k.id) /\ clientMap[k.id] \in Gsts
  BY <1>1, <1>3, BeginFacts
<1>5. PICK o \in PrepareOutcomes(clientMap[k.id]) :
           /\ Store(k, o.gst)
           /\ Return(k, IF o.ok THEN client[k.from] ELSE Failed(client[k.from], k))
  BY DEF HandlePrepare
<1> DEFINE h == o.gst
<1>6. /\ h \in Gsts /\ h.token = clientMap[k.id].token /\ h.nonce = clientMap[k.id].nonce
      /\ SameData(clientMap[k.id], h)
  BY <1>4, PrepareFacts DEF SameData
<1>7. Store(k, h)
  BY <1>5
<1> HIDE DEF h
<1>8. clientMap'[k.id] = h /\ \A i \in DOMAIN clientMap : i # k.id => clientMap'[i] = clientMap[i]
  BY <1>1, <1>4, <1>6, <1>7, Stored
<1>9. \A i : Known(i) => SameData(clientMap[i], clientMap'[i])
  BY <1>6, <1>8, SameIsLess DEF Known
<1>10. \A c \in Clients : Opened(c)' => RecordLess(client[c], client'[c])
  <2>1. CASE o.ok
    <3>1. client' = client
      <4>1. client \in [Clients -> ClientStates]
        BY <1>1 DEF Typed, TypeOK
      <4> QED BY <1>5, <2>1, <4>1 DEF Return
    <3> QED BY <3>1, SameIsLess
  <2>2. CASE ~o.ok
    BY <1>1, <1>5, <2>2, FailedLess
  <2> QED BY <2>1, <2>2
<1> QED BY <1>2, <1>3, <1>9, <1>10, CallsLeave, Passive

----------------------------------------------------------------------------
(* Steps that send calls, make sessions or move nonces on.                 *)

\* A client that stays with its session agrees with it as before.
LEMMA SameSession ==
  ASSUME AgreeInv, HistoryGrows, secure' = secure, CallsOK',
         NEW c \in Clients, Owns(c)', InOrder(c)', Opened(c), Known(client[c].id),
         client'[c].id = client[c].id, client'[c].token = client[c].token,
         client[c].lost => client'[c].lost,
         RecordLess(client[c], client'[c]),
         clientMap'[client[c].id].token = clientMap[client[c].id].token,
         SameData(clientMap[client[c].id], clientMap'[client[c].id]),
         clientMap'[client[c].id].nonce \in Nat,
         clientMap[client[c].id].nonce <= clientMap'[client[c].id].nonce,
         CallsLess(c)
  PROVE  Agrees(c)'
<1>1. Typed /\ AgreeOK
  BY DEF AgreeInv, NonceInv, IsolationInv, SessionInv
<1>2. clientMap[client[c].id].nonce \in Nat
  BY <1>1, Fields DEF Known
<1>3. Owns(c) /\ InOrder(c)
  BY InOrderBefore DEF Owns
<1>4. Agrees(c)
  BY <1>1, <1>3 DEF AgreeOK
<1> QED BY <1>1, <1>2, <1>4, AgreesFrom

\* The clients and the sessions are as before.
LEMMA SameAgrees ==
  ASSUME AgreeInv, HistoryGrows, secure' = secure, CallsOK', clientMap' = clientMap,
         NEW c \in Clients, client'[c] = client[c], Owns(c)', InOrder(c)',
         CallsLess(c)
  PROVE  Agrees(c)'
<1>1. Typed /\ Opened(c) /\ Known(client[c].id)
  BY DEF AgreeInv, NonceInv, IsolationInv, SessionInv, Owns, Opened, Known
<1>2. clientMap[client[c].id].nonce \in Nat
  BY <1>1, Fields DEF Known
<1>3. clientMap[client[c].id].nonce <= clientMap'[client[c].id].nonce
  BY <1>2
<1> QED BY <1>1, <1>2, <1>3, SameIsLess, SameSession

\* A call is sent.
LEMMA SendAgree ==
  ASSUME AgreeInv, CallsOK', NEW c \in Clients, NEW op, NEW arg, op # "UploadModel",
         Send(c, op, arg)
  PROVE  AgreeOK'
<1> DEFINE j == NewCall(c, client[c], op, arg)
           s == NextNonce(client[c])
<1>1. Typed /\ ClientsTyped
  BY TypedParts DEF AgreeInv, NonceInv, IsolationInv, SessionInv
<1>2. /\ calls' = calls \union {j} /\ client' = [client EXCEPT ![c] = s]
      /\ secure' = secure /\ clientMap' = clientMap /\ HistoryGrows
  BY DEF Send, serverVars, HistoryGrows
<1>3. j.live /\ j.op # "UploadModel"
  BY DEF NewCall
<1>4. /\ s.token = client[c].token /\ s.id = client[c].id /\ s.lost = client[c].lost
      /\ s.told = client[c].told /\ s.model = client[c].model /\ s.cache = client[c].cache
      /\ s.state = client[c].state
  BY <1>1, NextNonceFacts DEF ClientsTyped
<1> HIDE DEF j, s
<1>5. client'[c] = s /\ \A d \in Clients : d # c => client'[d] = client[d]
  BY <1>1, <1>2 DEF ClientsTyped
<1>6. \A d \in Clients : CallsLess(d)
  BY <1>2, <1>3 DEF CallsLess, FromOld
<1>7. ASSUME NEW d \in Clients, Owns(d)', InOrder(d)' PROVE Agrees(d)'
  <2>1. CASE d # c
    BY <1>2, <1>5, <1>6, <1>7, <2>1, SameAgrees
  <2>2. CASE d = c
    <3>1. /\ Opened(d) /\ Known(client[d].id)
          /\ client'[d].id = client[d].id /\ client'[d].token = client[d].token
          /\ client[d].lost => client'[d].lost
      BY <1>2, <1>4, <1>5, <1>7, <2>2 DEF Owns, Opened, Known
    <3>2. RecordLess(client[d], client'[d])
      BY <1>4, <1>5, <2>2 DEF RecordLess
    <3>3. clientMap[client[d].id].nonce \in Nat
      BY <1>1, <3>1, Fields DEF Known
    <3>4. clientMap[client[d].id].nonce <= clientMap'[client[d].id].nonce
      BY <1>2, <3>3
    <3> QED BY <1>2, <1>6, <1>7, <3>1, <3>2, <3>3, <3>4, SameIsLess, SameSession
  <2> QED BY <2>1, <2>2
<1> QED BY <1>7 DEF AgreeOK

\* The calls of an active client.
LEMMA SendsAgree ==
  ASSUME AgreeInv, CallsOK',
         \/ \E c \in Clients, conf \in Configs : Configure(c, conf)
         \/ \E c \in Clients, m \in Models : LoadModel(c, m)
         \/ \E c \in Clients : GetInputTensorInfo(c)
         \/ \E c \in Clients : GetOutputTensorInfo(c)
         \/ \E c \in Clients, m \in Models : SetInputTensorInfo(c, m)
         \/ \E c \in Clients, m \in Models : SetOutputTensorInfo(c, m)
         \/ \E c \in Clients : Prepare(c)
         \/ \E c \in Clients : Stop(c)
         \/ \E c \in Clients : GetInfo(c)
  PROVE  AgreeOK'
<1>1. \E c \in Clients : \E op, arg : op # "UploadModel" /\ Send(c, op, arg)
  BY DEF Configure, LoadModel, GetInputTensorInfo, GetOutputTensorInfo,
         SetInputTensorInfo, SetOutputTensorInfo, Prepare, Stop, GetInfo
<1> QED BY <1>1, SendAgree

\* An activation starts.
LEMMA ActivateAgree ==
  ASSUME AgreeInv, CallsOK', NEW c \in Clients, Activate(c)
  PROVE  AgreeOK'
<1>1. SessionInv
  BY DEF AgreeInv, NonceInv, IsolationInv
<1>2. PICK j \in calls' :
         /\ \A d \in Clients : d # c => client'[d] = client[d]
         /\ client'[c].state = "exchange"
         /\ calls' = calls \union {j}
         /\ j.from = c
         /\ UNCHANGED <<secure, serverVars, sent>>
  BY <1>1, ActivateFacts
<1>3. clientMap' = clientMap /\ secure' = secure /\ HistoryGrows
  BY <1>2 DEF serverVars, HistoryGrows
<1>4. ASSUME NEW d \in Clients, Owns(d)', InOrder(d)' PROVE Agrees(d)'
  <2>1. d # c
    BY <1>2, <1>4 DEF Owns, Opened
  <2>2. CallsLess(d)
    BY <1>2, <2>1 DEF CallsLess, FromOld
  <2> QED BY <1>2, <1>3, <1>4, <2>1, <2>2, SameAgrees
<1> QED BY <1>4 DEF AgreeOK

\* ExchangeKey() reads the id: its client has no session yet.
LEMMA ExchangeCreateAgree ==
  ASSUME AgreeInv, CallsOK', NEW k \in calls, ExchangeCreate(k)
  PROVE  AgreeOK'
<1> DEFINE j == [k EXCEPT !.step = "created", !.id = nextPeerId]
<1>1. SessionInv /\ CallsOK /\ Typed /\ k \in Calls
  BY Fields DEF AgreeInv, NonceInv, IsolationInv, SessionInv
<1>2. /\ calls' = (calls \ {k}) \union {j} /\ IsExchange(k)
      /\ client' = client /\ clientMap' = clientMap /\ secure' = secure /\ HistoryGrows
  BY DEF ExchangeCreate, Done, IsExchange, HistoryGrows
<1>3. j.from = k.from /\ j.token = k.token
  BY <1>1 DEF Calls
<1> HIDE DEF j
<1>4. ASSUME NEW c \in Clients, Owns(c)', InOrder(c)' PROVE Agrees(c)'
  <2>1. Opened(c)
    BY <1>2, <1>4 DEF Owns, Opened
  <2>2. ASSUME NEW i \in calls', i.from = c, i.token = client[c].token PROVE FromOld(c, i)
    <3>1. i # j
      BY <1>1, <1>2, <1>3, <2>1, <2>2 DEF CallsOK, Current, Opened
    <3> QED BY <1>2, <2>2, <3>1 DEF FromOld
  <2>3. CallsLess(c)
    BY <2>2 DEF CallsLess
  <2> QED BY <1>2, <1>4, <2>3, SameAgrees
<1> QED BY <1>4 DEF AgreeOK

\* ExchangeKey() ends: the client of the new session has been told nothing.
LEMMA InsertedAgree ==
  ASSUME AgreeInv, HistoryGrows, CallsOK', NEW k \in calls, Inserted(k)
  PROVE  AgreeOK'
<1>1. /\ SessionInv /\ Typed /\ TokensOK /\ CallsOK /\ k.from \in Clients
      /\ k.token \in Nat /\ k.token # 0
  <2>1. SessionInv /\ Typed /\ TokensOK /\ CallsOK
    BY DEF AgreeInv, NonceInv, IsolationInv, SessionInv
  <2>2. k.from \in Clients /\ k.token \in Nat
    BY <2>1, Fields
  <2>3. k.token # 0
    BY <2>1, <2>2 DEF TokensOK
  <2> QED BY <2>1, <2>2, <2>3
<1>2. PICK j : Settled(k, j)
  BY <1>1, SettledFacts
<1>3. /\ IsExchange(k) /\ secure' = secure /\ Entered(k)
      /\ k.live => \A i \in calls : i # k /\ i.from = k.from => ~i.live
  BY <1>1, SettledFacts DEF Inserted
<1>4. ASSUME NEW d \in Clients, Owns(d)', InOrder(d)' PROVE Agrees(d)'
  <2>1. CASE k.live /\ d = k.from
    <3>1. /\ Fresh(client'[d])
          /\ \A i \in calls' : i \in calls \ {k} \/ i.op = "Configure"
      BY <1>2, <1>4, <2>1 DEF Settled, Owns, Opened, Gone
    <3>2. \A i \in calls' : i.from = d /\ i.live => i.op # "UploadModel"
      BY <1>3, <2>1, <3>1
    <3>3. client'[d].told = Nothing /\ client'[d].model = Nothing
          /\ \A x \in Sides : client'[d].cache[x] = Nothing
      BY <3>1 DEF Fresh, NoInfo
    <3> QED BY <3>2, <3>3 DEF Agrees
  <2>2. CASE ~(k.live /\ d = k.from)
    <3>1. client'[d] = client[d]
      BY <1>2, <2>2 DEF Settled
    <3>2. Opened(d)
      BY <1>4, <3>1 DEF Owns, Opened
    <3>3. client[d].token # k.token
      <4>1. ASSUME client[d].token = k.token PROVE FALSE
        <5>1. d = k.from /\ Current(k)
          BY <1>1, <4>1 DEF TokensOK, Current
        <5> QED BY <1>1, <1>3, <3>2, <5>1 DEF CallsOK, Opened
      <4> QED BY <4>1
    <3>4. client[d].id # k.id
      BY <1>3, <1>4, <3>1, <3>3 DEF Owns, Entered
    <3>5. clientMap'[client[d].id] = clientMap[client[d].id] /\ Known(client[d].id)
      BY <1>3, <1>4, <3>1, <3>4 DEF Owns, Entered, Known
    <3>6. clientMap[client[d].id].nonce \in Nat
      BY <1>1, <3>5, Fields DEF Known
    <3>7. clientMap[client[d].id].nonce <= clientMap'[client[d].id].nonce
      BY <3>5, <3>6
    <3>8. \A i \in calls' : i.from = d => i \in calls
      BY <1>2, <2>2 DEF Settled
    <3>9. CallsLess(d)
      BY <3>8 DEF CallsLess, FromOld
    <3> QED BY <1>3, <1>4, <3>1, <3>2, <3>5, <3>6, <3>7, <3>9, SameIsLess, SameSession
  <2> QED BY <2>1, <2>2
<1> QED BY <1>4 DEF AgreeOK

\* A call that is let through is not one of those that are too late.
LEMMA AuthAgree ==
  ASSUME AgreeInv, CallsOK', NEW k \in calls, AuthProcess(k)
  PROVE  AgreeOK'
<1>1. SessionInv /\ NoncesApart /\ Typed /\ CallsOK /\ k.nonce \in Nat
  <2>1. SessionInv /\ NoncesApart /\ Typed /\ CallsOK
    BY DEF AgreeInv, NonceInv, IsolationInv, SessionInv
  <2> QED BY <2>1, Fields
<1>2. PICK j : AuthDone(k, j)
  BY <1>1, AuthFacts
<1>3. /\ secure' = secure /\ client' = client
      /\ calls' = (calls \ {k}) \union {j} /\ ~IsExchange(k)
      /\ j.from = k.from /\ j.token = k.token /\ j.op = k.op /\ j.arg = k.arg
      /\ j.nonce = k.nonce /\ j.live = k.live
      /\ clientMap[k.id].nonce = k.nonce
      /\ DOMAIN clientMap' = DOMAIN clientMap
      /\ \A i \in DOMAIN clientMap : i # k.id => clientMap'[i] = clientMap[i]
      /\ clientMap'[k.id].nonce = k.nonce + 1
      /\ clientMap'[k.id].token = clientMap[k.id].token
      /\ clientMap'[k.id].conf = clientMap[k.id].conf
      /\ clientMap'[k.id].path = clientMap[k.id].path
      /\ clientMap'[k.id].info = clientMap[k.id].info
      /\ Known(k.id) /\ HistoryGrows
  BY <1>2 DEF AuthDone, HistoryGrows
<1>4. ASSUME NEW c \in Clients, Owns(c)', InOrder(c)' PROVE Agrees(c)'
  <2>1. Opened(c) /\ client[c].id \in DOMAIN clientMap
    BY <1>3, <1>4 DEF Owns, Opened, Known
  <2>2. Known(client[c].id)
    BY <1>3, <1>4, <2>1 DEF Owns, Known
  <2>3. clientMap[client[c].id].nonce \in Nat
    BY <1>1, <2>2, Fields DEF Known
  <2>4. /\ clientMap'[client[c].id].token = clientMap[client[c].id].token
        /\ SameData(clientMap[client[c].id], clientMap'[client[c].id])
        /\ clientMap'[client[c].id].nonce \in Nat
        /\ clientMap[client[c].id].nonce <= clientMap'[client[c].id].nonce
    <3>1. CASE client[c].id = k.id
      <4>1. k.nonce + 1 \in Nat /\ k.nonce <= k.nonce + 1
        BY <1>1
      <4> QED BY <1>3, <3>1, <4>1 DEF SameData
    <3>2. CASE client[c].id # k.id
      <4>1. clientMap'[client[c].id] = clientMap[client[c].id]
        BY <1>3, <2>1, <3>2
      <4>2. clientMap[client[c].id].nonce <= clientMap[client[c].id].nonce
        BY <2>3
      <4> QED BY <2>3, <4>1, <4>2, SameIsLess
    <3> QED BY <3>1, <3>2
  <2>5. ASSUME NEW i \in calls', i.from = c, i.token = client[c].token PROVE FromOld(c, i)
    <3>1. CASE i = j
      <4>1. Current(k) /\ k.id = client[c].id
        BY <1>1, <1>3, <2>5, <3>1 DEF CallsOK, Current
      <4>2. ~(k.nonce < clientMap[client[c].id].nonce)
        BY <1>1, <1>3, <4>1
      <4> QED BY <1>3, <2>5, <3>1, <4>2 DEF FromOld
    <3>2. CASE i # j
      BY <1>3, <2>5, <3>2 DEF FromOld
    <3> QED BY <3>1, <3>2
  <2>6. CallsLess(c)
    BY <2>5 DEF CallsLess
  <2>7. RecordLess(client[c], client'[c])
    BY <1>3, SameIsLess
  <2> QED BY <1>3, <1>4, <2>1, <2>2, <2>4, <2>6, <2>7, SameSession
<1> QED BY <1>4 DEF AgreeOK

\* The server's life: without sessions no client has one.
LEMMA ServerAgree ==
  ASSUME AgreeInv, HistoryGrows, CallsOK', ServerDeactivate \/ ServerActivate
  PROVE  AgreeOK'
<1>1. StepsOK
  BY DEF AgreeInv, NonceInv, IsolationInv, SessionInv
<1>2. CASE ServerDeactivate /\ Nothing \in Range(clientMap)
  <2>1. client' = client /\ calls' = calls /\ clientMap' = clientMap /\ secure' = secure
    BY <1>2 DEF ServerDeactivate
  <2> QED BY <2>1, CallsLeave, SameAgrees DEF AgreeOK
<1>3. CASE ServerDeactivate /\ Nothing \notin Range(clientMap)
  <2>1. DOMAIN clientMap' = {}
    BY <1>3 DEF ServerDeactivate
  <2> QED BY <2>1 DEF AgreeOK, Owns, Known
<1>4. CASE ServerActivate
  <2>1. DOMAIN clientMap' = {}
    BY <1>1, <1>4 DEF ServerActivate, StepsOK
  <2> QED BY <2>1 DEF AgreeOK, Owns, Known
<1> QED BY <1>2, <1>3, <1>4

\* The histories are not forgotten.
LEMMA HistoriesGrow ==
  ASSUME Next
  PROVE  HistoryGrows
<1>1. CASE trespass' = trespass /\ overtaken' = overtaken
  BY <1>1 DEF HistoryGrows
<1>2. CASE \E k \in calls, op \in Ops \ {"ExchangeKey"} : Begin(k, op)
  BY <1>2 DEF Begin, HistoryGrows
<1> QED BY <1>1, <1>2, Lookup

\* Every step keeps the agreement.
LEMMA AgreeStep ==
  ASSUME AgreeInv, [Next]_vars
  PROVE  AgreeInv'
<1>1. NonceInv /\ SessionInv
  BY DEF AgreeInv, NonceInv, IsolationInv
<1>2. NonceInv' /\ CallsOK'
  <2>1. NonceInv'
    BY <1>1, NonceStep
  <2> QED BY <2>1 DEF NonceInv, IsolationInv, SessionInv
<1>3. AgreeOK'
  <2>1. CASE UNCHANGED vars
    <3>1. client' = client /\ calls' = calls /\ clientMap' = clientMap /\ secure' = secure
          /\ HistoryGrows
      BY <2>1 DEF vars, HistoryGrows
    <3> QED BY <1>2, <3>1, CallsLeave, SameAgrees DEF AgreeOK
  <2>2. CASE Next
    <3>1. HistoryGrows
      BY <2>2, HistoriesGrow
    <3>2. CASE \/ \E c \in Clients : SetInfo(c)
               \/ \E c \in Clients, conf \in Configs : ReserveConfigure(c, conf)
               \/ \E c \in Clients : Deactivate(c)
      BY <3>1, <3>2, OwnAgree
    <3>3. CASE \E c \in Clients : Activate(c)
      BY <1>2, <3>3, ActivateAgree
    <3>4. CASE \/ \E c \in Clients, conf \in Configs : Configure(c, conf)
               \/ \E c \in Clients, m \in Models : LoadModel(c, m)
               \/ \E c \in Clients : GetInputTensorInfo(c)
               \/ \E c \in Clients : GetOutputTensorInfo(c)
               \/ \E c \in Clients, m \in Models : SetInputTensorInfo(c, m)
               \/ \E c \in Clients, m \in Models : SetOutputTensorInfo(c, m)
               \/ \E c \in Clients : Prepare(c)
               \/ \E c \in Clients : Stop(c)
               \/ \E c \in Clients : GetInfo(c)
      BY <1>2, <3>4, SendsAgree
    <3>5. CASE \E k \in calls : Lose(k) \/ UploadCancelled(k)
      BY <3>1, <3>5, LoseAgree
    <3>6. CASE \E k \in calls : ExchangeCreate(k)
      BY <1>2, <3>6, ExchangeCreateAgree
    <3>7. CASE \E k \in calls : ExchangeInsert(k)
      <4>1. PICK k \in calls : ExchangeInsert(k)
        BY <3>7
      <4>2. Inserted(k)
        BY <1>1, <4>1, ExchangeInsertStep
      <4> QED BY <1>2, <3>1, <4>2, InsertedAgree
    <3>8. CASE \E k \in calls : AuthProcess(k)
      BY <1>2, <3>8, AuthAgree
    <3>9. CASE \E k \in calls : \/ ExchangeRefused(k) \/ AuthRefuses(k) \/ UseMissingSession(k)
                                \/ HandleStop(k) \/ HandleGetInfo(k)
      BY <3>1, <3>9, RefuseAgree
    <3>10. CASE \E k \in calls : HandleConfigure(k) \/ HandleLoadModel(k) \/ HandlePrepare(k)
      BY <3>1, <3>10, HandleConfigureAgree, HandleLoadModelAgree, HandlePrepareAgree
    <3>11. CASE \E k \in calls : UploadOpen(k) \/ UploadNotOpened(k) \/ UploadClose(k)
      BY <3>1, <3>11, UploadOpenAgree, UploadAgree
    <3>12. CASE \E k \in calls : \/ HandleGetInputTensorInfo(k) \/ HandleGetOutputTensorInfo(k)
                                 \/ HandleSetInputTensorInfo(k) \/ HandleSetOutputTensorInfo(k)
      <4>1. PICK k \in calls : \/ HandleGetInputTensorInfo(k) \/ HandleGetOutputTensorInfo(k)
                               \/ HandleSetInputTensorInfo(k) \/ HandleSetOutputTensorInfo(k)
        BY <3>12
      <4>2. "input" \in Sides /\ "output" \in Sides
        BY DEF Sides
      <4>3. CASE HandleGetInputTensorInfo(k)
        BY <3>1, <4>2, <4>3, AnswerInfoAgree DEF HandleGetInputTensorInfo
      <4>4. CASE HandleGetOutputTensorInfo(k)
        BY <3>1, <4>2, <4>4, AnswerInfoAgree DEF HandleGetOutputTensorInfo
      <4>5. CASE HandleSetInputTensorInfo(k)
        BY <3>1, <4>2, <4>5, TakeInfoAgree DEF HandleSetInputTensorInfo
      <4>6. CASE HandleSetOutputTensorInfo(k)
        BY <3>1, <4>2, <4>6, TakeInfoAgree DEF HandleSetOutputTensorInfo
      <4> QED BY <4>1, <4>3, <4>4, <4>5, <4>6
    <3>13. CASE ServerDeactivate \/ ServerActivate
      BY <1>2, <3>1, <3>13, ServerAgree
    <3> QED BY <2>2, <3>2, <3>3, <3>4, <3>5, <3>6, <3>7, <3>8, <3>9, <3>10, <3>11, <3>12, <3>13
            DEF Next
  <2> QED BY <2>1, <2>2
<1> QED BY <1>2, <1>3 DEF AgreeInv

\* The whole invariant of the sessions and their clients.
THEOREM AgreeInvariant == Spec => []AgreeInv
<1>1. Init => AgreeInv
  <2>1. Init => DOMAIN clientMap = {}
    BY DEF Init
  <2> QED BY <2>1, NonceStart DEF AgreeInv, AgreeOK, Owns, Known
<1>2. AgreeInv /\ [Next]_vars => AgreeInv'
  BY AgreeStep
<1> QED BY <1>1, <1>2, PTL DEF Spec

\* What an application has been told about its session, the model LoadModel()
\* accepted and the configuration Configure() accepted, is what the server holds,
\* whatever calls were lost before and arrive late: on a secured server as long as no
\* handler has overtaken an older one of its session, without nonces as long as the
\* connection holds (peer_grpc_server.cc:239, peer_grpc_server_auth.cc:98).
THEOREM SessionAgreesHolds == Spec => []SessionAgrees
<1>1. AgreeInv => SessionAgrees
  <2> SUFFICES ASSUME AgreeInv, NEW c \in Clients, Own(c), ~trespass,
                      IF secure THEN ~overtaken ELSE ~client[c].lost
               PROVE  /\ client[c].model # Nothing =>
                             clientMap[client[c].id].path = client[c].model
                      /\ client[c].told # Nothing =>
                             clientMap[client[c].id].conf = client[c].told
                      /\ ~client[c].lost =>
                             \A s \in Sides : client[c].cache[s] \in
                                                  {Nothing, clientMap[client[c].id].info[s]}
    BY DEF SessionAgrees
  <2>1. Owns(c) /\ InOrder(c)
    BY DEF Own, Owns, Opened, InOrder
  <2>2. Agrees(c)
    BY <2>1 DEF AgreeInv, AgreeOK
  <2> QED BY <2>2 DEF Agrees
<1> QED BY <1>1, AgreeInvariant, PTL
=============================================================================
