---------------------------- MODULE PeerSession ----------------------------
(***************************************************************************)
(* The sessions between peer_nn clients and their server: peer.cc,         *)
(* peer_grpc_client.cc, peer_grpc_server.cc, the two authentication        *)
(* processors, peer_model.cc and what the server's pipeline object keeps   *)
(* of a session (peer_grpc_server_gst.cc).                                 *)
(*                                                                         *)
(* Every client is one application thread that makes synchronous calls;    *)
(* the server handles calls on the threads of gRPC.  A call whose          *)
(* connection breaks fails at the client and may still reach the server,   *)
(* now, later or never.  The server's owner may deactivate and activate    *)
(* it.  Memory is never exhausted, and the random numbers that start the   *)
(* nonces of two sessions are further apart than the calls of a session.   *)
(***************************************************************************)
EXTENDS Naturals, FiniteSets, Functions

CONSTANTS
    Clients,        \* client peers
    Models,         \* models: a file name, its contents and its tensor information
    Configs,        \* configurations of the input (preprocessing, framework, ...)
    Nothing,        \* nullptr, the empty string, no claim
    MaxExchanges,   \* bound: activations of all clients together
    MaxCalls,       \* bound: calls of all clients together, ExchangeKey apart
    MaxLate,        \* bound: calls on their way that no client waits for any more
    MaxRestarts     \* bound: restarts of the server

ASSUME BoundsAssumption ==
    /\ MaxExchanges \in Nat /\ MaxCalls \in Nat
    /\ MaxLate \in Nat /\ MaxRestarts \in Nat

VARIABLES
    secure,     \* server and clients have been given authenticators
    server,     \* "up", "down" (not activated), "aborted" by an assertion, "crashed"
    nextPeerId,
    clientMap,  \* peer id -> session, or Nothing: an entry made by a mere lookup
    files,      \* the models that have a file, whole or not, in the server's storage
    client,     \* client[c]: the client's Peer, GrpcClient and Gst objects
    calls,      \* the calls that are on their way to the server or handled there
    exchanges,  \* how many activations there have been
    sent,       \* how many calls have been sent
    restarts,   \* how often the server has been activated again
    overlapped, \* history: two ExchangeKey() handlers have run at the same time
    overtaken,  \* history: a handler has run before one of an older call of its session
    trespass    \* history: a handler has run in a session of another activation

vars == <<secure, server, nextPeerId, clientMap, files, client, calls,
          exchanges, sent, restarts, overlapped, overtaken, trespass>>

----------------------------------------------------------------------------
(* Sessions, clients and calls.                                            *)

\* The tensors that have information of their own.
Sides == {"input", "output"}

Maybe(S) == S \union {Nothing}

\* The sessions the server may have.
Gsts == [token : Nat, nonce : Nat, conf : Maybe(Configs), path : Maybe(Models),
         info : [Sides -> Maybe(Models)]]

ASSUME NothingAssumption == Nothing \notin Models \union Configs /\ Nothing \notin Gsts

\* No tensor information on either side.
NoInfo == [s \in Sides |-> Nothing]

\* The random number an activation's nonces start from.  GetRandom() reads
\* /dev/urandom: the numbers of two activations are further apart than the calls
\* of one activation (Configure, and each call sent with an upload after it).
GetRandom(token) == token * (2 * MaxCalls + 2)

\* The server's GrpcServer::Gst and its Peer::Model.  `token' tells the activations
\* apart; the code has nothing that corresponds to it.
NewGst(token) ==
    [token |-> token, nonce |-> IF secure THEN GetRandom(token) ELSE 0,
     conf |-> Nothing, path |-> Nothing, info |-> NoInfo]

\* Gst::Configure(): kept for the pipelines that will be built.
Configured(g, conf) == [g EXCEPT !.conf = conf]

\* Peer::Model::SetModelPath()
SetModelPath(g, m) == [g EXCEPT !.path = m]

\* Peer::Model::SetInput-/OutputTensorInfo() replace what was there.
SetInfoOf(g, s, i) == [g EXCEPT !.info[s] = i]

\* ExtractTensorInfo() asks the pipeline's filter for the information of the model
\* it has loaded; it fails when the filter has no such property or the
\* dimensions cannot be parsed.
ExtractTensorInfo(m) == {m, Nothing}

\* The information on one side once the pipeline plays: what the session has been
\* given, also if it was for another model, is the filter's property
\* (TensorInfoToProperties()) and stays; only what is missing is extracted.
InfoOutcomes(g, s) == IF g.info[s] = Nothing THEN ExtractTensorInfo(g.path) ELSE {g.info[s]}

\* CommandHandlerPrepare(): the pipeline fails to be built or to start, or it plays
\* and the session gets the tensor information it has not been given.  What the
\* pipeline does is left to PeerPipeline.
PipelineOutcomes(g) ==
    {[ok |-> FALSE, gst |-> g]}
        \union {[ok |-> TRUE, gst |-> [g EXCEPT !.info = info]] :
                    info \in {i \in [Sides -> Maybe(Models)] :
                                 \A s \in Sides : i[s] \in InfoOutcomes(g, s)}}

\* Gst::Prepare(): refused without a model (-EILSEQ).
PrepareOutcomes(g) ==
    IF g.path = Nothing THEN {[ok |-> FALSE, gst |-> g]} ELSE PipelineOutcomes(g)

\* Peer::Create() of a client, with the configuration that is reserved when it is
\* given a framework.  told and model are history: the configuration and the
\* model of which the application has last been told that they were accepted.
\* lost: the connection of a call has broken since the activation.
NewClient(conf) ==
    [state |-> "inactive", info |-> FALSE, id |-> 0, token |-> 0, nonce |-> 0,
     reserved |-> conf, cache |-> NoInfo, told |-> Nothing, model |-> Nothing,
     lost |-> FALSE]

\* GrpcClient::Destroy() and `grpc = nullptr'.  The server is not told.
Destroyed(r) == [NewClient(r.reserved) EXCEPT !.info = r.info]

\* The connection of a call breaks.
Broken(r) == [r EXCEPT !.lost = TRUE]

\* GrpcClient::Create(): a channel, and nothing sent on it yet.
Connected(r, token) == [r EXCEPT !.state = "exchange", !.token = token]

\* The client's thread is inside a call.
Waiting(c) == \E k \in calls : k.from = c /\ k.live

\* A call of an active client.  Auth::GetMetadata() puts the nonce and the id into
\* it and moves on to the next nonce, whatever becomes of the call.
NewCall(c, r, op, arg) ==
    [from |-> c, token |-> r.token, op |-> op, arg |-> arg, id |-> r.id,
     nonce |-> r.nonce, live |-> TRUE, step |-> "sent"]

\* Mutant: the client keeps its nonce.
SameNonce(r) == r

NextNonce(r) == IF secure THEN [r EXCEPT !.nonce = @ + 1] ELSE r

----------------------------------------------------------------------------
(* What a client does with the answer to a call, or without one.           *)

\* The call fails: its connection breaks, or the server refuses it.  During the
\* activation the client is destroyed.
Failed(r, k) ==
    IF r.state # "active"
    THEN Destroyed(r)
    ELSE [r EXCEPT !.model = IF k.op \in {"LoadModel", "UploadModel"} THEN Nothing ELSE @,
                   !.told = IF k.op = "Configure" THEN Nothing ELSE @]

\* Activate() has its configuration accepted: the reserved one is freed.
ConfigureReturns(r, k) ==
    [r EXCEPT !.state = "active", !.told = k.arg,
              !.reserved = IF r.state = "configure" THEN Nothing ELSE @]

\* GrpcClient::LoadModel() forgets the cached tensor information, whatever the
\* status in the answer.
LoadModelReturns(r, ok, k) ==
    [r EXCEPT !.cache = NoInfo, !.model = IF ok THEN k.arg ELSE Nothing]

\* GrpcClient::UploadModel() ignores the status in the answer.
UploadReturns(r, k) == [r EXCEPT !.model = k.arg]

\* The answer to GetInput-/OutputTensorInfo() is kept.
TensorInfoReturns(r, s, info) == [r EXCEPT !.cache[s] = info]

\* A duplicate of what SetInput-/OutputTensorInfo() has sent is kept.
SetTensorInfoReturns(r, s, k) == [r EXCEPT !.cache[s] = k.arg]

\* The calls after k has been answered, when the client sends no other call.
Done(k) == calls \ {k}

\* The answer r' of the client c of call k, when it is still waiting.
Return(k, r) ==
    client' = IF k.live THEN [client EXCEPT ![k.from] = r] ELSE client

\* The call is refused (a gRPC status other than OK, or a negative status).
Refuse(k) ==
    /\ Return(k, Failed(client[k.from], k))
    /\ calls' = Done(k)

----------------------------------------------------------------------------
Init ==
    /\ secure \in BOOLEAN
    /\ server = "up"
    /\ nextPeerId = 0
    /\ clientMap = <<>>
    /\ files = {}
    /\ \E conf \in Configs \union {Nothing} : client = [c \in Clients |-> NewClient(conf)]
    /\ calls = {}
    /\ exchanges = 0
    /\ sent = 0
    /\ restarts = 0
    /\ overlapped = FALSE
    /\ overtaken = FALSE
    /\ trespass = FALSE

serverVars == <<server, nextPeerId, clientMap, files, restarts, overlapped, overtaken,
                trespass>>

\* Peer::SetInfo(): where the server is.  Without it there is no activation.
SetInfo(c) ==
    /\ ~client[c].info
    /\ client' = [client EXCEPT ![c].info = TRUE]
    /\ UNCHANGED <<secure, serverVars, calls, exchanges, sent>>

\* DuplicateConfig() for the activation; the one reserved before is freed.
Reserved(r, conf) == [r EXCEPT !.reserved = conf]

\* Peer::ConfigureInput() before the activation: kept until then.
ReserveConfigure(c, conf) ==
    /\ client[c].state = "inactive"
    /\ client[c].reserved # conf
    /\ client' = [client EXCEPT ![c] = Reserved(@, conf)]
    /\ UNCHANGED <<secure, serverVars, calls, exchanges, sent>>

\* Peer::Activate() up to the call of ExchangeKey.  A secured client encrypts its
\* credential: the server's uuid, a session key and the first nonce.
Activate(c) ==
    /\ client[c].info
    /\ client[c].state = "inactive"     \* else -EALREADY
    /\ exchanges < MaxExchanges
    /\ exchanges' = exchanges + 1
    /\ LET r == Connected(client[c], exchanges + 1)
       IN  /\ client' = [client EXCEPT ![c] = r]
           /\ calls' = calls \union {NewCall(c, r, "ExchangeKey", Nothing)}
    /\ UNCHANGED <<secure, serverVars, sent>>

\* Peer::Deactivate() of a client.  Its session stays in the server's clientMap.
Deactivate(c) ==
    /\ client[c].state = "active"
    /\ ~Waiting(c)
    /\ client' = [client EXCEPT ![c] = Destroyed(@)]
    /\ UNCHANGED <<secure, serverVars, calls, exchanges, sent>>

\* A synchronous call of an active client (-EILSEQ without a session).
Send(c, op, arg) ==
    /\ client[c].state = "active"
    /\ ~Waiting(c)
    /\ sent < MaxCalls
    /\ sent' = sent + 1
    /\ calls' = calls \union {NewCall(c, client[c], op, arg)}
    /\ client' = [client EXCEPT ![c] = NextNonce(@)]
    /\ UNCHANGED <<secure, serverVars, exchanges>>

\* Peer::ConfigureInput() of an active peer.
Configure(c, conf) == Send(c, "Configure", conf)

\* Peer::LoadModel()
LoadModel(c, m) == Send(c, "LoadModel", m)

\* Peer::Get- and SetInput-/OutputTensorInfo().  What is cached is not asked for
\* again.
GetInputTensorInfo(c) ==
    /\ client[c].cache["input"] = Nothing
    /\ Send(c, "GetInputTensorInfo", Nothing)

GetOutputTensorInfo(c) ==
    /\ client[c].cache["output"] = Nothing
    /\ Send(c, "GetOutputTensorInfo", Nothing)

SetInputTensorInfo(c, m) == Send(c, "SetInputTensorInfo", m)

SetOutputTensorInfo(c, m) == Send(c, "SetOutputTensorInfo", m)

\* Peer::Prepare(), up to the pipeline of the client.
Prepare(c) == Send(c, "Prepare", Nothing)

\* Peer::Stop(), after the pipeline of the client.
Stop(c) == Send(c, "Stop", Nothing)

\* Peer::GetInfo(): a failure leaves the information the peer already has.
GetInfo(c) == Send(c, "GetInfo", Nothing)

\* The connection breaks: the client's call fails.  The call may be anywhere: it is
\* handled at any later time, or, when it was lost on its way, never.
Lose(k) ==
    /\ k.live
    /\ Cardinality({j \in calls : ~j.live}) < MaxLate
    /\ client' = [client EXCEPT ![k.from] = Failed(Broken(@), k)]
    /\ calls' = Done(k) \union {[k EXCEPT !.live = FALSE]}
    /\ UNCHANGED <<secure, serverVars, exchanges, sent>>

----------------------------------------------------------------------------
(* The server: ExchangeKey.                                                *)

\* ExchangeKey() reads nextPeerId and creates the Gst of that id; other threads
\* of gRPC may do the same before this one goes on.
ExchangeCreate(k) ==
    /\ server = "up"
    /\ k.op = "ExchangeKey"
    /\ k.step = "sent"
    /\ calls' = Done(k) \union {[k EXCEPT !.step = "created", !.id = nextPeerId]}
    /\ overlapped' = (overlapped \/ \E j \in calls : j.step = "created")
    /\ UNCHANGED <<secure, server, nextPeerId, clientMap, files, client, exchanges, sent,
                   restarts, overtaken, trespass>>

\* ExchangeKey() refuses: the credential cannot be decrypted, its uuid is not the
\* server's, or Gst::Create() fails.
ExchangeRefused(k) ==
    /\ server = "up"
    /\ k.op = "ExchangeKey"
    /\ k.step = "sent"
    /\ Refuse(k)
    /\ UNCHANGED <<secure, serverVars, exchanges, sent>>

\* The end of Activate(), after the answer with the id: the client's Gst is created
\* (when that fails the client is destroyed and the server's session remains),
\* and a reserved configuration is sent before the peer counts as active.
\* The reserved configuration is freed once the activation has succeeded.
Activated(r, id) ==
    LET a == [r EXCEPT !.id = id, !.nonce = IF secure THEN GetRandom(r.token) ELSE 0,
                       !.lost = FALSE]
    IN  IF r.reserved = Nothing
        THEN {[a EXCEPT !.state = "active"], Destroyed(r)}
        ELSE {[a EXCEPT !.state = "configure"], Destroyed(r)}

\* Mutant: the session is created and never entered.
EnterNothing(k) == clientMap

\* clientMap[id] = gst
Enter(k) == [i \in DOMAIN clientMap \union {k.id} |->
                IF i = k.id THEN NewGst(k.token) ELSE clientMap[i]]

\* Mutant: ids only move on under the secured mode.
NextIdsSecured(k) == {IF secure THEN nextPeerId + 1 ELSE nextPeerId}

\* ++nextPeerId, without a lock: what it adds to may be any value of nextPeerId since
\* the handler of k has read its id.
NextIds(k) == {n + 1 : n \in (k.id..nextPeerId) \union {nextPeerId}}

\* ExchangeKey() goes on: the session is entered, nextPeerId moves on, the id
\* is sent back, and the client finishes its activation.
ExchangeInsert(k) ==
    /\ server = "up"
    /\ k.step = "created"
    /\ clientMap' = Enter(k)
    /\ nextPeerId' \in NextIds(k)
    /\ \E r \in Activated(client[k.from], k.id) :
           IF k.live /\ r.state = "configure"
           THEN /\ client' = [client EXCEPT ![k.from] = NextNonce(r)]
                /\ calls' = Done(k) \union {NewCall(k.from, r, "Configure", r.reserved)}
           ELSE /\ Return(k, r)
                /\ calls' = Done(k)
    /\ UNCHANGED <<secure, server, files, exchanges, sent, restarts, overlapped, overtaken,
                   trespass>>

----------------------------------------------------------------------------
(* The server: the calls of a session.                                     *)

Known(id) == id \in DOMAIN clientMap /\ clientMap[id] # Nothing

\* Mutant: the nonces are not compared.
AdmitsAny(k) == Known(k.id)

\* Auth::Process() finds the session and the nonce it expects.
Admits(k) == Known(k.id) /\ clientMap[k.id].nonce = k.nonce

\* Auth::Process() lets the call through: the session expects the next nonce.  The
\* handler runs later, and calls that come after this one may be let through and
\* handled before.
AuthProcess(k) ==
    /\ server = "up"
    /\ secure
    /\ k.op # "ExchangeKey"
    /\ k.step = "sent"
    /\ Admits(k)
    /\ clientMap' = [clientMap EXCEPT ![k.id].nonce = k.nonce + 1]
    /\ calls' = Done(k) \union {[k EXCEPT !.step = "admitted"]}
    /\ UNCHANGED <<secure, server, nextPeerId, files, client, exchanges, sent, restarts,
                   overlapped, overtaken, trespass>>

\* The handler of the call can start: there is no processor, or it has let the call
\* through.
Arrived(k, op) ==
    /\ server = "up"
    /\ k.op = op
    /\ k.step = IF secure THEN "admitted" ELSE "sent"

\* The handler starts, and GetGst() finds a session; by now it may be another one
\* than Auth::Process() has found.
Begin(k, op) ==
    /\ Arrived(k, op)
    /\ Known(k.id)
    /\ overtaken' = (overtaken \/ \E j \in calls : j # k /\ j.id = k.id /\ j.step = "admitted")
    /\ trespass' = (trespass \/ clientMap[k.id].token # k.token)

\* The session of the call becomes g.
Store(k, g) == clientMap' = [clientMap EXCEPT ![k.id] = g]

\* Auth::Process() refuses.  Looking an unknown id up leaves an empty entry behind.
AuthRefuses(k) ==
    /\ server = "up"
    /\ secure
    /\ k.op # "ExchangeKey"
    /\ k.step = "sent"
    /\ ~Admits(k)
    /\ clientMap' = [i \in DOMAIN clientMap \union {k.id} |->
                        IF i \in DOMAIN clientMap THEN clientMap[i] ELSE Nothing]
    /\ Refuse(k)
    /\ UNCHANGED <<secure, server, nextPeerId, files, exchanges, sent, restarts,
                   overlapped, overtaken, trespass>>

\* Without a processor GetGst() looks the id up and the handler uses the null
\* pointer an unknown id gives.  GetInfo() does not look its session up.
UseMissingSession(k) ==
    /\ server = "up"
    /\ ~secure
    /\ k.op \notin {"ExchangeKey", "GetInfo"}
    /\ k.step = "sent"
    /\ ~Known(k.id)
    /\ server' = "crashed"
    /\ UNCHANGED <<secure, nextPeerId, clientMap, files, client, calls, exchanges, sent,
                   restarts, overlapped, overtaken, trespass>>

\* Configure(): during the activation it is the last step.
HandleConfigure(k) ==
    /\ Begin(k, "Configure")
    /\ Store(k, Configured(clientMap[k.id], k.arg))
    /\ Return(k, ConfigureReturns(client[k.from], k))
    /\ calls' = Done(k)
    /\ UNCHANGED <<secure, server, nextPeerId, files, exchanges, sent, restarts, overlapped>>

\* LoadModel(): the path is set before the file is looked for; when there is no
\* file the client sends it.  The client forgets its cached tensor information.
HandleLoadModel(k) ==
    /\ Begin(k, "LoadModel")
    /\ Store(k, SetModelPath(clientMap[k.id], k.arg))
    /\ LET found == k.arg \in files
           r     == LoadModelReturns(client[k.from], found, k) IN
       IF k.live /\ ~found
       THEN /\ client' = [client EXCEPT ![k.from] = NextNonce(r)]
            /\ calls' = Done(k) \union {NewCall(k.from, r, "UploadModel", k.arg)}
       ELSE /\ Return(k, r)
            /\ calls' = Done(k)
    /\ UNCHANGED <<secure, server, nextPeerId, files, exchanges, sent, restarts, overlapped>>

\* UploadModel() opens the file of the session's path for writing and truncates
\* it.  Without a path it refuses.
UploadOpen(k) ==
    /\ Begin(k, "UploadModel")
    /\ IF clientMap[k.id].path = Nothing
       THEN Refuse(k) /\ UNCHANGED files
       ELSE /\ files' = files \union {clientMap[k.id].path}
            /\ calls' = Done(k) \union {[k EXCEPT !.step = "writing"]}
            /\ UNCHANGED client
    /\ UNCHANGED <<secure, server, nextPeerId, clientMap, exchanges, sent, restarts, overlapped>>

\* The file cannot be opened, of which the client does not learn.
UploadNotOpened(k) ==
    /\ Begin(k, "UploadModel")
    /\ clientMap[k.id].path # Nothing
    /\ Return(k, UploadReturns(client[k.from], k))
    /\ calls' = Done(k)
    /\ UNCHANGED <<secure, server, nextPeerId, clientMap, files, exchanges, sent, restarts,
                   overlapped>>

\* UploadModel() ends with the whole file, or after a failed write or a broken stream
\* with a part of it, of which the client does not learn either: it ignores the
\* status in the answer, and LoadModel() only looks whether there is a file.
UploadClose(k) ==
    /\ server = "up"
    /\ k.step = "writing"
    /\ Return(k, UploadReturns(client[k.from], k))
    /\ calls' = Done(k)
    /\ UNCHANGED <<secure, server, nextPeerId, clientMap, files, exchanges, sent, restarts,
                   overlapped, overtaken, trespass>>

\* The client cannot open its model file: it gives the stream up.
UploadCancelled(k) ==
    /\ k.live
    /\ Cardinality({j \in calls : ~j.live}) < MaxLate
    /\ k.op = "UploadModel"
    /\ client' = [client EXCEPT ![k.from] = Failed(Broken(@), k)]
    /\ calls' = Done(k) \union {[k EXCEPT !.live = FALSE]}
    /\ UNCHANGED <<secure, serverVars, exchanges, sent>>

\* GetInput-/OutputTensorInfo() assert that the session has the information.
AnswerInfo(k, s) ==
    /\ IF clientMap[k.id].info[s] = Nothing
       THEN server' = "aborted" /\ UNCHANGED <<client, calls>>
       ELSE /\ Return(k, TensorInfoReturns(client[k.from], s, clientMap[k.id].info[s]))
            /\ calls' = Done(k)
            /\ UNCHANGED server
    /\ UNCHANGED <<secure, nextPeerId, clientMap, files, exchanges, sent, restarts, overlapped>>

HandleGetInputTensorInfo(k) == Begin(k, "GetInputTensorInfo") /\ AnswerInfo(k, "input")

HandleGetOutputTensorInfo(k) == Begin(k, "GetOutputTensorInfo") /\ AnswerInfo(k, "output")

\* SetInput-/OutputTensorInfo(): the client caches what it has set.
TakeInfo(k, s) ==
    /\ Store(k, SetInfoOf(clientMap[k.id], s, k.arg))
    /\ Return(k, SetTensorInfoReturns(client[k.from], s, k))
    /\ calls' = Done(k)
    /\ UNCHANGED <<secure, server, nextPeerId, files, exchanges, sent, restarts, overlapped>>

HandleSetInputTensorInfo(k) == Begin(k, "SetInputTensorInfo") /\ TakeInfo(k, "input")

HandleSetOutputTensorInfo(k) == Begin(k, "SetOutputTensorInfo") /\ TakeInfo(k, "output")

\* Prepare() has the session's thread build the pipeline and waits for it.
HandlePrepare(k) ==
    /\ Begin(k, "Prepare")
    /\ \E o \in PrepareOutcomes(clientMap[k.id]) :
           /\ Store(k, o.gst)
           /\ Return(k, IF o.ok THEN client[k.from] ELSE Failed(client[k.from], k))
    /\ calls' = Done(k)
    /\ UNCHANGED <<secure, server, nextPeerId, files, exchanges, sent, restarts, overlapped>>

\* Stop(): the pipeline's thread is told to stop and does nothing.
HandleStop(k) ==
    /\ Begin(k, "Stop")
    /\ calls' = Done(k)
    /\ UNCHANGED <<secure, server, nextPeerId, clientMap, files, client, exchanges, sent,
                   restarts, overlapped>>

\* GetInfo(): the resources of the server; no session is looked up but by Auth.
HandleGetInfo(k) ==
    /\ Arrived(k, "GetInfo")
    /\ calls' = Done(k)
    /\ UNCHANGED <<secure, serverVars, client, exchanges, sent>>

----------------------------------------------------------------------------
(* The server's life.                                                      *)

\* Peer::Deactivate() of the server: Shutdown() waits for the running handlers
\* and ends all connections, then the sessions are destroyed, through a null
\* pointer when a lookup has left an empty entry.
ServerDeactivate ==
    /\ server = "up"
    /\ \A k \in calls : k.step = "sent"
    /\ IF Nothing \in Range(clientMap)
       THEN server' = "crashed" /\ UNCHANGED <<clientMap, client, calls>>
       ELSE /\ server' = "down"
            /\ clientMap' = <<>>
            /\ calls' = {}
            /\ client' = [c \in Clients |->
                  IF Waiting(c)
                  THEN Failed(Broken(client[c]), CHOOSE k \in calls : k.from = c /\ k.live)
                  ELSE client[c]]
    /\ UNCHANGED <<secure, nextPeerId, files, exchanges, sent, restarts, overlapped, overtaken,
                   trespass>>

\* Peer::Activate() of the server: a new GrpcServer, whose ids start again at 0,
\* with the storage of the old one.
ServerActivate ==
    /\ server = "down"
    /\ restarts < MaxRestarts
    /\ server' = "up"
    /\ nextPeerId' = 0
    /\ restarts' = restarts + 1
    /\ UNCHANGED <<secure, clientMap, files, client, calls, exchanges, sent,
                   overlapped, overtaken, trespass>>

Next ==
    \/ \E c \in Clients : SetInfo(c)
    \/ \E c \in Clients, conf \in Configs : ReserveConfigure(c, conf)
    \/ \E c \in Clients : Activate(c)
    \/ \E c \in Clients : Deactivate(c)
    \/ \E c \in Clients, conf \in Configs : Configure(c, conf)
    \/ \E c \in Clients, m \in Models : LoadModel(c, m)
    \/ \E c \in Clients : GetInputTensorInfo(c)
    \/ \E c \in Clients : GetOutputTensorInfo(c)
    \/ \E c \in Clients, m \in Models : SetInputTensorInfo(c, m)
    \/ \E c \in Clients, m \in Models : SetOutputTensorInfo(c, m)
    \/ \E c \in Clients : Prepare(c)
    \/ \E c \in Clients : Stop(c)
    \/ \E c \in Clients : GetInfo(c)
    \/ \E k \in calls : Lose(k)
    \/ \E k \in calls : ExchangeCreate(k)
    \/ \E k \in calls : ExchangeRefused(k)
    \/ \E k \in calls : ExchangeInsert(k)
    \/ \E k \in calls : AuthProcess(k)
    \/ \E k \in calls : AuthRefuses(k)
    \/ \E k \in calls : UseMissingSession(k)
    \/ \E k \in calls : HandleConfigure(k)
    \/ \E k \in calls : HandleLoadModel(k)
    \/ \E k \in calls : UploadOpen(k)
    \/ \E k \in calls : UploadNotOpened(k)
    \/ \E k \in calls : UploadClose(k)
    \/ \E k \in calls : UploadCancelled(k)
    \/ \E k \in calls : HandleGetInputTensorInfo(k)
    \/ \E k \in calls : HandleGetOutputTensorInfo(k)
    \/ \E k \in calls : HandleSetInputTensorInfo(k)
    \/ \E k \in calls : HandleSetOutputTensorInfo(k)
    \/ \E k \in calls : HandlePrepare(k)
    \/ \E k \in calls : HandleStop(k)
    \/ \E k \in calls : HandleGetInfo(k)
    \/ ServerDeactivate
    \/ ServerActivate

Spec == Init /\ [][Next]_vars

----------------------------------------------------------------------------
(* Properties.                                                             *)

Ops == {"ExchangeKey", "Configure", "LoadModel", "UploadModel", "GetInputTensorInfo",
        "GetOutputTensorInfo", "SetInputTensorInfo", "SetOutputTensorInfo", "Prepare",
        "Stop", "GetInfo"}

ClientStates ==
    [state : {"inactive", "exchange", "configure", "active"}, info : BOOLEAN, id : Nat,
     token : Nat, nonce : Nat, reserved : Maybe(Configs), cache : [Sides -> Maybe(Models)],
     told : Maybe(Configs), model : Maybe(Models), lost : BOOLEAN]

Calls == [from : Clients, token : Nat, op : Ops,
          arg : Maybe(Models \union Configs), id : Nat, nonce : Nat,
          live : BOOLEAN,
          step : {"sent", "created", "admitted", "writing"}]

\* The values of the variables.
TypeOK ==
    /\ secure \in BOOLEAN
    /\ server \in {"up", "down", "aborted", "crashed"}
    /\ nextPeerId \in Nat
    /\ DOMAIN clientMap \subseteq Nat
    /\ clientMap \in [DOMAIN clientMap -> Maybe(Gsts)]
    /\ files \subseteq Models
    /\ client \in [Clients -> ClientStates]
    /\ calls \subseteq Calls
    /\ exchanges \in Nat
    /\ sent \in 0..MaxCalls
    /\ restarts \in Nat
    /\ overlapped \in BOOLEAN /\ overtaken \in BOOLEAN
    /\ trespass \in BOOLEAN

\* The session of the client's last activation is still the one its id leads to.
Own(c) ==
    /\ client[c].state = "active"
    /\ Known(client[c].id)
    /\ clientMap[client[c].id].token = client[c].token

\* No handler runs in a session that another activation has made, although ids
\* are given out without a lock (peer_grpc_server.cc:239) and start again with
\* every run of the server: unless two ExchangeKey() calls have overlapped and got
\* one id, or, without nonces, the server was restarted under its clients.  Even the
\* nonce does not help against the first: a session can be replaced between the
\* check of the nonce and the handler's own lookup.
Isolation == trespass => overlapped \/ (~secure /\ restarts > 0)

\* What the application has been told about its session (the model LoadModel()
\* accepted, the configuration Configure() accepted) is what the server holds,
\* whatever calls were lost before, and arrive late: a secured server lets the calls
\* of a session through in the order they were sent, and the session agrees unless
\* the handler of one has overtaken that of an older one.  Without nonces it
\* agrees until the connection breaks.  The tensor information a client has cached
\* is the session's as long as the connection holds.
SessionAgrees ==
    \A c \in Clients :
        LET r == client[c]
            g == clientMap[r.id] IN
        (Own(c) /\ ~trespass /\ (IF secure THEN ~overtaken ELSE ~r.lost)) =>
            /\ r.model # Nothing => g.path = r.model
            /\ r.told # Nothing => g.conf = r.told
            /\ ~r.lost => \A s \in Sides : r.cache[s] \in {Nothing, g.info[s]}

\* As long as no call of a secured client is lost, its next nonce is the one
\* the server expects, so that no call is refused; and in no case is the server
\* ahead of its client (peer_grpc_client_auth.cc:48, peer_grpc_server_auth.cc:98).
NonceInStep ==
    \A c \in Clients :
        LET r == client[c]
            g == clientMap[r.id] IN
        (secure /\ Own(c)) =>
            /\ g.nonce <= r.nonce
            /\ (~r.lost /\ ~Waiting(c)) => g.nonce = r.nonce


\* A server that has never been restarted has a session for the id of every call
\* it gets, whatever activations overlap, fail half-way or are given up
\* (peer_grpc_server.cc:163, which inserts a null pointer for an unknown id).
CrashNeedsRestart == server = "crashed" => restarts > 0
=============================================================================
