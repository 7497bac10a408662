-------------------------- MODULE InferenceRemote --------------------------
(***************************************************************************)
(* The remote mode of an inference (inference_impl_remote.cc): it collects *)
(* peers, selects one of them when it is prepared, and hands the model the *)
(* application has set over to the selected peer.  The peers are clients   *)
(* of the peer_nn module (peer.cc): each one has a gRPC session with its   *)
(* server while it is active, and each remote call of the session may fail *)
(* before or after the server has carried it out.                          *)
(*                                                                         *)
(* The application is one thread, its calls are synchronous, and it leaves *)
(* the peers it has added to the inference, except that it may activate    *)
(* and deactivate them itself (beyond_peer_activate, _deactivate).         *)
(***************************************************************************)
EXTENDS Integers, SequencesExt

CONSTANTS
    Peers,      \* peer objects of the application
    Models,     \* model file names
    Levels,     \* amounts of free memory and of free storage
    NoPeer,     \* nullptr
    NoModel     \* no model: the empty modelFile, a session without a model

ASSUME PeersAssumption  == NoPeer \notin Peers
ASSUME ModelsAssumption == NoModel \notin Models
ASSUME LevelsAssumption == Levels \subseteq Nat

VARIABLES
    peerVector, \* the peers that have been added, in order
    peer,       \* the selected peer
    modelFile,  \* the model kept until a peer is selected
    handlers,   \* the peers where PeerEventHandler is registered for this inference
    grpc,       \* grpc[p]: the client has a session (clientCtx->grpc is set)
    model,      \* model[p]: the model path of p's session, at the server
    pipeline,   \* pipeline[p]: the model of p's client pipeline (gstSource, gstSink)
    accepted    \* history: the model the application was last told is loaded,
                \*   NoModel when a failure, the removal of the selected peer or
                \*   its deactivation has taken that promise back

vars == <<peerVector, peer, modelFile, handlers, grpc, model, pipeline, accepted>>

----------------------------------------------------------------------------
(* Selection of a peer (the loop of Prepare).                              *)

\* What GetInfo() tells of a peer.  The server answers with its resources of
\* the moment; when the call fails the values cached earlier are used.
Resources == [free_memory : Levels, free_storage : Levels]

Nobody == [peer |-> NoPeer, free_memory |-> 0, free_storage |-> 0]

\* Mutant: storage decides even against a peer with more free memory.
CompareStorage(s, q, info) ==
    IF \/ info.free_memory > s.free_memory
       \/ info.free_storage > s.free_storage
    THEN [peer |-> q, free_memory |-> info.free_memory,
          free_storage |-> info.free_storage]
    ELSE s

\* One round of the loop: s is `selected', q the next peer, info its answer.
Compare(s, q, info) ==
    IF \/ info.free_memory > s.free_memory
       \/ info.free_memory = s.free_memory /\ info.free_storage > s.free_storage
    THEN [peer |-> q, free_memory |-> info.free_memory,
          free_storage |-> info.free_storage]
    ELSE s

\* `selected' after n rounds of the loop, when infos are the peers' answers.
Rounds(v, infos) ==
    LET selected[n \in 0..Len(v)] ==
            IF n = 0 THEN Nobody ELSE Compare(selected[n - 1], v[n], infos[v[n]])
    IN  selected

\* The peer the loop selects; the first one when no peer has anything free.
Select(v, infos) ==
    LET s == Rounds(v, infos)[Len(v)]
    IN  IF s.peer = NoPeer THEN Head(v) ELSE s.peer

----------------------------------------------------------------------------
(* The operations of a peer.  Each one has a set of outcomes.              *)

\* Peer::Activate(): a new session, without a model and without pipelines.
\* Each of its failures leaves the peer as it was.
ActivateOutcomes(p) == IF grpc[p] THEN {FALSE} ELSE {TRUE, FALSE}

Activate(p) ==
    /\ grpc'     = [grpc EXCEPT ![p] = TRUE]
    /\ model'    = [model EXCEPT ![p] = NoModel]
    /\ pipeline' = [pipeline EXCEPT ![p] = NoModel]

\* Peer::Deactivate(): GrpcClient::Destroy() ends the client's pipelines.  On a
\* peer that is not active it fails, and nothing is left to end.
Deactivate(p) ==
    /\ grpc'     = [grpc EXCEPT ![p] = FALSE]
    /\ model'    = [model EXCEPT ![p] = NoModel]
    /\ pipeline' = [pipeline EXCEPT ![p] = NoModel]

\* Peer::LoadModel(): the path of the session afterwards, and whether the call
\* succeeded.  The server stores the path first, so that an upload that fails
\* and an answer that is lost leave the new path behind a failure.
LoadOutcomes(p, m) ==
    IF grpc[p]
    THEN {[path |-> m, ok |-> TRUE], [path |-> m, ok |-> FALSE],
          [path |-> model[p], ok |-> FALSE]}
    ELSE {[path |-> model[p], ok |-> FALSE]}

\* Peer::Prepare() with path m at the server: the model of the client's pipeline
\* afterwards.  The server refuses without a model; the client's pipeline is
\* only touched once the server is prepared, and is gone when rebuilding it fails.
PrepareOutcomes(p, m) ==
    IF grpc[p] /\ m # NoModel THEN {pipeline[p], NoModel, m} ELSE {pipeline[p]}

----------------------------------------------------------------------------
\* Inference::Peer::impl::Create(): each peer has loaded its module, of the right type,
\* and is not activated.
PeersCreated ==
    /\ grpc = [p \in Peers |-> FALSE]
    /\ model = [p \in Peers |-> NoModel]
    /\ pipeline = [p \in Peers |-> NoModel]

\* Inference::impl::remote::Create(): no peers, and none selected.
Init ==
    /\ peerVector = <<>>
    /\ peer = NoPeer
    /\ modelFile = NoModel
    /\ handlers = {}
    /\ PeersCreated
    /\ accepted = NoModel

\* AddPeer(): register the handler, activate the peer, remember it.
AddPeer(p) ==
    /\ p \notin handlers            \* else AddHandler() fails with -EALREADY
    /\ TRUE \in ActivateOutcomes(p)
    /\ handlers' = handlers \union {p}
    /\ Activate(p)
    /\ peerVector' = Append(peerVector, p)
    /\ UNCHANGED <<peer, modelFile, accepted>>

\* Mutant: the handler stays registered when the activation fails.
AddPeerFailsKeepsHandler(p) ==
    /\ p \notin handlers
    /\ FALSE \in ActivateOutcomes(p)
    /\ handlers' = handlers \union {p}
    /\ UNCHANGED <<peerVector, peer, modelFile, grpc, model, pipeline, accepted>>

\* AddPeer() when the activation fails: the handler is taken back.
AddPeerFails(p) ==
    /\ p \notin handlers
    /\ FALSE \in ActivateOutcomes(p)
    /\ handlers' = handlers \ {p}
    /\ UNCHANGED <<peerVector, peer, modelFile, grpc, model, pipeline, accepted>>

\* The index std::find() stops at.
FindPeer(p) == CHOOSE i \in DOMAIN peerVector :
                   peerVector[i] = p /\ \A j \in 1..(i - 1) : peerVector[j] # p

\* Mutant: the peer is not deactivated when it is removed.
RemovePeerStaysActive(p) ==
    /\ p \in Range(peerVector)
    /\ handlers' = handlers \ {p}
    /\ peerVector' = RemoveAt(peerVector, FindPeer(p))
    /\ peer' = IF peer = p THEN NoPeer ELSE peer
    /\ accepted' = IF peer = p THEN NoModel ELSE accepted
    /\ UNCHANGED <<modelFile, grpc, model, pipeline>>

\* RemovePeer(): the results of Deactivate() and RemoveHandler() stop nothing.
RemovePeer(p) ==
    /\ p \in Range(peerVector)      \* else -ENOENT
    /\ Deactivate(p)
    /\ handlers' = handlers \ {p}
    /\ peer' = IF peer = p THEN NoPeer ELSE peer
    /\ peerVector' = RemoveAt(peerVector, FindPeer(p))
    /\ accepted' = IF peer = p THEN NoModel ELSE accepted
    /\ UNCHANGED modelFile

\* LoadModel() before a peer is selected only keeps the name.
KeepModel(m) ==
    /\ peer = NoPeer
    /\ modelFile' = m
    /\ accepted' = m
    /\ UNCHANGED <<peerVector, peer, handlers, grpc, model, pipeline>>

\* LoadModel() with a selected peer goes to that peer.
LoadModel(m) ==
    /\ peer # NoPeer
    /\ \E o \in LoadOutcomes(peer, m) :
           /\ model' = [model EXCEPT ![peer] = o.path]
           /\ accepted' = IF o.ok THEN m ELSE NoModel
    /\ UNCHANGED <<peerVector, peer, modelFile, handlers, grpc, pipeline>>

\* Prepare() when a peer is already selected.
PrepareAgain ==
    /\ peerVector # <<>>
    /\ peer # NoPeer
    /\ \E m \in PrepareOutcomes(peer, model[peer]) :
           pipeline' = [pipeline EXCEPT ![peer] = m]
    /\ UNCHANGED <<peerVector, peer, modelFile, handlers, grpc, model, accepted>>

\* modelFile.clear()
Cleared == NoModel

\* Prepare() that selects a peer and hands over the model, if one is kept.
PrepareSelects ==
    /\ peerVector # <<>>
    /\ peer = NoPeer
    /\ \E infos \in [Range(peerVector) -> Resources] :
       LET p == Select(peerVector, infos) IN
       /\ \E o \in IF modelFile = NoModel THEN {[path |-> model[p], ok |-> TRUE]}
                                          ELSE LoadOutcomes(p, modelFile) :
             /\ o.ok
             /\ model' = [model EXCEPT ![p] = o.path]
             /\ \E m \in PrepareOutcomes(p, o.path) :
                    pipeline' = [pipeline EXCEPT ![p] = m]
       /\ peer' = p
    /\ modelFile' = IF modelFile = NoModel THEN modelFile ELSE Cleared
    /\ UNCHANGED <<peerVector, handlers, grpc, accepted>>

\* Mutant: the kept model is dropped although no peer has accepted it.
PrepareCannotLoadDropsModel ==
    /\ peerVector # <<>>
    /\ peer = NoPeer
    /\ modelFile # NoModel
    /\ \E infos \in [Range(peerVector) -> Resources] :
       LET p == Select(peerVector, infos) IN
       \E o \in LoadOutcomes(p, modelFile) :
             /\ ~o.ok
             /\ model' = [model EXCEPT ![p] = o.path]
    /\ modelFile' = NoModel
    /\ UNCHANGED <<peerVector, peer, handlers, grpc, pipeline, accepted>>

\* Prepare() when the chosen peer does not load the model: no peer is selected
\* and the model is kept for the next attempt.
PrepareCannotLoad ==
    /\ peerVector # <<>>
    /\ peer = NoPeer
    /\ modelFile # NoModel
    /\ \E infos \in [Range(peerVector) -> Resources] :
       LET p == Select(peerVector, infos) IN
       \E o \in LoadOutcomes(p, modelFile) :
             /\ ~o.ok
             /\ model' = [model EXCEPT ![p] = o.path]
    /\ UNCHANGED <<peerVector, peer, modelFile, handlers, grpc, pipeline, accepted>>

\* The application activates a peer itself, before or while it is added.
AppActivate(p) ==
    /\ TRUE \in ActivateOutcomes(p)
    /\ Activate(p)
    /\ accepted' = IF peer = p THEN NoModel ELSE accepted
    /\ UNCHANGED <<peerVector, peer, modelFile, handlers>>

\* The application deactivates a peer itself.
AppDeactivate(p) ==
    /\ grpc[p]                      \* else -EILSEQ
    /\ Deactivate(p)
    /\ accepted' = IF peer = p THEN NoModel ELSE accepted
    /\ UNCHANGED <<peerVector, peer, modelFile, handlers>>

Next ==
    \/ \E p \in Peers : AddPeer(p)
    \/ \E p \in Peers : AddPeerFails(p)
    \/ \E p \in Peers : RemovePeer(p)
    \/ \E m \in Models : KeepModel(m)
    \/ \E m \in Models : LoadModel(m)
    \/ PrepareAgain
    \/ PrepareSelects
    \/ PrepareCannotLoad
    \/ \E p \in Peers : AppActivate(p)
    \/ \E p \in Peers : AppDeactivate(p)

Spec == Init /\ [][Next]_vars

----------------------------------------------------------------------------
(* Properties.                                                             *)

\* The variables have their types.
TypeOK ==
    /\ peerVector \in Seq(Peers)
    /\ peer \in Peers \union {NoPeer}
    /\ modelFile \in Models \union {NoModel}
    /\ handlers \subseteq Peers
    /\ grpc \in [Peers -> BOOLEAN]
    /\ model \in [Peers -> Models \union {NoModel}]
    /\ pipeline \in [Peers -> Models \union {NoModel}]
    /\ accepted \in Models \union {NoModel}

\* A peer calls PeerEventHandler with a pointer to the inference exactly as long
\* as it is one of the inference's peers, each of which is there once: an
\* inference without peers can be deleted and no peer still points to it.
HandlersAreMembers ==
    /\ handlers = Range(peerVector)
    /\ \A i, j \in DOMAIN peerVector : peerVector[i] = peerVector[j] => i = j

\* The selected peer is one of the inference's peers: after RemovePeer() the
\* inference does not use a peer the application may delete.
SelectedIsMember == peer # NoPeer => peer \in Range(peerVector)

\* A peer is better with more free memory, among equals with more free storage.
Beats(a, b) ==
    \/ a.free_memory > b.free_memory
    \/ a.free_memory = b.free_memory /\ a.free_storage > b.free_storage

\* With the answers infos, Select() takes the first of the peers that none beats.
FirstOfBest(v, infos) ==
    \E i \in DOMAIN v :
        /\ Select(v, infos) = v[i]
        /\ \A j \in DOMAIN v : /\ ~Beats(infos[v[j]], infos[v[i]])
                              /\ j < i => Beats(infos[v[i]], infos[v[j]])

\* Whatever the peers answer, Prepare() selects the first of those that no other
\* peer beats, by free memory and among equals by free storage.
SelectsFirstOfBest ==
    peerVector # <<>> =>
        \A infos \in [Range(peerVector) -> Resources] : FirstOfBest(peerVector, infos)

\* A model LoadModel() has accepted is not lost and not replaced by an older one:
\* it is kept by the inference until a peer is selected, through attempts of
\* Prepare() that fail, and is then the model of the selected peer's session.
AcceptedModelIsKept ==
    accepted # NoModel =>
        IF peer = NoPeer THEN modelFile = accepted ELSE model[peer] = accepted

\* Only the selected peer, which is one of the inference's peers, has a pipeline: the
\* inference never leaves one behind at a peer it no longer uses.
PipelineOnlyAtSelected ==
    /\ SelectedIsMember
    /\ \A p \in Peers : pipeline[p] # NoModel => p = peer
=============================================================================
