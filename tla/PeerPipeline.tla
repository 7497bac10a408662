--------------------------- MODULE PeerPipeline ----------------------------
(***************************************************************************)
(* The inference pipeline of a peer_nn client (peer_grpc_client_gst.cc,    *)
(* _source.cc, _sink.cc, peer_event_object.cc): the application's thread   *)
(* sends commands to the thread of the pipelines, which pushes a frame     *)
(* into the request pipeline and its request into requestQueue; the frame  *)
(* passes a leaky queue, the network and the server; the streaming thread  *)
(* of the response pipeline (the sink) takes the oldest request for the    *)
(* answer, queues the output and publishes an event.                       *)
(*                                                                         *)
(* GStreamer, the network and the server's filter are external: frames     *)
(* stay in order, and only the leaky queue and a UDP network lose them.    *)
(* Every Prepare() makes a new pair of pipelines; the old pair is not      *)
(* released, and its sink goes on.                                         *)
(***************************************************************************)
EXTENDS Naturals, Sequences, FiniteSets

CONSTANTS
    MaxRequests,    \* bound: calls of Invoke()
    MaxPairs,       \* bound: calls of Prepare()
    MaxFaults       \* bound: failures of calls and lost frames

ASSUME BoundsAssumption == MaxRequests \in Nat /\ MaxPairs \in Nat /\ MaxFaults \in Nat

VARIABLES
    udp,            \* the input is configured: frames go by RTP over UDP, else by TCP
    patient,        \* the application waits for the event of an Invoke() before the next
    app,            \* what the application's thread is doing
    cmds, replies,  \* the two directions of the command socket pair
    svc,            \* the pipelines' thread: "loop", "pushed" or "exited"
    request,        \* the request of the Invoke() being handled by svc
    gstSource,      \* the pair in threadCtx, 0 for nullptr
    pairs,          \* how many pairs have been made
    pair,           \* pair[g]: the frames in the pipelines of pair g
    requestQueue,   \* requests (their contexts) whose answers are awaited
    sink,           \* sink[g]: the streaming thread of the pair's response pipeline
    output,         \* the output pipe: frames whose results can be read
    events,         \* the event pipe of the peer
    requests,       \* how many requests have been made
    result,         \* result[x]: the frame whose output was read for request x
    seen,           \* how many events of an inference the application has had
    faults,         \* how many failures there have been
    missing,        \* history: frames whose answers take no request off the queue
    shifted,        \* history: a call, an event or an output has gone missing
    prepared,       \* history: the last Prepare() has returned 0, and no Stop() since
    careless,       \* history: the application has broken the rules below
    crashed         \* a thread has used a null pointer or a deleted object

vars == <<udp, patient, app, cmds, replies, svc, request, gstSource, pairs, pair,
          requestQueue, sink, output, events, requests, result, seen, faults, missing,
          shifted, prepared, careless, crashed>>

Pairs    == 1..MaxPairs
Requests == 1..MaxRequests
None     == 0                   \* no request, no frame, no pair

\* Source::Create() and Sink::Create(): pipelines that play, without a frame.
NewPair  == [slot |-> <<>>, wire |-> <<>>, answers |-> <<>>, playing |-> TRUE]
IdleSink == [at |-> "idle", frame |-> None, request |-> None]

----------------------------------------------------------------------------
\* The application has called Invoke() more often than it has been told of an
\* inference that succeeded or failed.
Unanswered == seen < requests

\* Peer::Prepare(), Invoke() and Stop() of a peer that is active: its client and the
\* client's Gst are there (-EILSEQ otherwise), and no other call is being made.
Serviceable == app = "idle"

\* The tensors that AllocateTensor() has made for the next Invoke().  Source::Invoke()
\* wraps their memory without a copy: FreeTensor() comes after the event.
NextInput == requests + 1

\* Gst::Configure(): with an input type frames go by RTP over UDP, without by TCP.
InputTypes == BOOLEAN

\* Peer::EventObject::Create(): an empty pipe.
EventPipe == events = <<>>

\* A failure, of which there are at most MaxFaults.
Fault == faults < MaxFaults /\ faults' = faults + 1

----------------------------------------------------------------------------
Init ==
    /\ udp \in InputTypes
    /\ patient \in BOOLEAN
    /\ app = "idle"
    /\ cmds = <<>> /\ replies = <<>>
    /\ svc = "loop"
    /\ request = None
    /\ gstSource = None
    /\ pairs = 0
    /\ pair = [g \in Pairs |-> NewPair]
    /\ requestQueue = <<>>
    /\ sink = [g \in Pairs |-> IdleSink]
    /\ output = <<>>
    /\ EventPipe
    /\ requests = 0
    /\ result = [x \in Requests |-> None]
    /\ seen = 0
    /\ faults = 0
    /\ missing = 0
    /\ shifted = FALSE
    /\ prepared = FALSE
    /\ careless = FALSE
    /\ crashed = FALSE

appVars  == <<udp, patient, app, requests, result, seen, prepared, careless>>
pipeVars == <<gstSource, pairs, pair, requestQueue>>
sinkVars == <<sink, output, events>>

\* CommandObject::Send() on the application's end.
SendCommand(id, arg) == cmds' = Append(cmds, [id |-> id, arg |-> arg])

\* For the bound on pairs: those that svc has been asked for and has not made yet.
Preparing == Cardinality({i \in DOMAIN cmds : cmds[i].id = "Prepare"})

\* Gst::Prepare(): the descriptions are built and svc is asked for the pipelines.
Prepare ==
    /\ Serviceable
    /\ pairs + Preparing < MaxPairs
    /\ SendCommand("Prepare", None)
    /\ app' = "Prepare"
    /\ careless' = (careless \/ Unanswered)
    /\ UNCHANGED <<udp, patient, requests, result, seen, prepared, replies, svc, request, pipeVars,
                   sinkVars, faults, missing, shifted, crashed>>

\* The descriptions cannot be built: svc does not hear of it.
PrepareRefused ==
    /\ Serviceable
    /\ Fault
    /\ prepared' = FALSE
    /\ UNCHANGED <<udp, patient, app, requests, result, seen, careless, cmds, replies, svc, request,
                   pipeVars, sinkVars, missing, shifted, crashed>>

\* Gst::Invoke(): the request goes to svc, and the call waits for its answer.
Invoke ==
    /\ Serviceable
    /\ requests < MaxRequests
    /\ patient => ~Unanswered
    /\ requests' = NextInput
    /\ SendCommand("Invoke", NextInput)
    /\ app' = "Invoke"
    /\ careless' = (careless \/ ~prepared)
    /\ UNCHANGED <<udp, patient, result, seen, prepared, replies, svc, request, pipeVars, sinkVars,
                   faults, missing, shifted, crashed>>

\* Prepare() and Invoke() receive the answer.  An answer to another command is
\* an error; an Invoke() that fails has told its application so.
CallReturns ==
    /\ app \in {"Prepare", "Invoke"}
    /\ replies # <<>>
    /\ replies' = Tail(replies)
    /\ LET ok == Head(replies).id = app /\ Head(replies).ok IN
       /\ prepared' = IF app = "Prepare" THEN ok ELSE prepared
       /\ seen' = IF app = "Invoke" /\ ~ok THEN seen + 1 ELSE seen
    /\ app' = "idle"
    /\ UNCHANGED <<udp, patient, requests, result, careless, cmds, svc, request, pipeVars,
                   sinkVars, faults, missing, shifted, crashed>>

\* The read is interrupted: the call fails and its answer stays on the way.
CallInterrupted ==
    /\ app \in {"Prepare", "Invoke"}
    /\ Fault
    /\ prepared' = IF app = "Prepare" THEN FALSE ELSE prepared
    /\ shifted' = TRUE
    /\ app' = "idle"
    /\ UNCHANGED <<udp, patient, requests, result, seen, careless, cmds, replies, svc, request,
                   pipeVars, sinkVars, missing, crashed>>

\* Gst::Stop(): the command is sent, and no answer expected.
Stop ==
    /\ Serviceable
    /\ Len(cmds) < MaxPairs
    /\ SendCommand("Stop", None)
    /\ careless' = (careless \/ ~prepared \/ Unanswered)
    /\ prepared' = FALSE
    /\ UNCHANGED <<udp, patient, app, requests, result, seen, replies, svc, request,
                   pipeVars, sinkVars, faults, missing, shifted, crashed>>

\* Gst::GetOutput() for request x.  It returns at once, the output was queued before
\* the event.
GetOutput(x) ==
    /\ output # <<>>
    /\ output' = Tail(output)
    /\ result' = [result EXCEPT ![x] = Head(output)]

\* Peer::EventObject::FetchEventData(): the oldest event.
FetchEventData ==
    /\ events # <<>>
    /\ events' = Tail(events)

\* The event handler that beyond_peer_create() has added to the session's loop calls
\* the application's: an event of success tells it to read an output.
HandleEvent ==
    /\ app = "idle"
    /\ FetchEventData
    /\ IF Head(events).type = "SUCCESS" THEN GetOutput(Head(events).request)
                                       ELSE UNCHANGED <<output, result>>
    /\ seen' = IF Head(events).type = "STOPPED" THEN seen ELSE seen + 1
    /\ UNCHANGED <<udp, patient, app, requests, prepared, careless, cmds, replies, svc, request,
                   pipeVars, sink, faults, missing, shifted, crashed>>

\* Gst::Destroy(), as Peer::Deactivate() calls it: svc is told to end, and joined.
Destroy ==
    /\ app = "idle"
    /\ SendCommand("Exit", None)
    /\ app' = "join"
    /\ careless' = (careless \/ Unanswered)
    /\ UNCHANGED <<udp, patient, requests, result, seen, prepared, replies, svc, request, pipeVars,
                   sinkVars, faults, missing, shifted, crashed>>

\* The handles are closed, the source and the sink released, the object deleted.
\* Nothing stops a streaming thread that is inside NewDataHandler().
DestroyJoined ==
    /\ app = "join"
    /\ svc = "exited"
    /\ app' = "gone"
    /\ gstSource' = None
    /\ UNCHANGED <<udp, patient, requests, result, seen, prepared, careless, cmds, replies, svc,
                   request, pairs, pair, requestQueue, sinkVars, faults, missing, shifted,
                   crashed>>

----------------------------------------------------------------------------
(* The pipelines' thread: CommandHandle() and the command handlers.        *)

\* The next command is id.
Command(id) ==
    /\ ~crashed
    /\ svc = "loop"
    /\ cmds # <<>>
    /\ Head(cmds).id = id
    /\ cmds' = Tail(cmds)

\* Mutant: the answer is the result of the last call, which has succeeded.
ReplyAlwaysOk(id, ok) == Append(replies, [id |-> id, ok |-> TRUE])

Reply(id, ok) == Append(replies, [id |-> id, ok |-> ok])

\* CommandHandlerPrepare(): a new source and a new sink replace the old ones.
SvcPrepare ==
    /\ Command("Prepare")
    /\ pairs' = pairs + 1
    /\ gstSource' = pairs + 1
    /\ replies' = Reply("Prepare", TRUE)
    /\ UNCHANGED <<appVars, svc, request, pair, requestQueue, sinkVars, faults, missing,
                   shifted, crashed>>

\* One of the two cannot be created: there is no source any more.
SvcPrepareFails ==
    /\ Command("Prepare")
    /\ Fault
    /\ gstSource' = None
    /\ replies' = Reply("Prepare", FALSE)
    /\ UNCHANGED <<appVars, svc, request, pairs, pair, requestQueue, sinkVars, missing,
                   shifted, crashed>>

\* Source::Invoke() first pushes the frame.  `queue leaky=2 max-size-buffers=1' keeps
\* the newest frame only.
SvcInvoke ==
    /\ Command("Invoke")
    /\ gstSource # None
    /\ pair' = [pair EXCEPT ![gstSource].slot = <<Head(cmds).arg>>]
    /\ missing' = missing + Len(pair[gstSource].slot)
    /\ request' = Head(cmds).arg
    /\ svc' = "pushed"
    /\ UNCHANGED <<appVars, replies, gstSource, pairs, requestQueue, sinkVars, faults,
                   shifted, crashed>>

\* Source::Invoke() then queues the request, and the call is answered.
SvcQueue ==
    /\ svc = "pushed"
    /\ requestQueue' = Append(requestQueue, request)
    /\ replies' = Reply("Invoke", TRUE)
    /\ request' = None
    /\ svc' = "loop"
    /\ UNCHANGED <<appVars, cmds, gstSource, pairs, pair, sinkVars, faults, missing, shifted,
                   crashed>>

\* gst_buffer_new() fails: there is no frame, and no request.  (When a tensor cannot be
\* wrapped, the buffer is given back and pushed all the same; GStreamer refuses only a
\* tensor without data so, which is not an input here.)
SvcInvokeFails ==
    /\ Command("Invoke")
    /\ gstSource # None
    /\ Fault
    /\ replies' = Reply("Invoke", FALSE)
    /\ UNCHANGED <<appVars, svc, request, pipeVars, sinkVars, missing, shifted, crashed>>

\* gst_element_set_state(pipeline, GST_STATE_PAUSED) on both pipelines.
Paused(p) == [p EXCEPT !.playing = FALSE]

\* The BusHandler() of a sink publishes the change of its state.
StateChanged(p) ==
    IF p.playing THEN Append(events, [type |-> "STOPPED", request |-> None]) ELSE events

\* CommandHandlerStop(): both pipelines are paused.
SvcStop ==
    /\ Command("Stop")
    /\ gstSource # None
    /\ pair' = [pair EXCEPT ![gstSource] = Paused(@)]
    /\ events' = StateChanged(pair[gstSource])
    /\ UNCHANGED <<appVars, replies, svc, request, gstSource, pairs, requestQueue, sink,
                   output, faults, missing, shifted, crashed>>

\* CommandHandlerInvoke() and CommandHandlerStop() do not look whether there is a
\* source.
SvcNoSource ==
    /\ Command("Invoke") \/ Command("Stop")
    /\ gstSource = None
    /\ crashed' = TRUE
    /\ UNCHANGED <<appVars, replies, svc, request, pipeVars, sinkVars, faults, missing,
                   shifted>>

\* CommandHandlerExit(): the main loop ends, and the thread.
SvcExit ==
    /\ Command("Exit")
    /\ svc' = "exited"
    /\ UNCHANGED <<appVars, replies, request, pipeVars, sinkVars, faults, missing, shifted,
                   crashed>>

\* BusHandler() of the source or the sink: an error of a pipeline, of which the
\* application learns without a request.
BusError ==
    /\ svc = "loop"
    /\ gstSource # None
    /\ app # "gone"
    /\ Fault
    /\ events' = Append(events, [type |-> "ERROR", request |-> None])
    /\ shifted' = TRUE
    /\ UNCHANGED <<appVars, cmds, replies, svc, request, pipeVars, sink, output, missing,
                   crashed>>

----------------------------------------------------------------------------
(* The frames (external).                                                  *)

pairOnly == <<appVars, cmds, replies, svc, request, gstSource, pairs, requestQueue, sinkVars,
              shifted, crashed>>

\* A frame leaves the client.
Transmit(g) ==
    /\ pair[g].playing
    /\ pair[g].slot # <<>>
    /\ pair' = [pair EXCEPT ![g].slot = <<>>, ![g].wire = @ \o pair[g].slot]
    /\ UNCHANGED <<pairOnly, faults, missing>>

\* A frame is lost on its way.
LoseFrame(g) ==
    /\ udp
    /\ pair[g].wire # <<>>
    /\ Fault
    /\ pair' = [pair EXCEPT ![g].wire = Tail(@)]
    /\ missing' = missing + 1
    /\ UNCHANGED pairOnly

\* The server's filter computes the output of a frame.
Serve(g) ==
    /\ pair[g].wire # <<>>
    /\ pair' = [pair EXCEPT ![g].wire = Tail(@), ![g].answers = Append(@, Head(pair[g].wire))]
    /\ UNCHANGED <<pairOnly, faults, missing>>

----------------------------------------------------------------------------
(* The streaming thread of a sink: NewDataHandler().                       *)

\* An answer arrives.
Arrives(g) ==
    /\ app # "gone"
    /\ sink[g].at = "idle"
    /\ pair[g].playing
    /\ pair[g].answers # <<>>
    /\ pair' = [pair EXCEPT ![g].answers = Tail(@)]

\* Mutant: the newest request is taken.
NextRequestNewest == requestQueue[Len(requestQueue)]

\* requestQueue.front()
NextRequest == Head(requestQueue)

\* The oldest request is taken for the answer.
SinkPop(g) ==
    /\ Arrives(g)
    /\ requestQueue # <<>>
    /\ requestQueue' = Tail(requestQueue)
    /\ sink' = [sink EXCEPT ![g] = [at |-> "popped", frame |-> Head(pair[g].answers),
                                    request |-> NextRequest]]
    /\ UNCHANGED <<appVars, cmds, replies, svc, request, gstSource, pairs, output, events,
                   faults, missing, shifted, crashed>>

\* Mutant: an answer without a request is dropped in silence.
RefusedInSilence == events

\* The event for an answer that is refused carries no request.
Refused == Append(events, [type |-> "ERROR", request |-> None])

\* There is no request: Source::Invoke() has not queued it yet.
SinkFindsNone(g) ==
    /\ Arrives(g)
    /\ requestQueue = <<>>
    /\ events' = Refused
    /\ missing' = missing + 1
    /\ UNCHANGED <<appVars, cmds, replies, svc, request, gstSource, pairs, requestQueue, sink,
                   output, faults, shifted, crashed>>

\* Mutant: the refused answer takes its request with it.
KeptRequestsPopped == IF requestQueue = <<>> THEN <<>> ELSE Tail(requestQueue)

\* The requests after an answer has been refused.
KeptRequests == requestQueue

\* The shape of the output is not known or not the answer's: it is refused before
\* its request is looked for.
SinkRefuses(g) ==
    /\ Arrives(g)
    /\ Fault
    /\ requestQueue' = KeptRequests
    /\ events' = Refused
    /\ missing' = missing + 1
    /\ UNCHANGED <<appVars, cmds, replies, svc, request, gstSource, pairs, sink, output,
                   shifted, crashed>>

sinkOnly == <<appVars, cmds, replies, svc, request, pipeVars, missing, crashed>>

\* The output is queued.
SinkSend(g) ==
    /\ sink[g].at = "popped"
    /\ app # "gone"
    /\ output' = Append(output, sink[g].frame)
    /\ sink' = [sink EXCEPT ![g].at = "sent"]
    /\ UNCHANGED <<sinkOnly, events, faults, shifted>>

\* The output cannot be copied or queued: an error event with the request.
SinkSendFails(g) ==
    /\ sink[g].at = "popped"
    /\ app # "gone"
    /\ Fault
    /\ events' = Append(events, [type |-> "ERROR", request |-> sink[g].request])
    /\ sink' = [sink EXCEPT ![g] = IdleSink]
    /\ UNCHANGED <<sinkOnly, output, shifted>>

\* The application is told.
SinkPublish(g) ==
    /\ sink[g].at = "sent"
    /\ app # "gone"
    /\ events' = Append(events, [type |-> "SUCCESS", request |-> sink[g].request])
    /\ sink' = [sink EXCEPT ![g] = IdleSink]
    /\ UNCHANGED <<sinkOnly, output, faults, shifted>>

\* The event cannot be published; its output stays in the pipe.
SinkPublishFails(g) ==
    /\ sink[g].at = "sent"
    /\ app # "gone"
    /\ Fault
    /\ sink' = [sink EXCEPT ![g] = IdleSink]
    /\ shifted' = TRUE
    /\ UNCHANGED <<sinkOnly, output, events>>

\* The handler runs, or goes on, after Gst::Destroy() has deleted its client.
SinkAfterDestroy(g) ==
    /\ app = "gone"
    /\ \/ sink[g].at # "idle"
       \/ pair[g].playing /\ pair[g].answers # <<>>
    /\ ~crashed
    /\ crashed' = TRUE
    /\ UNCHANGED <<appVars, cmds, replies, svc, request, pipeVars, sinkVars, faults, missing,
                   shifted>>

Svc == \/ SvcPrepare \/ SvcPrepareFails \/ SvcInvoke \/ SvcInvokeFails \/ SvcQueue
       \/ SvcStop \/ SvcNoSource \/ SvcExit

Next ==
    \/ Prepare
    \/ PrepareRefused
    \/ Invoke
    \/ CallReturns
    \/ CallInterrupted
    \/ Stop
    \/ HandleEvent
    \/ Destroy
    \/ DestroyJoined
    \/ SvcPrepare
    \/ SvcPrepareFails
    \/ SvcInvoke
    \/ SvcInvokeFails
    \/ SvcQueue
    \/ SvcStop
    \/ SvcNoSource
    \/ SvcExit
    \/ BusError
    \/ \E g \in Pairs : Transmit(g)
    \/ \E g \in Pairs : LoseFrame(g)
    \/ \E g \in Pairs : Serve(g)
    \/ \E g \in Pairs : SinkPop(g)
    \/ \E g \in Pairs : SinkFindsNone(g)
    \/ \E g \in Pairs : SinkRefuses(g)
    \/ \E g \in Pairs : SinkSend(g)
    \/ \E g \in Pairs : SinkSendFails(g)
    \/ \E g \in Pairs : SinkPublish(g)
    \/ \E g \in Pairs : SinkPublishFails(g)
    \/ \E g \in Pairs : SinkAfterDestroy(g)

\* The threads go on: the pipelines' thread is in its main loop, GStreamer moves the
\* frames, a streaming thread ends its handler, and the application takes its
\* events and the answers to its calls.
Fairness ==
    /\ WF_vars(Svc)
    /\ WF_vars(CallReturns)
    /\ WF_vars(HandleEvent)
    /\ \A g \in Pairs :
           /\ WF_vars(Transmit(g))
           /\ WF_vars(Serve(g))
           /\ WF_vars(SinkPop(g) \/ SinkFindsNone(g))
           /\ WF_vars(SinkSend(g) \/ SinkPublish(g))

Spec == Init /\ [][Next]_vars /\ Fairness

----------------------------------------------------------------------------
(* Properties.                                                             *)

\* Only an Invoke() sends a request along.
Commands == [id : {"Prepare", "Stop", "Exit"}, arg : {None}] \union [id : {"Invoke"}, arg : Requests]

\* A sink that is busy has a frame and a request.
SinkStates == {IdleSink} \union [at : {"popped", "sent"}, frame : Requests, request : Requests]

\* The values of the variables.
TypeOK ==
    /\ udp \in BOOLEAN /\ patient \in BOOLEAN
    /\ app \in {"idle", "Prepare", "Invoke", "join", "gone"}
    /\ cmds \in Seq(Commands)
    /\ replies \in Seq([id : {"Prepare", "Invoke"}, ok : BOOLEAN])
    /\ svc \in {"loop", "pushed", "exited"}
    /\ request \in 0..MaxRequests /\ (svc = "pushed" => request # None)
    /\ gstSource \in 0..MaxPairs
    /\ pairs \in 0..MaxPairs
    /\ pair \in [Pairs -> [slot : Seq(Requests), wire : Seq(Requests),
                         answers : Seq(Requests), playing : BOOLEAN]]
    /\ requestQueue \in Seq(Requests)
    /\ sink \in [Pairs -> SinkStates]
    /\ output \in Seq(Requests)
    /\ events \in Seq([type : {"SUCCESS", "ERROR", "STOPPED"}, request : 0..MaxRequests])
    /\ requests \in 0..MaxRequests
    /\ result \in [Requests -> 0..MaxRequests]
    /\ seen \in Nat
    /\ faults \in 0..MaxFaults
    /\ missing \in Nat
    /\ shifted \in BOOLEAN
    /\ prepared \in BOOLEAN /\ careless \in BOOLEAN /\ crashed \in BOOLEAN

\* The output an application reads for a request was computed from that request's
\* frame, as long as every answer has taken its request off requestQueue
\* (peer_grpc_client_gst_source.cc:217-219 asks for more) and no event or call
\* has gone astray.
OwnAnswer ==
    (missing = 0 /\ ~shifted /\ ~careless) =>
        \A x \in Requests : result[x] \in {None, x}

\* Frames that are in a pair of pipelines and whose requests are still queued.
InPair(g) == Len(pair[g].slot) + Len(pair[g].wire) + Len(pair[g].answers)

\* The sum of the numbers f[g] of all pairs.
Total(f) ==
    LET sum[g \in 0..MaxPairs] == IF g = 0 THEN 0 ELSE f[g] + sum[g - 1]
    IN  sum[MaxPairs]

InPairs == Total([g \in Pairs |-> InPair(g)])

\* A frame that vanishes leaves its request in requestQueue for good: the queue,
\* with the request that is about to be queued, is longer than the frames on
\* their way by exactly the number of frames that went missing, through failed
\* calls, Stop() and every new Prepare().
RequestsAccounted ==
    Len(requestQueue) + (IF svc = "pushed" THEN 1 ELSE 0) = InPairs + missing

\* An application that invokes a peer only after a successful Prepare(), and
\* that stops, prepares or deactivates it only when it has had an event for every
\* Invoke(), does not make a thread use a null source or a deleted client.
CrashNeedsCareless == crashed => careless \/ shifted

\* Every Invoke() of an application that waits for events is followed by one, if
\* the frames go by TCP: no refusal on the way is silent.
InvokeAnswered ==
    \A x \in Requests :
        (requests >= x /\ patient /\ ~udp)
            ~> (seen >= x \/ careless \/ shifted \/ app \in {"join", "gone"})
=============================================================================
