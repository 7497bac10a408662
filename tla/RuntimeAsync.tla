---------------------------- MODULE RuntimeAsync ----------------------------
(***************************************************************************)
(* Inference::Runtime::impl::Async (libbeyond/src/                         *)
(* inference_runtime_impl_async.cc), the emulator that gives a synchronous *)
(* runtime module an asynchronous interface.  The application's thread     *)
(* sends commands over a socket pair to the thread of a private event loop *)
(* (svc), which calls the module.  A synchronous call sends the address of *)
(* a CommandData on its stack and waits for it to come back; Invoke()      *)
(* gives away one from the heap, which travels to svc, into the output     *)
(* pipe and is freed by GetOutput().  The result of an inference is an     *)
(* event in the pipe of the event object.                                  *)
(*                                                                         *)
(* The descriptors block: a write to a full pipe and a read from an empty  *)
(* one wait.  A CommandData of the heap is named by the number of its      *)
(* Invoke(), which is also its context; one on the stack by the number of  *)
(* its call.  How svc's event loop calls Main, and how it stops, is the    *)
(* subject of LoopHandlers and EventLoop.                                  *)
(***************************************************************************)
EXTENDS Integers, Sequences, FiniteSets

CONSTANTS
  SyncIds,      \* the commands of Command that are answered
  MaxInvokes,   \* bound: accepted Invoke() calls
  MaxCalls,     \* bound: synchronous calls
  CommandCap,   \* commands the socket pair holds
  PipeCap,      \* pointers a pipe holds
  Windows,      \* how many unfinished inferences an application allows
  Faults,       \* the failures that may happen, of FaultKind
  MaxFaults     \* bound: the different failures of one behaviour

Invokes == 1..MaxInvokes
Calls   == 1..MaxCalls

\* send: Send() of the application fails; reply: svc's answer is not sent;
\* interrupted: a signal ends the read() of a waiting call; memory: no EventData;
\* invoke, getOutput: the module's method fails; output: the output is not
\* queued; publish: the event is not written.
FaultKind == {"send", "reply", "interrupted", "memory", "invoke", "getOutput",
              "output", "publish"}

ASSUME ConstAssumption ==
  /\ MaxInvokes \in Nat /\ MaxCalls \in Nat
  /\ CommandCap \in Nat \ {0} /\ PipeCap \in Nat \ {0}
  /\ Windows \subseteq Nat
  /\ Faults \subseteq FaultKind /\ MaxFaults \in Nat
  /\ "IdStop" \in SyncIds /\ SyncIds \cap {"IdInvoke", "IdLast"} = {}

VARIABLES
  cmd,        \* the socket pair towards svc
  reply,      \* the socket pair towards the application
  outputs,    \* outputProducer to outputConsumer
  events,     \* the pipe of eventObject
  app,        \* the application's thread and the command it sent last
  svc,        \* the event loop's thread, inside Main or not
  heap,       \* the CommandData of each Invoke()
  output,     \* the inference whose output the module holds, 0 for none
  invoked,    \* Invoke() calls accepted so far
  delivered,  \* what the application got, in order
  window,     \* the application's bound on unfinished inferences
  faults      \* the failures that have happened

vars == <<cmd, reply, outputs, events, app, svc, heap, output, invoked,
          delivered, window, faults>>
pipes == <<cmd, reply, outputs, events>>

Ids  == SyncIds \cup {"IdInvoke", "IdLast"}
Idle == [pc |-> "idle", id |-> "IdLast", arg |-> 0, type |-> "none"]

\* Create(): the command sockets and the output pipe.
PipesMade == cmd = <<>> /\ reply = <<>> /\ outputs = <<>>

\* EventObject::Create(): the pipe of the events.
EventPipe == events = <<>>

\* The end of Create(): the loop runs, with the command handler added to it.
Init ==
  /\ PipesMade
  /\ EventPipe
  /\ app = [pc |-> "ready", id |-> "IdLast", call |-> 0, context |-> 0]
  /\ svc = Idle
  /\ heap = [i \in Invokes |-> "unused"]
  /\ output = 0
  /\ invoked = 0
  /\ delivered = <<>>
  /\ window \in Windows
  /\ faults = {}

Happens(f) ==
  /\ f \in Faults
  /\ faults' = faults \cup {f}
  /\ Cardinality(faults') <= MaxFaults

-----------------------------------------------------------------------------
(* The application's thread.                                               *)

\* Invoke(): the ownership of "arg" goes with the command; nobody waits.
Invoke ==
  /\ app.pc = "ready" /\ invoked < MaxInvokes
  /\ invoked - Len(delivered) < window
  /\ Len(cmd) < CommandCap
  /\ invoked' = invoked + 1
  /\ heap' = [heap EXCEPT ![invoked + 1] = "live"]
  /\ cmd' = Append(cmd, [id |-> "IdInvoke", arg |-> invoked + 1])
  /\ app' = [app EXCEPT !.id = "IdInvoke"]
  /\ UNCHANGED <<reply, outputs, events, svc, output, delivered, window, faults>>

\* Mutant: the call does not wait for the answer.
SendCommandNoWait(id) ==
  /\ app.pc = "ready" /\ app.call < MaxCalls
  /\ Len(cmd) < CommandCap
  /\ cmd' = Append(cmd, [id |-> id, arg |-> app.call + 1])
  /\ app' = [app EXCEPT !.id = id, !.call = @ + 1]
  /\ UNCHANGED <<reply, outputs, events, svc, heap, output, invoked, delivered,
                 window, faults>>

\* Configure(), LoadModel(), ..., Stop(): the command is sent, the call waits.
SendCommand(id) ==
  /\ app.pc = "ready" /\ app.call < MaxCalls
  /\ Len(cmd) < CommandCap
  /\ cmd' = Append(cmd, [id |-> id, arg |-> app.call + 1])
  /\ app' = [app EXCEPT !.pc = "waiting", !.id = id, !.call = @ + 1]
  /\ UNCHANGED <<reply, outputs, events, svc, heap, output, invoked, delivered,
                 window, faults>>

\* Stop(): another command that is waited for.
Stop == SendCommand("IdStop")

\* Send() fails: the call returns its error, Invoke() frees "arg" first.
SendFails ==
  /\ app.pc = "ready" /\ Happens("send")
  /\ UNCHANGED <<pipes, app, svc, heap, output, invoked, delivered, window>>

\* Recv() of a waiting call: an answer to another command makes the call return
\* Recv()'s 0, an answer to this command the value in "arg".
RecvReply ==
  /\ app.pc = "waiting" /\ reply # <<>>
  /\ reply' = Tail(reply)
  /\ app' = [app EXCEPT !.pc = "ready"]
  /\ UNCHANGED <<cmd, outputs, events, svc, heap, output, invoked, delivered,
                 window, faults>>

\* read() fails with EINTR: the call returns and its stack frame is gone.
RecvInterrupted ==
  /\ app.pc = "waiting" /\ reply = <<>> /\ Happens("interrupted")
  /\ app' = [app EXCEPT !.pc = "ready"]
  /\ UNCHANGED <<pipes, svc, heap, output, invoked, delivered, window>>

Deliver(context, type, out) ==
  delivered' = Append(delivered,
                      [context |-> context, type |-> type, output |-> out])

\* FetchEventData() reads an event and calls the application's handler, which
\* reads the output when the inference was successful.
FetchEventData ==
  /\ app.pc = "ready" /\ events # <<>>
  /\ events' = Tail(events)
  /\ LET event == Head(events) IN
       IF event.type = "success"
         THEN /\ app' = [app EXCEPT !.pc = "getOutput", !.context = event.context]
              /\ UNCHANGED delivered
         ELSE /\ Deliver(event.context, event.type, 0)
              /\ UNCHANGED app
  /\ UNCHANGED <<cmd, reply, outputs, svc, heap, output, invoked, window, faults>>

\* GetOutput(): the oldest output, whose "arg" is freed.
GetOutput ==
  /\ app.pc = "getOutput" /\ outputs # <<>>
  /\ outputs' = Tail(outputs)
  /\ heap' = [heap EXCEPT ![Head(outputs).arg] = "freed"]
  /\ Deliver(app.context, "success", Head(outputs).output)
  /\ app' = [app EXCEPT !.pc = "ready"]
  /\ UNCHANGED <<cmd, reply, events, svc, output, invoked, window, faults>>

\* Destroy(): the handler is removed from the event loop, the loop told to stop
\* and the object deleted; svc is not waited for.  The application calls it when
\* a synchronous call was its last command or every inference was reported.
Destroy ==
  /\ app.pc = "ready"
  /\ app.id # "IdInvoke" \/ Len(delivered) = invoked
  /\ app' = [app EXCEPT !.pc = "destroyed"]
  /\ UNCHANGED <<pipes, svc, heap, output, invoked, delivered, window, faults>>

-----------------------------------------------------------------------------
(* The thread of the event loop.                                           *)

\* Mutant: a synchronous command is answered before it is carried out.
MainHandlerAnswersFirst ==
  /\ svc.pc = "idle" /\ cmd # <<>> /\ app.pc # "destroyed"
  /\ cmd' = Tail(cmd)
  /\ svc' = [pc |-> "command", id |-> Head(cmd).id, arg |-> Head(cmd).arg,
             type |-> "none"]
  /\ reply' = IF Head(cmd).id = "IdInvoke" THEN reply ELSE Append(reply, Head(cmd))
  /\ UNCHANGED <<outputs, events, app, heap, output, invoked, delivered, window,
                 faults>>

\* Main: the command is read off the socket and looked up in cmdTable.
MainHandler ==
  /\ svc.pc = "idle" /\ cmd # <<>> /\ app.pc # "destroyed"
  /\ cmd' = Tail(cmd)
  /\ svc' = [pc |-> "command", id |-> Head(cmd).id, arg |-> Head(cmd).arg,
             type |-> "none"]
  /\ UNCHANGED <<reply, outputs, events, app, heap, output, invoked, delivered,
                 window, faults>>

\* Mutant: the handler of IdStop does not answer.
CommandHandlerSilent ==
  /\ svc.pc = "command" /\ svc.id # "IdInvoke"
  /\ reply' = IF svc.id = "IdStop" THEN reply
              ELSE Append(reply, [id |-> svc.id, arg |-> svc.arg])
  /\ svc' = Idle
  /\ UNCHANGED <<cmd, outputs, events, app, heap, output, invoked, delivered,
                 window, faults>>

\* "arg" goes back with the id of its command.
Answer == Append(reply, [id |-> svc.id, arg |-> svc.arg])

\* CommandConfigureHandler, ..., CommandStopHandler: the module's method runs,
\* its value is stored in "arg" and "arg" sent back.
CommandHandler ==
  /\ svc.pc = "command" /\ svc.id # "IdInvoke"
  /\ \/ /\ reply' = Answer
        /\ UNCHANGED faults
     \/ /\ Happens("reply")
        /\ UNCHANGED reply
  /\ svc' = Idle
  /\ UNCHANGED <<cmd, outputs, events, app, heap, output, invoked, delivered,
                 window>>

\* CommandInvokeHandler without memory for the EventData: "arg" is forgotten.
InvokeNoMemory ==
  /\ svc.pc = "command" /\ svc.id = "IdInvoke" /\ Happens("memory")
  /\ svc' = Idle
  /\ UNCHANGED <<pipes, app, heap, output, invoked, delivered, window>>

\* Mutant: the output is taken before the inference has run.
InvokeModuleLate ==
  /\ svc.pc = "command" /\ svc.id = "IdInvoke"
  /\ svc' = [svc EXCEPT !.pc = "invoked", !.type = "success"]
  /\ UNCHANGED <<pipes, app, heap, output, invoked, delivered, window, faults>>

\* CommandInvokeHandler, the module's Invoke().
InvokeModule ==
  /\ svc.pc = "command" /\ svc.id = "IdInvoke"
  /\ \/ /\ output' = svc.arg
        /\ svc' = [svc EXCEPT !.pc = "invoked", !.type = "success"]
        /\ UNCHANGED faults
     \/ /\ Happens("invoke")
        /\ svc' = [svc EXCEPT !.pc = "invoked", !.type = "error"]
        /\ UNCHANGED output
  /\ UNCHANGED <<pipes, app, heap, invoked, delivered, window>>

\* Mutant: the handler returns early, without an event.
GetOutputFailsSilently ==
  /\ svc.pc = "invoked" /\ Happens("getOutput")
  /\ svc' = Idle
  /\ UNCHANGED <<pipes, app, heap, output, invoked, delivered, window>>

\* CommandInvokeHandler, the module's GetOutput() fails: "arg" is forgotten.
GetOutputFails ==
  /\ svc.pc = "invoked" /\ Happens("getOutput")
  /\ svc' = [svc EXCEPT !.pc = "queued", !.type = "error"]
  /\ UNCHANGED <<pipes, app, heap, output, invoked, delivered, window>>

\* CommandInvokeHandler, the output that the module holds goes into the pipe,
\* inside "arg".
QueueOutput ==
  /\ svc.pc = "invoked"
  /\ Len(outputs) < PipeCap
  /\ outputs' = Append(outputs, [arg |-> svc.arg, output |-> output])
  /\ svc' = [svc EXCEPT !.pc = "queued"]
  /\ UNCHANGED <<cmd, reply, events, app, heap, output, invoked, delivered,
                 window, faults>>

\* Mutant: "arg" is not freed.
QueueOutputFailsLeaks ==
  /\ svc.pc = "invoked" /\ Happens("output")
  /\ svc' = [svc EXCEPT !.pc = "queued", !.type = "error"]
  /\ UNCHANGED <<pipes, app, heap, output, invoked, delivered, window>>

\* Mutant: the handler returns the error, without an event.
QueueOutputFailsSilently ==
  /\ svc.pc = "invoked" /\ Happens("output")
  /\ heap' = [heap EXCEPT ![svc.arg] = "freed"]
  /\ svc' = Idle
  /\ UNCHANGED <<pipes, app, output, invoked, delivered, window>>

\* CommandInvokeHandler, the Send() to the output pipe fails and "arg" is freed.
QueueOutputFails ==
  /\ svc.pc = "invoked" /\ Happens("output")
  /\ heap' = [heap EXCEPT ![svc.arg] = "freed"]
  /\ svc' = [svc EXCEPT !.pc = "queued", !.type = "error"]
  /\ UNCHANGED <<pipes, app, output, invoked, delivered, window>>

\* CommandInvokeHandler, the end: PublishEventData().
PublishEventData ==
  /\ svc.pc = "queued"
  /\ \/ /\ Len(events) < PipeCap
        /\ events' = Append(events, [context |-> svc.arg, type |-> svc.type])
        /\ UNCHANGED faults
     \/ /\ Happens("publish")
        /\ UNCHANGED events
  /\ svc' = Idle
  /\ UNCHANGED <<cmd, reply, outputs, app, heap, output, invoked, delivered,
                 window>>

-----------------------------------------------------------------------------
Next ==
  \/ Invoke \/ (\E id \in SyncIds \ {"IdStop"} : SendCommand(id)) \/ Stop \/ SendFails
  \/ RecvReply \/ RecvInterrupted \/ FetchEventData \/ GetOutput \/ Destroy
  \/ MainHandler \/ CommandHandler \/ InvokeNoMemory \/ InvokeModule
  \/ GetOutputFails \/ QueueOutput \/ QueueOutputFails \/ PublishEventData

Spec == Init /\ [][Next]_vars

\* svc runs whenever it can; the application reads the answers, the events and
\* the outputs that are there, but need not call anything.
Svc == MainHandler \/ CommandHandler \/ InvokeModule \/ QueueOutput
       \/ PublishEventData
FairSpec ==
  /\ Spec
  /\ WF_vars(Svc)
  /\ WF_vars(RecvReply) /\ WF_vars(GetOutput) /\ WF_vars(FetchEventData)

-----------------------------------------------------------------------------
\* Every variable has its type.
TypeOK ==
  LET Arg == Invokes \cup Calls
      Type == {"success", "error"} IN
    /\ cmd \in Seq([id : Ids, arg : Arg])
    /\ reply \in Seq([id : Ids, arg : Calls])
    /\ outputs \in Seq([arg : Invokes, output : {0} \cup Invokes])
    /\ events \in Seq([context : Invokes, type : Type])
    /\ app \in [pc : {"ready", "waiting", "getOutput", "destroyed"}, id : Ids,
                call : {0} \cup Calls, context : {0} \cup Invokes]
    /\ svc \in [pc : {"idle", "command", "invoked", "queued"}, id : Ids,
                arg : {0} \cup Arg, type : {"none"} \cup Type]
    /\ heap \in [Invokes -> {"unused", "live", "freed"}]
    /\ output \in {0} \cup Invokes
    /\ invoked \in 0..MaxInvokes
    /\ delivered \in Seq([context : Invokes, type : Type,
                          output : {0} \cup Invokes])
    /\ window \in Windows
    /\ faults \subseteq FaultKind

\* The places that refer to the CommandData of Invoke() number i.
Holders(i) ==
  {<<"cmd", k>> : k \in {k \in DOMAIN cmd : cmd[k] = [id |-> "IdInvoke", arg |-> i]}}
  \cup {<<"outputs", k>> : k \in {k \in DOMAIN outputs : outputs[k].arg = i}}
  \cup (IF /\ svc.pc \in {"command", "invoked"}
           /\ svc.id = "IdInvoke" /\ svc.arg = i
          THEN {<<"svc", 0>>} ELSE {})

\* The ownership comments of Invoke(), CommandInvokeHandler and GetOutput():
\* a CommandData of the heap has at most one owner, an owner's is not freed,
\* and one without an owner has been freed, unless the module's GetOutput() or
\* the allocation of the event failed.
ArgOwnedOnce ==
  \A i \in Invokes :
    /\ \A x, y \in Holders(i) : x = y
    /\ Holders(i) # {} => heap[i] = "live"
    /\ heap[i] = "live" => \/ Holders(i) # {}
                           \/ faults \cap {"memory", "getOutput"} # {}

\* The inferences whose success the application knows or can read, and whose
\* output it has not taken.
Announced ==
  {events[k].context : k \in {k \in DOMAIN events : events[k].type = "success"}}
  \cup (IF app.pc = "getOutput" THEN {app.context} ELSE {})

\* "If we publish the event first, there is a chance to that the outputConsumer
\* failed to get the output tensor": when an event of success can be read, the
\* output of that inference is in the pipe, whatever has failed before.
SuccessHasOutput ==
  \A i \in Announced : \E k \in DOMAIN outputs : outputs[k].arg = i

\* Every inference is accounted for: its CommandData has one owner until it is
\* freed, and an event of success comes only after the output it announces.
InferenceAccounted == ArgOwnedOnce /\ SuccessHasOutput

\* A success delivers the output of its own inference.
OwnOutput ==
  \A k \in DOMAIN delivered :
    delivered[k].type = "success" => delivered[k].output = delivered[k].context

\* OwnOutput holds until the module's Invoke() fails.  A lost event has the same
\* effect, since its output stays in the pipe.
OwnOutputUnlessFailed ==
  faults \cap {"invoke", "publish"} = {} => OwnOutput

\* The assertion cmdData == &arg of the synchronous calls: the answer that a
\* waiting call reads is the answer to this call.
ReplyIsForCaller ==
  app.pc = "waiting" /\ reply # <<>> => Head(reply) = [id |-> app.id, arg |-> app.call]

\* Destroy() does not wait for svc, but a synchronous call (or the event of the
\* last inference) is a barrier: when the object is deleted svc is outside Main
\* and no command is left.
NoUseAfterDestroy == app.pc = "destroyed" => svc.pc = "idle" /\ cmd = <<>>

\* As long as no signal interrupts a call, svc works only on the CommandData of
\* the call that waits, so never on a stack frame that is gone, the answer that
\* call reads is its own, and svc is done when the object is deleted.
FrameOutlivesCommand ==
  "interrupted" \notin faults =>
    /\ ReplyIsForCaller
    /\ \A k \in DOMAIN cmd : cmd[k].id \in SyncIds =>
         app.pc = "waiting" /\ app.call = cmd[k].arg
    /\ svc.pc = "command" /\ svc.id \in SyncIds =>
         app.pc = "waiting" /\ app.call = svc.arg
    /\ NoUseAfterDestroy

-----------------------------------------------------------------------------
\* The inferences among the first n commands of s, for every n.
ArgsUpTo(s) ==
  LET args[n \in 0..Len(s)] ==
        IF n = 0 THEN <<>>
        ELSE IF s[n].id = "IdInvoke" THEN Append(args[n - 1], s[n].arg) ELSE args[n - 1]
  IN  args

InvokeArgs(s) == ArgsUpTo(s)[Len(s)]

Unreported ==
  (IF svc.pc # "idle" /\ svc.id = "IdInvoke" THEN <<svc.arg>> ELSE <<>>)
    \o InvokeArgs(cmd)

Reported ==
  [k \in DOMAIN delivered |->
      [context |-> delivered[k].context, type |-> delivered[k].type]]
    \o (IF app.pc = "getOutput"
          THEN <<[context |-> app.context, type |-> "success"]>> ELSE <<>>)
    \o events

Service == INSTANCE InferenceService WITH
  Contexts <- Invokes,
  pending <- Unreported,
  reported <- Reported,
  failing <- faults \cap {"memory", "publish"} # {}

\* The emulator implements the asynchronous service: one event per accepted
\* inference, in the order of the Invoke() calls, none lost but by a failure to
\* allocate or to publish the event.
ImplementsService == Service!Spec

\* An application whose window fits the pipes gets the answer of every
\* synchronous call; a lost answer, and outputs of failed inferences that nobody
\* reads, are what can keep it waiting.
CallReturns ==
  window <= PipeCap /\ app.pc = "waiting" ~>
    \/ app.pc = "ready"
    \/ faults \cap {"reply", "invoke"} # {}

\* Every accepted inference is delivered, unless the application destroys the
\* emulator, something failed that loses an event, or an unread output is left
\* in the pipe.
EveryInferenceDelivered ==
  \A i \in Invokes :
    window <= PipeCap /\ invoked = i ~>
      \/ \E k \in DOMAIN delivered : delivered[k].context = i
      \/ app.pc = "destroyed"
      \/ faults \cap {"memory", "publish", "invoke", "reply"} # {}
=============================================================================
