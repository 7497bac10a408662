--------------------------- MODULE InferenceLocal ---------------------------
(***************************************************************************)
(* An inference in local mode, from the C interface down to the            *)
(* TensorFlow-lite module: tensor containers and inference contexts        *)
(* (libbeyond-generic-capi/src/inference_capi.cc), the forwarding of       *)
(* events from the runtime to the inference (libbeyond/src/                *)
(* inference_impl_local.cc) and the module's model, interpreter, cached    *)
(* tensor information and input buffers (libbeyond-runtime_tflite/src/     *)
(* runtime.cc).                                                            *)
(*                                                                         *)
(* Two threads: the application's, which also runs the main event loop,    *)
(* and svc, the one of the asynchronous emulator (RuntimeAsync).  What the *)
(* emulator promises is used here as it is specified there: commands reach *)
(* svc in order, an accepted Invoke() is reported by one event, and every  *)
(* other call returns after svc has carried it out.  Such a call is        *)
(* therefore one step, taken when svc has nothing left to do before it.    *)
(* The flag that Stop() sets chooses between two error codes, neither of   *)
(* which the emulator passes on.                                           *)
(***************************************************************************)
EXTENDS Naturals, Sequences, FiniteSets

CONSTANTS
    Models,         \* the files given to LoadModel()
    Inputs,         \* Inputs[m]: the sizes in bytes of the input tensors of m
    Unsupported,    \* the models with a tensor type ConvertType() does not know
    Faults,         \* the failures of LoadModel() and Invoke() that may happen
    MaxTensors,     \* bound: tensor containers allocated
    MaxInvokes,     \* bound: accepted inferences
    MaxLoads,       \* bound: LoadModel() calls
    MaxRefs,        \* bound: references the application holds to one container
    None

LoadFaults == {"access", "file", "builder", "tensors"}

ASSUME LocalAssumption ==
    /\ None \notin Models /\ Unsupported \subseteq Models
    /\ Inputs \in [Models -> Seq(Nat)]
    /\ Faults \subseteq LoadFaults \cup {"invoke", "send"}
    /\ MaxTensors \in Nat /\ MaxInvokes \in Nat /\ MaxLoads \in Nat /\ MaxRefs \in Nat

Tensors == 1..MaxTensors
Invokes == 1..MaxInvokes

VARIABLES
    inf, rt,        \* the inference and the runtime: "none", "live" or "destroyed"
    runtime,        \* local: its runtime is set
    handler,        \* RuntimeEventHandler is among the handlers of the runtime
    module,         \* the module: the model, the one the interpreter was built from,
                    \* whether its tensors are allocated, the cached tensor information
    buffers,        \* the inference each input buffer of the interpreter was filled by, or 0
    known,          \* the input tensor information the application was given last
    tensor,         \* the tensor containers; app: the references of the application
    context,        \* the inference contexts: the container each refers to
    cmd,            \* Invoke() commands on their way to svc
    outputs,        \* outputs waiting for GetOutput()
    rtEvents,       \* the event pipe of the runtime
    infEvents,      \* the event pipe of the inference
    loads,
    reloaded,       \* history: a model was loaded after tensor information was given out
    foreign,        \* history: a successful inference has run on input that is not its own
    misuse,         \* history: what the application did out of order
    crashed         \* freed memory or a null pointer was used

objVars  == <<inf, rt, runtime, handler>>
modVars  == <<module, buffers, loads>>
pipeVars == <<cmd, outputs, rtEvents, infEvents>>
histVars == <<reloaded, foreign, misuse>>
vars == <<objVars, modVars, known, tensor, context, pipeVars, histVars, crashed>>

NoModule == [model |-> None, interpreter |-> None, allocated |-> FALSE,
             inputInfo |-> None, outputInfo |-> None]

Init ==
    /\ inf = "none" /\ rt = "none" /\ runtime = FALSE /\ handler = FALSE
    /\ module = NoModule /\ buffers = <<>> /\ known = None
    /\ tensor = [t \in Tensors |-> [state |-> "unused", refcnt |-> 0, app |-> 0, info |-> None]]
    /\ context = [i \in Invokes |-> [state |-> "unused", tensor |-> 0]]
    /\ cmd = <<>> /\ outputs = <<>> /\ rtEvents = <<>> /\ infEvents = <<>>
    /\ loads = 0
    /\ reloaded = FALSE /\ foreign = FALSE /\ misuse = {}
    /\ crashed = FALSE

\* Accepted, and its context not freed.
Outstanding == {i \in Invokes : context[i].state = "held"}

Misused(what, when) == misuse' = IF when THEN misuse \cup {what} ELSE misuse

----------------------------------------------------------------------------
(* Objects.                                                                *)

\* What ParseArguments() makes of the first argument; without arguments it is
\* "local", and edge and distribute are not among the modes it knows.
Instance(argv) == IF argv = <<>> THEN "local"
                  ELSE IF argv[1] \in {"local", "remote"} THEN argv[1] ELSE None

CreateInference(argv) ==
    /\ ~crashed /\ inf = "none"
    /\ Instance(argv) = "local"
    /\ inf' = "live"
    /\ UNCHANGED <<rt, runtime, handler, modVars, known, tensor, context, pipeVars, histVars, crashed>>

\* The module has no handle and takes no handlers.
HasHandle == FALSE

\* Runtime::impl::Create() loads the module and puts the emulator before one that
\* has no handle.
CreateRuntime ==
    /\ ~crashed /\ rt = "none"
    /\ ~HasHandle
    /\ rt' = "live"
    /\ UNCHANGED <<inf, runtime, handler, modVars, known, tensor, context, pipeVars, histVars, crashed>>

\* local::AddRuntime(), refused when there is one already.
TakeRuntime ==
    /\ ~runtime
    /\ runtime' = TRUE /\ handler' = TRUE

AddRuntime ==
    /\ ~crashed /\ inf = "live" /\ rt = "live"
    /\ TakeRuntime
    /\ UNCHANGED <<inf, rt, modVars, known, tensor, context, pipeVars, histVars, crashed>>

\* local::RemoveRuntime(): from now on the runtime's events reach no one.
GiveUpRuntime ==
    /\ runtime
    /\ runtime' = FALSE /\ handler' = FALSE

RemoveRuntime ==
    /\ ~crashed /\ inf = "live" /\ rt = "live"
    /\ GiveUpRuntime
    /\ Misused("early", Outstanding # {})
    /\ UNCHANGED <<inf, rt, modVars, known, tensor, context, pipeVars, reloaded, foreign, crashed>>

\* EventObject::Destroy(): what is in the pipe is lost.
ClosePipe == infEvents' = <<>>

\* local::Destroy() closes the pipe and leaves RuntimeEventHandler where it is.
DestroyInference ==
    /\ ~crashed /\ inf = "live"
    /\ inf' = "destroyed" /\ ClosePipe
    /\ Misused("early", Outstanding # {} \/ \E t \in Tensors : tensor[t].app > 0)
    /\ UNCHANGED <<rt, runtime, handler, modVars, known, tensor, context, cmd, outputs, rtEvents,
                   reloaded, foreign, crashed>>

\* Runtime::impl::Destroy(): the emulator's and then the module's, which do not wait
\* for a command that svc is carrying out.
DestroyModule ==
    /\ handler' = FALSE
    /\ module' = NoModule /\ buffers' = <<>>
    /\ cmd' = <<>> /\ outputs' = <<>> /\ rtEvents' = <<>>
    /\ crashed' \in {FALSE, cmd # <<>>}

DestroyRuntime ==
    /\ ~crashed /\ rt = "live"
    /\ rt' = "destroyed" /\ known' = None
    /\ DestroyModule
    /\ Misused("early", Outstanding # {} \/ (runtime /\ inf = "live"))
    /\ UNCHANGED <<inf, runtime, loads, tensor, context, infEvents, reloaded, foreign>>

----------------------------------------------------------------------------
(* Calls that svc answers.  Inference::impl passes each of them to local,  *)
(* local to the runtime if it has one and Runtime::impl to the emulator.   *)

\* The runtime is set: local passes the call on.
RuntimeSet == ~crashed /\ inf = "live" /\ runtime

\* The emulator takes the call if the runtime is still there, and svc gets to it.
Answered == rt = "live" /\ cmd = <<>>

\* A call through the pointer to a runtime that was destroyed.
CallOfDestroyed ==
    /\ RuntimeSet /\ rt = "destroyed"
    /\ crashed' = TRUE
    /\ UNCHANGED <<objVars, modVars, known, tensor, context, pipeVars, histVars>>

\* The module is left as LoadModel(m) leaves it when it fails with f, or succeeds.
Loaded(m, f) ==
    CASE f = "access"  -> module
      [] f = "file"    -> [module EXCEPT !.model = None]
      [] f = "builder" -> [module EXCEPT !.model = None, !.interpreter = None, !.allocated = FALSE]
      [] f = "tensors" -> [module EXCEPT !.model = m, !.interpreter = m, !.allocated = FALSE]
      [] OTHER         -> [module EXCEPT !.model = m, !.interpreter = m, !.allocated = TRUE]

\* local::LoadModel() does not support several models.
OneModel(models) == Len(models) = 1

\* beyond_inference_load_model()
LoadModel(m, f) ==
    /\ RuntimeSet /\ Answered
    /\ OneModel(<<m>>)
    /\ loads < MaxLoads
    /\ loads' = loads + 1
    /\ module' = Loaded(m, f)
    /\ buffers' = IF module'.interpreter # None /\ f # "access" /\ f # "file"
                  THEN [k \in DOMAIN Inputs[m] |-> 0] ELSE buffers
    /\ reloaded' = (reloaded \/ module.inputInfo # None)
    /\ UNCHANGED <<objVars, known, tensor, context, pipeVars, foreign, misuse, crashed>>

Supports(m) == m \notin Unsupported

\* GetInputTensorInfo(): what was cached, or else what the interpreter says.
GetInputTensorInfo ==
    /\ RuntimeSet /\ Answered
    /\ \/ /\ module.inputInfo # None
          /\ known' = module.inputInfo
          /\ UNCHANGED <<module, misuse, crashed>>
       \/ /\ module.inputInfo = None /\ module.interpreter # None
          /\ Supports(module.interpreter)
          /\ module' = [module EXCEPT !.inputInfo = module.interpreter]
          /\ known' = module.interpreter
          /\ UNCHANGED <<misuse, crashed>>
       \/ /\ module.inputInfo = None /\ module.interpreter = None
          /\ crashed' = TRUE
          /\ Misused("unloaded", TRUE)
          /\ UNCHANGED <<module, known>>
    /\ UNCHANGED <<objVars, buffers, loads, tensor, context, pipeVars, reloaded, foreign>>

\* GetOutputTensorInfo(): the same for the outputs, which the application only reads.
GetOutputTensorInfo ==
    /\ RuntimeSet /\ Answered
    /\ module.outputInfo = None
    /\ \/ /\ module.interpreter # None /\ Supports(module.interpreter)
          /\ module' = [module EXCEPT !.outputInfo = module.interpreter]
          /\ UNCHANGED <<misuse, crashed>>
       \/ /\ module.interpreter = None
          /\ crashed' = TRUE
          /\ Misused("unloaded", TRUE)
          /\ UNCHANGED module
    /\ UNCHANGED <<objVars, buffers, loads, known, tensor, context, pipeVars, reloaded, foreign>>

\* AllocateTensor(): as many tensors as there are infos, each of the size in its info.
Sizes(info) == Inputs[info]

\* The next container, which the application gets with one reference.
NewContainer(t, info) ==
    /\ t = Cardinality({u \in Tensors : tensor[u].state # "unused"}) + 1
    /\ tensor' = [tensor EXCEPT ![t] = [state |-> "live", refcnt |-> 1, app |-> 1, info |-> info]]

\* beyond_inference_allocate_tensor() with the information the application has.
AllocateTensor(t) ==
    /\ RuntimeSet /\ Answered
    /\ known # None
    /\ NewContainer(t, known)
    /\ UNCHANGED <<objVars, modVars, known, context, pipeVars, histVars, crashed>>

\* beyond_inference_get_output(): a container for the oldest output.
GetOutput(t) ==
    /\ RuntimeSet /\ rt = "live"
    /\ outputs # <<>>
    /\ outputs' = Tail(outputs)
    /\ NewContainer(t, None)
    /\ UNCHANGED <<objVars, modVars, known, context, cmd, rtEvents, infEvents, histVars, crashed>>

----------------------------------------------------------------------------
(* References.                                                             *)

\* local::FreeTensor(): without a runtime the tensor is not freed.
FreeTensor == IF runtime THEN "freed" ELSE "leaked"

\* tensor_container_unref(): at zero the tensor and the container are freed.
Unref(t) ==
    IF tensor[t].refcnt = 1
    THEN [tensor EXCEPT ![t] = [@ EXCEPT !.refcnt = 0, !.state = FreeTensor, !.info = None]]
    ELSE [tensor EXCEPT ![t].refcnt = @ - 1]

\* FreeTensor() is a call that svc answers.
UnrefWaits(t) == tensor[t].refcnt = 1 /\ runtime /\ rt = "live" /\ cmd # <<>>

\* The container is gone, or at zero the inference or the runtime it was allocated by.
UnrefCrashes(t) ==
    \/ tensor[t].state # "live"
    \/ tensor[t].refcnt = 1 /\ (inf = "destroyed" \/ (runtime /\ rt = "destroyed"))

\* beyond_inference_ref_tensor()
RefTensor(t) ==
    /\ ~crashed /\ tensor[t].app \in 1..(MaxRefs - 1)
    /\ tensor' = [tensor EXCEPT ![t].refcnt = @ + 1, ![t].app = @ + 1]
    /\ UNCHANGED <<objVars, modVars, known, context, pipeVars, histVars, crashed>>

\* beyond_inference_unref_tensor() of a reference the application has.
UnrefTensor(t) ==
    /\ ~crashed /\ tensor[t].app > 0
    /\ ~UnrefWaits(t)
    /\ tensor' = [Unref(t) EXCEPT ![t].app = @ - 1]
    /\ crashed' = UnrefCrashes(t)
    /\ UNCHANGED <<objVars, modVars, known, context, pipeVars, histVars>>

\* Mutant: the context does not take a reference of its own.
ContextRefNot(t) == tensor

\* The reference of a context.
ContextRef(t) == [tensor EXCEPT ![t].refcnt = @ + 1]

\* beyond_inference_do(): a context with a reference to the container goes with Invoke().
Do(i, t) ==
    /\ RuntimeSet /\ rt = "live"
    /\ tensor[t].app > 0 /\ tensor[t].info # None
    /\ i = Cardinality({j \in Invokes : context[j].state # "unused"}) + 1
    /\ context' = [context EXCEPT ![i] = [state |-> "held", tensor |-> t]]
    /\ tensor' = ContextRef(t)
    /\ cmd' = Append(cmd, i)
    /\ UNCHANGED <<objVars, modVars, known, outputs, rtEvents, infEvents, histVars, crashed>>

\* Mutant: the reference is given back twice.
RefGivenBackTwice(t) == Unref(t)

\* The context's reference, taken and given back.
RefGivenBack(t) == tensor

\* Invoke() fails, without a runtime or because the command is not sent.
DoFails(t) ==
    /\ ~crashed /\ inf = "live"
    /\ tensor[t].app > 0
    /\ ~runtime \/ (rt = "live" /\ "send" \in Faults)
    /\ tensor' = RefGivenBack(t)
    /\ UNCHANGED <<objVars, modVars, known, context, pipeVars, histVars, crashed>>

----------------------------------------------------------------------------
(* svc: the module's Invoke() and GetOutput().                             *)

\* Mutant: the last tensor is not copied.
CopiedOneLess(have, need) ==
    {k \in DOMAIN need : \A j \in 1..k : have[j] = need[j]} \ {Len(need)}

\* The input tensors copied: up to the first whose size is another one.
Copied(have, need) == {k \in DOMAIN need : \A j \in 1..k : have[j] = need[j]}

\* The interpreter can be run: it is there, its model too, and its tensors.
Runnable ==
    /\ module.interpreter # None
    /\ module.model = module.interpreter
    /\ module.allocated

\* An inference without a model, or whose input was freed.
SvcCrashes ==
    /\ ~crashed /\ cmd # <<>>
    /\ ~Runnable \/ tensor[context[Head(cmd)].tensor].state # "live"
    /\ crashed' = TRUE
    /\ Misused("unloaded", ~Runnable)
    /\ UNCHANGED <<objVars, modVars, known, tensor, context, pipeVars, reloaded, foreign>>

\* The module's GetOutput(): the interpreter's output tensors, if their types are known.
TakeOutput(i) ==
    outputs' = IF Supports(module.interpreter) THEN Append(outputs, i) ELSE outputs

\* The event and, whether Invoke() has failed or not, the output.
Report(i, ok) ==
    /\ cmd' = Tail(cmd)
    /\ TakeOutput(i)
    /\ rtEvents' = Append(rtEvents, [context |-> i,
                                     ok |-> ok /\ Supports(module.interpreter)])

\* Invoke() with as many tensors as the model has: those that fit are copied, the
\* interpreter runs on what is in its buffers.
SvcInvoke(ok) ==
    /\ ~crashed /\ cmd # <<>> /\ Runnable
    /\ LET i == Head(cmd)
           t == context[i].tensor
           have == Sizes(tensor[t].info)
           need == Inputs[module.interpreter] IN
       /\ tensor[t].state = "live"
       /\ Len(have) = Len(need)
       /\ buffers' = [k \in DOMAIN need |-> IF k \in Copied(have, need) THEN i ELSE buffers[k]]
       /\ foreign' = (foreign \/ (ok /\ \E k \in DOMAIN need : buffers'[k] # i))
       /\ Report(i, ok)
    /\ ok \/ "invoke" \in Faults
    /\ UNCHANGED <<objVars, module, loads, known, tensor, context, infEvents, reloaded, misuse, crashed>>

\* Invoke() with another number of tensors returns -EFAULT.
SvcMismatch ==
    /\ ~crashed /\ cmd # <<>> /\ Runnable
    /\ LET i == Head(cmd)
           t == context[i].tensor IN
       /\ tensor[t].state = "live"
       /\ Len(Sizes(tensor[t].info)) # Len(Inputs[module.interpreter])
       /\ Report(i, FALSE)
    /\ UNCHANGED <<objVars, modVars, known, tensor, context, infEvents, histVars, crashed>>

----------------------------------------------------------------------------
(* The main event loop.                                                    *)

\* Mutant: an inference that has failed is taken for an error of the event object.
ForwardedSuccess(event) == event.ok

\* RuntimeEventHandler passes on what is not an error of the event object: the
\* bits of INFERENCE_ERROR do not include those of ERROR.
Forwarded(event) == TRUE

\* The address of a copy of the event is written into the inference's pipe.
PublishEventData(event) == infEvents' = Append(infEvents, event)

\* The event handler of the runtime's handle.  RuntimeEventHandler, if it is
\* there, publishes a copy of the event for the inference.
RuntimeEvent ==
    /\ ~crashed /\ rt = "live" /\ rtEvents # <<>>
    /\ rtEvents' = Tail(rtEvents)
    /\ crashed' = (handler /\ inf = "destroyed")
    /\ IF handler /\ inf = "live" /\ Forwarded(Head(rtEvents))
       THEN PublishEventData(Head(rtEvents)) ELSE UNCHANGED infEvents
    /\ UNCHANGED <<objVars, modVars, known, tensor, context, cmd, outputs, histVars>>

\* The oldest event is read from the inference's pipe.
FetchEventData == infEvents' = Tail(infEvents)

\* The event handler of the inference's handle: the context gives its reference
\* back and is freed, and the application's callback is called.
InferenceEvent ==
    /\ ~crashed /\ inf = "live" /\ infEvents # <<>>
    /\ FetchEventData
    /\ LET i == Head(infEvents).context
           t == context[i].tensor IN
       /\ ~UnrefWaits(t)
       /\ crashed' = UnrefCrashes(t)
       /\ tensor' = Unref(t)
       /\ context' = [context EXCEPT ![i] = [state |-> "released", tensor |-> 0]]
    /\ UNCHANGED <<objVars, modVars, known, cmd, outputs, rtEvents, histVars>>

----------------------------------------------------------------------------
Next ==
    \/ \E argv \in {<<>>} \cup {<<mode>> : mode \in {"local", "remote", "edge"}} : CreateInference(argv)
    \/ CreateRuntime
    \/ AddRuntime
    \/ RemoveRuntime
    \/ DestroyInference
    \/ DestroyRuntime
    \/ CallOfDestroyed
    \/ \E m \in Models, f \in (Faults \cap LoadFaults) \cup {"none"} : LoadModel(m, f)
    \/ GetInputTensorInfo
    \/ GetOutputTensorInfo
    \/ \E t \in Tensors : AllocateTensor(t)
    \/ \E t \in Tensors : GetOutput(t)
    \/ \E t \in Tensors : RefTensor(t)
    \/ \E t \in Tensors : UnrefTensor(t)
    \/ \E i \in Invokes, t \in Tensors : Do(i, t)
    \/ \E t \in Tensors : DoFails(t)
    \/ SvcCrashes
    \/ \E ok \in BOOLEAN : SvcInvoke(ok)
    \/ SvcMismatch
    \/ RuntimeEvent
    \/ InferenceEvent

\* svc takes its commands and the main event loop the events that are there.
Fairness ==
    /\ WF_vars(SvcCrashes \/ SvcMismatch \/ \E ok \in BOOLEAN : SvcInvoke(ok))
    /\ WF_vars(RuntimeEvent)
    /\ WF_vars(InferenceEvent)

Spec == Init /\ [][Next]_vars /\ Fairness

----------------------------------------------------------------------------
(* Properties.                                                             *)

\* What Invoke() hands over comes back in the event, with the verdict.
Events == [context : Invokes, ok : BOOLEAN]

\* Every variable has its type, and the interpreter as many buffers as inputs.
TypeOK ==
    /\ inf \in {"none", "live", "destroyed"} /\ rt \in {"none", "live", "destroyed"}
    /\ runtime \in BOOLEAN /\ handler \in BOOLEAN /\ crashed \in BOOLEAN
    /\ module \in [model : Models \cup {None}, interpreter : Models \cup {None}, allocated : BOOLEAN,
                   inputInfo : Models \cup {None}, outputInfo : Models \cup {None}]
    /\ module.interpreter # None =>
           buffers \in [DOMAIN Inputs[module.interpreter] -> 0..MaxInvokes]
    /\ known \in Models \cup {None} /\ loads \in 0..MaxLoads
    /\ tensor \in [Tensors -> [state : {"unused", "live", "freed", "leaked"}, refcnt : Nat,
                               app : Nat, info : Models \cup {None}]]
    /\ context \in [Invokes -> [state : {"unused", "held", "released"}, tensor : {0} \cup Tensors]]
    /\ cmd \in Seq(Invokes) /\ outputs \in Seq(Invokes)
    /\ rtEvents \in Seq(Events) /\ infEvents \in Seq(Events)
    /\ reloaded \in BOOLEAN /\ foreign \in BOOLEAN /\ misuse \subseteq {"early", "unloaded"}

\* A container lives exactly as long as the application or the context of an
\* inference refers to it, whatever order the events come in and the application
\* gives its references back, also inside the callback and also after the runtime
\* was removed: its count is the number of those references.
CountedReferences ==
    ~crashed =>
        \A t \in Tensors :
            LET refs == tensor[t].app + Cardinality({i \in Outstanding : context[i].tensor = t}) IN
            /\ tensor[t].refcnt = refs
            /\ tensor[t].state = "live" <=> refs > 0

\* Freed memory or a null pointer is used only if the application has used the
\* module without a model, or has removed or destroyed what an inference, a
\* container or the inference object still needed; in particular an inference may be
\* destroyed without removing its runtime once every inference is reported.
CrashNeedsMisuse == crashed => misuse # {}

\* An inference that is reported as successful has run on its own input, all of
\* it, unless a model was loaded after the tensor information was asked for: the
\* information is cached for ever, and a tensor of another size is skipped.
RunsOnOwnInput == foreign => reloaded

\* Every accepted inference, also one that fails, has its context freed and its
\* input released: through the runtime's and then the inference's event pipe.
ContextReleased ==
    \A i \in Invokes :
        context[i].state = "held" ~> (context[i].state = "released" \/ misuse # {})
=============================================================================
