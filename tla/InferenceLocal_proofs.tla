----------------------- MODULE InferenceLocal_proofs -----------------------
(***************************************************************************)
(* Proofs about InferenceLocal, for any models, any number of containers,  *)
(* inferences and loads and any failures: containers are counted, only     *)
(* misuse makes a thread use freed memory, and inferences run on their     *)
(* own input.                                                              *)
(***************************************************************************)
EXTENDS InferenceLocal, FiniteSetTheorems, SequenceTheorems, TLAPS

----------------------------------------------------------------------------
(* The inductive invariant.                                                *)

\* Containers and contexts are used one after the other: the first n are.
UsedUpTo(f, n) == \A x \in DOMAIN f : f[x].state = "unused" <=> n < x

UsedOK ==
    /\ \E n \in Nat : UsedUpTo(tensor, n)
    /\ \E n \in Nat : UsedUpTo(context, n)

\* The contexts that refer to a container, and everything that does.
Holders(t) == {i \in Outstanding : context[i].tensor = t}
Refs(t)    == tensor[t].app + Cardinality(Holders(t))

CountOK ==
    \A t \in Tensors : /\ tensor[t].refcnt = Refs(t)
                       /\ tensor[t].state = "live" <=> Refs(t) > 0

\* A context on its way refers to the input it was given.
HeldOK ==
    \A i \in Invokes : context[i].state = "held" =>
        context[i].tensor \in Tensors /\ tensor[context[i].tensor].info # None

Held(i) == i \in Invokes /\ context[i].state = "held"

\* Each context is in one place: a command, an event of the runtime or of the inference.
\* They are there in the order of the calls.
CmdOK ==
    \A a \in 1..Len(cmd) :
        /\ Held(cmd[a])
        /\ \A b \in 1..Len(cmd) : a < b => cmd[a] < cmd[b]

RtOK ==
    \A a \in 1..Len(rtEvents) :
        /\ Held(rtEvents[a].context)
        /\ \A b \in 1..Len(rtEvents) : a < b => rtEvents[a].context < rtEvents[b].context
        /\ \A b \in 1..Len(cmd) : rtEvents[a].context < cmd[b]

InfOK ==
    \A a \in 1..Len(infEvents) :
        /\ Held(infEvents[a].context)
        /\ \A b \in 1..Len(infEvents) : a < b => infEvents[a].context < infEvents[b].context
        /\ \A b \in 1..Len(rtEvents) : infEvents[a].context < rtEvents[b].context
        /\ \A b \in 1..Len(cmd) : infEvents[a].context < cmd[b]

QueuesOK == CmdOK /\ RtOK /\ InfOK

\* Only a runtime that is there has a model.
ModuleOK == rt # "live" => module.interpreter = None

\* Before a model is loaded again, all the tensor information that was given out is
\* that of the interpreter.
InfoOK ==
    ~reloaded /\ rt # "destroyed" =>
        /\ module.inputInfo # None => module.inputInfo = module.interpreter
        /\ known # None => known = module.inputInfo
        /\ \A t \in Tensors : tensor[t].info # None => tensor[t].info = module.inputInfo

\* What an application that takes care has left behind.
CareOK ==
    /\ runtime => inf # "none"
    /\ misuse = {} =>
           /\ runtime /\ rt = "destroyed" => inf = "destroyed"
           /\ inf = "destroyed" => Outstanding = {} /\ \A t \in Tensors : tensor[t].app = 0

ObjectsOK == UsedOK /\ CountOK /\ HeldOK /\ QueuesOK

LocalInv ==
    /\ TypeOK
    /\ ~crashed => ObjectsOK /\ ModuleOK /\ InfoOK /\ CareOK
    /\ CrashNeedsMisuse
    /\ RunsOnOwnInput

----------------------------------------------------------------------------
(* Types.                                                                  *)

MaybeModels   == Models \cup {None}
TensorRecord  == [state : {"unused", "live", "freed", "leaked"}, refcnt : Nat, app : Nat,
                  info : MaybeModels]
ContextRecord == [state : {"unused", "held", "released"}, tensor : {0} \cup Tensors]
ModuleRecord  == [model : MaybeModels, interpreter : MaybeModels, allocated : BOOLEAN,
                  inputInfo : MaybeModels, outputInfo : MaybeModels]

\* TypeOK by parts.
ObjTyped  == /\ inf \in {"none", "live", "destroyed"} /\ rt \in {"none", "live", "destroyed"}
             /\ runtime \in BOOLEAN /\ handler \in BOOLEAN /\ crashed \in BOOLEAN
ModTyped  == /\ module \in ModuleRecord /\ known \in MaybeModels /\ loads \in 0..MaxLoads
BufTyped  == module.interpreter # None =>
                 buffers \in [DOMAIN Inputs[module.interpreter] -> 0..MaxInvokes]
HeapTyped == tensor \in [Tensors -> TensorRecord] /\ context \in [Invokes -> ContextRecord]
PipeTyped == /\ cmd \in Seq(Invokes) /\ outputs \in Seq(Invokes)
             /\ rtEvents \in Seq(Events) /\ infEvents \in Seq(Events)
HistTyped == reloaded \in BOOLEAN /\ foreign \in BOOLEAN /\ misuse \subseteq {"early", "unloaded"}

\* The parts, now and in the next state.
LEMMA TypeParts ==
  /\ TypeOK <=> ObjTyped /\ ModTyped /\ BufTyped /\ HeapTyped /\ PipeTyped /\ HistTyped
  /\ TypeOK' <=> ObjTyped' /\ ModTyped' /\ BufTyped' /\ HeapTyped' /\ PipeTyped' /\ HistTyped'
<1>1. TypeOK <=> ObjTyped /\ ModTyped /\ BufTyped /\ HeapTyped /\ PipeTyped /\ HistTyped
  BY Zenon DEF TypeOK, ObjTyped, ModTyped, BufTyped, HeapTyped, PipeTyped, HistTyped,
               ModuleRecord, TensorRecord, ContextRecord, MaybeModels
<1> QED BY <1>1, PTL

\* Nothing happens after a crash.
LEMMA NotCrashed == Next => ~crashed
<1> SUFFICES ASSUME Next PROVE ~crashed
  OBVIOUS
<1>1. CASE \/ \E argv \in {<<>>} \cup {<<mode>> : mode \in {"local", "remote", "edge"}} : CreateInference(argv)
           \/ CreateRuntime \/ AddRuntime \/ RemoveRuntime \/ DestroyInference \/ DestroyRuntime
  BY <1>1 DEF CreateInference, CreateRuntime, AddRuntime, RemoveRuntime, DestroyInference, DestroyRuntime
<1>2. CASE \/ CallOfDestroyed \/ GetInputTensorInfo \/ GetOutputTensorInfo
           \/ \E m \in Models, f \in (Faults \cap LoadFaults) \cup {"none"} : LoadModel(m, f)
  BY <1>2 DEF CallOfDestroyed, GetInputTensorInfo, GetOutputTensorInfo, LoadModel, RuntimeSet
<1>3. CASE \E t \in Tensors : \/ AllocateTensor(t) \/ GetOutput(t) \/ RefTensor(t) \/ UnrefTensor(t)
                              \/ DoFails(t) \/ \E i \in Invokes : Do(i, t)
  BY <1>3 DEF AllocateTensor, GetOutput, RefTensor, UnrefTensor, DoFails, Do, RuntimeSet
<1>4. CASE \/ SvcCrashes \/ SvcMismatch \/ RuntimeEvent \/ InferenceEvent
           \/ \E ok \in BOOLEAN : SvcInvoke(ok)
  BY <1>4 DEF SvcCrashes, SvcMismatch, RuntimeEvent, InferenceEvent, SvcInvoke
<1> QED BY <1>1, <1>2, <1>3, <1>4 DEF Next

\* Head and tail of a sequence that is not empty.
LEMMA HeadTail ==
  ASSUME NEW S, NEW s \in Seq(S), s # <<>>
  PROVE  /\ Len(s) \in Nat \ {0} /\ Head(s) = s[1] /\ s[1] \in S /\ Tail(s) \in Seq(S)
         /\ Len(Tail(s)) = Len(s) - 1 /\ 1 \in 1..Len(s)
         /\ \A a \in 1..Len(Tail(s)) : /\ Tail(s)[a] = s[a + 1]
                                       /\ a + 1 \in 1..Len(s) /\ 1 < a + 1
         /\ \A a, b \in 1..Len(Tail(s)) : a < b => a + 1 < b + 1
<1>1. Len(s) \in Nat /\ Len(s) # 0 /\ Head(s) = s[1] /\ Tail(s) \in Seq(S) /\ Len(Tail(s)) = Len(s) - 1
  OBVIOUS
<1>2. \A a \in 1..Len(Tail(s)) : Tail(s)[a] = s[a + 1]
  OBVIOUS
<1>3. s[1] \in S
  BY <1>1, ElementOfSeq
<1> QED BY <1>1, <1>2, <1>3

\* What gives back a reference does to the container.
LEMMA UnrefFacts ==
  ASSUME HeapTyped, NEW t \in Tensors, tensor[t].refcnt # 0
  PROVE  /\ Unref(t) \in [Tensors -> TensorRecord]
         /\ \A k \in Tensors : k # t => Unref(t)[k] = tensor[k]
         /\ Unref(t)[t].app = tensor[t].app /\ Unref(t)[t].refcnt = tensor[t].refcnt - 1
         /\ Unref(t)[t].state # "unused" \/ tensor[t].state = "unused"
         /\ tensor[t].refcnt = 1 => Unref(t)[t].state \in {"freed", "leaked"} /\ Unref(t)[t].info = None
         /\ tensor[t].refcnt # 1 => /\ Unref(t)[t].state = tensor[t].state
                                    /\ Unref(t)[t].info = tensor[t].info
<1>1. tensor \in [Tensors -> TensorRecord] /\ tensor[t] \in TensorRecord
  BY DEF HeapTyped
<1>2. CASE tensor[t].refcnt = 1
  <2> DEFINE r == [tensor[t] EXCEPT !.refcnt = 0, !.state = FreeTensor, !.info = None]
  <2>1. FreeTensor \in {"freed", "leaked"}
    BY DEF FreeTensor
  <2>2. r \in TensorRecord
    BY <1>1, <2>1 DEF TensorRecord, MaybeModels
  <2>3. r.app = tensor[t].app /\ r.refcnt = 0 /\ r.state = FreeTensor /\ r.info = None
    BY <1>1 DEF TensorRecord
  <2>4. Unref(t) = [tensor EXCEPT ![t] = r]
    BY <1>2 DEF Unref
  <2> HIDE DEF r
  <2> QED BY <1>1, <1>2, <2>1, <2>2, <2>3, <2>4
<1>3. CASE tensor[t].refcnt # 1
  <2> DEFINE r == [tensor[t] EXCEPT !.refcnt = @ - 1]
  <2>1. r \in TensorRecord
    BY <1>1 DEF TensorRecord
  <2>2. /\ r.app = tensor[t].app /\ r.refcnt = tensor[t].refcnt - 1 /\ r.state = tensor[t].state
        /\ r.info = tensor[t].info
    BY <1>1 DEF TensorRecord
  <2>3. Unref(t) = [tensor EXCEPT ![t] = r]
    BY <1>3 DEF Unref
  <2> HIDE DEF r
  <2> QED BY <1>1, <1>3, <2>1, <2>2, <2>3
<1> QED BY <1>2, <1>3

----------------------------------------------------------------------------
(* Containers and contexts.                                                *)

HeapOK == UsedOK /\ CountOK /\ HeldOK

\* The contexts of a container are finitely many.
LEMMA HoldersFinite ==
  ASSUME NEW t
  PROVE  IsFiniteSet(Holders(t)) /\ Cardinality(Holders(t)) \in Nat
<1>1. IsFiniteSet(Invokes)
  BY LocalAssumption, FS_Interval DEF Invokes
<1>2. Holders(t) \subseteq Invokes
  BY DEF Holders, Outstanding
<1>3. IsFiniteSet(Holders(t))
  BY <1>1, <1>2, FS_Subset
<1> QED BY <1>3, FS_CardinalityType

\* A container that the application refers to.
LEMMA AppLive ==
  ASSUME HeapTyped, CountOK, NEW t \in Tensors, tensor[t].app > 0
  PROVE  /\ tensor[t].state = "live" /\ tensor[t].refcnt \in Nat \ {0}
         /\ tensor[t].refcnt = 1 => tensor[t].app = 1 /\ Holders(t) = {}
<1> DEFINE c == Cardinality(Holders(t))
<1>1. c \in Nat /\ (c = 0 => Holders(t) = {})
  BY HoldersFinite, FS_EmptySet
<1>2. tensor[t].refcnt = tensor[t].app + c /\ (tensor[t].state = "live" <=> tensor[t].app + c > 0)
  BY DEF CountOK, Refs
<1>3. tensor[t].app \in Nat /\ tensor[t].refcnt \in Nat
  BY DEF HeapTyped, TensorRecord
<1> HIDE DEF c
<1> QED BY <1>1, <1>2, <1>3

\* A container that a context refers to.
LEMMA HeldLive ==
  ASSUME HeapTyped, CountOK, HeldOK, NEW i, Held(i), NEW t, t = context[i].tensor
  PROVE  /\ t \in Tensors /\ tensor[t].state = "live" /\ tensor[t].info # None
         /\ tensor[t].refcnt \in Nat \ {0} /\ i \in Holders(t)
         /\ tensor[t].refcnt = 1 => tensor[t].app = 0 /\ Holders(t) = {i}
<1> DEFINE c == Cardinality(Holders(t))
<1>1. t \in Tensors /\ tensor[t].info # None /\ i \in Holders(t)
  BY DEF HeldOK, Held, Holders, Outstanding
<1>2. c \in Nat /\ c # 0 /\ (c = 1 => Holders(t) = {i})
  <2>1. IsFiniteSet(Holders(t)) /\ c \in Nat
    BY HoldersFinite
  <2>2. c # 0
    BY <1>1, <2>1, FS_EmptySet
  <2>3. ASSUME c = 1 PROVE Holders(t) = {i}
    <3>1. PICK x : Holders(t) = {x}
      BY <2>1, <2>3, FS_Singleton
    <3> QED BY <1>1, <3>1
  <2> QED BY <2>1, <2>2, <2>3
<1>3. tensor[t].refcnt = tensor[t].app + c /\ (tensor[t].state = "live" <=> tensor[t].app + c > 0)
  BY <1>1 DEF CountOK, Refs
<1>4. tensor[t].app \in Nat /\ tensor[t].refcnt \in Nat
  BY <1>1 DEF HeapTyped, TensorRecord
<1> HIDE DEF c
<1> QED BY <1>1, <1>2, <1>3, <1>4

\* The number of the next container or context.
LEMMA NextNumber ==
  ASSUME NEW N \in Nat, NEW f, DOMAIN f = 1..N, NEW n \in Nat, UsedUpTo(f, n),
         NEW x \in 1..N, x = Cardinality({y \in 1..N : f[y].state # "unused"}) + 1
  PROVE  x = n + 1
<1> DEFINE S == {y \in 1..N : f[y].state # "unused"}
<1>1. \A y \in 1..N : f[y].state # "unused" <=> y <= n
  <2> SUFFICES ASSUME NEW y \in 1..N PROVE f[y].state # "unused" <=> y <= n
    OBVIOUS
  <2>1. f[y].state = "unused" <=> n < y
    BY DEF UsedUpTo
  <2> QED BY <2>1
<1>2. CASE n <= N
  <2>1. S = 1..n
    BY <1>1, <1>2
  <2>2. Cardinality(1..n) = n
    BY FS_Interval
  <2> QED BY <2>1, <2>2
<1>3. CASE N < n
  <2>1. S = 1..N
    BY <1>1, <1>3
  <2>2. Cardinality(1..N) = N
    <3>1. 1 \in Int /\ N \in Int
      OBVIOUS
    <3>2. Cardinality(1..N) = IF 1 > N THEN 0 ELSE N - 1 + 1
      BY <3>1, FS_Interval
    <3> QED BY <3>2
  <2>3. x = N + 1
    BY <2>1, <2>2
  <2> QED BY <2>3
<1> QED BY <1>2, <1>3

\* One more is used.
LEMMA UsedNext ==
  ASSUME NEW N \in Nat, NEW f, DOMAIN f = 1..N, NEW n \in Nat, UsedUpTo(f, n),
         NEW g, DOMAIN g = 1..N, g[n + 1].state # "unused",
         \A y \in 1..N : y # n + 1 => g[y] = f[y]
  PROVE  UsedUpTo(g, n + 1)
<1> SUFFICES ASSUME NEW y \in 1..N PROVE g[y].state = "unused" <=> n + 1 < y
  BY DEF UsedUpTo
<1>1. f[y].state = "unused" <=> n < y
  BY DEF UsedUpTo
<1>2. CASE y = n + 1
  BY <1>2
<1>3. CASE y # n + 1
  BY <1>1, <1>3
<1> QED BY <1>2, <1>3

\* Nothing is allocated, and what was used stays used.
LEMMA UsedSame ==
  ASSUME NEW N \in Nat, NEW f, DOMAIN f = 1..N, NEW n \in Nat, UsedUpTo(f, n),
         NEW g, DOMAIN g = 1..N,
         \A y \in 1..N : g[y].state = "unused" <=> f[y].state = "unused"
  PROVE  UsedUpTo(g, n)
  BY DEF UsedUpTo

\* The vectors are as long as the bounds.
LEMMA HeapDomains ==
  ASSUME HeapTyped
  PROVE  /\ DOMAIN tensor = 1..MaxTensors /\ DOMAIN context = 1..MaxInvokes
         /\ MaxTensors \in Nat /\ MaxInvokes \in Nat /\ Tensors = 1..MaxTensors /\ Invokes = 1..MaxInvokes
  BY LocalAssumption DEF HeapTyped, Tensors, Invokes

\* The contexts stay as they are.
LEMMA HoldersKept ==
  ASSUME context' = context
  PROVE  Outstanding' = Outstanding /\ \A t : Holders(t)' = Holders(t)
  BY DEF Outstanding, Holders

\* A step that neither allocates nor refers to anything.
LEMMA HeapKept ==
  ASSUME HeapOK, tensor' = tensor, context' = context
  PROVE  HeapOK'
<1>1. \A t : Holders(t)' = Holders(t)
  BY HoldersKept
<1>2. UsedOK'
  BY DEF HeapOK, UsedOK, UsedUpTo
<1>3. CountOK'
  <2> SUFFICES ASSUME NEW t \in Tensors
               PROVE  /\ tensor[t].refcnt = tensor[t].app + Cardinality(Holders(t)')
                      /\ tensor[t].state = "live" <=> tensor[t].app + Cardinality(Holders(t)') > 0
    BY DEF CountOK, Refs
  <2> QED BY <1>1 DEF HeapOK, CountOK, Refs
<1>4. HeldOK'
  BY DEF HeapOK, HeldOK
<1> QED BY <1>2, <1>3, <1>4 DEF HeapOK

\* A container that is new.
LEMMA HeapNew ==
  ASSUME HeapTyped, HeapOK, NEW t \in Tensors, NEW info \in MaybeModels, NewContainer(t, info),
         context' = context
  PROVE  /\ HeapOK' /\ tensor' \in [Tensors -> TensorRecord] /\ tensor'[t].info = info
         /\ \A k \in Tensors : k # t => tensor'[k] = tensor[k]
<1> DEFINE r == [state |-> "live", refcnt |-> 1, app |-> 1, info |-> info]
<1>1. /\ tensor' = [tensor EXCEPT ![t] = r]
      /\ t = Cardinality({u \in Tensors : tensor[u].state # "unused"}) + 1
  BY DEF NewContainer
<1>2. r \in TensorRecord /\ r.state = "live" /\ r.refcnt = 1 /\ r.app = 1 /\ r.info = info
  BY DEF TensorRecord
<1> HIDE DEF r
<1>3. /\ tensor' \in [Tensors -> TensorRecord] /\ tensor'[t] = r
      /\ \A k \in Tensors : k # t => tensor'[k] = tensor[k]
  BY <1>1, <1>2 DEF HeapTyped
<1>4. PICK n \in Nat : UsedUpTo(tensor, n)
  BY DEF HeapOK, UsedOK
<1>5. t = n + 1
  BY <1>1, <1>4, HeapDomains, NextNumber
<1>6. tensor[t].state = "unused"
  BY <1>4, <1>5, HeapDomains DEF UsedUpTo
<1>7. UsedOK'
  <2>1. DOMAIN tensor' = 1..MaxTensors
    BY <1>3, HeapDomains
  <2>2. UsedUpTo(tensor', n + 1)
    BY <1>2, <1>3, <1>4, <1>5, <2>1, HeapDomains, UsedNext
  <2>3. UsedUpTo(tensor, n + 1)'
    BY <2>2 DEF UsedUpTo
  <2>4. n + 1 \in Nat
    OBVIOUS
  <2>5. \E m \in Nat : UsedUpTo(context, m)'
    BY DEF HeapOK, UsedOK, UsedUpTo
  <2> QED BY <2>3, <2>4, <2>5 DEF UsedOK
<1>8. tensor[t].app = 0 /\ Cardinality(Holders(t)) = 0 /\ Holders(t) = {}
  <2> DEFINE c == Cardinality(Holders(t))
  <2>1. c \in Nat /\ (c = 0 => Holders(t) = {})
    BY HoldersFinite, FS_EmptySet
  <2>2. ~(tensor[t].app + c > 0)
    BY <1>6 DEF HeapOK, CountOK, Refs
  <2>3. tensor[t].app \in Nat
    BY DEF HeapTyped, TensorRecord
  <2>4. tensor[t].app = 0 /\ c = 0
    <3> HIDE DEF c
    <3> QED BY <2>1, <2>2, <2>3
  <2> QED BY <2>1, <2>4
<1>9. \A k : Holders(k)' = Holders(k)
  BY HoldersKept
<1>10. CountOK'
  <2> SUFFICES ASSUME NEW k \in Tensors
               PROVE  /\ tensor'[k].refcnt = tensor'[k].app + Cardinality(Holders(k)')
                      /\ tensor'[k].state = "live" <=> tensor'[k].app + Cardinality(Holders(k)') > 0
    BY DEF CountOK, Refs
  <2>1. CASE k = t
    BY <1>2, <1>3, <1>8, <1>9, <2>1
  <2>2. CASE k # t
    BY <1>3, <1>9, <2>2 DEF HeapOK, CountOK, Refs
  <2> QED BY <2>1, <2>2
<1>11. HeldOK'
  <2> SUFFICES ASSUME NEW i \in Invokes, context[i].state = "held"
               PROVE  context[i].tensor \in Tensors /\ tensor'[context[i].tensor].info # None
    BY DEF HeldOK
  <2>1. context[i].tensor \in Tensors /\ tensor[context[i].tensor].info # None
    BY DEF HeapOK, HeldOK
  <2>2. context[i].tensor # t
    BY <1>8 DEF Holders, Outstanding
  <2> QED BY <1>3, <2>1, <2>2
<1> QED BY <1>2, <1>3, <1>7, <1>10, <1>11 DEF HeapOK

\* A step of the application that changes the references it has to one container.
LEMMA HeapApp ==
  ASSUME HeapTyped, HeapOK, context' = context, NEW t \in Tensors,
         tensor' \in [Tensors -> TensorRecord],
         \A k \in Tensors : k # t => tensor'[k] = tensor[k],
         tensor'[t].state # "unused", tensor[t].state # "unused",
         tensor'[t].refcnt = tensor'[t].app + Cardinality(Holders(t)),
         tensor'[t].state = "live" <=> tensor'[t].refcnt > 0,
         tensor'[t].info = tensor[t].info \/ Holders(t) = {}
  PROVE  HeapOK'
<1>1. \A k : Holders(k)' = Holders(k)
  BY HoldersKept
<1>2. UsedOK'
  <2>1. PICK n \in Nat : UsedUpTo(tensor, n)
    BY DEF HeapOK, UsedOK
  <2>2. DOMAIN tensor' = 1..MaxTensors
    BY HeapDomains
  <2>3. \A y \in 1..MaxTensors : tensor'[y].state = "unused" <=> tensor[y].state = "unused"
    BY HeapDomains
  <2>4. UsedUpTo(tensor', n)
    BY <2>1, <2>2, <2>3, HeapDomains, UsedSame
  <2>5. UsedUpTo(tensor, n)'
    BY <2>4 DEF UsedUpTo
  <2>6. \E m \in Nat : UsedUpTo(context, m)'
    BY DEF HeapOK, UsedOK, UsedUpTo
  <2> QED BY <2>5, <2>6 DEF UsedOK
<1>3. CountOK'
  <2> SUFFICES ASSUME NEW k \in Tensors
               PROVE  /\ tensor'[k].refcnt = tensor'[k].app + Cardinality(Holders(k)')
                      /\ tensor'[k].state = "live" <=> tensor'[k].app + Cardinality(Holders(k)') > 0
    BY DEF CountOK, Refs
  <2>1. CASE k = t
    BY <1>1, <2>1
  <2>2. CASE k # t
    BY <1>1, <2>2 DEF HeapOK, CountOK, Refs
  <2> QED BY <2>1, <2>2
<1>4. HeldOK'
  <2> SUFFICES ASSUME NEW i \in Invokes, context[i].state = "held"
               PROVE  context[i].tensor \in Tensors /\ tensor'[context[i].tensor].info # None
    BY DEF HeldOK
  <2>1. context[i].tensor \in Tensors /\ tensor[context[i].tensor].info # None
    BY DEF HeapOK, HeldOK
  <2>2. CASE context[i].tensor # t
    BY <2>1, <2>2
  <2>3. CASE context[i].tensor = t
    <3>1. i \in Holders(t)
      BY <2>3 DEF Holders, Outstanding
    <3> QED BY <2>1, <2>3, <3>1
  <2> QED BY <2>2, <2>3
<1> QED BY <1>2, <1>3, <1>4 DEF HeapOK

\* beyond_inference_ref_tensor() and beyond_inference_unref_tensor().
LEMMA HeapRefs ==
  ASSUME HeapTyped, HeapOK, NEW t \in Tensors, RefTensor(t) \/ UnrefTensor(t)
  PROVE  /\ HeapOK' /\ tensor' \in [Tensors -> TensorRecord]
         /\ \A k \in Tensors : tensor'[k].info \in {tensor[k].info, None}
<1>1. context' = context /\ tensor[t].app > 0
  <2>1. tensor[t].app \in Nat
    BY DEF HeapTyped, TensorRecord
  <2> QED BY <2>1 DEF RefTensor, UnrefTensor
<1> DEFINE c == Cardinality(Holders(t))
<1>2. /\ tensor[t].state = "live" /\ tensor[t].refcnt \in Nat \ {0}
      /\ tensor[t].refcnt = 1 => tensor[t].app = 1 /\ Holders(t) = {}
  BY <1>1, AppLive DEF HeapOK
<1>3. /\ c \in Nat /\ tensor[t].refcnt = tensor[t].app + c /\ tensor[t].app \in Nat
      /\ tensor[t] \in TensorRecord
  BY HoldersFinite DEF HeapOK, CountOK, Refs, HeapTyped, TensorRecord
<1>4. CASE RefTensor(t)
  <2> DEFINE r == [tensor[t] EXCEPT !.refcnt = @ + 1, !.app = @ + 1]
  <2>1. r \in TensorRecord /\ r.refcnt = tensor[t].refcnt + 1 /\ r.app = tensor[t].app + 1
        /\ r.state = tensor[t].state /\ r.info = tensor[t].info
    <3>1. tensor[t].refcnt + 1 \in Nat /\ tensor[t].app + 1 \in Nat
      BY <1>2, <1>3
    <3>2. /\ r.refcnt = tensor[t].refcnt + 1 /\ r.app = tensor[t].app + 1
          /\ r.state = tensor[t].state /\ r.info = tensor[t].info
      BY <1>3 DEF TensorRecord
    <3>3. r \in TensorRecord
      BY <1>3, <3>1 DEF TensorRecord
    <3> QED BY <3>2, <3>3
  <2>2. tensor' = [tensor EXCEPT ![t] = r]
    BY <1>4 DEF RefTensor, HeapTyped
  <2> HIDE DEF r
  <2>3. tensor' \in [Tensors -> TensorRecord] /\ tensor'[t] = r
        /\ \A k \in Tensors : k # t => tensor'[k] = tensor[k]
    BY <2>1, <2>2 DEF HeapTyped
  <2>4. tensor'[t].refcnt = tensor'[t].app + c /\ tensor'[t].refcnt > 0
    <3> HIDE DEF c
    <3> QED BY <1>2, <1>3, <2>1, <2>3
  <2>5. HeapOK'
    BY <1>1, <1>2, <2>1, <2>3, <2>4, HeapApp
  <2> QED BY <2>1, <2>3, <2>5
<1>5. CASE UnrefTensor(t)
  <2> DEFINE u == Unref(t)
             r == [u[t] EXCEPT !.app = @ - 1]
  <2>1. /\ u \in [Tensors -> TensorRecord]
        /\ \A k \in Tensors : k # t => u[k] = tensor[k]
        /\ u[t].app = tensor[t].app /\ u[t].refcnt = tensor[t].refcnt - 1
        /\ tensor[t].refcnt = 1 => u[t].state \in {"freed", "leaked"} /\ u[t].info = None
        /\ tensor[t].refcnt # 1 => u[t].state = tensor[t].state /\ u[t].info = tensor[t].info
    BY <1>2, UnrefFacts
  <2>2. tensor' = [u EXCEPT ![t].app = @ - 1]
    BY <1>5 DEF UnrefTensor
  <2> HIDE DEF u
  <2>3. r \in TensorRecord /\ r.refcnt = u[t].refcnt /\ r.app = tensor[t].app - 1
        /\ r.state = u[t].state /\ r.info = u[t].info
    <3>1. u[t] \in TensorRecord /\ tensor[t].app - 1 \in Nat
      BY <1>1, <1>3, <2>1
    <3>2. /\ r.refcnt = u[t].refcnt /\ r.app = tensor[t].app - 1
          /\ r.state = u[t].state /\ r.info = u[t].info
      BY <2>1, <3>1 DEF TensorRecord
    <3>3. r \in TensorRecord
      BY <2>1, <3>1 DEF TensorRecord
    <3> QED BY <3>2, <3>3
  <2>4. tensor' = [u EXCEPT ![t] = r]
    BY <2>1, <2>2
  <2> HIDE DEF r
  <2>5. tensor' \in [Tensors -> TensorRecord] /\ tensor'[t] = r
        /\ \A k \in Tensors : k # t => tensor'[k] = tensor[k]
    BY <2>1, <2>3, <2>4
  <2>6. tensor'[t].refcnt = tensor'[t].app + c
    <3> HIDE DEF c
    <3> QED BY <1>2, <1>3, <2>1, <2>3, <2>5
  <2>7. tensor'[t].state # "unused" /\ (tensor'[t].state = "live" <=> tensor'[t].refcnt > 0)
    BY <1>2, <2>1, <2>3, <2>5
  <2>8. tensor'[t].info = tensor[t].info \/ Holders(t) = {}
    BY <1>2, <2>1, <2>3, <2>5
  <2>9. HeapOK'
    BY <1>1, <1>2, <2>5, <2>6, <2>7, <2>8, HeapApp
  <2>10. \A k \in Tensors : tensor'[k].info \in {tensor[k].info, None}
    BY <1>2, <2>1, <2>3, <2>5
  <2> QED BY <2>5, <2>9, <2>10
<1> QED BY <1>4, <1>5

\* beyond_inference_do(): the context that is new.
LEMMA NewContext ==
  ASSUME HeapTyped, HeapOK, NEW i \in Invokes, NEW t \in Tensors, Do(i, t)
  PROVE  /\ context[i].state = "unused" /\ \A j \in Invokes : context[j].state # "unused" => j < i
         /\ context' \in [Invokes -> ContextRecord]
         /\ context'[i] = [state |-> "held", tensor |-> t]
         /\ \A j \in Invokes : j # i => context'[j] = context[j]
         /\ \E n \in Nat : UsedUpTo(context, n)'
<1>1. PICK n \in Nat : UsedUpTo(context, n)
  BY DEF HeapOK, UsedOK
<1>2. i = n + 1
  BY <1>1, HeapDomains, NextNumber DEF Do
<1>3. /\ \A j \in Invokes : context[j].state = "unused" <=> n < j
      /\ i \in Nat /\ \A j \in Invokes : j \in Nat
  BY <1>1, HeapDomains DEF UsedUpTo
<1>4. context[i].state = "unused" /\ \A j \in Invokes : context[j].state # "unused" => j < i
  BY <1>2, <1>3
<1>5. /\ context' \in [Invokes -> ContextRecord]
      /\ context'[i] = [state |-> "held", tensor |-> t]
      /\ \A j \in Invokes : j # i => context'[j] = context[j]
  <2> DEFINE r == [state |-> "held", tensor |-> t]
  <2>1. r \in ContextRecord
    BY DEF ContextRecord
  <2>2. context' = [context EXCEPT ![i] = r]
    BY DEF Do
  <2> HIDE DEF r
  <2>3. context' \in [Invokes -> ContextRecord] /\ context'[i] = r
        /\ \A j \in Invokes : j # i => context'[j] = context[j]
    BY <2>1, <2>2 DEF HeapTyped
  <2> QED BY <2>3 DEF r
<1>6. UsedUpTo(context', n + 1)
  <2>1. DOMAIN context' = 1..MaxInvokes
    BY <1>5, HeapDomains
  <2>2. context'[n + 1].state # "unused"
    BY <1>2, <1>5
  <2> QED BY <1>1, <1>2, <1>5, <2>1, <2>2, HeapDomains, UsedNext
<1>7. UsedUpTo(context, n + 1)' /\ n + 1 \in Nat
  BY <1>6 DEF UsedUpTo
<1> QED BY <1>4, <1>5, <1>7

\* beyond_inference_do(): the container has one more reference, that of the context.
LEMMA HeapDo ==
  ASSUME HeapTyped, HeapOK, NEW i \in Invokes, NEW t \in Tensors, Do(i, t)
  PROVE  HeapOK' /\ HeapTyped' /\ \A k \in Tensors : tensor'[k].info = tensor[k].info
<1>1. /\ context[i].state = "unused" /\ context' \in [Invokes -> ContextRecord]
      /\ context'[i] = [state |-> "held", tensor |-> t]
      /\ \A j \in Invokes : j # i => context'[j] = context[j]
      /\ \E n \in Nat : UsedUpTo(context, n)'
  BY NewContext
<1>2. tensor[t].state = "live" /\ tensor[t].refcnt \in Nat \ {0} /\ tensor[t].info # None
  BY AppLive DEF Do, HeapOK
<1> DEFINE r == [tensor[t] EXCEPT !.refcnt = @ + 1]
<1>3. r \in TensorRecord /\ r.refcnt = tensor[t].refcnt + 1 /\ r.app = tensor[t].app
      /\ r.state = tensor[t].state /\ r.info = tensor[t].info
  <2>1. tensor[t] \in TensorRecord /\ tensor[t].refcnt + 1 \in Nat
    BY <1>2 DEF HeapTyped
  <2>2. /\ r.refcnt = tensor[t].refcnt + 1 /\ r.app = tensor[t].app
        /\ r.state = tensor[t].state /\ r.info = tensor[t].info
    BY <2>1 DEF TensorRecord
  <2>3. r \in TensorRecord
    BY <2>1 DEF TensorRecord
  <2> QED BY <2>2, <2>3
<1>4. tensor' = [tensor EXCEPT ![t] = r]
  BY DEF Do, ContextRef
<1> HIDE DEF r
<1>5. tensor' \in [Tensors -> TensorRecord] /\ tensor'[t] = r
      /\ \A k \in Tensors : k # t => tensor'[k] = tensor[k]
  BY <1>3, <1>4 DEF HeapTyped
<1>6. Outstanding' = Outstanding \cup {i} /\ i \notin Outstanding
  BY <1>1 DEF Outstanding
<1>7. i \notin Holders(t) /\ Holders(t)' = Holders(t) \cup {i}
  <2>1. i \notin Holders(t) /\ Holders(t) \subseteq Invokes
    BY <1>6 DEF Holders, Outstanding
  <2>2. Holders(t)' = {j \in Outstanding' : context'[j].tensor = t}
    BY DEF Holders
  <2>3. \A j : j \in Holders(t)' <=> j \in Holders(t) \cup {i}
    BY <1>1, <1>6, <2>2 DEF Holders, Outstanding
  <2> QED BY <2>1, <2>3
<1>8. \A k \in Tensors : k # t => Holders(k)' = Holders(k)
  <2> SUFFICES ASSUME NEW k \in Tensors, k # t PROVE Holders(k)' = Holders(k)
    OBVIOUS
  <2>1. Holders(k)' = {j \in Outstanding' : context'[j].tensor = k}
    BY DEF Holders
  <2>2. \A j : j \in Holders(k)' <=> j \in Holders(k)
    BY <1>1, <1>6, <2>1 DEF Holders, Outstanding
  <2> QED BY <2>2
<1>9. CountOK'
  <2> SUFFICES ASSUME NEW k \in Tensors
               PROVE  /\ tensor'[k].refcnt = tensor'[k].app + Cardinality(Holders(k)')
                      /\ tensor'[k].state = "live" <=> tensor'[k].app + Cardinality(Holders(k)') > 0
    BY DEF CountOK, Refs
  <2>1. CASE k = t
    <3> DEFINE c == Cardinality(Holders(t))
               d == Cardinality(Holders(t)')
    <3>1. c \in Nat /\ d = c + 1
      <4>1. Cardinality(Holders(t) \cup {i}) = c + 1
        BY <1>7, HoldersFinite, FS_AddElement
      <4> QED BY <1>7, <4>1, HoldersFinite
    <3>2. tensor[t].refcnt = tensor[t].app + c /\ tensor[t].app \in Nat
      BY DEF HeapOK, CountOK, Refs, HeapTyped, TensorRecord
    <3> HIDE DEF c, d
    <3>3. tensor'[t].refcnt = tensor'[t].app + d /\ tensor'[t].state = "live" /\ tensor'[t].app + d > 0
      BY <1>2, <1>3, <1>5, <3>1, <3>2
    <3> QED BY <2>1, <3>3 DEF d
  <2>2. CASE k # t
    BY <1>5, <1>8, <2>2 DEF HeapOK, CountOK, Refs
  <2> QED BY <2>1, <2>2
<1>10. UsedOK'
  <2>1. PICK n \in Nat : UsedUpTo(tensor, n)
    BY DEF HeapOK, UsedOK
  <2>2. DOMAIN tensor' = 1..MaxTensors
    BY <1>5, HeapDomains
  <2>3. \A y \in 1..MaxTensors : tensor'[y].state = "unused" <=> tensor[y].state = "unused"
    BY <1>3, <1>5, HeapDomains
  <2>4. UsedUpTo(tensor', n)
    BY <2>1, <2>2, <2>3, HeapDomains, UsedSame
  <2>5. UsedUpTo(tensor, n)'
    BY <2>4 DEF UsedUpTo
  <2> QED BY <1>1, <2>5 DEF UsedOK
<1>11. \A k \in Tensors : tensor'[k].info = tensor[k].info
  BY <1>3, <1>5
<1>12. HeldOK'
  <2> SUFFICES ASSUME NEW j \in Invokes, context'[j].state = "held"
               PROVE  context'[j].tensor \in Tensors /\ tensor'[context'[j].tensor].info # None
    BY DEF HeldOK
  <2>1. CASE j = i
    BY <1>1, <1>2, <1>11, <2>1
  <2>2. CASE j # i
    <3>1. context'[j] = context[j]
      BY <1>1, <2>2
    <3>2. context[j].tensor \in Tensors /\ tensor[context[j].tensor].info # None
      BY <3>1 DEF HeapOK, HeldOK
    <3> QED BY <1>11, <3>1, <3>2
  <2> QED BY <2>1, <2>2
<1> QED BY <1>1, <1>5, <1>9, <1>10, <1>11, <1>12 DEF HeapOK, HeapTyped

\* What the handler of the inference's handle does to a container and a context.
Released(i) ==
    /\ tensor' = Unref(context[i].tensor)
    /\ context' = [context EXCEPT ![i] = [state |-> "released", tensor |-> 0]]

\* The context gives its reference back: a container with another reference stays as it is.
LEMMA HeapEvent ==
  ASSUME HeapTyped, HeapOK, NEW i, Held(i), Released(i)
  PROVE  /\ HeapOK' /\ HeapTyped' /\ context'[i].state = "released"
         /\ \A j \in Invokes : j # i => context'[j] = context[j]
         /\ \A k \in Tensors : tensor'[k].info \in {tensor[k].info, None} /\ tensor'[k].app = tensor[k].app
<1> DEFINE t == context[i].tensor
           c == Cardinality(Holders(t))
           q == [state |-> "released", tensor |-> 0]
<1>1. /\ t \in Tensors /\ tensor[t].state = "live" /\ tensor[t].refcnt \in Nat \ {0} /\ i \in Holders(t)
      /\ tensor[t].refcnt = 1 => tensor[t].app = 0 /\ Holders(t) = {i}
  BY HeldLive DEF HeapOK
<1>2. i \in Invokes /\ i \in Outstanding
  BY DEF Held, Outstanding
<1>3. /\ context' \in [Invokes -> ContextRecord] /\ context'[i] = q
      /\ \A j \in Invokes : j # i => context'[j] = context[j]
  <2>1. q \in ContextRecord
    BY DEF ContextRecord
  <2>2. context' = [context EXCEPT ![i] = q]
    BY DEF Released
  <2> HIDE DEF q
  <2> QED BY <1>2, <2>1, <2>2 DEF HeapTyped
<1>4. context'[i].state = "released"
  BY <1>3
<1>5. Outstanding' = Outstanding \ {i}
  BY <1>2, <1>3 DEF Outstanding
<1>6. /\ tensor' \in [Tensors -> TensorRecord]
      /\ \A k \in Tensors : k # t => tensor'[k] = tensor[k]
      /\ tensor'[t].app = tensor[t].app /\ tensor'[t].refcnt = tensor[t].refcnt - 1
      /\ tensor[t].refcnt = 1 => tensor'[t].state \in {"freed", "leaked"} /\ tensor'[t].info = None
      /\ tensor[t].refcnt # 1 => tensor'[t].state = tensor[t].state /\ tensor'[t].info = tensor[t].info
  <2>1. tensor' = Unref(t)
    BY DEF Released
  <2> HIDE DEF t
  <2> QED BY <1>1, <2>1, UnrefFacts
<1> HIDE DEF q
<1>7. \A k \in Tensors \ {t} : Holders(k)' = Holders(k)
  <2> SUFFICES ASSUME NEW k \in Tensors \ {t} PROVE Holders(k)' = Holders(k)
    OBVIOUS
  <2>1. Holders(k)' = {j \in Outstanding' : context'[j].tensor = k}
    BY DEF Holders
  <2>2. \A j : j \in Holders(k)' <=> j \in Holders(k)
    BY <1>3, <1>5, <2>1 DEF Holders, Outstanding
  <2> QED BY <2>2
<1>8. {j \in Outstanding' : context'[j].tensor = t} = Holders(t) \ {i}
  BY <1>3, <1>5 DEF Holders, Outstanding
<1>9. PICK u \in Tensors : u = t
  BY <1>1
<1>10. Holders(u)' = Holders(t) \ {i}
  BY <1>8, <1>9 DEF Holders
<1>11. CountOK'
  <2> SUFFICES ASSUME NEW k \in Tensors
               PROVE  /\ tensor'[k].refcnt = tensor'[k].app + Cardinality(Holders(k)')
                      /\ tensor'[k].state = "live" <=> tensor'[k].app + Cardinality(Holders(k)') > 0
    BY DEF CountOK, Refs
  <2>1. CASE k = u
    <3> DEFINE d == Cardinality(Holders(u)')
    <3>1. c \in Nat \ {0} /\ d = c - 1
      <4>1. IsFiniteSet(Holders(t)) /\ c \in Nat
        BY HoldersFinite
      <4>2. Cardinality(Holders(t) \ {i}) = c - 1
        BY <1>1, <4>1, FS_RemoveElement
      <4>3. c # 0
        BY <1>1, <4>1, FS_EmptySet
      <4> QED BY <1>10, <4>1, <4>2, <4>3
    <3>2. tensor[t].refcnt = tensor[t].app + c /\ tensor[t].app \in Nat
      <4> HIDE DEF t
      <4> QED BY <1>1 DEF HeapOK, CountOK, Refs, HeapTyped, TensorRecord
    <3> HIDE DEF c, d, t
    <3>3. tensor'[t].refcnt = tensor'[t].app + d
      BY <1>6, <3>1, <3>2
    <3>4. tensor'[t].state = "live" <=> tensor'[t].app + d > 0
      <4>1. CASE tensor[t].refcnt = 1
        <5>1. tensor[t].app = 0 /\ d = 0
          BY <1>1, <3>1, <3>2, <4>1
        <5> QED BY <1>6, <4>1, <5>1
      <4>2. CASE tensor[t].refcnt # 1
        <5>1. tensor[t].app + d > 0
          BY <1>1, <3>1, <3>2, <4>2
        <5> QED BY <1>1, <1>6, <4>2, <5>1
      <4> QED BY <4>1, <4>2
    <3> QED BY <1>9, <2>1, <3>3, <3>4 DEF d
  <2>2. CASE k # u
    <3>1. k # t
      BY <1>9, <2>2
    <3>2. tensor'[k] = tensor[k] /\ Holders(k)' = Holders(k)
      BY <1>6, <1>7, <3>1
    <3>3. /\ tensor[k].refcnt = tensor[k].app + Cardinality(Holders(k))
          /\ tensor[k].state = "live" <=> tensor[k].app + Cardinality(Holders(k)) > 0
      BY DEF HeapOK, CountOK, Refs
    <3> QED BY <3>2, <3>3
  <2> QED BY <2>1, <2>2
<1>12. UsedOK'
  <2>1. PICK n \in Nat : UsedUpTo(tensor, n)
    BY DEF HeapOK, UsedOK
  <2>2. PICK m \in Nat : UsedUpTo(context, m)
    BY DEF HeapOK, UsedOK
  <2>3. DOMAIN tensor' = 1..MaxTensors /\ DOMAIN context' = 1..MaxInvokes
    BY <1>3, <1>6, HeapDomains
  <2>4. \A y \in 1..MaxTensors : tensor'[y].state = "unused" <=> tensor[y].state = "unused"
    BY <1>1, <1>6, HeapDomains
  <2>5. \A y \in 1..MaxInvokes : context'[y].state = "unused" <=> context[y].state = "unused"
    BY <1>2, <1>3, <1>4, HeapDomains DEF Outstanding
  <2>6. UsedUpTo(tensor', n)
    BY <2>1, <2>3, <2>4, HeapDomains, UsedSame
  <2>7. UsedUpTo(context', m)
    BY <2>2, <2>3, <2>5, HeapDomains, UsedSame
  <2>8. UsedUpTo(tensor, n)' /\ UsedUpTo(context, m)'
    BY <2>6, <2>7 DEF UsedUpTo
  <2> QED BY <2>8 DEF UsedOK
<1>13. \A k \in Tensors : tensor'[k].info \in {tensor[k].info, None} /\ tensor'[k].app = tensor[k].app
  <2> HIDE DEF t
  <2> QED BY <1>1, <1>6
<1>14. HeldOK'
  <2> SUFFICES ASSUME NEW j \in Invokes, context'[j].state = "held"
               PROVE  context'[j].tensor \in Tensors /\ tensor'[context'[j].tensor].info # None
    BY DEF HeldOK
  <2>1. j # i
    BY <1>4
  <2>2. context'[j] = context[j] /\ context[j].state = "held"
    BY <1>3, <2>1
  <2>3. context[j].tensor \in Tensors /\ tensor[context[j].tensor].info # None
    BY <2>2 DEF HeapOK, HeldOK
  <2>4. CASE context[j].tensor = t
    <3>1. j \in Holders(t)
      BY <2>2, <2>4 DEF Holders, Outstanding
    <3>2. tensor[t].refcnt # 1
      BY <1>1, <2>1, <3>1
    <3> QED BY <1>6, <2>2, <2>3, <2>4, <3>2
  <2>5. CASE context[j].tensor # t
    BY <1>6, <2>2, <2>3, <2>5
  <2> QED BY <2>4, <2>5
<1>15. HeapTyped'
  BY <1>3, <1>6 DEF HeapTyped
<1> QED BY <1>3, <1>4, <1>11, <1>12, <1>13, <1>14, <1>15 DEF HeapOK

\* The context of the inference that is reported next.
LEMMA NextEventHeld ==
  ASSUME PipeTyped, QueuesOK, infEvents # <<>>
  PROVE  Held(Head(infEvents).context)
<1>1. Head(infEvents) = infEvents[1] /\ 1 \in 1..Len(infEvents)
  BY HeadTail DEF PipeTyped
<1> QED BY <1>1 DEF QueuesOK, InfOK

\* The steps that leave containers and contexts alone.
LEMMA HeapLeftAlone ==
  ASSUME Next
  PROVE  \/ tensor' = tensor /\ context' = context
         \/ \E t \in Tensors : AllocateTensor(t) \/ GetOutput(t)
         \/ \E t \in Tensors : RefTensor(t) \/ UnrefTensor(t)
         \/ \E i \in Invokes, t \in Tensors : Do(i, t)
         \/ InferenceEvent
<1>1. CASE \/ \E argv \in {<<>>} \cup {<<mode>> : mode \in {"local", "remote", "edge"}} : CreateInference(argv)
           \/ CreateRuntime \/ AddRuntime \/ RemoveRuntime \/ DestroyInference \/ DestroyRuntime
  BY <1>1 DEF CreateInference, CreateRuntime, AddRuntime, RemoveRuntime, DestroyInference, DestroyRuntime
<1>2. CASE \/ CallOfDestroyed \/ GetInputTensorInfo \/ GetOutputTensorInfo
           \/ \E m \in Models, f \in (Faults \cap LoadFaults) \cup {"none"} : LoadModel(m, f)
  BY <1>2 DEF CallOfDestroyed, GetInputTensorInfo, GetOutputTensorInfo, LoadModel
<1>3. CASE \E t \in Tensors : DoFails(t)
  BY <1>3 DEF DoFails, RefGivenBack
<1>4. CASE SvcCrashes \/ SvcMismatch \/ RuntimeEvent \/ \E ok \in BOOLEAN : SvcInvoke(ok)
  BY <1>4 DEF SvcCrashes, SvcMismatch, RuntimeEvent, SvcInvoke
<1> QED BY <1>1, <1>2, <1>3, <1>4 DEF Next

\* Every step keeps the containers counted; the information of a container is that
\* which the application had when it was allocated.
LEMMA HeapStep ==
  ASSUME HeapTyped, ModTyped, PipeTyped, HeapOK, QueuesOK, Next
  PROVE  /\ HeapOK' /\ HeapTyped'
         /\ \A k \in Tensors : \/ tensor'[k].info \in {tensor[k].info, None}
                               \/ tensor'[k].info = known /\ UNCHANGED <<objVars, modVars, known, histVars>>
<1>1. CASE tensor' = tensor /\ context' = context
  BY <1>1, HeapKept DEF HeapTyped
<1>2. ASSUME NEW t \in Tensors, AllocateTensor(t) \/ GetOutput(t)
      PROVE  /\ HeapOK' /\ HeapTyped'
             /\ \A k \in Tensors : \/ tensor'[k].info \in {tensor[k].info, None}
                                   \/ tensor'[k].info = known /\ UNCHANGED <<objVars, modVars, known, histVars>>
  <2>1. context' = context /\ UNCHANGED <<objVars, modVars, known, histVars>>
    BY <1>2 DEF AllocateTensor, GetOutput
  <2>2. PICK info \in {known, None} : NewContainer(t, info)
    BY <1>2 DEF AllocateTensor, GetOutput
  <2>3. info \in MaybeModels
    BY <2>2 DEF ModTyped, MaybeModels
  <2>4. /\ HeapOK' /\ tensor' \in [Tensors -> TensorRecord] /\ tensor'[t].info = info
        /\ \A k \in Tensors : k # t => tensor'[k] = tensor[k]
    BY <2>1, <2>2, <2>3, HeapNew
  <2> QED BY <2>1, <2>2, <2>4 DEF HeapTyped
<1>3. ASSUME NEW t \in Tensors, RefTensor(t) \/ UnrefTensor(t)
      PROVE  HeapOK' /\ HeapTyped' /\ \A k \in Tensors : tensor'[k].info \in {tensor[k].info, None}
  <2>1. context' = context
    BY <1>3 DEF RefTensor, UnrefTensor
  <2> QED BY <1>3, <2>1, HeapRefs DEF HeapTyped
<1>4. ASSUME NEW i \in Invokes, NEW t \in Tensors, Do(i, t)
      PROVE  HeapOK' /\ HeapTyped' /\ \A k \in Tensors : tensor'[k].info \in {tensor[k].info, None}
  BY <1>4, HeapDo
<1>5. CASE InferenceEvent
  <2>1. infEvents # <<>> /\ Released(Head(infEvents).context)
    BY <1>5 DEF InferenceEvent, Released
  <2>2. PICK i : i = Head(infEvents).context
    OBVIOUS
  <2>3. Held(i) /\ Released(i)
    BY <2>1, <2>2, NextEventHeld
  <2> QED BY <2>3, HeapEvent
<1> QED BY <1>1, <1>2, <1>3, <1>4, <1>5, HeapLeftAlone

----------------------------------------------------------------------------
(* Commands and events.                                                    *)

\* The elements of a sequence with one more.
LEMMA AppendFacts ==
  ASSUME NEW S, NEW s \in Seq(S), NEW e \in S
  PROVE  /\ Append(s, e) \in Seq(S)
         /\ \A a \in 1..Len(Append(s, e)) :
                \/ a \in 1..Len(s) /\ Append(s, e)[a] = s[a]
                \/ a = Len(s) + 1 /\ Append(s, e)[a] = e
<1>1. Len(Append(s, e)) = Len(s) + 1 /\ Len(s) \in Nat /\ Append(s, e)[Len(s) + 1] = e
  OBVIOUS
<1>2. \A a \in 1..Len(s) : Append(s, e)[a] = s[a]
  OBVIOUS
<1>3. Append(s, e) \in Seq(S)
  OBVIOUS
<1> QED BY <1>1, <1>2, <1>3

\* Numbers of inferences.
LEMMA InvokesNat == Invokes \subseteq Nat
  BY LocalAssumption DEF Invokes

\* Contexts that are held stay held, and nothing is sent or received.
LEMMA QueuesKept ==
  ASSUME QueuesOK, UNCHANGED pipeVars, \A i : Held(i) => Held(i)'
  PROVE  QueuesOK'
<1>1. cmd' = cmd /\ rtEvents' = rtEvents /\ infEvents' = infEvents
  BY DEF pipeVars
<1>2. CmdOK'
  BY <1>1 DEF QueuesOK, CmdOK
<1>3. RtOK'
  BY <1>1 DEF QueuesOK, RtOK
<1>4. InfOK'
  BY <1>1 DEF QueuesOK, InfOK
<1> QED BY <1>2, <1>3, <1>4 DEF QueuesOK

\* beyond_inference_do(): the new context comes after all that are held.
LEMMA QueuesDo ==
  ASSUME HeapTyped, PipeTyped, HeapOK, QueuesOK, NEW i \in Invokes, NEW t \in Tensors, Do(i, t)
  PROVE  QueuesOK' /\ PipeTyped'
<1>1. /\ cmd' = Append(cmd, i) /\ rtEvents' = rtEvents /\ infEvents' = infEvents /\ outputs' = outputs
  BY DEF Do
<1>2. \A j : Held(j) => j \in Outstanding' /\ j < i
  BY NewContext DEF Held, Outstanding
<1>3. i \in Outstanding'
  <2>1. context'[i] = [state |-> "held", tensor |-> t]
    BY NewContext
  <2> QED BY <2>1 DEF Outstanding
<1>4. /\ cmd' \in Seq(Invokes)
      /\ \A a \in 1..Len(cmd') : \/ a \in 1..Len(cmd) /\ cmd'[a] = cmd[a]
                                 \/ a = Len(cmd) + 1 /\ cmd'[a] = i
  BY <1>1, AppendFacts DEF PipeTyped
<1>5. CmdOK'
  <2>1. \A a \in 1..Len(cmd') : cmd'[a] \in Outstanding'
    BY <1>2, <1>3, <1>4 DEF QueuesOK, CmdOK
  <2>2. ASSUME NEW a \in 1..Len(cmd'), NEW b \in 1..Len(cmd'), a < b PROVE cmd'[a] < cmd'[b]
    <3>1. a \in 1..Len(cmd) /\ cmd'[a] = cmd[a] /\ Held(cmd[a])
      <4>1. Len(cmd) \in Nat
        BY DEF PipeTyped
      <4>2. a # Len(cmd) + 1
        BY <1>4, <2>2, <4>1
      <4> QED BY <1>4, <4>2 DEF QueuesOK, CmdOK
    <3>2. CASE b \in 1..Len(cmd) /\ cmd'[b] = cmd[b]
      BY <2>2, <3>1, <3>2 DEF QueuesOK, CmdOK
    <3>3. CASE b = Len(cmd) + 1 /\ cmd'[b] = i
      BY <1>2, <3>1, <3>3
    <3> QED BY <1>4, <3>2, <3>3
  <2> QED BY <2>1, <2>2 DEF CmdOK, Held, Outstanding
<1>6. RtOK'
  <2> SUFFICES ASSUME NEW a \in 1..Len(rtEvents)
               PROVE  /\ rtEvents[a].context \in Outstanding'
                      /\ \A b \in 1..Len(rtEvents) : a < b => rtEvents[a].context < rtEvents[b].context
                      /\ \A b \in 1..Len(cmd') : rtEvents[a].context < cmd'[b]
    BY <1>1 DEF RtOK, Held, Outstanding
  <2>1. Held(rtEvents[a].context) /\ \A b \in 1..Len(cmd) : rtEvents[a].context < cmd[b]
    BY DEF QueuesOK, RtOK
  <2>2. \A b \in 1..Len(rtEvents) : a < b => rtEvents[a].context < rtEvents[b].context
    BY DEF QueuesOK, RtOK
  <2>3. \A b \in 1..Len(cmd') : rtEvents[a].context < cmd'[b]
    BY <1>2, <1>4, <2>1
  <2>4. rtEvents[a].context \in Outstanding'
    BY <1>1, <1>2, <2>1
  <2> QED BY <2>2, <2>3, <2>4
<1>7. InfOK'
  <2> SUFFICES ASSUME NEW a \in 1..Len(infEvents)
               PROVE  /\ infEvents[a].context \in Outstanding'
                      /\ \A b \in 1..Len(infEvents) : a < b => infEvents[a].context < infEvents[b].context
                      /\ \A b \in 1..Len(rtEvents) : infEvents[a].context < rtEvents[b].context
                      /\ \A b \in 1..Len(cmd') : infEvents[a].context < cmd'[b]
    BY <1>1 DEF InfOK, Held, Outstanding
  <2>1. Held(infEvents[a].context) /\ \A b \in 1..Len(cmd) : infEvents[a].context < cmd[b]
    BY DEF QueuesOK, InfOK
  <2>2. /\ \A b \in 1..Len(infEvents) : a < b => infEvents[a].context < infEvents[b].context
        /\ \A b \in 1..Len(rtEvents) : infEvents[a].context < rtEvents[b].context
    BY DEF QueuesOK, InfOK
  <2>3. \A b \in 1..Len(cmd') : infEvents[a].context < cmd'[b]
    BY <1>2, <1>4, <2>1
  <2>4. infEvents[a].context \in Outstanding'
    BY <1>1, <1>2, <2>1
  <2> QED BY <2>2, <2>3, <2>4
<1>8. PipeTyped'
  BY <1>1, <1>4 DEF PipeTyped
<1> QED BY <1>5, <1>6, <1>7, <1>8 DEF QueuesOK

\* svc reports the oldest command.
LEMMA QueuesReport ==
  ASSUME PipeTyped, QueuesOK, cmd # <<>>, NEW ok \in BOOLEAN, Report(Head(cmd), ok),
         context' = context, infEvents' = infEvents
  PROVE  QueuesOK' /\ PipeTyped'
<1>1. PICK e \in Events : e.context = Head(cmd) /\ rtEvents' = Append(rtEvents, e)
  <2> DEFINE e == [context |-> Head(cmd), ok |-> ok /\ Supports(module.interpreter)]
  <2>1. Head(cmd) \in Invokes
    BY HeadTail DEF PipeTyped
  <2>2. e \in Events /\ e.context = Head(cmd)
    BY <2>1 DEF Events, Supports
  <2>3. rtEvents' = Append(rtEvents, e)
    BY DEF Report
  <2> QED BY <2>2, <2>3
<1>2. /\ Head(cmd) = cmd[1] /\ cmd[1] \in Invokes /\ 1 \in 1..Len(cmd) /\ cmd' = Tail(cmd)
      /\ cmd' \in Seq(Invokes)
      /\ \A a \in 1..Len(cmd') : cmd'[a] = cmd[a + 1] /\ a + 1 \in 1..Len(cmd) /\ 1 < a + 1
      /\ \A a, b \in 1..Len(cmd') : a < b => a + 1 < b + 1
  <2>1. cmd' = Tail(cmd) /\ cmd \in Seq(Invokes)
    BY DEF Report, PipeTyped
  <2> QED BY <2>1, HeadTail
<1>3. /\ rtEvents' \in Seq(Events)
      /\ \A a \in 1..Len(rtEvents') : \/ a \in 1..Len(rtEvents) /\ rtEvents'[a] = rtEvents[a]
                                      \/ a = Len(rtEvents) + 1 /\ rtEvents'[a] = e
  BY <1>1, AppendFacts DEF PipeTyped
<1>4. outputs' \in Seq(Invokes)
  BY <1>2, AppendFacts DEF Report, TakeOutput, PipeTyped
<1>5. \A i : Held(i) => i \in Outstanding'
  BY DEF Held, Outstanding
<1>6. CmdOK'
  <2>1. ASSUME NEW a \in 1..Len(cmd') PROVE cmd'[a] \in Outstanding'
    BY <1>2, <1>5 DEF QueuesOK, CmdOK
  <2>2. ASSUME NEW a \in 1..Len(cmd'), NEW b \in 1..Len(cmd'), a < b PROVE cmd'[a] < cmd'[b]
    BY <1>2, <2>2 DEF QueuesOK, CmdOK
  <2> QED BY <2>1, <2>2 DEF CmdOK, Held, Outstanding
<1>7. RtOK'
  <2>1. ASSUME NEW a \in 1..Len(rtEvents')
        PROVE  /\ rtEvents'[a].context \in Outstanding'
               /\ \A b \in 1..Len(cmd') : rtEvents'[a].context < cmd'[b]
    <3>1. CASE a \in 1..Len(rtEvents) /\ rtEvents'[a] = rtEvents[a]
      BY <1>2, <1>5, <3>1 DEF QueuesOK, RtOK
    <3>2. CASE rtEvents'[a] = e
      BY <1>1, <1>2, <1>5, <3>2 DEF QueuesOK, CmdOK
    <3> QED BY <1>3, <3>1, <3>2
  <2>2. ASSUME NEW a \in 1..Len(rtEvents'), NEW b \in 1..Len(rtEvents'), a < b
        PROVE  rtEvents'[a].context < rtEvents'[b].context
    <3>1. a \in 1..Len(rtEvents) /\ rtEvents'[a] = rtEvents[a]
      <4>1. Len(rtEvents) \in Nat
        BY DEF PipeTyped
      <4>2. a # Len(rtEvents) + 1
        BY <1>3, <2>2, <4>1
      <4> QED BY <1>3, <4>2
    <3>2. CASE b \in 1..Len(rtEvents) /\ rtEvents'[b] = rtEvents[b]
      BY <2>2, <3>1, <3>2 DEF QueuesOK, RtOK
    <3>3. CASE rtEvents'[b] = e
      BY <1>1, <1>2, <3>1, <3>3 DEF QueuesOK, RtOK
    <3> QED BY <1>3, <3>2, <3>3
  <2> QED BY <2>1, <2>2 DEF RtOK, Held, Outstanding
<1>8. InfOK'
  <2> SUFFICES ASSUME NEW a \in 1..Len(infEvents)
               PROVE  /\ infEvents[a].context \in Outstanding'
                      /\ \A b \in 1..Len(infEvents) : a < b => infEvents[a].context < infEvents[b].context
                      /\ \A b \in 1..Len(rtEvents') : infEvents[a].context < rtEvents'[b].context
                      /\ \A b \in 1..Len(cmd') : infEvents[a].context < cmd'[b]
    BY DEF InfOK, Held, Outstanding
  <2>1. /\ Held(infEvents[a].context)
        /\ \A b \in 1..Len(infEvents) : a < b => infEvents[a].context < infEvents[b].context
        /\ \A b \in 1..Len(rtEvents) : infEvents[a].context < rtEvents[b].context
        /\ \A b \in 1..Len(cmd) : infEvents[a].context < cmd[b]
    BY DEF QueuesOK, InfOK
  <2>2. \A b \in 1..Len(rtEvents') : infEvents[a].context < rtEvents'[b].context
    BY <1>1, <1>2, <1>3, <2>1
  <2>3. \A b \in 1..Len(cmd') : infEvents[a].context < cmd'[b]
    BY <1>2, <2>1
  <2>4. infEvents[a].context \in Outstanding'
    BY <1>5, <2>1
  <2> QED BY <2>1, <2>2, <2>3, <2>4
<1>9. PipeTyped'
  BY <1>2, <1>3, <1>4 DEF PipeTyped
<1> QED BY <1>6, <1>7, <1>8, <1>9 DEF QueuesOK

\* The runtime's handle: the oldest event is passed on to the inference, or lost.
LEMMA QueuesForward ==
  ASSUME PipeTyped, QueuesOK, RuntimeEvent
  PROVE  QueuesOK' /\ PipeTyped'
<1>1. /\ rtEvents # <<>> /\ rtEvents' = Tail(rtEvents) /\ cmd' = cmd /\ outputs' = outputs
      /\ context' = context
      /\ infEvents' = infEvents \/ infEvents' = Append(infEvents, Head(rtEvents))
  BY DEF RuntimeEvent, PublishEventData, pipeVars
<1>2. PICK e \in Events : e = Head(rtEvents)
  BY <1>1, HeadTail DEF PipeTyped
<1>3. /\ e = rtEvents[1] /\ 1 \in 1..Len(rtEvents) /\ rtEvents' \in Seq(Events)
      /\ \A a \in 1..Len(rtEvents') : /\ rtEvents'[a] = rtEvents[a + 1]
                                      /\ a + 1 \in 1..Len(rtEvents) /\ 1 < a + 1
      /\ \A a, b \in 1..Len(rtEvents') : a < b => a + 1 < b + 1
  <2>1. rtEvents \in Seq(Events)
    BY DEF PipeTyped
  <2> QED BY <1>1, <1>2, <2>1, HeadTail
<1>4. /\ infEvents' \in Seq(Events)
      /\ \A a \in 1..Len(infEvents') : \/ a \in 1..Len(infEvents) /\ infEvents'[a] = infEvents[a]
                                       \/ a = Len(infEvents) + 1 /\ infEvents'[a] = e
  <2>1. infEvents \in Seq(Events)
    BY DEF PipeTyped
  <2>2. CASE infEvents' = infEvents
    BY <2>1, <2>2
  <2>3. CASE infEvents' = Append(infEvents, e)
    BY <2>1, <2>3, AppendFacts
  <2> QED BY <1>1, <1>2, <2>2, <2>3
<1>5. \A i : Held(i) => i \in Outstanding'
  BY <1>1 DEF Held, Outstanding
<1>6. CmdOK'
  <2> SUFFICES ASSUME NEW a \in 1..Len(cmd)
               PROVE  /\ cmd[a] \in Outstanding'
                      /\ \A b \in 1..Len(cmd) : a < b => cmd[a] < cmd[b]
    BY <1>1 DEF CmdOK, Held, Outstanding
  <2> QED BY <1>5 DEF QueuesOK, CmdOK
<1>7. RtOK'
  <2>1. ASSUME NEW a \in 1..Len(rtEvents')
        PROVE  /\ rtEvents'[a].context \in Outstanding'
               /\ \A b \in 1..Len(cmd) : rtEvents'[a].context < cmd[b]
    BY <1>3, <1>5 DEF QueuesOK, RtOK
  <2>2. ASSUME NEW a \in 1..Len(rtEvents'), NEW b \in 1..Len(rtEvents'), a < b
        PROVE  rtEvents'[a].context < rtEvents'[b].context
    BY <1>3, <2>2 DEF QueuesOK, RtOK
  <2> QED BY <1>1, <2>1, <2>2 DEF RtOK, Held, Outstanding
<1>8. InfOK'
  <2>1. ASSUME NEW a \in 1..Len(infEvents')
        PROVE  /\ infEvents'[a].context \in Outstanding'
               /\ \A b \in 1..Len(rtEvents') : infEvents'[a].context < rtEvents'[b].context
               /\ \A b \in 1..Len(cmd) : infEvents'[a].context < cmd[b]
    <3>1. CASE a \in 1..Len(infEvents) /\ infEvents'[a] = infEvents[a]
      <4>1. /\ Held(infEvents[a].context)
            /\ \A b \in 1..Len(rtEvents) : infEvents[a].context < rtEvents[b].context
            /\ \A b \in 1..Len(cmd) : infEvents[a].context < cmd[b]
        BY <3>1 DEF QueuesOK, InfOK
      <4> QED BY <1>3, <1>5, <3>1, <4>1
    <3>2. CASE infEvents'[a] = e
      <4>1. /\ Held(e.context)
            /\ \A b \in 1..Len(rtEvents) : 1 < b => e.context < rtEvents[b].context
            /\ \A b \in 1..Len(cmd) : e.context < cmd[b]
        BY <1>3 DEF QueuesOK, RtOK
      <4> QED BY <1>3, <1>5, <3>2, <4>1
    <3> QED BY <1>4, <3>1, <3>2
  <2>2. ASSUME NEW a \in 1..Len(infEvents'), NEW b \in 1..Len(infEvents'), a < b
        PROVE  infEvents'[a].context < infEvents'[b].context
    <3>1. a \in 1..Len(infEvents) /\ infEvents'[a] = infEvents[a]
      <4>1. Len(infEvents) \in Nat
        BY DEF PipeTyped
      <4>2. a # Len(infEvents) + 1
        BY <1>4, <2>2, <4>1
      <4> QED BY <1>4, <4>2
    <3>2. CASE b \in 1..Len(infEvents) /\ infEvents'[b] = infEvents[b]
      BY <2>2, <3>1, <3>2 DEF QueuesOK, InfOK
    <3>3. CASE infEvents'[b] = e
      BY <1>3, <3>1, <3>3 DEF QueuesOK, InfOK
    <3> QED BY <1>4, <3>2, <3>3
  <2> QED BY <1>1, <2>1, <2>2 DEF InfOK, Held, Outstanding
<1>9. PipeTyped'
  BY <1>1, <1>3, <1>4 DEF PipeTyped
<1> QED BY <1>6, <1>7, <1>8, <1>9 DEF QueuesOK

\* The inference's handle: only the context of the oldest event is freed, and all the
\* others are of later calls.
LEMMA QueuesRelease ==
  ASSUME HeapTyped, HeapOK, PipeTyped, QueuesOK, InferenceEvent
  PROVE  QueuesOK' /\ PipeTyped'
<1>1. /\ infEvents # <<>> /\ infEvents' = Tail(infEvents) /\ cmd' = cmd /\ outputs' = outputs
      /\ rtEvents' = rtEvents
  BY DEF InferenceEvent, FetchEventData
<1>2. PICK i : i = Head(infEvents).context
  OBVIOUS
<1>3. Held(i) /\ Released(i)
  BY <1>1, <1>2, NextEventHeld DEF InferenceEvent, Released
<1>4. i \in Nat /\ \A j : Held(j) => j \in Nat /\ (i < j => j \in Outstanding')
  <2>1. i \in Nat /\ \A j : Held(j) => j \in Nat
    BY <1>3, InvokesNat DEF Held
  <2>2. \A j \in Invokes : j # i => context'[j] = context[j]
    BY <1>3, HeapEvent
  <2>3. \A j : Held(j) /\ j # i => j \in Outstanding'
    BY <2>2 DEF Held, Outstanding
  <2>4. \A j \in Nat : i < j => j # i
    BY <2>1
  <2> QED BY <2>1, <2>3, <2>4
<1>5. /\ i = infEvents[1].context /\ 1 \in 1..Len(infEvents) /\ infEvents' \in Seq(Events)
      /\ \A a \in 1..Len(infEvents') : /\ infEvents'[a] = infEvents[a + 1]
                                       /\ a + 1 \in 1..Len(infEvents) /\ 1 < a + 1
      /\ \A a, b \in 1..Len(infEvents') : a < b => a + 1 < b + 1
  <2>1. infEvents \in Seq(Events)
    BY DEF PipeTyped
  <2> QED BY <1>1, <1>2, <2>1, HeadTail
<1>6. /\ \A a \in 1..Len(infEvents) : 1 < a => i < infEvents[a].context
      /\ \A a \in 1..Len(rtEvents) : i < rtEvents[a].context
      /\ \A a \in 1..Len(cmd) : i < cmd[a]
  BY <1>5 DEF QueuesOK, InfOK
<1>7. CmdOK'
  <2> SUFFICES ASSUME NEW a \in 1..Len(cmd)
               PROVE  /\ cmd[a] \in Outstanding'
                      /\ \A b \in 1..Len(cmd) : a < b => cmd[a] < cmd[b]
    BY <1>1 DEF CmdOK, Held, Outstanding
  <2> QED BY <1>4, <1>6 DEF QueuesOK, CmdOK
<1>8. RtOK'
  <2> SUFFICES ASSUME NEW a \in 1..Len(rtEvents)
               PROVE  /\ rtEvents[a].context \in Outstanding'
                      /\ \A b \in 1..Len(rtEvents) : a < b => rtEvents[a].context < rtEvents[b].context
                      /\ \A b \in 1..Len(cmd) : rtEvents[a].context < cmd[b]
    BY <1>1 DEF RtOK, Held, Outstanding
  <2> QED BY <1>4, <1>6 DEF QueuesOK, RtOK
<1>9. InfOK'
  <2> SUFFICES ASSUME NEW a \in 1..Len(infEvents')
               PROVE  /\ infEvents'[a].context \in Outstanding'
                      /\ \A b \in 1..Len(infEvents') : a < b => infEvents'[a].context < infEvents'[b].context
                      /\ \A b \in 1..Len(rtEvents) : infEvents'[a].context < rtEvents[b].context
                      /\ \A b \in 1..Len(cmd) : infEvents'[a].context < cmd[b]
    BY <1>1 DEF InfOK, Held, Outstanding
  <2>1. /\ infEvents'[a] = infEvents[a + 1] /\ a + 1 \in 1..Len(infEvents) /\ 1 < a + 1
        /\ \A b \in 1..Len(infEvents') : /\ infEvents'[b] = infEvents[b + 1]
                                         /\ b + 1 \in 1..Len(infEvents)
                                         /\ a < b => a + 1 < b + 1
    BY <1>5
  <2>2. /\ Held(infEvents[a + 1].context)
        /\ \A b \in 1..Len(infEvents) : a + 1 < b => infEvents[a + 1].context < infEvents[b].context
        /\ \A b \in 1..Len(rtEvents) : infEvents[a + 1].context < rtEvents[b].context
        /\ \A b \in 1..Len(cmd) : infEvents[a + 1].context < cmd[b]
    BY <2>1 DEF QueuesOK, InfOK
  <2>3. infEvents[a + 1].context \in Outstanding'
    BY <1>4, <1>6, <2>1, <2>2
  <2> QED BY <2>1, <2>2, <2>3
<1>10. PipeTyped'
  BY <1>1, <1>5 DEF PipeTyped
<1> QED BY <1>7, <1>8, <1>9, <1>10 DEF QueuesOK

\* Destroy() of the inference or of the runtime loses what is on its way.
LEMMA QueuesLost ==
  ASSUME PipeTyped, QueuesOK, context' = context,
         \/ infEvents' = <<>> /\ UNCHANGED <<cmd, outputs, rtEvents>>
         \/ cmd' = <<>> /\ outputs' = <<>> /\ rtEvents' = <<>> /\ infEvents' = infEvents
  PROVE  QueuesOK' /\ PipeTyped'
<1>1. \A i : Held(i) => Held(i)'
  BY DEF Held
<1>2. CASE infEvents' = <<>> /\ UNCHANGED <<cmd, outputs, rtEvents>>
  <2>1. CmdOK' /\ RtOK'
    BY <1>1, <1>2 DEF QueuesOK, CmdOK, RtOK
  <2>2. InfOK'
    BY <1>2 DEF InfOK
  <2> QED BY <1>2, <2>1, <2>2 DEF QueuesOK, PipeTyped
<1>3. CASE cmd' = <<>> /\ outputs' = <<>> /\ rtEvents' = <<>> /\ infEvents' = infEvents
  <2>1. CmdOK' /\ RtOK'
    BY <1>3 DEF CmdOK, RtOK
  <2>2. InfOK'
    <3> SUFFICES ASSUME NEW a \in 1..Len(infEvents)
                 PROVE  /\ Held(infEvents[a].context)'
                        /\ \A b \in 1..Len(infEvents) : a < b => infEvents[a].context < infEvents[b].context
      BY <1>3 DEF InfOK, Held
    <3> QED BY <1>1, <1>3 DEF QueuesOK, InfOK, Held
  <2> QED BY <1>3, <2>1, <2>2 DEF QueuesOK, PipeTyped
<1> QED BY <1>2, <1>3

\* Every step keeps the contexts in order.
LEMMA QueuesStep ==
  ASSUME HeapTyped, PipeTyped, HeapOK, QueuesOK, Next
  PROVE  QueuesOK' /\ PipeTyped'
<1>1. ASSUME UNCHANGED pipeVars, context' = context PROVE QueuesOK' /\ PipeTyped'
  <2>1. \A i : Held(i) => Held(i)'
    BY <1>1 DEF Held
  <2> QED BY <1>1, <2>1, QueuesKept DEF PipeTyped, pipeVars
<1>2. CASE \/ \E argv \in {<<>>} \cup {<<mode>> : mode \in {"local", "remote", "edge"}} : CreateInference(argv)
           \/ CreateRuntime \/ AddRuntime \/ RemoveRuntime
  BY <1>1, <1>2 DEF CreateInference, CreateRuntime, AddRuntime, RemoveRuntime
<1>3. CASE \/ CallOfDestroyed \/ GetInputTensorInfo \/ GetOutputTensorInfo \/ SvcCrashes
           \/ \E m \in Models, f \in (Faults \cap LoadFaults) \cup {"none"} : LoadModel(m, f)
  BY <1>1, <1>3 DEF CallOfDestroyed, GetInputTensorInfo, GetOutputTensorInfo, LoadModel, SvcCrashes
<1>4. CASE \E t \in Tensors : AllocateTensor(t) \/ RefTensor(t) \/ UnrefTensor(t) \/ DoFails(t)
  BY <1>1, <1>4 DEF AllocateTensor, RefTensor, UnrefTensor, DoFails
<1>5. ASSUME NEW t \in Tensors, GetOutput(t) PROVE QueuesOK' /\ PipeTyped'
  <2>1. /\ context' = context /\ outputs # <<>> /\ outputs' = Tail(outputs)
        /\ cmd' = cmd /\ rtEvents' = rtEvents /\ infEvents' = infEvents
    BY <1>5 DEF GetOutput
  <2>2. PipeTyped'
    BY <2>1, HeadTail DEF PipeTyped
  <2>3. \A i : Held(i) => Held(i)'
    BY <2>1 DEF Held
  <2>4. CmdOK' /\ RtOK' /\ InfOK'
    BY <2>1, <2>3 DEF QueuesOK, CmdOK, RtOK, InfOK
  <2> QED BY <2>2, <2>4 DEF QueuesOK
<1>6. CASE \E i \in Invokes, t \in Tensors : Do(i, t)
  BY <1>6, QueuesDo
<1>7. ASSUME NEW ok \in BOOLEAN, SvcInvoke(ok) PROVE QueuesOK' /\ PipeTyped'
  BY <1>7, QueuesReport DEF SvcInvoke
<1>8. CASE SvcMismatch
  BY <1>8, QueuesReport DEF SvcMismatch
<1>9. CASE RuntimeEvent
  BY <1>9, QueuesForward
<1>10. CASE InferenceEvent
  BY <1>10, QueuesRelease
<1>11. CASE DestroyInference \/ DestroyRuntime
  <2>1. context' = context
    BY <1>11 DEF DestroyInference, DestroyRuntime
  <2>2. \/ infEvents' = <<>> /\ UNCHANGED <<cmd, outputs, rtEvents>>
        \/ cmd' = <<>> /\ outputs' = <<>> /\ rtEvents' = <<>> /\ infEvents' = infEvents
    BY <1>11 DEF DestroyInference, ClosePipe, DestroyRuntime, DestroyModule
  <2> QED BY <2>1, <2>2, QueuesLost
<1> QED BY <1>2, <1>3, <1>4, <1>5, <1>6, <1>7, <1>8, <1>9, <1>10, <1>11 DEF Next

----------------------------------------------------------------------------
(* The module.                                                             *)

\* The module that LoadModel() leaves behind.
LEMMA LoadedFacts ==
  ASSUME module \in ModuleRecord, NEW m \in Models, NEW f
  PROVE  /\ Loaded(m, f) \in ModuleRecord
         /\ Loaded(m, f).inputInfo = module.inputInfo
         /\ Loaded(m, f).interpreter \in {module.interpreter, None, m}
         /\ f \in {"access", "file"} => Loaded(m, f).interpreter = module.interpreter
         /\ f \notin {"access", "file", "builder"} => Loaded(m, f).interpreter = m
         /\ f = "builder" => Loaded(m, f).interpreter = None
<1>1. CASE f = "access"
  BY <1>1 DEF Loaded
<1>2. CASE f = "file"
  BY <1>2 DEF Loaded, ModuleRecord, MaybeModels
<1>3. CASE f = "builder"
  BY <1>3 DEF Loaded, ModuleRecord, MaybeModels
<1>4. CASE f = "tensors"
  BY <1>4 DEF Loaded, ModuleRecord, MaybeModels
<1>5. CASE f \notin {"access", "file", "builder", "tensors"}
  BY <1>5 DEF Loaded, ModuleRecord, MaybeModels
<1> QED BY <1>1, <1>2, <1>3, <1>4, <1>5

\* Input and output tensor information: the interpreter stays.
LEMMA InfoFacts ==
  ASSUME ModTyped, GetInputTensorInfo \/ GetOutputTensorInfo
  PROVE  /\ module' \in ModuleRecord /\ module'.interpreter = module.interpreter
         /\ \/ module'.inputInfo = module.inputInfo /\ known' \in {known, module.inputInfo}
            \/ /\ module.inputInfo = None /\ module'.inputInfo = module.interpreter
               /\ known' = module.interpreter
<1>1. module \in ModuleRecord
  BY DEF ModTyped
<1>2. CASE module' = module /\ known' \in {known, module.inputInfo}
  BY <1>1, <1>2
<1>3. CASE /\ module' = [module EXCEPT !.inputInfo = module.interpreter]
           /\ module.inputInfo = None /\ known' = module.interpreter
  BY <1>1, <1>3 DEF ModuleRecord
<1>4. CASE module' = [module EXCEPT !.outputInfo = module.interpreter] /\ known' = known
  BY <1>1, <1>4 DEF ModuleRecord
<1> QED BY <1>2, <1>3, <1>4 DEF GetInputTensorInfo, GetOutputTensorInfo

\* What the steps on containers and the application's calls leave alone.
LEMMA ObjectsKept ==
  ASSUME Next
  PROVE  \/ UNCHANGED <<objVars, modVars, known, histVars>>
         \/ \E argv \in {<<>>} \cup {<<mode>> : mode \in {"local", "remote", "edge"}} : CreateInference(argv)
         \/ CreateRuntime \/ AddRuntime \/ RemoveRuntime \/ DestroyInference \/ DestroyRuntime
         \/ \E m \in Models, f \in (Faults \cap LoadFaults) \cup {"none"} : LoadModel(m, f)
         \/ GetInputTensorInfo \/ GetOutputTensorInfo
         \/ SvcCrashes \/ \E ok \in BOOLEAN : SvcInvoke(ok)
<1>1. CASE CallOfDestroyed \/ SvcMismatch \/ RuntimeEvent \/ InferenceEvent
  BY <1>1 DEF CallOfDestroyed, SvcMismatch, RuntimeEvent, InferenceEvent
<1>2. CASE \E t \in Tensors : \/ AllocateTensor(t) \/ GetOutput(t) \/ RefTensor(t) \/ UnrefTensor(t)
                              \/ DoFails(t) \/ \E i \in Invokes : Do(i, t)
  BY <1>2 DEF AllocateTensor, GetOutput, RefTensor, UnrefTensor, DoFails, Do
<1> QED BY <1>1, <1>2 DEF Next

\* The types of the module, of its tensor information and of the input buffers.
LEMMA ModStep ==
  ASSUME ModTyped, BufTyped, PipeTyped, Next
  PROVE  ModTyped' /\ BufTyped'
<1>1. CASE UNCHANGED <<modVars, known>>
  BY <1>1 DEF modVars, ModTyped, BufTyped
<1>2. CASE \/ \E argv \in {<<>>} \cup {<<mode>> : mode \in {"local", "remote", "edge"}} : CreateInference(argv)
           \/ CreateRuntime \/ AddRuntime \/ RemoveRuntime \/ DestroyInference \/ SvcCrashes
  BY <1>1, <1>2 DEF CreateInference, CreateRuntime, AddRuntime, RemoveRuntime, DestroyInference, SvcCrashes
<1>3. CASE DestroyRuntime
  <2>1. module' = NoModule /\ known' = None /\ loads' = loads
    BY <1>3 DEF DestroyRuntime, DestroyModule
  <2>2. NoModule \in ModuleRecord /\ NoModule.interpreter = None
    BY DEF NoModule, ModuleRecord, MaybeModels
  <2> QED BY <2>1, <2>2 DEF ModTyped, BufTyped, MaybeModels
<1>4. ASSUME NEW m \in Models, NEW f \in (Faults \cap LoadFaults) \cup {"none"}, LoadModel(m, f)
      PROVE  ModTyped' /\ BufTyped'
  <2>1. /\ loads < MaxLoads /\ loads' = loads + 1 /\ module' = Loaded(m, f) /\ known' = known
        /\ buffers' = IF module'.interpreter # None /\ f # "access" /\ f # "file"
                      THEN [k \in DOMAIN Inputs[m] |-> 0] ELSE buffers
    BY <1>4 DEF LoadModel
  <2>2. module \in ModuleRecord
    BY DEF ModTyped
  <2>3. /\ module' \in ModuleRecord
        /\ f \in {"access", "file"} => module'.interpreter = module.interpreter
        /\ f \notin {"access", "file", "builder"} => module'.interpreter = m
        /\ f = "builder" => module'.interpreter = None
    BY <2>1, <2>2, LoadedFacts
  <2>4. loads' \in 0..MaxLoads
    BY <2>1, LocalAssumption DEF ModTyped
  <2>5. ModTyped'
    BY <2>1, <2>3, <2>4 DEF ModTyped
  <2>6. BufTyped'
    <3>1. CASE f \in {"access", "file"}
      BY <2>1, <2>3, <3>1 DEF BufTyped
    <3>2. CASE f = "builder"
      BY <2>3, <3>2 DEF BufTyped
    <3>3. CASE f \notin {"access", "file", "builder"}
      <4>1. module'.interpreter = m /\ m # None
        BY <2>3, <3>3, LocalAssumption
      <4>2. buffers' = [k \in DOMAIN Inputs[m] |-> 0]
        BY <2>1, <3>3, <4>1
      <4>3. 0 \in 0..MaxInvokes
        BY LocalAssumption
      <4> QED BY <4>1, <4>2, <4>3 DEF BufTyped
    <3> QED BY <3>1, <3>2, <3>3
  <2> QED BY <2>5, <2>6
<1>5. CASE GetInputTensorInfo \/ GetOutputTensorInfo
  <2>1. loads' = loads /\ buffers' = buffers
    BY <1>5 DEF GetInputTensorInfo, GetOutputTensorInfo
  <2>2. /\ module' \in ModuleRecord /\ module'.interpreter = module.interpreter
        /\ known' \in {known, module.inputInfo, module.interpreter}
    BY <1>5, InfoFacts
  <2>3. known' \in MaybeModels
    BY <2>2 DEF ModTyped, ModuleRecord
  <2> QED BY <2>1, <2>2, <2>3 DEF ModTyped, BufTyped
<1>6. ASSUME NEW ok \in BOOLEAN, SvcInvoke(ok) PROVE ModTyped' /\ BufTyped'
  <2>1. module' = module /\ known' = known /\ loads' = loads /\ module.interpreter # None
    BY <1>6 DEF SvcInvoke, Runnable
  <2> DEFINE need == Inputs[module.interpreter]
             have == Sizes(tensor[context[Head(cmd)].tensor].info)
             C == Copied(have, need)
  <2>2. buffers' = [k \in DOMAIN need |-> IF k \in C THEN Head(cmd) ELSE buffers[k]]
    BY <1>6 DEF SvcInvoke
  <2>3. buffers \in [DOMAIN need -> 0..MaxInvokes]
    BY <2>1 DEF BufTyped
  <2>4. Head(cmd) \in 0..MaxInvokes
    <3>1. cmd # <<>>
      BY <1>6 DEF SvcInvoke
    <3>2. Head(cmd) \in Invokes
      BY <3>1, HeadTail DEF PipeTyped
    <3> QED BY <3>2, LocalAssumption DEF Invokes
  <2> HIDE DEF C
  <2>5. buffers' \in [DOMAIN need -> 0..MaxInvokes]
    <3> HIDE DEF need
    <3> QED BY <2>2, <2>3, <2>4
  <2> QED BY <2>1, <2>5 DEF ModTyped, BufTyped
<1> QED BY <1>1, <1>2, <1>3, <1>4, <1>5, <1>6, ObjectsKept

\* The types of the objects.
LEMMA ObjStep ==
  ASSUME ObjTyped, Next
  PROVE  ObjTyped'
<1>1. CASE \/ \E argv \in {<<>>} \cup {<<mode>> : mode \in {"local", "remote", "edge"}} : CreateInference(argv)
           \/ CreateRuntime \/ AddRuntime \/ RemoveRuntime \/ DestroyInference
  BY <1>1 DEF CreateInference, CreateRuntime, AddRuntime, RemoveRuntime, DestroyInference, TakeRuntime,
              GiveUpRuntime, ObjTyped
<1>2. CASE DestroyRuntime
  BY <1>2 DEF DestroyRuntime, DestroyModule, ObjTyped
<1>3. CASE \/ CallOfDestroyed \/ GetInputTensorInfo \/ GetOutputTensorInfo \/ SvcCrashes \/ SvcMismatch
           \/ \E m \in Models, f \in (Faults \cap LoadFaults) \cup {"none"} : LoadModel(m, f)
           \/ \E ok \in BOOLEAN : SvcInvoke(ok)
  BY <1>3 DEF CallOfDestroyed, GetInputTensorInfo, GetOutputTensorInfo, SvcCrashes, SvcMismatch, LoadModel,
              SvcInvoke, ObjTyped, objVars
<1>4. CASE RuntimeEvent \/ InferenceEvent
  BY <1>4 DEF RuntimeEvent, InferenceEvent, UnrefCrashes, ObjTyped, objVars
<1>5. CASE \E t \in Tensors : \/ AllocateTensor(t) \/ GetOutput(t) \/ RefTensor(t) \/ UnrefTensor(t)
                              \/ DoFails(t) \/ \E i \in Invokes : Do(i, t)
  BY <1>5 DEF AllocateTensor, GetOutput, RefTensor, UnrefTensor, UnrefCrashes, DoFails, Do, ObjTyped, objVars
<1> QED BY <1>1, <1>2, <1>3, <1>4, <1>5 DEF Next

\* The history; it never forgets.
LEMMA HistStep ==
  ASSUME HistTyped, Next
  PROVE  HistTyped' /\ misuse \subseteq misuse' /\ (reloaded => reloaded')
<1>1. CASE UNCHANGED histVars
  BY <1>1 DEF histVars, HistTyped
<1>2. CASE \/ \E argv \in {<<>>} \cup {<<mode>> : mode \in {"local", "remote", "edge"}} : CreateInference(argv)
           \/ CreateRuntime \/ AddRuntime
  BY <1>1, <1>2 DEF CreateInference, CreateRuntime, AddRuntime
<1>3. CASE RemoveRuntime \/ DestroyInference \/ DestroyRuntime
  BY <1>3 DEF RemoveRuntime, DestroyInference, DestroyRuntime, Misused, HistTyped
<1>4. CASE \E m \in Models, f \in (Faults \cap LoadFaults) \cup {"none"} : LoadModel(m, f)
  BY <1>4 DEF LoadModel, HistTyped
<1>5. CASE GetInputTensorInfo \/ GetOutputTensorInfo \/ SvcCrashes
  BY <1>5 DEF GetInputTensorInfo, GetOutputTensorInfo, SvcCrashes, Misused, HistTyped
<1>6. CASE \E ok \in BOOLEAN : SvcInvoke(ok)
  <2>1. misuse' = misuse /\ reloaded' = reloaded /\ foreign' \in BOOLEAN
    BY <1>6 DEF SvcInvoke, HistTyped
  <2> QED BY <2>1 DEF HistTyped
<1> QED BY <1>1, <1>2, <1>3, <1>4, <1>5, <1>6, ObjectsKept

----------------------------------------------------------------------------
(* What the application was given and what it left behind.                 *)

\* A runtime that is not there has no model.
LEMMA ModuleStep ==
  ASSUME ModTyped, ModuleOK, Next
  PROVE  ModuleOK'
<1>1. CASE UNCHANGED <<rt, module>>
  BY <1>1 DEF ModuleOK
<1>2. CASE UNCHANGED <<objVars, modVars, known, histVars>>
  BY <1>1, <1>2 DEF objVars, modVars
<1>3. CASE \/ \E argv \in {<<>>} \cup {<<mode>> : mode \in {"local", "remote", "edge"}} : CreateInference(argv)
           \/ AddRuntime \/ RemoveRuntime \/ DestroyInference \/ SvcCrashes
           \/ \E ok \in BOOLEAN : SvcInvoke(ok)
  BY <1>1, <1>3 DEF CreateInference, AddRuntime, RemoveRuntime, DestroyInference, SvcCrashes, SvcInvoke,
                    modVars, objVars
<1>4. CASE CreateRuntime
  BY <1>4 DEF CreateRuntime, ModuleOK
<1>5. CASE DestroyRuntime
  BY <1>5 DEF DestroyRuntime, DestroyModule, NoModule, ModuleOK
<1>6. CASE \E m \in Models, f \in (Faults \cap LoadFaults) \cup {"none"} : LoadModel(m, f)
  BY <1>6 DEF LoadModel, Answered, objVars, ModuleOK
<1>7. CASE GetInputTensorInfo \/ GetOutputTensorInfo
  <2>1. module'.interpreter = module.interpreter
    BY <1>7, InfoFacts
  <2>2. rt' = rt
    BY <1>7 DEF GetInputTensorInfo, GetOutputTensorInfo, objVars
  <2> QED BY <2>1, <2>2 DEF ModuleOK
<1> QED BY <1>2, <1>3, <1>4, <1>5, <1>6, <1>7, ObjectsKept

\* As long as no model is loaded again, tensor information is that of the interpreter.
LEMMA InfoStep ==
  ASSUME HeapTyped, ModTyped, PipeTyped, HistTyped, HeapOK, QueuesOK, InfoOK, Next
  PROVE  InfoOK'
<1>1. \A k \in Tensors : \/ tensor'[k].info \in {tensor[k].info, None}
                         \/ tensor'[k].info = known /\ UNCHANGED <<objVars, modVars, known, histVars>>
  BY HeapStep
<1>2. reloaded => reloaded'
  BY HistStep
<1>3. CASE UNCHANGED <<objVars, modVars, known, histVars>>
  <2>1. UNCHANGED <<rt, module, known, reloaded>>
    BY <1>3 DEF objVars, modVars, histVars
  <2> SUFFICES ASSUME ~reloaded, rt # "destroyed"
               PROVE  /\ module.inputInfo # None => module.inputInfo = module.interpreter
                      /\ known # None => known = module.inputInfo
                      /\ \A t \in Tensors : tensor'[t].info # None => tensor'[t].info = module.inputInfo
    BY <2>1 DEF InfoOK
  <2> QED BY <1>1 DEF InfoOK
<1>4. ASSUME UNCHANGED <<module, known, tensor>>, rt' # "destroyed" => rt # "destroyed" PROVE InfoOK'
  <2> SUFFICES ASSUME ~reloaded', rt' # "destroyed"
               PROVE  /\ module.inputInfo # None => module.inputInfo = module.interpreter
                      /\ known # None => known = module.inputInfo
                      /\ \A t \in Tensors : tensor[t].info # None => tensor[t].info = module.inputInfo
    BY <1>4 DEF InfoOK
  <2> QED BY <1>2, <1>4 DEF InfoOK
<1>5. CASE \/ \E argv \in {<<>>} \cup {<<mode>> : mode \in {"local", "remote", "edge"}} : CreateInference(argv)
           \/ CreateRuntime \/ AddRuntime \/ RemoveRuntime \/ DestroyInference \/ SvcCrashes
           \/ \E ok \in BOOLEAN : SvcInvoke(ok)
  <2>1. UNCHANGED <<module, known, tensor>> /\ (rt' # "destroyed" => rt # "destroyed")
    BY <1>5 DEF CreateInference, CreateRuntime, AddRuntime, RemoveRuntime, DestroyInference, SvcCrashes,
                SvcInvoke, modVars, objVars
  <2> QED BY <1>4, <2>1
<1>6. CASE DestroyRuntime
  BY <1>6 DEF DestroyRuntime, InfoOK
<1>7. ASSUME NEW m \in Models, NEW f \in (Faults \cap LoadFaults) \cup {"none"}, LoadModel(m, f)
      PROVE  InfoOK'
  <2>1. /\ reloaded' = (reloaded \/ module.inputInfo # None) /\ known' = known /\ tensor' = tensor
        /\ rt = "live" /\ module' = Loaded(m, f)
    BY <1>7 DEF LoadModel, Answered, objVars
  <2>2. module'.inputInfo = module.inputInfo
    BY <2>1, LoadedFacts DEF ModTyped
  <2> SUFFICES ASSUME ~reloaded'
               PROVE  /\ module'.inputInfo = None
                      /\ known' = None /\ \A t \in Tensors : tensor'[t].info = None
    BY DEF InfoOK
  <2>3. ~reloaded /\ module.inputInfo = None
    BY <2>1
  <2> QED BY <2>1, <2>2, <2>3 DEF InfoOK
<1>8. CASE GetInputTensorInfo \/ GetOutputTensorInfo
  <2>1. reloaded' = reloaded /\ tensor' = tensor /\ rt = "live" /\ rt' = rt
    BY <1>8 DEF GetInputTensorInfo, GetOutputTensorInfo, Answered, objVars
  <2>2. /\ module'.interpreter = module.interpreter
        /\ \/ module'.inputInfo = module.inputInfo /\ known' \in {known, module.inputInfo}
           \/ /\ module.inputInfo = None /\ module'.inputInfo = module.interpreter
              /\ known' = module.interpreter
    BY <1>8, InfoFacts
  <2> SUFFICES ASSUME ~reloaded
               PROVE  /\ module'.inputInfo # None => module'.inputInfo = module'.interpreter
                      /\ known' # None => known' = module'.inputInfo
                      /\ \A t \in Tensors : tensor[t].info # None => tensor[t].info = module'.inputInfo
    BY <2>1 DEF InfoOK
  <2>3. /\ module.inputInfo # None => module.inputInfo = module.interpreter
        /\ known # None => known = module.inputInfo
        /\ \A t \in Tensors : tensor[t].info # None => tensor[t].info = module.inputInfo
    BY <2>1 DEF InfoOK
  <2> QED BY <2>2, <2>3
<1> QED BY <1>3, <1>5, <1>6, <1>7, <1>8, ObjectsKept

\* After the inference is destroyed with care nobody refers to anything.
LEMMA CareStep ==
  ASSUME ObjTyped, HeapTyped, HistTyped, CareOK, Next
  PROVE  CareOK'
<1>1. misuse \subseteq misuse'
  BY HistStep
<1>2. CASE UNCHANGED <<inf, rt, runtime>> /\ (inf # "destroyed" \/ UNCHANGED <<tensor, context>>)
  <2>1. CASE inf # "destroyed"
    BY <1>1, <1>2, <2>1 DEF CareOK
  <2>2. CASE UNCHANGED <<tensor, context>>
    <3>1. Outstanding' = Outstanding
      BY <2>2, HoldersKept
    <3> QED BY <1>1, <1>2, <2>2, <3>1 DEF CareOK
  <2> QED BY <1>2, <2>1, <2>2
<1>3. CASE \/ CallOfDestroyed \/ GetInputTensorInfo \/ GetOutputTensorInfo \/ SvcCrashes \/ SvcMismatch
           \/ RuntimeEvent
           \/ \E m \in Models, f \in (Faults \cap LoadFaults) \cup {"none"} : LoadModel(m, f)
           \/ \E ok \in BOOLEAN : SvcInvoke(ok)
  <2>1. UNCHANGED objVars /\ UNCHANGED <<tensor, context>>
    BY <1>3 DEF CallOfDestroyed, GetInputTensorInfo, GetOutputTensorInfo, SvcCrashes, SvcMismatch,
                RuntimeEvent, LoadModel, SvcInvoke
  <2> QED BY <1>2, <2>1 DEF objVars
<1>4. CASE \/ InferenceEvent \/ \E t \in Tensors : \/ AllocateTensor(t) \/ GetOutput(t)
                                                   \/ \E i \in Invokes : Do(i, t)
  <2>1. UNCHANGED objVars /\ inf = "live"
    BY <1>4 DEF InferenceEvent, AllocateTensor, GetOutput, Do, RuntimeSet
  <2> QED BY <1>2, <2>1 DEF objVars
<1>5. CASE \E t \in Tensors : DoFails(t)
  BY <1>2, <1>5 DEF DoFails, RefGivenBack, objVars
<1>6. ASSUME NEW t \in Tensors, RefTensor(t) \/ UnrefTensor(t) PROVE CareOK'
  <2>1. UNCHANGED objVars /\ misuse' = misuse /\ tensor[t].app # 0
    <3>1. tensor[t].app \in Nat
      BY DEF HeapTyped, TensorRecord
    <3> QED BY <1>6, <3>1 DEF RefTensor, UnrefTensor, histVars
  <2>2. CASE inf = "destroyed"
    <3>1. misuse # {}
      BY <2>1, <2>2 DEF CareOK
    <3> QED BY <2>1, <3>1 DEF objVars, CareOK
  <2>3. CASE inf # "destroyed"
    BY <1>2, <2>1, <2>3 DEF objVars
  <2> QED BY <2>2, <2>3
<1>7. CASE \/ \E argv \in {<<>>} \cup {<<mode>> : mode \in {"local", "remote", "edge"}} : CreateInference(argv)
           \/ CreateRuntime
  <2>1. /\ inf' \in {inf, "live"} /\ (inf' # inf => inf = "none") /\ runtime' = runtime
        /\ rt' \in {rt, "live"} /\ UNCHANGED <<tensor, context>>
    BY <1>7 DEF CreateInference, CreateRuntime
  <2>2. Outstanding' = Outstanding
    BY <2>1, HoldersKept
  <2> QED BY <1>1, <2>1, <2>2 DEF CareOK
<1>8. CASE AddRuntime \/ RemoveRuntime
  <2>1. inf = "live" /\ inf' = inf /\ rt' = rt /\ rt = "live"
    BY <1>8 DEF AddRuntime, RemoveRuntime
  <2> QED BY <1>1, <2>1 DEF CareOK
<1>9. CASE DestroyInference
  <2>1. /\ inf' = "destroyed" /\ UNCHANGED <<rt, runtime, tensor, context>>
        /\ Misused("early", Outstanding # {} \/ \E t \in Tensors : tensor[t].app > 0)
    BY <1>9 DEF DestroyInference
  <2>2. Outstanding' = Outstanding
    BY <2>1, HoldersKept
  <2>3. misuse' = {} => Outstanding = {} /\ \A t \in Tensors : ~(tensor[t].app > 0)
    BY <2>1 DEF Misused
  <2>4. \A t \in Tensors : tensor[t].app \in Nat
    BY DEF HeapTyped, TensorRecord
  <2>5. misuse' = {} => \A t \in Tensors : tensor[t].app = 0
    BY <2>3, <2>4
  <2> QED BY <2>1, <2>2, <2>3, <2>5 DEF CareOK
<1>10. CASE DestroyRuntime
  <2>1. /\ UNCHANGED <<inf, runtime, tensor, context>>
        /\ Misused("early", Outstanding # {} \/ (runtime /\ inf = "live"))
    BY <1>10 DEF DestroyRuntime
  <2>2. Outstanding' = Outstanding
    BY <2>1, HoldersKept
  <2>3. misuse' = {} => ~(runtime /\ inf = "live")
    BY <2>1 DEF Misused
  <2>4. runtime => inf # "none"
    BY DEF CareOK
  <2>5. misuse' = {} /\ runtime => inf = "destroyed"
    BY <2>3, <2>4 DEF ObjTyped
  <2> QED BY <1>1, <2>1, <2>2, <2>4, <2>5 DEF CareOK
<1> QED BY <1>3, <1>4, <1>5, <1>6, <1>7, <1>8, <1>9, <1>10 DEF Next

----------------------------------------------------------------------------
(* Freed memory and the inputs of inferences.                              *)

\* What is on its way belongs to an inference that is outstanding.
LEMMA OnItsWay ==
  ASSUME PipeTyped, QueuesOK
  PROVE  /\ cmd # <<>> => Held(Head(cmd))
         /\ cmd # <<>> \/ rtEvents # <<>> => Outstanding # {}
<1>1. ASSUME cmd # <<>> PROVE Held(Head(cmd))
  <2>1. Head(cmd) = cmd[1] /\ 1 \in 1..Len(cmd)
    BY <1>1, HeadTail DEF PipeTyped
  <2> QED BY <2>1 DEF QueuesOK, CmdOK
<1>2. ASSUME rtEvents # <<>> PROVE Held(Head(rtEvents).context)
  <2>1. Head(rtEvents) = rtEvents[1] /\ 1 \in 1..Len(rtEvents)
    BY <1>2, HeadTail DEF PipeTyped
  <2> QED BY <2>1 DEF QueuesOK, RtOK
<1> QED BY <1>1, <1>2 DEF Held, Outstanding

\* Only after misuse is anything used that is not there.
LEMMA CrashStep ==
  ASSUME ObjTyped, HeapTyped, PipeTyped, HistTyped, HeapOK, QueuesOK, CareOK, Next
  PROVE  CrashNeedsMisuse'
<1> SUFFICES ASSUME crashed', misuse' = {} PROVE FALSE
  BY DEF CrashNeedsMisuse
<1>1. ~crashed /\ misuse = {}
  BY NotCrashed, HistStep
<1>2. /\ runtime /\ rt = "destroyed" => inf = "destroyed"
      /\ inf = "destroyed" => Outstanding = {} /\ \A t \in Tensors : tensor[t].app = 0
  BY <1>1 DEF CareOK
<1>3. ASSUME UNCHANGED crashed PROVE FALSE
  BY <1>1, <1>3
<1>4. CASE \/ \E argv \in {<<>>} \cup {<<mode>> : mode \in {"local", "remote", "edge"}} : CreateInference(argv)
           \/ CreateRuntime \/ AddRuntime \/ RemoveRuntime \/ DestroyInference
           \/ \E m \in Models, f \in (Faults \cap LoadFaults) \cup {"none"} : LoadModel(m, f)
           \/ SvcMismatch \/ \E ok \in BOOLEAN : SvcInvoke(ok)
  BY <1>3, <1>4 DEF CreateInference, CreateRuntime, AddRuntime, RemoveRuntime, DestroyInference, LoadModel,
                    SvcMismatch, SvcInvoke
<1>5. CASE \E t \in Tensors : \/ AllocateTensor(t) \/ GetOutput(t) \/ RefTensor(t) \/ DoFails(t)
                              \/ \E i \in Invokes : Do(i, t)
  BY <1>3, <1>5 DEF AllocateTensor, GetOutput, RefTensor, DoFails, Do
<1>6. CASE CallOfDestroyed
  BY <1>2, <1>6 DEF CallOfDestroyed, RuntimeSet
<1>7. CASE GetInputTensorInfo \/ GetOutputTensorInfo
  BY <1>3, <1>7 DEF GetInputTensorInfo, GetOutputTensorInfo, Misused
<1>8. CASE DestroyRuntime
  <2>1. cmd # <<>>
    BY <1>8 DEF DestroyRuntime, DestroyModule
  <2>2. Outstanding # {}
    BY <2>1, OnItsWay
  <2> QED BY <1>8, <2>2 DEF DestroyRuntime, Misused
<1>9. ASSUME NEW t \in Tensors, UnrefTensor(t) PROVE FALSE
  <2>1. tensor[t].app > 0 /\ UnrefCrashes(t)
    BY <1>9 DEF UnrefTensor
  <2>2. tensor[t].state = "live"
    BY <2>1, AppLive DEF HeapOK
  <2>3. inf = "destroyed"
    BY <1>2, <2>1, <2>2 DEF UnrefCrashes
  <2>4. tensor[t].app = 0
    BY <1>2, <2>3
  <2> QED BY <2>1, <2>4
<1>10. CASE SvcCrashes
  <2>1. cmd # <<>> /\ Runnable /\ tensor[context[Head(cmd)].tensor].state # "live"
    BY <1>10 DEF SvcCrashes, Misused
  <2>2. PICK i : i = Head(cmd)
    OBVIOUS
  <2>3. Held(i)
    BY <2>1, <2>2, OnItsWay
  <2>4. tensor[context[i].tensor].state = "live"
    BY <2>3, HeldLive DEF HeapOK
  <2> QED BY <2>1, <2>2, <2>4
<1>11. CASE RuntimeEvent
  <2>1. rtEvents # <<>> /\ inf = "destroyed"
    BY <1>11 DEF RuntimeEvent
  <2> QED BY <1>2, <2>1, OnItsWay
<1>12. CASE InferenceEvent
  <2>1. /\ inf = "live" /\ infEvents # <<>>
        /\ UnrefCrashes(context[Head(infEvents).context].tensor)
    BY <1>12 DEF InferenceEvent
  <2>2. PICK i : i = Head(infEvents).context
    OBVIOUS
  <2>3. Held(i)
    BY <2>1, <2>2, NextEventHeld
  <2>4. tensor[context[i].tensor].state = "live"
    BY <2>3, HeldLive DEF HeapOK
  <2> QED BY <1>2, <2>1, <2>2, <2>4 DEF UnrefCrashes
<1> QED BY <1>4, <1>5, <1>6, <1>7, <1>8, <1>9, <1>10, <1>11, <1>12 DEF Next

\* Without another load every tensor has the size of the interpreter's.
LEMMA OwnInputStep ==
  ASSUME HeapTyped, ModTyped, PipeTyped, HistTyped, HeapOK, QueuesOK, ModuleOK, InfoOK, RunsOnOwnInput, Next
  PROVE  RunsOnOwnInput'
<1>1. reloaded => reloaded'
  BY HistStep
<1>2. ASSUME foreign' = foreign PROVE RunsOnOwnInput'
  BY <1>1, <1>2 DEF RunsOnOwnInput
<1>3. CASE \/ UNCHANGED <<objVars, modVars, known, histVars>>
           \/ \E argv \in {<<>>} \cup {<<mode>> : mode \in {"local", "remote", "edge"}} : CreateInference(argv)
           \/ CreateRuntime \/ AddRuntime \/ RemoveRuntime \/ DestroyInference \/ DestroyRuntime
           \/ \E m \in Models, f \in (Faults \cap LoadFaults) \cup {"none"} : LoadModel(m, f)
           \/ GetInputTensorInfo \/ GetOutputTensorInfo \/ SvcCrashes
  BY <1>2, <1>3 DEF CreateInference, CreateRuntime, AddRuntime, RemoveRuntime, DestroyInference,
                    DestroyRuntime, LoadModel, GetInputTensorInfo, GetOutputTensorInfo, SvcCrashes, histVars
<1>4. ASSUME NEW ok \in BOOLEAN, SvcInvoke(ok) PROVE RunsOnOwnInput'
  <2> SUFFICES ASSUME ~reloaded PROVE ~foreign'
    BY <1>1 DEF RunsOnOwnInput
  <2>1. cmd # <<>> /\ module.interpreter # None
    BY <1>4 DEF SvcInvoke, Runnable
  <2>2. PICK i : i = Head(cmd)
    OBVIOUS
  <2>3. PICK t : t = context[i].tensor
    OBVIOUS
  <2>4. Held(i)
    BY <2>1, <2>2, OnItsWay
  <2>5. t \in Tensors /\ tensor[t].info # None
    BY <2>3, <2>4, HeldLive DEF HeapOK
  <2>6. rt = "live"
    BY <2>1 DEF ModuleOK
  <2>7. tensor[t].info = module.interpreter
    <3>1. tensor[t].info = module.inputInfo
      BY <2>5, <2>6 DEF InfoOK
    <3>2. module.inputInfo = module.interpreter
      BY <2>5, <2>6, <3>1 DEF InfoOK
    <3> QED BY <3>1, <3>2
  <2> DEFINE need == Inputs[module.interpreter]
             have == Sizes(tensor[t].info)
             C == Copied(have, need)
  <2>8. C = DOMAIN need
    BY <2>7 DEF Sizes, Copied
  <2>9. /\ buffers' = [k \in DOMAIN need |-> IF k \in C THEN i ELSE buffers[k]]
        /\ foreign' = (foreign \/ (ok /\ \E k \in DOMAIN need : buffers'[k] # i))
    BY <1>4, <2>2, <2>3 DEF SvcInvoke
  <2> HIDE DEF C, need
  <2>10. \A k \in DOMAIN need : buffers'[k] = i
    BY <2>8, <2>9
  <2>11. ~foreign
    BY DEF RunsOnOwnInput
  <2> QED BY <2>9, <2>10, <2>11
<1> QED BY <1>3, <1>4, ObjectsKept

----------------------------------------------------------------------------
(* The theorems.                                                           *)

\* The objects before anything is created.
LEMMA LocalInit == Init => LocalInv
<1> SUFFICES ASSUME Init PROVE LocalInv
  OBVIOUS
<1> DEFINE r == [state |-> "unused", refcnt |-> 0, app |-> 0, info |-> None]
           q == [state |-> "unused", tensor |-> 0]
<1>1. r \in TensorRecord /\ q \in ContextRecord /\ NoModule \in ModuleRecord /\ NoModule.interpreter = None
  BY DEF TensorRecord, ContextRecord, NoModule, ModuleRecord, MaybeModels
<1>2. /\ tensor = [t \in Tensors |-> r] /\ context = [i \in Invokes |-> q] /\ module = NoModule
      /\ inf = "none" /\ rt = "none" /\ runtime = FALSE /\ handler = FALSE /\ known = None
      /\ cmd = <<>> /\ outputs = <<>> /\ rtEvents = <<>> /\ infEvents = <<>> /\ loads = 0
      /\ reloaded = FALSE /\ foreign = FALSE /\ misuse = {} /\ crashed = FALSE
  BY DEF Init
<1>3. TypeOK
  <2>1. HeapTyped
    BY <1>1, <1>2 DEF HeapTyped
  <2>2. ObjTyped /\ HistTyped
    BY <1>2 DEF ObjTyped, HistTyped
  <2>3. ModTyped /\ BufTyped
    BY <1>1, <1>2, LocalAssumption DEF ModTyped, BufTyped, MaybeModels
  <2>4. PipeTyped
    <3>1. <<>> \in Seq(Invokes) /\ <<>> \in Seq(Events)
      OBVIOUS
    <3> QED BY <1>2, <3>1 DEF PipeTyped
  <2> QED BY <2>1, <2>2, <2>3, <2>4, TypeParts
<1>4. /\ \A t \in Tensors : tensor[t].app = 0 /\ tensor[t].refcnt = 0 /\ tensor[t].info = None
                            /\ tensor[t].state = "unused"
      /\ \A i \in Invokes : context[i].state = "unused"
  BY <1>2
<1>5. Outstanding = {}
  BY <1>4 DEF Outstanding
<1>6. UsedOK
  <2>1. UsedUpTo(tensor, 0) /\ UsedUpTo(context, 0)
    BY <1>2, LocalAssumption DEF UsedUpTo, Tensors, Invokes
  <2> QED BY <2>1 DEF UsedOK
<1>7. CountOK
  <2>1. \A t : Holders(t) = {}
    BY <1>5 DEF Holders
  <2>2. Cardinality({}) = 0
    BY FS_EmptySet
  <2>3. ASSUME NEW t \in Tensors PROVE Refs(t) = 0
    <3>1. Cardinality(Holders(t)) = 0
      BY <2>1, <2>2
    <3>2. tensor[t].app = 0
      BY <1>4
    <3> QED BY <3>1, <3>2 DEF Refs
  <2> QED BY <1>4, <2>3 DEF CountOK
<1>8. HeldOK /\ QueuesOK
  BY <1>2, <1>4 DEF HeldOK, QueuesOK, CmdOK, RtOK, InfOK
<1>9. ModuleOK /\ InfoOK
  BY <1>2, <1>4 DEF ModuleOK, InfoOK, NoModule
<1>10. CareOK
  BY <1>2, <1>4, <1>5 DEF CareOK
<1>11. CrashNeedsMisuse /\ RunsOnOwnInput
  BY <1>2 DEF CrashNeedsMisuse, RunsOnOwnInput
<1> QED BY <1>3, <1>6, <1>7, <1>8, <1>9, <1>10, <1>11 DEF LocalInv, ObjectsOK

\* No step breaks it.
LEMMA LocalStep == LocalInv /\ [Next]_vars => LocalInv'
<1>1. ASSUME LocalInv, Next PROVE LocalInv'
  <2>1. ObjTyped /\ ModTyped /\ BufTyped /\ HeapTyped /\ PipeTyped /\ HistTyped
    BY <1>1, TypeParts DEF LocalInv
  <2>2. ~crashed
    BY <1>1, NotCrashed
  <2>3. HeapOK /\ QueuesOK /\ ModuleOK /\ InfoOK /\ CareOK /\ RunsOnOwnInput
    BY <1>1, <2>2 DEF LocalInv, ObjectsOK, HeapOK
  <2>4. HeapOK' /\ HeapTyped'
    BY <1>1, <2>1, <2>3, HeapStep
  <2>5. QueuesOK' /\ PipeTyped'
    BY <1>1, <2>1, <2>3, QueuesStep
  <2>6. ObjTyped' /\ ModTyped' /\ BufTyped' /\ HistTyped'
    BY <1>1, <2>1, ObjStep, ModStep, HistStep
  <2>7. TypeOK'
    BY <2>4, <2>5, <2>6, TypeParts
  <2>8. ModuleOK'
    BY <1>1, <2>1, <2>3, ModuleStep
  <2>9. InfoOK'
    BY <1>1, <2>1, <2>3, InfoStep
  <2>10. CareOK'
    BY <1>1, <2>1, <2>3, CareStep
  <2>11. CrashNeedsMisuse'
    BY <1>1, <2>1, <2>3, CrashStep
  <2>12. RunsOnOwnInput'
    BY <1>1, <2>1, <2>3, OwnInputStep
  <2>13. ObjectsOK'
    BY <2>4, <2>5 DEF ObjectsOK, HeapOK
  <2> QED BY <2>7, <2>8, <2>9, <2>10, <2>11, <2>12, <2>13 DEF LocalInv
<1>2. ASSUME LocalInv, UNCHANGED vars PROVE LocalInv'
  <2>1. /\ UNCHANGED <<inf, rt, runtime, handler, module, buffers, loads, known, tensor, context>>
        /\ UNCHANGED <<cmd, outputs, rtEvents, infEvents, reloaded, foreign, misuse, crashed>>
    BY <1>2 DEF vars, objVars, modVars, pipeVars, histVars
  <2>2. TypeOK'
    BY <1>2, <2>1 DEF LocalInv, TypeOK
  <2>3. ~crashed => HeapOK' /\ QueuesOK'
    <3> SUFFICES ASSUME ~crashed PROVE HeapOK' /\ QueuesOK'
      OBVIOUS
    <3>1. HeapOK /\ QueuesOK
      BY <1>2 DEF LocalInv, ObjectsOK, HeapOK
    <3>2. \A i : Held(i) => Held(i)'
      BY <2>1 DEF Held
    <3> QED BY <2>1, <3>1, <3>2, HeapKept, QueuesKept DEF pipeVars
  <2>4. Outstanding' = Outstanding
    BY <2>1, HoldersKept
  <2>5. ~crashed => ModuleOK' /\ InfoOK' /\ CareOK'
    BY <1>2, <2>1, <2>4 DEF LocalInv, ModuleOK, InfoOK, CareOK
  <2>6. CrashNeedsMisuse' /\ RunsOnOwnInput'
    BY <1>2, <2>1 DEF LocalInv, CrashNeedsMisuse, RunsOnOwnInput
  <2>7. crashed' = crashed
    BY <2>1
  <2>8. HeapOK' /\ QueuesOK' => ObjectsOK'
    BY DEF HeapOK, ObjectsOK
  <2> QED BY <2>2, <2>3, <2>5, <2>6, <2>7, <2>8 DEF LocalInv
<1> QED BY <1>1, <1>2

\* LocalInv holds in every reachable state.
LEMMA LocalInvHolds == Spec => []LocalInv
  BY LocalInit, LocalStep, PTL DEF Spec

\* Every variable has its type, and the interpreter as many input buffers as its
\* model has inputs.
THEOREM LocalTypeCorrect == Spec => []TypeOK
<1>1. LocalInv => TypeOK
  BY DEF LocalInv
<1> QED BY <1>1, LocalInvHolds, PTL

\* A container's count is the number of references to it, and it lives exactly as
\* long as there is one, for any number of containers, inferences and references.
THEOREM CountedReferencesHolds == Spec => []CountedReferences
<1>1. LocalInv => CountedReferences
  BY DEF LocalInv, ObjectsOK, CountOK, Refs, Holders, CountedReferences
<1> QED BY <1>1, LocalInvHolds, PTL

\* Freed memory or a null pointer is used only if the application has used the module
\* without a model, or has removed or destroyed what something still needed.
THEOREM CrashNeedsMisuseHolds == Spec => []CrashNeedsMisuse
<1>1. LocalInv => CrashNeedsMisuse
  BY DEF LocalInv
<1> QED BY <1>1, LocalInvHolds, PTL

\* An inference that is reported as successful has run on all of its own input,
\* unless a model was loaded after the tensor information was given out.
THEOREM RunsOnOwnInputHolds == Spec => []RunsOnOwnInput
<1>1. LocalInv => RunsOnOwnInput
  BY DEF LocalInv
<1> QED BY <1>1, LocalInvHolds, PTL
=============================================================================
