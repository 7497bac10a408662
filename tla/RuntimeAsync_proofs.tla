------------------------ MODULE RuntimeAsync_proofs ------------------------
(***************************************************************************)
(* Proofs about RuntimeAsync, for any number of inferences, calls and      *)
(* failures and for pipes of any size: each inference is accounted for, a  *)
(* success delivers its own output, no command outlives the frame it       *)
(* points to, and the emulator implements the asynchronous service.        *)
(***************************************************************************)
EXTENDS RuntimeAsync, SequenceTheorems, WellFoundedInduction, TLAPS

IsInvoke(c) == c.id = "IdInvoke"

\* svc works on an inference; it still owns its CommandData.
Busy   == svc.pc # "idle" /\ svc.id = "IdInvoke"
Owning == svc.pc \in {"command", "invoked"} /\ svc.id = "IdInvoke"

\* A command carries the number of its Invoke() or of its synchronous call.
CommandsOK ==
  /\ \A k \in DOMAIN cmd :
        \/ cmd[k].id \in SyncIds /\ cmd[k].arg \in Calls
        \/ cmd[k].id = "IdInvoke" /\ cmd[k].arg \in 1..invoked
  /\ svc.pc # "idle" =>
        \/ svc.id \in SyncIds /\ svc.arg \in Calls /\ svc.pc = "command"
        \/ svc.id = "IdInvoke" /\ svc.arg \in 1..invoked
  /\ svc.pc \in {"invoked", "queued"} => svc.type \in {"success", "error"}
  /\ app.pc = "getOutput" => app.context \in Invokes

\* The inferences move through the command socket, svc and the output pipe in
\* the order of the Invoke() calls.
ArgsInOrder ==
  /\ \A k, l \in DOMAIN cmd :
        k < l /\ IsInvoke(cmd[k]) /\ IsInvoke(cmd[l]) => cmd[k].arg < cmd[l].arg
  /\ \A k \in DOMAIN cmd : IsInvoke(cmd[k]) =>
        /\ Busy => svc.arg < cmd[k].arg
        /\ \A j \in DOMAIN outputs : outputs[j].arg < cmd[k].arg
  /\ \A j, l \in DOMAIN outputs : j < l => outputs[j].arg < outputs[l].arg
  /\ \A j \in DOMAIN outputs :
        /\ outputs[j].arg <= invoked
        /\ Busy => outputs[j].arg <= svc.arg
        /\ Owning => outputs[j].arg < svc.arg

\* So do their events.
EventsInOrder ==
  /\ \A j, l \in DOMAIN events : j < l => events[j].context < events[l].context
  /\ \A j \in DOMAIN events :
        /\ events[j].context <= invoked
        /\ Busy => events[j].context < svc.arg
        /\ app.pc = "getOutput" => app.context < events[j].context
        /\ \A k \in DOMAIN cmd : IsInvoke(cmd[k]) => events[j].context < cmd[k].arg
  /\ app.pc = "getOutput" =>
        /\ app.context <= invoked
        /\ Busy => app.context < svc.arg
        /\ \A k \in DOMAIN cmd : IsInvoke(cmd[k]) => app.context < cmd[k].arg

\* Somebody refers to the CommandData of Invoke() number i.
Held(i) ==
  \/ \E k \in DOMAIN cmd : IsInvoke(cmd[k]) /\ cmd[k].arg = i
  \/ \E k \in DOMAIN outputs : outputs[k].arg = i
  \/ Owning /\ svc.arg = i

\* What is referred to is allocated, and what is allocated is referred to or was
\* forgotten by CommandInvokeHandler.
HeapOK ==
  \A i \in Invokes :
    /\ heap[i] = "unused" <=> i > invoked
    /\ Held(i) => heap[i] = "live"
    /\ heap[i] = "live" => Held(i) \/ "memory" \in faults \/ "getOutput" \in faults

\* The output of inference i is in the pipe.
Queued(i) == \E k \in DOMAIN outputs : outputs[k].arg = i

\* A success that was announced, or that svc is about to announce, has its output.
AnnouncedQueued ==
  /\ \A j \in DOMAIN events : events[j].type = "success" => Queued(events[j].context)
  /\ app.pc = "getOutput" => Queued(app.context)
  /\ svc.pc = "queued" /\ svc.type = "success" => Queued(svc.arg)

\* Inference i is announced, or svc is about to announce it.
Awaited(i) ==
  \/ \E j \in DOMAIN events : events[j].type = "success" /\ events[j].context = i
  \/ app.pc = "getOutput" /\ app.context = i
  \/ svc.pc = "queued" /\ svc.type = "success" /\ svc.arg = i

\* Until an inference of the module or an event fails, the module's output is
\* the one of the inference svc works on, and each output in the pipe is of the
\* inference it came with, which somebody will take.
OutputsInStep ==
  "invoke" \notin faults /\ "publish" \notin faults =>
    /\ svc.pc = "invoked" => output = svc.arg /\ svc.type = "success"
    /\ \A k \in DOMAIN outputs :
          outputs[k].output = outputs[k].arg /\ Awaited(outputs[k].arg)
    /\ \A k \in DOMAIN delivered :
          delivered[k].type = "success" => delivered[k].output = delivered[k].context

\* The number of events published.
Published == Len(delivered) + (IF app.pc = "getOutput" THEN 1 ELSE 0) + Len(events)

\* Inference n is not published before n - 1 others were accepted.
CountOK ==
  /\ Published <= invoked
  /\ Busy => Published < svc.arg
  /\ \A k \in DOMAIN cmd : IsInvoke(cmd[k]) => Published < cmd[k].arg

\* svc works on a synchronous command.
Serving == svc.pc = "command" /\ svc.id \in SyncIds

\* Until a signal interrupts a call, a synchronous command is in one place: it is
\* the last in the socket, or with svc, or it is the only answer; and it is the
\* one of the call that waits.
OneCall ==
  "interrupted" \notin faults =>
    /\ app.pc # "waiting" =>
         /\ reply = <<>> /\ ~Serving
         /\ \A k \in DOMAIN cmd : cmd[k].id \notin SyncIds
         /\ app.id # "IdInvoke" => svc.pc = "idle" /\ cmd = <<>>
    /\ app.pc = "waiting" => app.id \in SyncIds
    /\ reply # <<>> => /\ reply = <<[id |-> app.id, arg |-> app.call]>>
                       /\ svc.pc = "idle" /\ cmd = <<>>
    /\ Serving => svc.arg = app.call /\ svc.id = app.id /\ cmd = <<>>
    /\ \A k \in DOMAIN cmd : cmd[k].id \in SyncIds =>
         k = Len(cmd) /\ cmd[k] = [id |-> app.id, arg |-> app.call]
    /\ app.pc = "destroyed" => svc.pc = "idle" /\ cmd = <<>>

AsyncInv ==
  /\ TypeOK /\ CommandsOK /\ ArgsInOrder /\ EventsInOrder /\ HeapOK
  /\ AnnouncedQueued /\ OutputsInStep /\ CountOK /\ OneCall

-----------------------------------------------------------------------------
(* What a write to a pipe and a read from it do to its contents.           *)

Grown(s, t, e) ==
  /\ Len(t) = Len(s) + 1
  /\ Len(t) \in DOMAIN t /\ t[Len(t)] = e
  /\ \A k \in DOMAIN s : k \in DOMAIN t /\ k \in Nat /\ k < Len(t) /\ t[k] = s[k]
  /\ \A k \in DOMAIN t : k \in DOMAIN s \/ k = Len(t)

Shrunk(s, t) ==
  /\ Len(t) = Len(s) - 1
  /\ 1 \in DOMAIN s
  /\ \A k \in DOMAIN t : k \in Nat /\ 1 < k + 1 /\ k + 1 \in DOMAIN s /\ t[k] = s[k + 1]
  /\ \A k \in DOMAIN s : k = 1 \/ (k - 1 \in DOMAIN t /\ t[k - 1] = s[k])

\* A write to a pipe puts one element behind those that are there.
LEMMA AppendGrows ==
  ASSUME NEW S, NEW s \in Seq(S), NEW e \in S
  PROVE  Append(s, e) \in Seq(S) /\ Grown(s, Append(s, e), e)
<1> DEFINE t == Append(s, e)
<1>1. /\ Len(s) \in Nat /\ DOMAIN s = 1..Len(s)
      /\ t \in Seq(S) /\ Len(t) = Len(s) + 1 /\ DOMAIN t = 1..(Len(s) + 1)
  OBVIOUS
<1>2. t[Len(s) + 1] = e /\ \A k \in 1..Len(s) : t[k] = s[k]
  BY <1>1
<1> HIDE DEF t
<1>3. Grown(s, t, e)
  BY <1>1, <1>2 DEF Grown
<1> QED BY <1>1, <1>3 DEF t

\* A read from a pipe takes the first element and moves the others up.
LEMMA TailShrinks ==
  ASSUME NEW S, NEW s \in Seq(S), s # <<>>
  PROVE  /\ Tail(s) \in Seq(S) /\ Shrunk(s, Tail(s))
         /\ Head(s) = s[1] /\ Head(s) \in S
<1> DEFINE t == Tail(s)
<1>1. /\ Len(s) \in Nat /\ Len(s) > 0 /\ DOMAIN s = 1..Len(s)
      /\ t \in Seq(S) /\ Len(t) = Len(s) - 1 /\ DOMAIN t = 1..(Len(s) - 1)
      /\ Head(s) = s[1] /\ Head(s) \in S
  OBVIOUS
<1>2. \A k \in 1..(Len(s) - 1) : t[k] = s[k + 1]
  BY <1>1
<1> HIDE DEF t
<1>3. ASSUME NEW k \in 1..Len(s), k # 1
      PROVE  k - 1 \in 1..(Len(s) - 1) /\ t[k - 1] = s[k]
  <2>1. k - 1 \in 1..(Len(s) - 1) /\ (k - 1) + 1 = k
    BY <1>1, <1>3
  <2> QED BY <1>2, <2>1
<1>4. \A k \in DOMAIN t : k \in Nat /\ 1 < k + 1 /\ k + 1 \in DOMAIN s /\ t[k] = s[k + 1]
  BY <1>1, <1>2
<1>5. Shrunk(s, t)
  BY <1>1, <1>3, <1>4 DEF Shrunk
<1> QED BY <1>1, <1>5 DEF t

Commands   == [id : Ids, arg : Invokes \cup Calls]
OutputData == [arg : Invokes, output : {0} \cup Invokes]
EventData  == [context : Invokes, type : {"success", "error"}]
Results    == [context : Invokes, type : {"success", "error"}, output : {0} \cup Invokes]

\* The numbers that the order of the inferences is about.
LEMMA Numbers ==
  ASSUME TypeOK
  PROVE  /\ Len(cmd) \in Nat /\ Len(outputs) \in Nat /\ Len(events) \in Nat
         /\ Len(delivered) \in Nat /\ invoked \in Nat
         /\ \A k \in DOMAIN cmd : cmd[k] \in Commands /\ cmd[k].arg \in Nat
         /\ \A k \in DOMAIN outputs : outputs[k].arg \in Nat /\ outputs[k].arg \in Invokes
         /\ \A k \in DOMAIN events : events[k].context \in Nat /\ events[k].context \in Invokes
         /\ svc.arg \in Nat /\ app.context \in Nat /\ app.call \in Nat
<1>1. /\ cmd \in Seq(Commands) /\ outputs \in Seq(OutputData) /\ events \in Seq(EventData)
      /\ invoked \in Nat /\ svc.arg \in Nat /\ app.context \in Nat /\ app.call \in Nat
      /\ Len(delivered) \in Nat
  BY ConstAssumption DEF TypeOK, Commands, OutputData, EventData, Invokes, Calls
<1>2. /\ \A c \in Commands : c.arg \in Nat
      /\ \A d \in OutputData : d.arg \in Nat /\ d.arg \in Invokes
      /\ \A e \in EventData : e.context \in Nat /\ e.context \in Invokes
  BY ConstAssumption DEF Commands, OutputData, EventData, Invokes, Calls
<1> HIDE DEF Commands, OutputData, EventData
<1>3. Len(cmd) \in Nat /\ \A k \in DOMAIN cmd : cmd[k] \in Commands
  BY <1>1
<1>4. Len(outputs) \in Nat /\ \A k \in DOMAIN outputs : outputs[k] \in OutputData
  BY <1>1
<1>5. Len(events) \in Nat /\ \A k \in DOMAIN events : events[k] \in EventData
  BY <1>1
<1> QED BY <1>1, <1>2, <1>3, <1>4, <1>5

-----------------------------------------------------------------------------
(* The steps of the application's thread.                                  *)

\* Invoke(): the new inference has the largest number, so it comes last everywhere.
LEMMA InvokeStep == AsyncInv /\ Invoke => AsyncInv'
<1> SUFFICES ASSUME AsyncInv, Invoke PROVE AsyncInv'
  OBVIOUS
<1> USE DEF AsyncInv
<1> DEFINE c == [id |-> "IdInvoke", arg |-> invoked + 1]
<1>1. invoked + 1 \in Invokes
  <2>1. invoked \in 0..MaxInvokes /\ invoked < MaxInvokes
    BY DEF Invoke, TypeOK
  <2>2. MaxInvokes \in Nat
    BY ConstAssumption
  <2> QED BY <2>1, <2>2 DEF Invokes
<1>2. c \in Commands /\ c.id = "IdInvoke" /\ c.arg = invoked + 1 /\ c.id \notin SyncIds
  BY <1>1, ConstAssumption DEF Commands, Ids
<1>3. cmd' \in Seq(Commands)
  BY <1>2, AppendGrows DEF Invoke, TypeOK, Commands
<1>4. Grown(cmd, cmd', c)
  BY <1>2, AppendGrows DEF Invoke, TypeOK, Commands
<1> HIDE DEF c
<1>5. /\ app.pc = "ready" /\ app'.pc = "ready" /\ app'.id = "IdInvoke"
      /\ app'.call = app.call /\ app'.context = app.context
      /\ invoked' = invoked + 1
      /\ heap' = [heap EXCEPT ![invoked + 1] = "live"]
      /\ UNCHANGED <<reply, outputs, events, svc, output, delivered, window, faults>>
  BY DEF Invoke, TypeOK
<1>6a. /\ app' = [app EXCEPT !.id = "IdInvoke"] /\ "IdInvoke" \in Ids
       /\ invoked' \in 0..MaxInvokes
  BY <1>1, ConstAssumption DEF Invoke, TypeOK, Ids, Invokes
<1>6. TypeOK'
  BY <1>1, <1>3, <1>5, <1>6a DEF TypeOK, Commands
<1>7. CommandsOK'
  BY <1>2, <1>4, <1>5, Numbers DEF CommandsOK, Grown
<1>8. ArgsInOrder'
  <2>1. \A k \in DOMAIN cmd : IsInvoke(cmd[k]) => cmd[k].arg < c.arg
    BY <1>2, Numbers DEF CommandsOK, IsInvoke
  <2>2. \A k \in DOMAIN outputs : outputs[k].arg < c.arg /\ outputs[k].arg <= invoked'
    BY <1>2, <1>5, Numbers DEF ArgsInOrder
  <2>3. Busy => svc.arg < c.arg
    BY <1>2, Numbers DEF CommandsOK, Busy
  <2> QED BY <1>4, <1>5, <2>1, <2>2, <2>3 DEF ArgsInOrder, Grown, Busy, Owning, IsInvoke
<1>9. EventsInOrder'
  <2>1. \A k \in DOMAIN events : events[k].context < c.arg /\ events[k].context <= invoked'
    BY <1>2, <1>5, Numbers DEF EventsInOrder
  <2> QED BY <1>4, <1>5, <2>1 DEF EventsInOrder, Grown, Busy, IsInvoke
<1>10. HeapOK'
  <2> SUFFICES ASSUME NEW i \in Invokes
               PROVE  /\ heap'[i] = "unused" <=> i > invoked'
                      /\ Held(i)' => heap'[i] = "live"
                      /\ heap'[i] = "live" => Held(i)' \/ "memory" \in faults'
                                              \/ "getOutput" \in faults'
    BY DEF HeapOK
  <2>1. Held(i)' <=> Held(i) \/ i = invoked + 1
    BY <1>2, <1>4, <1>5 DEF Held, Grown, Owning, IsInvoke
  <2>2. heap'[i] = IF i = invoked + 1 THEN "live" ELSE heap[i]
    BY <1>1, <1>5 DEF TypeOK
  <2>3. i \in Nat /\ invoked \in Nat
    BY Numbers, ConstAssumption DEF Invokes
  <2> QED BY <1>5, <2>1, <2>2, <2>3 DEF HeapOK
<1>11. AnnouncedQueued' /\ OutputsInStep'
  BY <1>5 DEF AnnouncedQueued, Queued, OutputsInStep, Awaited
<1>12. CountOK'
  BY <1>2, <1>4, <1>5, Numbers DEF CountOK, Published, Grown, Busy, IsInvoke
<1>13. OneCall'
  BY <1>2, <1>4, <1>5, Numbers DEF OneCall, Serving, Grown
<1> QED BY <1>6, <1>7, <1>8, <1>9, <1>10, <1>11, <1>12, <1>13

\* A synchronous call: its command is the only one of its kind, and the last.
LEMMA SendCommandStep ==
  ASSUME NEW id \in SyncIds PROVE AsyncInv /\ SendCommand(id) => AsyncInv'
<1> SUFFICES ASSUME AsyncInv, SendCommand(id) PROVE AsyncInv'
  OBVIOUS
<1> USE DEF AsyncInv
<1> DEFINE c == [id |-> id, arg |-> app.call + 1]
<1>1. app.call + 1 \in Calls /\ id # "IdInvoke" /\ id \in Ids
  BY ConstAssumption DEF SendCommand, TypeOK, Calls, Ids
<1>2. c \in Commands /\ c.id = id /\ c.arg = app.call + 1
  BY <1>1 DEF Commands
<1>3. cmd' \in Seq(Commands)
  BY <1>2, AppendGrows DEF SendCommand, TypeOK, Commands
<1>4. Grown(cmd, cmd', c)
  BY <1>2, AppendGrows DEF SendCommand, TypeOK, Commands
<1> HIDE DEF c
<1>5. /\ app.pc = "ready" /\ app' = [app EXCEPT !.pc = "waiting", !.id = id, !.call = @ + 1]
      /\ UNCHANGED <<reply, outputs, events, svc, heap, output, invoked, delivered,
                     window, faults>>
  BY DEF SendCommand
<1>6. app'.pc = "waiting" /\ app'.id = id /\ app'.call = app.call + 1
  BY <1>5 DEF TypeOK
<1>7. TypeOK'
  BY <1>1, <1>3, <1>5 DEF TypeOK, Commands
<1>8. CommandsOK' /\ ArgsInOrder' /\ EventsInOrder'
  BY <1>1, <1>2, <1>4, <1>5, <1>6
     DEF CommandsOK, ArgsInOrder, EventsInOrder, Grown, Busy, Owning, IsInvoke
<1>9. HeapOK'
  BY <1>1, <1>2, <1>4, <1>5 DEF HeapOK, Held, Grown, Owning, IsInvoke
<1>10. AnnouncedQueued' /\ OutputsInStep'
  BY <1>5, <1>6 DEF AnnouncedQueued, Queued, OutputsInStep, Awaited
<1>11. CountOK'
  BY <1>1, <1>2, <1>4, <1>5, <1>6 DEF CountOK, Published, Grown, Busy, IsInvoke
<1>12. OneCall'
  <2>1. cmd'[Len(cmd')] = [id |-> app'.id, arg |-> app'.call]
    BY <1>4, <1>6 DEF Grown, c
  <2> QED BY <1>4, <1>5, <1>6, <2>1 DEF OneCall, Serving, Grown
<1> QED BY <1>7, <1>8, <1>9, <1>10, <1>11, <1>12

\* Send() fails: nothing but the error is left.
LEMMA SendFailsStep == AsyncInv /\ SendFails => AsyncInv'
<1> SUFFICES ASSUME AsyncInv, SendFails PROVE AsyncInv'
  OBVIOUS
<1> USE DEF AsyncInv
<1>1. /\ faults' = faults \cup {"send"}
      /\ UNCHANGED <<cmd, reply, outputs, events, app, svc, heap, output, invoked,
                     delivered, window>>
  BY DEF SendFails, Happens, pipes
<1>2. TypeOK'
  BY <1>1 DEF TypeOK, FaultKind
<1>3. CommandsOK' /\ ArgsInOrder' /\ EventsInOrder' /\ AnnouncedQueued' /\ CountOK'
  BY <1>1 DEF CommandsOK, ArgsInOrder, EventsInOrder, AnnouncedQueued, Queued, CountOK,
              Published, Busy, Owning
<1>4. HeapOK' /\ OutputsInStep' /\ OneCall'
  BY <1>1 DEF HeapOK, Held, Owning, OutputsInStep, Awaited, OneCall, Serving
<1> QED BY <1>2, <1>3, <1>4

\* Recv(): the only answer is read, and svc has nothing left to do.
LEMMA RecvReplyStep == AsyncInv /\ RecvReply => AsyncInv'
<1> SUFFICES ASSUME AsyncInv, RecvReply PROVE AsyncInv'
  OBVIOUS
<1> USE DEF AsyncInv
<1>1. /\ app.pc = "waiting" /\ reply # <<>> /\ reply' = Tail(reply)
      /\ app' = [app EXCEPT !.pc = "ready"]
      /\ UNCHANGED <<cmd, outputs, events, svc, heap, output, invoked, delivered,
                     window, faults>>
  BY DEF RecvReply
<1>2. app'.pc = "ready" /\ app'.id = app.id /\ app'.call = app.call
  BY <1>1 DEF TypeOK
<1>3. reply' \in Seq([id : Ids, arg : Calls])
  BY <1>1, TailShrinks DEF TypeOK
<1>4. TypeOK'
  BY <1>1, <1>3 DEF TypeOK
<1>5. CommandsOK' /\ ArgsInOrder' /\ EventsInOrder' /\ AnnouncedQueued' /\ CountOK'
  BY <1>1, <1>2 DEF CommandsOK, ArgsInOrder, EventsInOrder, AnnouncedQueued, Queued,
                    CountOK, Published, Busy, Owning
<1>6. HeapOK' /\ OutputsInStep'
  BY <1>1, <1>2 DEF HeapOK, Held, Owning, OutputsInStep, Awaited
<1>7. OneCall'
  BY <1>1, <1>2 DEF OneCall, Serving
<1> QED BY <1>4, <1>5, <1>6, <1>7

\* Recv() is interrupted: from here on OneCall promises nothing.
LEMMA RecvInterruptedStep == AsyncInv /\ RecvInterrupted => AsyncInv'
<1> SUFFICES ASSUME AsyncInv, RecvInterrupted PROVE AsyncInv'
  OBVIOUS
<1> USE DEF AsyncInv
<1>1. /\ app.pc = "waiting" /\ app' = [app EXCEPT !.pc = "ready"]
      /\ faults' = faults \cup {"interrupted"}
      /\ UNCHANGED <<cmd, reply, outputs, events, svc, heap, output, invoked,
                     delivered, window>>
  BY DEF RecvInterrupted, Happens, pipes
<1>2. app'.pc = "ready"
  BY <1>1 DEF TypeOK
<1>3. TypeOK'
  BY <1>1 DEF TypeOK, FaultKind
<1>4. CommandsOK' /\ ArgsInOrder' /\ EventsInOrder' /\ AnnouncedQueued' /\ CountOK'
  BY <1>1, <1>2 DEF CommandsOK, ArgsInOrder, EventsInOrder, AnnouncedQueued, Queued,
                    CountOK, Published, Busy, Owning
<1>5. HeapOK' /\ OutputsInStep' /\ OneCall'
  BY <1>1, <1>2 DEF HeapOK, Held, Owning, OutputsInStep, Awaited, OneCall
<1> QED BY <1>3, <1>4, <1>5

\* FetchEventData(): the event read is older than those that stay.
LEMMA FetchEventDataStep == AsyncInv /\ FetchEventData => AsyncInv'
<1> SUFFICES ASSUME AsyncInv, FetchEventData PROVE AsyncInv'
  OBVIOUS
<1> USE DEF AsyncInv
<1> DEFINE e == events[1]
<1>0. events \in Seq(EventData) /\ events # <<>> /\ events' = Tail(events)
  BY DEF FetchEventData, TypeOK, EventData
<1>1. events' \in Seq(EventData) /\ Head(events) = e /\ e \in EventData
  BY <1>0, TailShrinks
<1>2. Shrunk(events, events')
  BY <1>0, TailShrinks
<1>9. \A j, l \in DOMAIN events' : j < l => events'[j].context < events'[l].context
  <2> SUFFICES ASSUME NEW j \in DOMAIN events', NEW l \in DOMAIN events', j < l
               PROVE  events'[j].context < events'[l].context
    OBVIOUS
  <2>1. /\ j + 1 \in DOMAIN events /\ events'[j] = events[j + 1]
        /\ l + 1 \in DOMAIN events /\ events'[l] = events[l + 1]
        /\ j + 1 < l + 1
    BY <1>2 DEF Shrunk
  <2> QED BY <2>1 DEF EventsInOrder
<1>3. /\ e.context \in Invokes /\ e.type \in {"success", "error"}
      /\ 1 \in DOMAIN events
  BY <1>1, <1>2 DEF EventData, Shrunk
<1>4. /\ app.pc = "ready"
      /\ UNCHANGED <<cmd, reply, outputs, svc, heap, output, invoked, window, faults>>
  BY DEF FetchEventData
<1>5. HeapOK'
  BY <1>4 DEF HeapOK, Held, Owning
<1>6. ArgsInOrder'
  BY <1>4 DEF ArgsInOrder, Busy, Owning
<1>7. CASE e.type = "success"
  <2>1. /\ app' = [app EXCEPT !.pc = "getOutput", !.context = e.context]
        /\ delivered' = delivered
    BY <1>1, <1>7 DEF FetchEventData
  <2>2. app'.pc = "getOutput" /\ app'.context = e.context /\ app'.id = app.id
        /\ app'.call = app.call
    BY <2>1 DEF TypeOK
  <2>3. TypeOK'
    BY <1>1, <1>3, <1>4, <2>1 DEF TypeOK, EventData
  <2>4. CommandsOK'
    BY <1>3, <1>4, <2>2 DEF CommandsOK
  <2>5. EventsInOrder'
    BY <1>2, <1>3, <1>4, <1>9, <2>2 DEF EventsInOrder, Shrunk, Busy
  <2>6. AnnouncedQueued'
    BY <1>2, <1>3, <1>4, <1>7, <2>2 DEF AnnouncedQueued, Queued, Shrunk
  <2>7. \A i : Awaited(i) => Awaited(i)'
    BY <1>2, <1>3, <1>4, <1>7, <2>2 DEF Awaited, Shrunk
  <2>8. OutputsInStep'
    BY <1>4, <2>1, <2>7 DEF OutputsInStep
  <2>9. CountOK'
    BY <1>2, <1>4, <2>1, <2>2, Numbers DEF CountOK, Published, Shrunk, Busy
  <2>10. OneCall'
    BY <1>4, <2>2 DEF OneCall, Serving
  <2> QED BY <1>5, <1>6, <2>3, <2>4, <2>5, <2>6, <2>8, <2>9, <2>10
<1>8. CASE e.type # "success"
  <2> DEFINE d == [context |-> e.context, type |-> e.type, output |-> 0]
  <2>1. app' = app /\ delivered' = Append(delivered, d)
    BY <1>1, <1>8 DEF FetchEventData, Deliver
  <2>0. delivered \in Seq(Results) /\ d \in Results
    BY <1>3 DEF Results, TypeOK
  <2>2. delivered' \in Seq(Results) /\ Grown(delivered, delivered', d)
    BY <2>0, <2>1, AppendGrows
  <2>3. TypeOK'
    BY <1>1, <1>3, <1>4, <2>1, <2>2 DEF TypeOK, EventData, Results
  <2>4. CommandsOK'
    BY <1>4, <2>1 DEF CommandsOK
  <2>5. EventsInOrder'
    BY <1>2, <1>4, <1>9, <2>1 DEF EventsInOrder, Shrunk, Busy
  <2>6. AnnouncedQueued'
    BY <1>2, <1>4, <2>1 DEF AnnouncedQueued, Queued, Shrunk
  <2>7. \A i : Awaited(i) => Awaited(i)'
    BY <1>2, <1>4, <1>8, <2>1 DEF Awaited, Shrunk
  <2>8. OutputsInStep'
    BY <1>4, <1>8, <2>2, <2>7 DEF OutputsInStep, Grown
  <2>9. CountOK'
    BY <1>2, <1>4, <2>1, <2>2, Numbers DEF CountOK, Published, Shrunk, Grown, Busy
  <2>10. OneCall'
    BY <1>4, <2>1 DEF OneCall, Serving
  <2> QED BY <1>5, <1>6, <2>3, <2>4, <2>5, <2>6, <2>8, <2>9, <2>10
<1> QED BY <1>7, <1>8

\* GetOutput(): the oldest output is taken, which no later success waits for.
LEMMA GetOutputStep == AsyncInv /\ GetOutput => AsyncInv'
<1> SUFFICES ASSUME AsyncInv, GetOutput PROVE AsyncInv'
  OBVIOUS
<1> USE DEF AsyncInv
<1> DEFINE h == outputs[1]
           d == [context |-> app.context, type |-> "success", output |-> h.output]
<1>1. outputs \in Seq(OutputData) /\ outputs # <<>> /\ outputs' = Tail(outputs)
  BY DEF GetOutput, TypeOK, OutputData
<1>2. outputs' \in Seq(OutputData) /\ Head(outputs) = h /\ h \in OutputData
  BY <1>1, TailShrinks
<1>3. Shrunk(outputs, outputs')
  BY <1>1, TailShrinks
<1>4. 1 \in DOMAIN outputs /\ h.arg \in Invokes /\ h.output \in {0} \cup Invokes
  BY <1>2, <1>3 DEF OutputData, Shrunk
<1>5. /\ app.pc = "getOutput" /\ app' = [app EXCEPT !.pc = "ready"]
      /\ heap' = [heap EXCEPT ![h.arg] = "freed"]
      /\ delivered' = Append(delivered, d)
      /\ UNCHANGED <<cmd, reply, events, svc, output, invoked, window, faults>>
  BY <1>2 DEF GetOutput, Deliver
<1>6. app'.pc = "ready" /\ app'.id = app.id /\ app'.call = app.call
  BY <1>5 DEF TypeOK
<1>7. delivered \in Seq(Results) /\ d \in Results
  BY <1>4, <1>5 DEF Results, TypeOK, CommandsOK
<1>8. delivered' \in Seq(Results) /\ Grown(delivered, delivered', d)
  BY <1>5, <1>7, AppendGrows
<1>9. TypeOK'
  BY <1>2, <1>5, <1>8 DEF TypeOK, OutputData, Results
<1>10. CommandsOK'
  BY <1>5, <1>6 DEF CommandsOK
\* The oldest output is the one with the smallest number.
<1>11. /\ \A k \in DOMAIN outputs' : h.arg < outputs'[k].arg
       /\ \A j, l \in DOMAIN outputs' : j < l => outputs'[j].arg < outputs'[l].arg
  <2>1. ASSUME NEW j \in DOMAIN outputs', NEW l \in DOMAIN outputs', j < l
        PROVE  outputs'[j].arg < outputs'[l].arg
    <3>1. /\ j + 1 \in DOMAIN outputs /\ outputs'[j] = outputs[j + 1]
          /\ l + 1 \in DOMAIN outputs /\ outputs'[l] = outputs[l + 1]
          /\ j + 1 < l + 1
      BY <1>3, <2>1 DEF Shrunk
    <3> QED BY <3>1 DEF ArgsInOrder
  <2>2. \A k \in DOMAIN outputs' : h.arg < outputs'[k].arg
    BY <1>3 DEF Shrunk, ArgsInOrder
  <2> QED BY <2>1, <2>2
<1>12. ArgsInOrder'
  BY <1>3, <1>5, <1>11 DEF ArgsInOrder, Shrunk, Busy, Owning
<1>13. EventsInOrder'
  BY <1>5, <1>6 DEF EventsInOrder, Busy
<1>14. HeapOK'
  <2> SUFFICES ASSUME NEW i \in Invokes
               PROVE  /\ heap'[i] = "unused" <=> i > invoked'
                      /\ Held(i)' => heap'[i] = "live"
                      /\ heap'[i] = "live" => Held(i)' \/ "memory" \in faults'
                                              \/ "getOutput" \in faults'
    BY DEF HeapOK
  <2>1. Held(i)' => Held(i) /\ i # h.arg
    <3>1. \A k \in DOMAIN outputs' : outputs'[k].arg # h.arg
      BY <1>4, <1>11, Numbers
    <3>2. \A k \in DOMAIN cmd : IsInvoke(cmd[k]) => cmd[k].arg # h.arg
      BY <1>4, Numbers DEF ArgsInOrder
    <3>3. Owning => svc.arg # h.arg
      BY <1>4, Numbers DEF ArgsInOrder
    <3> QED BY <1>3, <1>5, <3>1, <3>2, <3>3 DEF Held, Shrunk, Owning
  <2>2. Held(i) /\ i # h.arg => Held(i)'
    BY <1>3, <1>5 DEF Held, Shrunk, Owning, IsInvoke
  <2>3. heap'[i] = IF i = h.arg THEN "freed" ELSE heap[i]
    BY <1>4, <1>5 DEF TypeOK
  <2>4. h.arg <= invoked /\ h.arg \in Nat /\ invoked \in Nat
    BY <1>4, Numbers DEF ArgsInOrder
  <2> QED BY <1>5, <2>1, <2>2, <2>3, <2>4 DEF HeapOK
\* It is not the output of an inference that is announced later.
<1>15. h.arg <= app.context
  <2>1. PICK k \in DOMAIN outputs : outputs[k].arg = app.context
    BY <1>5 DEF AnnouncedQueued, Queued
  <2>2. k = 1 \/ 1 < k
    BY <1>3 DEF Shrunk
  <2> QED BY <1>4, <2>1, <2>2, Numbers DEF ArgsInOrder
<1>16. \A i \in Nat : i > app.context /\ Queued(i) => Queued(i)'
  BY <1>3, <1>4, <1>15, Numbers DEF Queued, Shrunk
<1>17. AnnouncedQueued'
  <2>1. \A j \in DOMAIN events : events[j].context > app.context
    BY <1>5, Numbers DEF EventsInOrder
  <2>2. svc.pc = "queued" => svc.arg > app.context
    BY <1>5, Numbers, ConstAssumption DEF EventsInOrder, Busy, CommandsOK
  <2> QED BY <1>5, <1>6, <1>16, <2>1, <2>2, Numbers DEF AnnouncedQueued
<1>18. OutputsInStep'
  <2> SUFFICES ASSUME "invoke" \notin faults, "publish" \notin faults
               PROVE  OutputsInStep'
    BY <1>5 DEF OutputsInStep
  <2>1. h.output = h.arg /\ Awaited(h.arg)
    BY <1>4 DEF OutputsInStep
  <2>2. h.arg = app.context
    <3>1. \A j \in DOMAIN events : events[j].context > app.context
      BY <1>5, Numbers DEF EventsInOrder
    <3>2. svc.pc = "queued" => svc.arg > app.context
      BY <1>5, Numbers, ConstAssumption DEF EventsInOrder, Busy, CommandsOK
    <3> QED BY <1>4, <1>15, <2>1, <3>1, <3>2, Numbers DEF Awaited
  <2>3. ASSUME NEW k \in DOMAIN outputs'
        PROVE  (outputs[k].output = outputs[k].arg /\ Awaited(outputs[k].arg))'
    <3>1. k + 1 \in DOMAIN outputs /\ outputs'[k] = outputs[k + 1]
      BY <1>3 DEF Shrunk
    <3>2. outputs'[k].arg # app.context
      BY <1>4, <1>11, <2>2, <3>1, Numbers
    <3>3. outputs[k + 1].output = outputs[k + 1].arg /\ Awaited(outputs[k + 1].arg)
      BY <3>1 DEF OutputsInStep
    <3> QED BY <1>5, <1>6, <3>1, <3>2, <3>3 DEF Awaited
  <2>4. \A k \in DOMAIN delivered' : delivered'[k].type = "success" =>
          delivered'[k].output = delivered'[k].context
    BY <1>8, <2>1, <2>2 DEF OutputsInStep, Grown
  <2> QED BY <1>5, <2>3, <2>4 DEF OutputsInStep
<1>19. CountOK'
  BY <1>5, <1>6, <1>8, Numbers DEF CountOK, Published, Grown, Busy
<1>20. OneCall'
  BY <1>5, <1>6 DEF OneCall, Serving
<1> QED BY <1>9, <1>10, <1>12, <1>13, <1>14, <1>17, <1>18, <1>19, <1>20

\* Destroy(): a synchronous call, or the count of the events, shows that svc is done.
LEMMA DestroyStep == AsyncInv /\ Destroy => AsyncInv'
<1> SUFFICES ASSUME AsyncInv, Destroy PROVE AsyncInv'
  OBVIOUS
<1> USE DEF AsyncInv
<1>1. /\ app.pc = "ready" /\ app' = [app EXCEPT !.pc = "destroyed"]
      /\ app.id # "IdInvoke" \/ Len(delivered) = invoked
      /\ UNCHANGED <<cmd, reply, outputs, events, svc, heap, output, invoked,
                     delivered, window, faults>>
  BY DEF Destroy, pipes
<1>2. app'.pc = "destroyed" /\ app'.id = app.id /\ app'.call = app.call
  BY <1>1 DEF TypeOK
<1>3. TypeOK'
  BY <1>1 DEF TypeOK
<1>4. CommandsOK' /\ ArgsInOrder' /\ EventsInOrder' /\ AnnouncedQueued' /\ CountOK'
  BY <1>1, <1>2 DEF CommandsOK, ArgsInOrder, EventsInOrder, AnnouncedQueued, Queued,
                    CountOK, Published, Busy, Owning
<1>5. HeapOK' /\ OutputsInStep'
  BY <1>1, <1>2 DEF HeapOK, Held, Owning, OutputsInStep, Awaited
\* When every inference was reported none is left, in the socket or with svc.
<1>6. Len(delivered) = invoked =>
        ~Busy /\ \A k \in DOMAIN cmd : ~IsInvoke(cmd[k])
  <2>1. Len(delivered) <= Published
    BY Numbers DEF Published
  <2>2. Published \in Nat
    BY Numbers DEF Published
  <2>3. Busy => svc.arg <= invoked /\ Published < svc.arg
    BY Numbers, ConstAssumption DEF CommandsOK, CountOK, Busy
  <2>4. \A k \in DOMAIN cmd : IsInvoke(cmd[k]) =>
          cmd[k].arg <= invoked /\ Published < cmd[k].arg
    BY Numbers, ConstAssumption DEF CommandsOK, CountOK, IsInvoke
  <2> QED BY <2>1, <2>2, <2>3, <2>4, Numbers
<1>7. "interrupted" \notin faults => svc.pc = "idle" /\ cmd = <<>>
  <2> SUFFICES ASSUME "interrupted" \notin faults, Len(delivered) = invoked
               PROVE  svc.pc = "idle" /\ cmd = <<>>
    BY <1>1 DEF OneCall
  <2>1. ~Serving /\ \A k \in DOMAIN cmd : cmd[k].id \notin SyncIds
    BY <1>1 DEF OneCall
  <2>2. svc.pc = "idle"
    BY <1>6, <2>1 DEF CommandsOK, Busy, Serving
  <2>3. DOMAIN cmd = {}
    BY <1>6, <2>1 DEF CommandsOK, IsInvoke
  <2>4. cmd \in Seq(Commands)
    BY DEF TypeOK, Commands
  <2> QED BY <2>2, <2>3, <2>4
<1>8. OneCall'
  BY <1>1, <1>2, <1>7 DEF OneCall, Serving
<1> QED BY <1>3, <1>4, <1>5, <1>8

-----------------------------------------------------------------------------
(* The steps of svc, the thread of the event loop.                         *)

\* Main: the command read is older than those that stay in the socket.
LEMMA MainHandlerStep == AsyncInv /\ MainHandler => AsyncInv'
<1> SUFFICES ASSUME AsyncInv, MainHandler PROVE AsyncInv'
  OBVIOUS
<1> USE DEF AsyncInv
<1> DEFINE c == cmd[1]
<1>1. cmd \in Seq(Commands) /\ cmd # <<>> /\ cmd' = Tail(cmd)
  BY DEF MainHandler, TypeOK, Commands
<1>2. cmd' \in Seq(Commands) /\ Head(cmd) = c /\ c \in Commands
  BY <1>1, TailShrinks
<1>3. Shrunk(cmd, cmd')
  BY <1>1, TailShrinks
<1>4. 1 \in DOMAIN cmd /\ c.id \in Ids /\ c.arg \in Invokes \cup Calls
  BY <1>2, <1>3 DEF Commands, Shrunk
<1>5. /\ svc.pc = "idle" /\ app.pc # "destroyed"
      /\ svc' = [pc |-> "command", id |-> c.id, arg |-> c.arg, type |-> "none"]
      /\ UNCHANGED <<reply, outputs, events, app, heap, output, invoked, delivered,
                     window, faults>>
  BY <1>2 DEF MainHandler
<1>6. svc'.pc = "command" /\ svc'.id = c.id /\ svc'.arg = c.arg
  BY <1>5
<1>7. TypeOK'
  BY <1>2, <1>4, <1>5 DEF TypeOK, Commands
<1>8. CommandsOK'
  BY <1>3, <1>4, <1>5, <1>6 DEF CommandsOK, Shrunk
<1>9. /\ \A k \in DOMAIN cmd' : IsInvoke(c) /\ IsInvoke(cmd'[k]) => c.arg < cmd'[k].arg
      /\ \A k, l \in DOMAIN cmd' : k < l /\ IsInvoke(cmd'[k]) /\ IsInvoke(cmd'[l])
                                    => cmd'[k].arg < cmd'[l].arg
  <2>1. ASSUME NEW k \in DOMAIN cmd', NEW l \in DOMAIN cmd',
               k < l, IsInvoke(cmd'[k]), IsInvoke(cmd'[l])
        PROVE  cmd'[k].arg < cmd'[l].arg
    <3>1. /\ k + 1 \in DOMAIN cmd /\ cmd'[k] = cmd[k + 1]
          /\ l + 1 \in DOMAIN cmd /\ cmd'[l] = cmd[l + 1]
          /\ k + 1 < l + 1
      BY <1>3, <2>1 DEF Shrunk
    <3> QED BY <2>1, <3>1 DEF ArgsInOrder
  <2>2. \A k \in DOMAIN cmd' : IsInvoke(c) /\ IsInvoke(cmd'[k]) => c.arg < cmd'[k].arg
    BY <1>3 DEF Shrunk, ArgsInOrder
  <2> QED BY <2>1, <2>2
<1>10. ArgsInOrder'
  <2>1. IsInvoke(c) => \A j \in DOMAIN outputs : /\ outputs[j].arg < c.arg
                                                 /\ outputs[j].arg <= c.arg
    BY <1>4, Numbers DEF ArgsInOrder
  <2>2. Busy' <=> IsInvoke(c)
    BY <1>6 DEF Busy, IsInvoke
  <2>3. Owning' <=> IsInvoke(c)
    BY <1>6 DEF Owning, IsInvoke
  <2> QED BY <1>3, <1>5, <1>6, <1>9, <2>1, <2>2, <2>3 DEF ArgsInOrder, Shrunk, IsInvoke
<1>11. EventsInOrder'
  BY <1>3, <1>4, <1>5, <1>6 DEF EventsInOrder, Shrunk, Busy, IsInvoke
<1>12. HeapOK'
  <2>1. ASSUME NEW i \in Invokes PROVE Held(i)' <=> Held(i)
    BY <1>3, <1>4, <1>5, <1>6 DEF Held, Shrunk, Owning, IsInvoke
  <2> QED BY <1>5, <2>1 DEF HeapOK
<1>13. AnnouncedQueued' /\ OutputsInStep'
  BY <1>5, <1>6 DEF AnnouncedQueued, Queued, OutputsInStep, Awaited
<1>14. CountOK'
  BY <1>3, <1>4, <1>5, <1>6 DEF CountOK, Published, Shrunk, Busy, IsInvoke
<1>15. OneCall'
  <2> SUFFICES ASSUME "interrupted" \notin faults PROVE OneCall'
    BY <1>5 DEF OneCall
  <2>1. app.pc = "waiting" \/ app.id = "IdInvoke"
    BY <1>1 DEF OneCall
  <2>2. reply = <<>>
    BY <1>1 DEF OneCall
  <2>3. c.id \in SyncIds => c = [id |-> app.id, arg |-> app.call] /\ Len(cmd) = 1
    BY <1>4 DEF OneCall
  <2>4. Len(cmd) = 1 => cmd' = <<>>
    BY <1>1
  <2>5. \A k \in DOMAIN cmd' : cmd'[k].id \in SyncIds =>
          k = Len(cmd') /\ cmd'[k] = [id |-> app.id, arg |-> app.call]
    BY <1>3, Numbers DEF OneCall, Shrunk
  <2>6. app.pc # "waiting" => /\ \A k \in DOMAIN cmd' : cmd'[k].id \notin SyncIds
                              /\ c.id \notin SyncIds
    BY <1>3, <1>4 DEF OneCall, Shrunk
  <2> QED BY <1>5, <1>6, <2>1, <2>2, <2>3, <2>4, <2>5, <2>6 DEF OneCall, Serving
<1> QED BY <1>7, <1>8, <1>10, <1>11, <1>12, <1>13, <1>14, <1>15

\* The handlers of the synchronous commands: the answer replaces the command.
LEMMA CommandHandlerStep == AsyncInv /\ CommandHandler => AsyncInv'
<1> SUFFICES ASSUME AsyncInv, CommandHandler PROVE AsyncInv'
  OBVIOUS
<1> USE DEF AsyncInv
<1> DEFINE r == [id |-> svc.id, arg |-> svc.arg]
<1>1. /\ svc.pc = "command" /\ svc.id # "IdInvoke" /\ svc' = Idle
      /\ \/ reply' = Append(reply, r) /\ faults' = faults
         \/ reply' = reply /\ faults' = faults \cup {"reply"}
      /\ UNCHANGED <<cmd, outputs, events, app, heap, output, invoked, delivered, window>>
  BY DEF CommandHandler, Answer, Happens
<1>2. svc'.pc = "idle"
  BY <1>1 DEF Idle
<1>3. Serving /\ r \in [id : Ids, arg : Calls]
  BY <1>1, ConstAssumption DEF CommandsOK, Serving, Ids
<1>4. reply' \in Seq([id : Ids, arg : Calls])
  <2> DEFINE R == [id : Ids, arg : Calls]
  <2>1. reply \in Seq(R)
    BY DEF TypeOK
  <2> HIDE DEF R, r
  <2> QED BY <1>1, <1>3, <2>1, AppendGrows DEF R
<1>5. svc' \in [pc : {"idle"}, id : Ids, arg : {0}, type : {"none"}]
  BY <1>1 DEF Idle, Ids
<1>6. faults' \subseteq FaultKind
  BY <1>1 DEF TypeOK, FaultKind
<1>7. TypeOK'
  BY <1>1, <1>4, <1>5, <1>6 DEF TypeOK
<1>8. CommandsOK' /\ ArgsInOrder' /\ EventsInOrder' /\ AnnouncedQueued' /\ CountOK'
  BY <1>1, <1>2 DEF CommandsOK, ArgsInOrder, EventsInOrder, AnnouncedQueued, Queued,
                    CountOK, Published, Busy, Owning
<1>9. HeapOK' /\ OutputsInStep'
  BY <1>1, <1>2 DEF HeapOK, Held, Owning, OutputsInStep, Awaited
<1>10. OneCall'
  <2> SUFFICES ASSUME "interrupted" \notin faults' PROVE OneCall'
    BY DEF OneCall
  <2>1. "interrupted" \notin faults
    BY <1>1
  <2>2. /\ reply = <<>> /\ cmd = <<>> /\ app.pc = "waiting"
        /\ svc.arg = app.call /\ svc.id = app.id /\ app.id \in SyncIds
    BY <1>1, <1>3, <2>1 DEF OneCall
  <2>3. reply' = <<>> \/ reply' = <<[id |-> app.id, arg |-> app.call]>>
    BY <1>1, <2>2
  <2> QED BY <1>1, <1>2, <2>2, <2>3 DEF OneCall, Serving
<1> QED BY <1>7, <1>8, <1>9, <1>10

\* CommandInvokeHandler has no memory: "arg" is forgotten, which HeapOK excuses.
LEMMA InvokeNoMemoryStep == AsyncInv /\ InvokeNoMemory => AsyncInv'
<1> SUFFICES ASSUME AsyncInv, InvokeNoMemory PROVE AsyncInv'
  OBVIOUS
<1> USE DEF AsyncInv
<1>1. /\ svc.pc = "command" /\ svc.id = "IdInvoke" /\ svc' = Idle
      /\ faults' = faults \cup {"memory"}
      /\ UNCHANGED <<cmd, reply, outputs, events, app, heap, output, invoked,
                     delivered, window>>
  BY DEF InvokeNoMemory, Happens, pipes
<1>2. svc'.pc = "idle"
  BY <1>1 DEF Idle
<1>3. svc' \in [pc : {"idle"}, id : Ids, arg : {0}, type : {"none"}]
  BY <1>1 DEF Idle, Ids
<1>4. TypeOK'
  BY <1>1, <1>3 DEF TypeOK, FaultKind
<1>5. CommandsOK' /\ ArgsInOrder' /\ EventsInOrder' /\ AnnouncedQueued' /\ CountOK'
  BY <1>1, <1>2 DEF CommandsOK, ArgsInOrder, EventsInOrder, AnnouncedQueued, Queued,
                    CountOK, Published, Busy, Owning
<1>6. HeapOK' /\ OutputsInStep'
  BY <1>1, <1>2 DEF HeapOK, Held, Owning, OutputsInStep, Awaited
<1>7. OneCall'
  BY <1>1, <1>2 DEF OneCall, Serving
<1> QED BY <1>4, <1>5, <1>6, <1>7

\* CommandInvokeHandler, the module's Invoke(): its output is the newest.
LEMMA InvokeModuleStep == AsyncInv /\ InvokeModule => AsyncInv'
<1> SUFFICES ASSUME AsyncInv, InvokeModule PROVE AsyncInv'
  OBVIOUS
<1> USE DEF AsyncInv
<1>1. /\ svc.pc = "command" /\ svc.id = "IdInvoke"
      /\ \/ /\ svc' = [svc EXCEPT !.pc = "invoked", !.type = "success"]
            /\ output' = svc.arg /\ faults' = faults
         \/ /\ svc' = [svc EXCEPT !.pc = "invoked", !.type = "error"]
            /\ output' = output /\ faults' = faults \cup {"invoke"}
      /\ UNCHANGED <<cmd, reply, outputs, events, app, heap, invoked, delivered, window>>
  BY DEF InvokeModule, Happens, pipes
<1>2. /\ svc'.pc = "invoked" /\ svc'.id = "IdInvoke" /\ svc'.arg = svc.arg
      /\ svc'.type \in {"success", "error"}
      /\ svc'.type = "error" => faults' = faults \cup {"invoke"}
      /\ svc'.type = "success" => output' = svc.arg /\ faults' = faults
  BY <1>1 DEF TypeOK
<1>3. svc.arg \in Invokes
  BY <1>1, ConstAssumption DEF CommandsOK, TypeOK, Invokes
<1>4. faults' \subseteq FaultKind /\ output' \in {0} \cup Invokes
  BY <1>1, <1>3 DEF TypeOK, FaultKind
<1>5. TypeOK'
  BY <1>1, <1>4 DEF TypeOK
<1>6. CommandsOK' /\ ArgsInOrder' /\ EventsInOrder' /\ AnnouncedQueued' /\ CountOK'
  BY <1>1, <1>2, ConstAssumption
     DEF CommandsOK, ArgsInOrder, EventsInOrder, AnnouncedQueued, Queued, CountOK,
         Published, Busy, Owning
<1>7. HeapOK'
  BY <1>1, <1>2 DEF HeapOK, Held, Owning
<1>8. OutputsInStep'
  BY <1>1, <1>2 DEF OutputsInStep, Awaited
<1>9. OneCall'
  BY <1>1, <1>2 DEF OneCall, Serving
<1> QED BY <1>5, <1>6, <1>7, <1>8, <1>9

\* CommandInvokeHandler, the module's GetOutput() fails: "arg" is forgotten.
LEMMA GetOutputFailsStep == AsyncInv /\ GetOutputFails => AsyncInv'
<1> SUFFICES ASSUME AsyncInv, GetOutputFails PROVE AsyncInv'
  OBVIOUS
<1> USE DEF AsyncInv
<1>1. /\ svc.pc = "invoked" /\ svc' = [svc EXCEPT !.pc = "queued", !.type = "error"]
      /\ faults' = faults \cup {"getOutput"}
      /\ UNCHANGED <<cmd, reply, outputs, events, app, heap, output, invoked,
                     delivered, window>>
  BY DEF GetOutputFails, Happens, pipes
<1>2. /\ svc'.pc = "queued" /\ svc'.id = svc.id /\ svc'.arg = svc.arg
      /\ svc'.type = "error"
  BY <1>1 DEF TypeOK
<1>3. TypeOK'
  BY <1>1 DEF TypeOK, FaultKind
<1>4. CommandsOK' /\ ArgsInOrder' /\ EventsInOrder' /\ AnnouncedQueued' /\ CountOK'
  BY <1>1, <1>2 DEF CommandsOK, ArgsInOrder, EventsInOrder, AnnouncedQueued, Queued,
                    CountOK, Published, Busy, Owning
<1>5. HeapOK'
  BY <1>1, <1>2 DEF HeapOK, Held, Owning
<1>6. OutputsInStep'
  BY <1>1, <1>2 DEF OutputsInStep, Awaited
<1>7. OneCall'
  BY <1>1, <1>2 DEF OneCall, Serving
<1> QED BY <1>3, <1>4, <1>5, <1>6, <1>7

\* CommandInvokeHandler: "arg" passes from svc to the output pipe.
LEMMA QueueOutputStep == AsyncInv /\ QueueOutput => AsyncInv'
<1> SUFFICES ASSUME AsyncInv, QueueOutput PROVE AsyncInv'
  OBVIOUS
<1> USE DEF AsyncInv
<1> DEFINE d == [arg |-> svc.arg, output |-> output]
<1>1. /\ svc.pc = "invoked" /\ svc' = [svc EXCEPT !.pc = "queued"]
      /\ outputs' = Append(outputs, d)
      /\ UNCHANGED <<cmd, reply, events, app, heap, output, invoked, delivered,
                     window, faults>>
  BY DEF QueueOutput
<1>2. /\ svc'.pc = "queued" /\ svc'.id = svc.id /\ svc'.arg = svc.arg
      /\ svc'.type = svc.type
  BY <1>1 DEF TypeOK
<1>3. svc.id = "IdInvoke" /\ svc.arg \in Invokes /\ svc.arg <= invoked
  BY <1>1, ConstAssumption DEF CommandsOK, TypeOK, Invokes
<1>4. outputs \in Seq(OutputData) /\ d \in OutputData
  BY <1>3 DEF OutputData, TypeOK
<1>5. outputs' \in Seq(OutputData) /\ Grown(outputs, outputs', d)
  BY <1>1, <1>4, AppendGrows
<1>6. d.arg = svc.arg /\ d.output = output
  OBVIOUS
<1> HIDE DEF d
<1>7. TypeOK'
  BY <1>1, <1>5 DEF TypeOK, OutputData
<1>8. CommandsOK' /\ EventsInOrder' /\ CountOK'
  BY <1>1, <1>2 DEF CommandsOK, EventsInOrder, CountOK, Published, Busy
<1>9. ArgsInOrder'
  <2>1. \A j \in DOMAIN outputs : outputs[j].arg < d.arg
    BY <1>1, <1>3, <1>6 DEF ArgsInOrder, Owning
  <2>2. \A k \in DOMAIN cmd : IsInvoke(cmd[k]) => d.arg < cmd[k].arg
    BY <1>1, <1>3, <1>6 DEF ArgsInOrder, Busy
  <2>3. \A j \in DOMAIN outputs : outputs[j].arg <= svc.arg
    BY <1>6, <2>1, Numbers
  <2>4. ~Owning' /\ (Busy' <=> Busy) /\ svc.arg <= svc.arg
    BY <1>1, <1>2, Numbers DEF Owning, Busy
  <2> QED BY <1>1, <1>2, <1>3, <1>5, <1>6, <2>1, <2>2, <2>3, <2>4 DEF ArgsInOrder, Grown
<1>10. HeapOK'
  <2>1. ASSUME NEW i \in Invokes PROVE Held(i)' <=> Held(i)
    BY <1>1, <1>2, <1>3, <1>5, <1>6 DEF Held, Grown, Owning
  <2> QED BY <1>1, <2>1 DEF HeapOK
<1>11. AnnouncedQueued'
  BY <1>1, <1>2, <1>5, <1>6 DEF AnnouncedQueued, Queued, Grown
<1>12. OutputsInStep'
  BY <1>1, <1>2, <1>5, <1>6 DEF OutputsInStep, Awaited, Grown
<1>13. OneCall'
  BY <1>1, <1>2 DEF OneCall, Serving
<1> QED BY <1>7, <1>8, <1>9, <1>10, <1>11, <1>12, <1>13

\* CommandInvokeHandler cannot queue the output: svc, the owner, frees "arg".
LEMMA QueueOutputFailsStep == AsyncInv /\ QueueOutputFails => AsyncInv'
<1> SUFFICES ASSUME AsyncInv, QueueOutputFails PROVE AsyncInv'
  OBVIOUS
<1> USE DEF AsyncInv
<1>1. /\ svc.pc = "invoked" /\ svc' = [svc EXCEPT !.pc = "queued", !.type = "error"]
      /\ heap' = [heap EXCEPT ![svc.arg] = "freed"]
      /\ faults' = faults \cup {"output"}
      /\ UNCHANGED <<cmd, reply, outputs, events, app, output, invoked, delivered, window>>
  BY DEF QueueOutputFails, Happens, pipes
<1>2. /\ svc'.pc = "queued" /\ svc'.id = svc.id /\ svc'.arg = svc.arg
      /\ svc'.type = "error"
  BY <1>1 DEF TypeOK
<1>3. svc.id = "IdInvoke" /\ svc.arg \in Invokes /\ svc.arg <= invoked /\ Owning
  BY <1>1, ConstAssumption DEF CommandsOK, TypeOK, Invokes, Owning
<1>4. TypeOK'
  BY <1>1 DEF TypeOK, FaultKind
<1>5. CommandsOK' /\ ArgsInOrder' /\ EventsInOrder' /\ AnnouncedQueued' /\ CountOK'
  BY <1>1, <1>2 DEF CommandsOK, ArgsInOrder, EventsInOrder, AnnouncedQueued, Queued,
                    CountOK, Published, Busy, Owning
<1>6. HeapOK'
  <2> SUFFICES ASSUME NEW i \in Invokes
               PROVE  /\ heap'[i] = "unused" <=> i > invoked'
                      /\ Held(i)' => heap'[i] = "live"
                      /\ heap'[i] = "live" => Held(i)' \/ "memory" \in faults'
                                              \/ "getOutput" \in faults'
    BY DEF HeapOK
  <2>1. Held(i)' => Held(i) /\ i # svc.arg
    <3>1. \A k \in DOMAIN outputs : outputs[k].arg # svc.arg
      BY <1>3, Numbers DEF ArgsInOrder
    <3>2. \A k \in DOMAIN cmd : IsInvoke(cmd[k]) => cmd[k].arg # svc.arg
      BY <1>1, <1>3, Numbers DEF ArgsInOrder, Busy
    <3> QED BY <1>1, <1>2, <3>1, <3>2 DEF Held, Owning
  <2>2. Held(i) /\ i # svc.arg => Held(i)'
    BY <1>1 DEF Held
  <2>3. heap'[i] = IF i = svc.arg THEN "freed" ELSE heap[i]
    BY <1>1, <1>3 DEF TypeOK
  <2> QED BY <1>1, <1>3, <2>1, <2>2, <2>3, Numbers DEF HeapOK
<1>7. OutputsInStep'
  BY <1>1, <1>2 DEF OutputsInStep, Awaited
<1>8. OneCall'
  BY <1>1, <1>2 DEF OneCall, Serving
<1> QED BY <1>4, <1>5, <1>6, <1>7, <1>8

\* PublishEventData(): the event is newer than those published, and its output is
\* in the pipe if it reports a success.
LEMMA PublishEventDataStep == AsyncInv /\ PublishEventData => AsyncInv'
<1> SUFFICES ASSUME AsyncInv, PublishEventData PROVE AsyncInv'
  OBVIOUS
<1> USE DEF AsyncInv
<1> DEFINE e == [context |-> svc.arg, type |-> svc.type]
<1>1. /\ svc.pc = "queued" /\ svc' = Idle
      /\ UNCHANGED <<cmd, reply, outputs, app, heap, output, invoked, delivered, window>>
  BY DEF PublishEventData
<1>2. /\ svc.id = "IdInvoke" /\ svc.arg \in Invokes /\ svc.arg <= invoked
      /\ svc.type \in {"success", "error"} /\ Busy
  BY <1>1, ConstAssumption DEF CommandsOK, TypeOK, Invokes, Busy
<1>3. svc'.pc = "idle"
  BY <1>1 DEF Idle
<1>4. svc' \in [pc : {"idle"}, id : Ids, arg : {0}, type : {"none"}]
  BY <1>1 DEF Idle, Ids
<1>5. CommandsOK' /\ ArgsInOrder'
  BY <1>1, <1>3 DEF CommandsOK, ArgsInOrder, Busy, Owning
<1>6. CASE events' = Append(events, e) /\ faults' = faults
  <2>1. events \in Seq(EventData) /\ e \in EventData
    BY <1>2 DEF EventData, TypeOK
  <2>2. events' \in Seq(EventData) /\ Grown(events, events', e)
    BY <1>6, <2>1, AppendGrows
  <2>3. e.context = svc.arg /\ e.type = svc.type
    OBVIOUS
  <2> HIDE DEF e
  <2>4. TypeOK'
    BY <1>1, <1>4, <1>6, <2>2 DEF TypeOK, EventData
  <2>5. EventsInOrder'
    <3>1. \A j \in DOMAIN events : events[j].context < e.context
      BY <1>2, <2>3 DEF EventsInOrder
    <3>2. app.pc = "getOutput" => app.context < e.context
      BY <1>2, <2>3 DEF EventsInOrder
    <3>3. \A k \in DOMAIN cmd : IsInvoke(cmd[k]) => e.context < cmd[k].arg
      BY <1>2, <2>3 DEF ArgsInOrder
    <3> QED BY <1>1, <1>2, <1>3, <2>2, <2>3, <3>1, <3>2, <3>3 DEF EventsInOrder, Grown, Busy
  <2>6. HeapOK'
    BY <1>1, <1>3, <1>6 DEF HeapOK, Held, Owning
  <2>7. AnnouncedQueued'
    BY <1>1, <1>3, <2>2, <2>3 DEF AnnouncedQueued, Queued, Grown
  <2>8. OutputsInStep'
    BY <1>1, <1>3, <1>6, <2>2, <2>3 DEF OutputsInStep, Awaited, Grown
  <2>9. CountOK'
    <3>1. Published' = Published + 1 /\ Published \in Nat
      <4>1. Len(events') = Len(events) + 1
        BY <2>2 DEF Grown
      <4>2. Published \in Nat
        BY Numbers DEF Published
      <4> DEFINE g == IF app.pc = "getOutput" THEN 1 ELSE 0
      <4>3. /\ Published = Len(delivered) + g + Len(events)
            /\ Published' = Len(delivered) + g + Len(events')
        BY <1>1 DEF Published
      <4>4. g \in Nat
        OBVIOUS
      <4> HIDE DEF g
      <4> QED BY <4>1, <4>2, <4>3, <4>4, Numbers
    <3>2. Published + 1 <= svc.arg
      BY <1>2, <3>1, Numbers DEF CountOK
    <3>3. \A k \in DOMAIN cmd : IsInvoke(cmd[k]) => svc.arg < cmd[k].arg
      BY <1>2 DEF ArgsInOrder
    <3> QED BY <1>1, <1>2, <1>3, <3>1, <3>2, <3>3, Numbers DEF CountOK, Busy
  <2>10. OneCall'
    BY <1>1, <1>3, <1>6 DEF OneCall, Serving
  <2> QED BY <1>5, <2>4, <2>5, <2>6, <2>7, <2>8, <2>9, <2>10
<1>7. CASE events' = events /\ faults' = faults \cup {"publish"}
  <2>1. faults' \subseteq FaultKind
    BY <1>7 DEF TypeOK, FaultKind
  <2>2. TypeOK'
    BY <1>1, <1>4, <1>7, <2>1 DEF TypeOK
  <2>3. EventsInOrder' /\ AnnouncedQueued' /\ CountOK'
    BY <1>1, <1>3, <1>7 DEF EventsInOrder, AnnouncedQueued, Queued, CountOK, Published, Busy
  <2>4. HeapOK' /\ OutputsInStep' /\ OneCall'
    BY <1>1, <1>3, <1>7 DEF HeapOK, Held, Owning, OutputsInStep, OneCall, Serving
  <2> QED BY <1>5, <2>2, <2>3, <2>4
<1> QED BY <1>6, <1>7 DEF PublishEventData, Happens

-----------------------------------------------------------------------------
\* Every step of the application and of svc, successful or not, keeps AsyncInv.
THEOREM AsyncInvariant == Spec => []AsyncInv
<1>1. Init => AsyncInv
  <2> SUFFICES ASSUME Init PROVE AsyncInv
    OBVIOUS
  <2> USE DEF Init, PipesMade, EventPipe, Idle
  <2>1. TypeOK
    BY ConstAssumption DEF TypeOK, Ids, Invokes
  <2>2. CommandsOK /\ ArgsInOrder /\ EventsInOrder /\ AnnouncedQueued /\ OutputsInStep
    BY DEF CommandsOK, ArgsInOrder, EventsInOrder, AnnouncedQueued, OutputsInStep, Busy,
           Owning
  <2>3. HeapOK
    BY ConstAssumption DEF HeapOK, Held, Owning, Invokes
  <2>4. CountOK /\ OneCall
    BY DEF CountOK, Published, Busy, OneCall, Serving
  <2> QED BY <2>1, <2>2, <2>3, <2>4 DEF AsyncInv
<1>2. AsyncInv /\ [Next]_vars => AsyncInv'
  <2> SUFFICES ASSUME AsyncInv, [Next]_vars PROVE AsyncInv'
    OBVIOUS
  <2>1. ASSUME NEW id \in SyncIds, SendCommand(id) PROVE AsyncInv'
    BY <2>1, SendCommandStep
  <2>2. CASE Stop
    BY <2>1, <2>2, ConstAssumption DEF Stop
  <2>3. CASE UNCHANGED vars
    <3> USE <2>3 DEF vars, AsyncInv
    <3>1. TypeOK' /\ CommandsOK' /\ ArgsInOrder' /\ EventsInOrder'
      BY DEF TypeOK, CommandsOK, ArgsInOrder, EventsInOrder, Busy, Owning
    <3>2. HeapOK' /\ AnnouncedQueued' /\ OutputsInStep' /\ CountOK' /\ OneCall'
      BY DEF HeapOK, Held, Owning, AnnouncedQueued, Queued, OutputsInStep, Awaited,
             CountOK, Published, Busy, OneCall, Serving
    <3> QED BY <3>1, <3>2
  <2> QED
    BY <2>1, <2>2, <2>3, InvokeStep, SendFailsStep, RecvReplyStep, RecvInterruptedStep,
       FetchEventDataStep, GetOutputStep, DestroyStep, MainHandlerStep,
       CommandHandlerStep, InvokeNoMemoryStep, InvokeModuleStep, GetOutputFailsStep,
       QueueOutputStep, QueueOutputFailsStep, PublishEventDataStep DEF Next
<1> QED BY <1>1, <1>2, PTL DEF Spec

\* Every variable keeps its type.
THEOREM AsyncTypeCorrect == Spec => []TypeOK
  BY AsyncInvariant, PTL DEF AsyncInv

\* The CommandData of an inference has one owner until it is freed, and an event
\* of success comes after the output it announces.
THEOREM InferenceAccountedHolds == Spec => []InferenceAccounted
<1>1. AsyncInv => InferenceAccounted
  <2> SUFFICES ASSUME AsyncInv PROVE ArgOwnedOnce /\ SuccessHasOutput
    BY DEF InferenceAccounted
  <2> USE DEF AsyncInv
  <2>0. ASSUME NEW i \in Invokes, NEW k \in DOMAIN cmd
        PROVE  cmd[k] = [id |-> "IdInvoke", arg |-> i] <=> IsInvoke(cmd[k]) /\ cmd[k].arg = i
    <3>1. cmd[k] \in Commands
      BY Numbers
    <3> QED BY <3>1 DEF Commands, IsInvoke
  <2>1. ASSUME NEW i \in Invokes, NEW x \in Holders(i), NEW y \in Holders(i)
        PROVE  x = y
    <3>0. /\ \A k \in DOMAIN cmd : k \in Nat
          /\ \A k \in DOMAIN outputs : k \in Nat
      BY DEF TypeOK
    <3>1. ASSUME NEW k \in DOMAIN cmd, NEW l \in DOMAIN cmd,
                 IsInvoke(cmd[k]), cmd[k].arg = i, IsInvoke(cmd[l]), cmd[l].arg = i
          PROVE  k = l
      <4>1. ~(k < l) /\ ~(l < k)
        BY <3>1, Numbers DEF ArgsInOrder
      <4> QED BY <3>0, <4>1
    <3>2. ASSUME NEW k \in DOMAIN outputs, NEW l \in DOMAIN outputs,
                 outputs[k].arg = i, outputs[l].arg = i
          PROVE  k = l
      <4>1. ~(k < l) /\ ~(l < k)
        BY <3>2, Numbers DEF ArgsInOrder
      <4> QED BY <3>0, <4>1
    <3>3. ASSUME NEW k \in DOMAIN cmd, IsInvoke(cmd[k]), cmd[k].arg = i
          PROVE  ~(Owning /\ svc.arg = i) /\ \A j \in DOMAIN outputs : outputs[j].arg # i
      BY <3>3, Numbers DEF ArgsInOrder, Owning, Busy
    <3>4. Owning /\ svc.arg = i => \A j \in DOMAIN outputs : outputs[j].arg # i
      BY Numbers DEF ArgsInOrder
    <3> QED BY <2>0, <2>1, <3>1, <3>2, <3>3, <3>4 DEF Holders, Owning
  <2>2. ASSUME NEW i \in Invokes PROVE Holders(i) # {} <=> Held(i)
    <3>1. ASSUME Held(i) PROVE Holders(i) # {}
      <4>1. ASSUME NEW k \in DOMAIN cmd, IsInvoke(cmd[k]), cmd[k].arg = i
            PROVE  <<"cmd", k>> \in Holders(i)
        BY <2>0, <4>1 DEF Holders
      <4>2. ASSUME NEW k \in DOMAIN outputs, outputs[k].arg = i
            PROVE  <<"outputs", k>> \in Holders(i)
        BY <4>2 DEF Holders
      <4>3. Owning /\ svc.arg = i => <<"svc", 0>> \in Holders(i)
        BY DEF Holders, Owning
      <4> QED BY <3>1, <4>1, <4>2, <4>3 DEF Held
    <3>2. ASSUME NEW x \in Holders(i) PROVE Held(i)
      BY <2>0 DEF Holders, Held, Owning
    <3> QED BY <3>1, <3>2
  <2>3. ArgOwnedOnce
    BY <2>1, <2>2 DEF ArgOwnedOnce, HeapOK
  <2>4. SuccessHasOutput
    BY DEF SuccessHasOutput, Announced, AnnouncedQueued, Queued
  <2> QED BY <2>3, <2>4
<1> QED BY <1>1, AsyncInvariant, PTL

\* Unless the module's Invoke() or the publication of an event failed, a success
\* delivers the output of its own inference.
THEOREM OwnOutputHolds == Spec => []OwnOutputUnlessFailed
<1>1. AsyncInv => OwnOutputUnlessFailed
  BY DEF AsyncInv, OutputsInStep, OwnOutputUnlessFailed, OwnOutput
<1> QED BY <1>1, AsyncInvariant, PTL

\* Without a signal, svc never works on a stack frame that is gone, a call reads
\* its own answer, and svc is done when the object is deleted.
THEOREM FrameOutlivesCommandHolds == Spec => []FrameOutlivesCommand
<1>1. AsyncInv => FrameOutlivesCommand
  BY DEF AsyncInv, OneCall, Serving, FrameOutlivesCommand, ReplyIsForCaller, NoUseAfterDestroy
<1> QED BY <1>1, AsyncInvariant, PTL

-----------------------------------------------------------------------------
(* The refinement of InferenceService.                                     *)

\* Induction over the naturals, as a fact about sets: it follows from the least
\* element of the numbers that are not in T.
LEMMA NatSetInduction ==
  ASSUME NEW T, 0 \in T, \A n \in Nat : n \in T => n + 1 \in T
  PROVE  Nat \subseteq T
<1> DEFINE U == {n \in Nat : n \notin T}
<1>1. SUFFICES ASSUME U # {} PROVE FALSE
  OBVIOUS
<1>2. U \subseteq Nat
  OBVIOUS
<1> HIDE DEF U
<1>3. PICK x \in U : \A y \in U : ~(<<y, x>> \in OpToRel(<, Nat))
  BY <1>1, <1>2, NatLessThanWellFounded, WFMin, Zenon
<1> USE DEF U
<1>4. \A y \in U : ~(y < x)
  BY <1>3 DEF OpToRel
<1>5. x # 0 /\ x - 1 \in Nat /\ x - 1 \notin U
  BY <1>4
<1> QED BY <1>5

\* Appending commutes with concatenation.
Commutes(a, b, x) == Append(a \o b, x) = a \o Append(b, x)

LEMMA AppendConcat ==
  ASSUME NEW S, NEW a \in Seq(S), NEW b \in Seq(S), NEW x \in S
  PROVE  Commutes(a, b, x)
<1> DEFINE l == Append(a \o b, x)
           r == a \o Append(b, x)
<1>1. /\ Len(a) \in Nat /\ Len(b) \in Nat
      /\ l \in Seq(S) /\ r \in Seq(S)
      /\ Len(l) = Len(a) + Len(b) + 1 /\ Len(r) = Len(a) + Len(b) + 1
  OBVIOUS
<1>2. ASSUME NEW i \in 1..Len(l) PROVE l[i] = r[i]
  BY <1>1
<1> HIDE DEF l, r
<1>3. l = r
  BY <1>1, <1>2, SeqEqual
<1> QED BY <1>3 DEF Commutes, l, r

\* One command adds its inference, or nothing, to the inferences before it.
Plus(args, c) == IF c.id = "IdInvoke" THEN Append(args, c.arg) ELSE args

\* ArgsUpTo is the function its recursion describes.
LEMMA ArgsRecursion ==
  ASSUME NEW S, NEW s \in Seq(S)
  PROVE  /\ ArgsUpTo(s)[0] = <<>>
         /\ \A n \in 1..Len(s) : ArgsUpTo(s)[n] = Plus(ArgsUpTo(s)[n - 1], s[n])
<1> DEFINE C(x, n) == IF s[n].id = "IdInvoke" THEN Append(x, s[n].arg) ELSE x
           Rec(g, m) == g = [n \in 0..m |-> IF n = 0 THEN <<>> ELSE C(g[n - 1], n)]
           T == {m \in Nat : \E g : Rec(g, m)}
<1> HIDE DEF C
<1>1. 0 \in T
  <2> DEFINE g == [n \in 0..0 |-> <<>>]
  <2>1. Rec(g, 0)
    OBVIOUS
  <2> QED BY <2>1
<1>2. ASSUME NEW m \in Nat, m \in T PROVE m + 1 \in T
  <2>1. PICK g : Rec(g, m)
    BY <1>2
  <2> DEFINE h == [n \in 0..(m + 1) |-> IF n <= m THEN g[n] ELSE C(g[m], m + 1)]
  <2>2. Rec(h, m + 1)
    BY <2>1
  <2> HIDE DEF h, Rec
  <2> QED BY <2>2
<1>3. Nat \subseteq T
  <2> HIDE DEF T
  <2> QED BY <1>1, <1>2, NatSetInduction
<1>4. Len(s) \in Nat
  OBVIOUS
<1>5. \E g : Rec(g, Len(s))
  BY <1>3, <1>4
<1>6. ArgsUpTo(s) = CHOOSE g : Rec(g, Len(s))
  BY DEF ArgsUpTo, C
<1>7. Rec(ArgsUpTo(s), Len(s))
  BY <1>5, <1>6
<1>8. /\ ArgsUpTo(s)[0] = <<>>
      /\ \A n \in 1..Len(s) : ArgsUpTo(s)[n] = C(ArgsUpTo(s)[n - 1], n)
  BY <1>4, <1>7
<1>9. \A x, n : C(x, n) = Plus(x, s[n])
  BY DEF C, Plus
<1> QED BY <1>8, <1>9

\* A command that is sent comes last.
LEMMA InvokeArgsAppend ==
  ASSUME NEW S, NEW s \in Seq(S), NEW c \in S
  PROVE  InvokeArgs(Append(s, c)) = Plus(InvokeArgs(s), c)
<1> DEFINE t == Append(s, c)
           f == ArgsUpTo(s)
           g == ArgsUpTo(t)
           T == {n \in Nat : n <= Len(s) => f[n] = g[n]}
<1>1. /\ Len(s) \in Nat /\ t \in Seq(S) /\ Len(t) = Len(s) + 1
      /\ t[Len(s) + 1] = c /\ \A k \in 1..Len(s) : t[k] = s[k]
  OBVIOUS
<1> HIDE DEF t
<1>2. /\ f[0] = <<>> /\ \A n \in 1..Len(s) : f[n] = Plus(f[n - 1], s[n])
      /\ g[0] = <<>> /\ \A n \in 1..Len(t) : g[n] = Plus(g[n - 1], t[n])
  BY <1>1, ArgsRecursion
<1> HIDE DEF f, g
<1>3. 0 \in T
  BY <1>2
<1>4. ASSUME NEW n \in Nat, n \in T PROVE n + 1 \in T
  <2> SUFFICES ASSUME n + 1 <= Len(s) PROVE f[n + 1] = g[n + 1]
    OBVIOUS
  <2>1. /\ n + 1 \in 1..Len(s) /\ n + 1 \in 1..Len(t) /\ (n + 1) - 1 = n
        /\ f[n] = g[n]
    BY <1>1, <1>4
  <2> QED BY <1>1, <1>2, <2>1
<1>5. Nat \subseteq T
  <2> HIDE DEF T
  <2> QED BY <1>3, <1>4, NatSetInduction
<1>6. f[Len(s)] = g[Len(s)]
  BY <1>1, <1>5
<1>7. g[Len(t)] = Plus(g[Len(s)], c)
  BY <1>1, <1>2
<1> QED BY <1>6, <1>7 DEF InvokeArgs, f, g, t

\* The inferences of a socket are numbers of Invoke() calls.
LEMMA InvokeArgsType ==
  ASSUME NEW s \in Seq(Commands)
  PROVE  InvokeArgs(s) \in Seq(Invokes \cup Calls)
<1> DEFINE A == Invokes \cup Calls
           f == ArgsUpTo(s)
           T == {n \in Nat : n <= Len(s) => f[n] \in Seq(A)}
<1>1. /\ f[0] = <<>> /\ \A n \in 1..Len(s) : f[n] = Plus(f[n - 1], s[n])
  BY ArgsRecursion
<1>2. Len(s) \in Nat /\ \A n \in 1..Len(s) : s[n] \in Commands
  OBVIOUS
<1>3. \A n \in 1..Len(s) : s[n].arg \in A
  BY <1>2 DEF Commands
<1> HIDE DEF f, A
<1>4. 0 \in T
  <2>1. <<>> \in Seq(A)
    OBVIOUS
  <2> QED BY <1>1, <2>1
<1>5. ASSUME NEW n \in Nat, n \in T PROVE n + 1 \in T
  <2> SUFFICES ASSUME n + 1 <= Len(s) PROVE f[n + 1] \in Seq(A)
    OBVIOUS
  <2>1. n + 1 \in 1..Len(s) /\ (n + 1) - 1 = n /\ f[n] \in Seq(A)
    BY <1>2, <1>5
  <2>2. f[n + 1] = Plus(f[n], s[n + 1]) /\ s[n + 1].arg \in A
    BY <1>1, <1>3, <2>1
  <2> QED BY <2>1, <2>2 DEF Plus
<1>6. Nat \subseteq T
  <2> HIDE DEF T
  <2> QED BY <1>4, <1>5, NatSetInduction
<1> QED BY <1>2, <1>6 DEF InvokeArgs, f, A

\* The inference of one command, if it is one.
OneArg(c) == IF c.id = "IdInvoke" THEN <<c.arg>> ELSE <<>>

\* A command that is read was the first.
LEMMA InvokeArgsTail ==
  ASSUME NEW s \in Seq(Commands), s # <<>>
  PROVE  InvokeArgs(s) = OneArg(Head(s)) \o InvokeArgs(Tail(s))
<1> DEFINE A == Invokes \cup Calls
           t == Tail(s)
           h == OneArg(Head(s))
           f == ArgsUpTo(s)
           g == ArgsUpTo(t)
           T == {n \in Nat : n < Len(s) => g[n] \in Seq(A) /\ f[n + 1] = h \o g[n]}
<1>1. /\ Len(s) \in Nat /\ Len(s) > 0 /\ t \in Seq(Commands) /\ Len(t) = Len(s) - 1
      /\ Head(s) = s[1] /\ Head(s) \in Commands
      /\ \A k \in 1..Len(t) : t[k] = s[k + 1] /\ t[k] \in Commands
  OBVIOUS
<1> HIDE DEF t
<1>2. /\ f[0] = <<>> /\ \A n \in 1..Len(s) : f[n] = Plus(f[n - 1], s[n])
      /\ g[0] = <<>> /\ \A n \in 1..Len(t) : g[n] = Plus(g[n - 1], t[n])
  BY <1>1, ArgsRecursion
<1>3. h \in Seq(A)
  <2>1. Head(s).arg \in A
    BY <1>1 DEF Commands
  <2> HIDE DEF A
  <2> QED BY <2>1 DEF OneArg
<1>4. \A k \in 1..Len(t) : t[k].arg \in A
  BY <1>1 DEF Commands
<1> HIDE DEF f, g, A
<1>5. 0 \in T
  <2>1. f[1] = Plus(<<>>, s[1])
    BY <1>1, <1>2
  <2>2. Plus(<<>>, s[1]) = h \o <<>>
    BY <1>1 DEF Plus, OneArg
  <2> HIDE DEF h
  <2>3. <<>> \in Seq(A)
    OBVIOUS
  <2>4. g[0] \in Seq(A) /\ f[0 + 1] = h \o g[0]
    <3>1. 0 + 1 = 1
      OBVIOUS
    <3> QED BY <1>2, <2>1, <2>2, <2>3, <3>1, Zenon
  <2> QED BY <2>4
<1> HIDE DEF h
<1>6. ASSUME NEW n \in Nat, n \in T PROVE n + 1 \in T
  <2> SUFFICES ASSUME n + 1 < Len(s)
               PROVE  g[n + 1] \in Seq(A) /\ f[(n + 1) + 1] = h \o g[n + 1]
    OBVIOUS
  <2>1. /\ n + 1 \in 1..Len(t) /\ (n + 1) - 1 = n
        /\ (n + 1) + 1 \in 1..Len(s) /\ ((n + 1) + 1) - 1 = n + 1
        /\ g[n] \in Seq(A) /\ f[n + 1] = h \o g[n]
    BY <1>1, <1>6
  <2>2. g[n + 1] = Plus(g[n], t[n + 1]) /\ t[n + 1].arg \in A
    BY <1>2, <1>4, <2>1
  <2>3. f[(n + 1) + 1] = Plus(f[n + 1], t[n + 1])
    BY <1>1, <1>2, <2>1
  <2>4. ASSUME NEW y \in A PROVE Append(h \o g[n], y) = h \o Append(g[n], y)
    <3>1. g[n] \in Seq(A)
      BY <2>1
    <3>2. Commutes(h, g[n], y)
      BY <1>3, <3>1, AppendConcat
    <3> QED BY <3>2 DEF Commutes
  <2>5. g[n + 1] \in Seq(A)
    BY <2>1, <2>2 DEF Plus
  <2>6. CASE t[n + 1].id = "IdInvoke"
    BY <2>1, <2>2, <2>3, <2>4, <2>5, <2>6 DEF Plus
  <2>7. CASE t[n + 1].id # "IdInvoke"
    BY <2>1, <2>2, <2>3, <2>5, <2>7 DEF Plus
  <2> QED BY <2>6, <2>7
<1>7. Nat \subseteq T
  <2> HIDE DEF T
  <2> QED BY <1>5, <1>6, NatSetInduction
<1>8. Len(t) \in Nat /\ Len(t) < Len(s) /\ Len(t) + 1 = Len(s)
  BY <1>1
<1>9. f[Len(s)] = h \o g[Len(t)]
  BY <1>7, <1>8
<1> QED BY <1>9 DEF InvokeArgs, f, g, h, t

\* A number in front of a sequence is its head.
LEMMA FrontProperties ==
  ASSUME NEW S, NEW s \in Seq(S), NEW x \in S
  PROVE  /\ <<x>> \o s \in Seq(S) /\ <<x>> \o s # <<>>
         /\ Head(<<x>> \o s) = x /\ Tail(<<x>> \o s) = s
<1> DEFINE t == <<x>> \o s
<1>1. /\ t \in Seq(S) /\ Len(t) = Len(s) + 1 /\ Len(s) \in Nat /\ t[1] = x
      /\ \A k \in 1..Len(s) : t[k + 1] = s[k]
  OBVIOUS
<1> HIDE DEF t
<1>2. t # <<>> /\ Head(t) = x /\ Tail(t) \in Seq(S) /\ Len(Tail(t)) = Len(s)
  BY <1>1
<1>3. \A k \in 1..Len(s) : Tail(t)[k] = s[k]
  BY <1>1, <1>2
<1>4. Tail(t) = s
  BY <1>1, <1>2, <1>3, SeqEqual
<1> QED BY <1>1, <1>2, <1>4 DEF t

\* An element moves from the head of one sequence to the end of the one before it.
Moves(a, b) == Append(a, Head(b)) \o Tail(b) = a \o b

\* FetchEventData() moves an event, and does not change the order.
LEMMA MoveProperties ==
  ASSUME NEW S, NEW a \in Seq(S), NEW b \in Seq(S), b # <<>>
  PROVE  Moves(a, b)
<1> DEFINE x == Head(b)
           c == Tail(b)
           d == Append(a, x)
           l == d \o c
           r == a \o b
<1>1. /\ Len(a) \in Nat /\ Len(b) \in Nat /\ Len(b) > 0 /\ x \in S /\ x = b[1]
      /\ c \in Seq(S) /\ Len(c) = Len(b) - 1
      /\ \A k \in 1..(Len(b) - 1) : c[k] = b[k + 1]
  OBVIOUS
<1> HIDE DEF x, c
<1>2. /\ d \in Seq(S) /\ Len(d) = Len(a) + 1 /\ d[Len(a) + 1] = x
      /\ \A k \in 1..Len(a) : d[k] = a[k]
  BY <1>1
<1> HIDE DEF d
<1>3. /\ l \in Seq(S) /\ r \in Seq(S)
      /\ Len(l) = Len(a) + Len(b) /\ Len(r) = Len(a) + Len(b)
      /\ \A i \in 1..Len(l) : l[i] = IF i <= Len(d) THEN d[i] ELSE c[i - Len(d)]
      /\ \A i \in 1..Len(r) : r[i] = IF i <= Len(a) THEN a[i] ELSE b[i - Len(a)]
  <2>1. /\ l \in Seq(S) /\ Len(l) = Len(d) + Len(c)
        /\ \A i \in 1..(Len(d) + Len(c)) : l[i] = IF i <= Len(d) THEN d[i] ELSE c[i - Len(d)]
    BY <1>1, <1>2, ConcatProperties
  <2>2. /\ r \in Seq(S) /\ Len(r) = Len(a) + Len(b)
        /\ \A i \in 1..(Len(a) + Len(b)) : r[i] = IF i <= Len(a) THEN a[i] ELSE b[i - Len(a)]
    BY ConcatProperties
  <2> HIDE DEF l, r
  <2> QED BY <1>1, <1>2, <2>1, <2>2
<1> HIDE DEF l, r
<1>4. ASSUME NEW i \in 1..Len(l) PROVE l[i] = r[i]
  <2>1. CASE i <= Len(a)
    BY <1>1, <1>2, <1>3, <2>1
  <2>2. CASE i = Len(a) + 1
    BY <1>1, <1>2, <1>3, <2>2
  <2>3. CASE i > Len(a) + 1
    <3>1. /\ i - Len(d) \in 1..(Len(b) - 1) /\ (i - Len(d)) + 1 = i - Len(a)
          /\ ~(i <= Len(a)) /\ ~(i <= Len(d))
      BY <1>1, <1>2, <1>3, <2>3
    <3> QED BY <1>1, <1>3, <3>1
  <2> QED BY <1>1, <1>3, <2>1, <2>2, <2>3
<1>5. l = r
  BY <1>3, <1>4, SeqEqual
<1> QED BY <1>5 DEF Moves, x, c, d, l, r

\* What the application knows of the events it has handled.
Summary(d) == [k \in DOMAIN d |-> [context |-> d[k].context, type |-> d[k].type]]

\* A delivery adds one event to the summary.
LEMMA SummaryAppend ==
  ASSUME NEW d \in Seq(Results), NEW r \in Results
  PROVE  /\ Summary(d) \in Seq(EventData)
         /\ Summary(Append(d, r)) = Append(Summary(d), [context |-> r.context, type |-> r.type])
<1>1. \A s \in Seq(Results) : /\ Summary(s) \in Seq(EventData) /\ Len(Summary(s)) = Len(s)
                              /\ \A k \in 1..Len(s) : Summary(s)[k] =
                                     [context |-> s[k].context, type |-> s[k].type]
  <2> SUFFICES ASSUME NEW s \in Seq(Results)
               PROVE  /\ Summary(s) \in Seq(EventData) /\ Len(Summary(s)) = Len(s)
                      /\ \A k \in 1..Len(s) : Summary(s)[k] =
                             [context |-> s[k].context, type |-> s[k].type]
    OBVIOUS
  <2>1. DOMAIN s = 1..Len(s) /\ Len(s) \in Nat /\ \A k \in 1..Len(s) : s[k] \in Results
    OBVIOUS
  <2>2. \A k \in 1..Len(s) : [context |-> s[k].context, type |-> s[k].type] \in EventData
    BY <2>1 DEF Results, EventData
  <2>3. Summary(s) \in [1..Len(s) -> EventData]
    BY <2>1, <2>2 DEF Summary
  <2>4. Summary(s) \in Seq(EventData)
    BY <2>1, <2>3, SeqDef
  <2> QED BY <2>1, <2>3, <2>4 DEF Summary
<1> DEFINE t == Append(d, r)
           e == [context |-> r.context, type |-> r.type]
           u == Append(Summary(d), e)
<1>2. /\ t \in Seq(Results) /\ Len(d) \in Nat /\ Len(t) = Len(d) + 1 /\ t[Len(d) + 1] = r
      /\ \A k \in 1..Len(d) : t[k] = d[k]
  OBVIOUS
<1>3. e \in EventData
  BY DEF Results, EventData
<1>4. /\ Summary(d) \in Seq(EventData) /\ Len(Summary(d)) = Len(d)
      /\ \A k \in 1..Len(d) : Summary(d)[k] = [context |-> d[k].context, type |-> d[k].type]
  BY <1>1
<1>5. /\ Summary(t) \in Seq(EventData) /\ Len(Summary(t)) = Len(t)
      /\ \A k \in 1..Len(t) : Summary(t)[k] = [context |-> t[k].context, type |-> t[k].type]
  BY <1>1, <1>2
<1>6. e = [context |-> t[Len(d) + 1].context, type |-> t[Len(d) + 1].type]
  BY <1>2
<1> HIDE DEF t, e
<1>7. /\ u \in Seq(EventData) /\ Len(u) = Len(d) + 1 /\ u[Len(d) + 1] = e
      /\ \A k \in 1..Len(d) : u[k] = Summary(d)[k]
  BY <1>3, <1>4
<1> HIDE DEF u
<1>8. ASSUME NEW k \in 1..Len(t) PROVE Summary(t)[k] = u[k]
  <2>1. CASE k = Len(d) + 1
    BY <1>2, <1>5, <1>6, <1>7, <2>1
  <2>2. CASE k \in 1..Len(d)
    BY <1>2, <1>4, <1>5, <1>7, <2>2
  <2> QED BY <1>2, <2>1, <2>2
<1>9. Summary(t) = u
  BY <1>2, <1>5, <1>7, <1>8, SeqEqual
<1> QED BY <1>4, <1>9 DEF t, e, u

\* The inference svc works on, and the success the application has read.
Working == IF svc.pc # "idle" /\ svc.id = "IdInvoke" THEN <<svc.arg>> ELSE <<>>
Taken   == IF app.pc = "getOutput"
             THEN <<[context |-> app.context, type |-> "success"]>> ELSE <<>>
Lossy   == faults \cap {"memory", "publish"} # {}

\* The parts of the mapping, and their types.
LEMMA Mapping ==
  /\ Unreported = Working \o InvokeArgs(cmd)
  /\ Reported = (Summary(delivered) \o Taken) \o events
  /\ Lossy \in BOOLEAN
  /\ Lossy <=> "memory" \in faults \/ "publish" \in faults
<1>1. Unreported = Working \o InvokeArgs(cmd)
  BY DEF Unreported, Working
<1>2. Reported = (Summary(delivered) \o Taken) \o events
  BY DEF Reported, Summary, Taken
<1>3. Lossy \in BOOLEAN /\ (Lossy <=> "memory" \in faults \/ "publish" \in faults)
  BY DEF Lossy
<1> QED BY <1>1, <1>2, <1>3

\* The parts of the mapping are sequences of numbers and of events.
LEMMA MappingTypes ==
  ASSUME TypeOK, CommandsOK
  PROVE  /\ Working \in Seq(Invokes \cup Calls) /\ InvokeArgs(cmd) \in Seq(Invokes \cup Calls)
         /\ Summary(delivered) \in Seq(EventData) /\ Taken \in Seq(EventData)
         /\ events \in Seq(EventData) /\ cmd \in Seq(Commands)
<1>1. /\ cmd \in Seq(Commands) /\ events \in Seq(EventData) /\ delivered \in Seq(Results)
  BY DEF TypeOK, Commands, EventData, Results
<1>2. InvokeArgs(cmd) \in Seq(Invokes \cup Calls)
  BY <1>1, InvokeArgsType
<1>3. Working \in Seq(Invokes \cup Calls)
  <2>1. svc.pc # "idle" => svc.arg \in Invokes \cup Calls
    BY ConstAssumption DEF CommandsOK, TypeOK, Invokes
  <2> DEFINE A == Invokes \cup Calls
  <2> HIDE DEF A
  <2>2. svc.pc # "idle" => svc.arg \in A
    BY <2>1 DEF A
  <2>3. Working \in Seq(A)
    BY <2>2 DEF Working
  <2> QED BY <2>3 DEF A
<1>4. Taken \in Seq(EventData)
  <2> DEFINE e == [context |-> app.context, type |-> "success"]
  <2>1. app.pc = "getOutput" => e \in EventData
    BY DEF CommandsOK, EventData
  <2> HIDE DEF e
  <2>2. Taken = IF app.pc = "getOutput" THEN <<e>> ELSE <<>>
    BY DEF Taken, e
  <2> QED BY <2>1, <2>2
<1>5. Summary(delivered) \in Seq(EventData)
  <2>1. Results # {} => Summary(delivered) \in Seq(EventData)
    BY <1>1, SummaryAppend
  <2>2. Results = {} => Summary(delivered) \in Seq(EventData)
    BY <1>1 DEF Summary
  <2> QED BY <2>1, <2>2
<1> QED BY <1>1, <1>2, <1>3, <1>4, <1>5

\* A step that leaves the parts alone is a stutter of the service.
LEMMA Stutter ==
  ASSUME Working' = Working, cmd' = cmd, delivered' = delivered, Taken' = Taken,
         events' = events, Lossy' <=> Lossy
  PROVE  UNCHANGED Service!vars
<1>1. Unreported' = Unreported
  BY Mapping DEF Unreported, Working
<1>2. Reported' = Reported
  BY DEF Reported, Taken
<1>3. Lossy' = Lossy
  BY Mapping DEF Lossy
<1> QED BY <1>1, <1>2, <1>3 DEF Service!vars, Lossy

\* The steps of the synchronous calls, of a failure that costs no event, and of svc
\* within one inference are stutters of the service.
LEMMA QuietSteps ==
  ASSUME AsyncInv,
         \/ SendFails \/ RecvReply \/ RecvInterrupted \/ Destroy \/ CommandHandler
         \/ InvokeModule \/ GetOutputFails \/ QueueOutput \/ QueueOutputFails
         \/ UNCHANGED vars
  PROVE  UNCHANGED Service!vars
<1> USE DEF AsyncInv
<1>1. UNCHANGED <<cmd, delivered, events>>
  BY DEF SendFails, RecvReply, RecvInterrupted, Destroy, CommandHandler, InvokeModule,
         GetOutputFails, QueueOutput, QueueOutputFails, vars, pipes
<1>2. Working' = Working
  <2>1. CASE SendFails \/ RecvReply \/ RecvInterrupted \/ Destroy \/ UNCHANGED vars
    BY <2>1 DEF SendFails, RecvReply, RecvInterrupted, Destroy, vars, Working
  <2>2. CASE CommandHandler
    BY <2>2 DEF CommandHandler, Idle, Working
  <2>3. CASE InvokeModule \/ GetOutputFails \/ QueueOutput \/ QueueOutputFails
    <3>1. svc.pc # "idle" /\ svc'.pc # "idle" /\ svc'.id = svc.id /\ svc'.arg = svc.arg
      BY <2>3 DEF InvokeModule, GetOutputFails, QueueOutput, QueueOutputFails, TypeOK
    <3> QED BY <3>1 DEF Working
  <2> QED BY <2>1, <2>2, <2>3
<1>3. Taken' = Taken
  <2>1. CASE app' = app
    BY <2>1 DEF Taken
  <2>2. CASE RecvReply \/ RecvInterrupted \/ Destroy
    <3>1. app.pc # "getOutput" /\ app'.pc # "getOutput"
      BY <2>2 DEF RecvReply, RecvInterrupted, Destroy, TypeOK
    <3> QED BY <3>1 DEF Taken
  <2> QED BY <2>1, <2>2 DEF SendFails, CommandHandler, InvokeModule, GetOutputFails,
             QueueOutput, QueueOutputFails, vars
<1>4. Lossy' <=> Lossy
  <2>1. \/ faults' = faults
        \/ \E f \in FaultKind \ {"memory", "publish"} : faults' = faults \cup {f}
    BY DEF SendFails, RecvReply, RecvInterrupted, Destroy, CommandHandler, InvokeModule,
           GetOutputFails, QueueOutput, QueueOutputFails, vars, Happens, FaultKind
  <2> QED BY <2>1, Mapping DEF Lossy
<1> QED BY <1>1, <1>2, <1>3, <1>4, Stutter

\* Every step of the emulator is a step of the service or a stutter.
LEMMA StepsMap == AsyncInv /\ AsyncInv' /\ [Next]_vars => [Service!Next]_(Service!vars)
<1> SUFFICES ASSUME AsyncInv, AsyncInv', [Next]_vars
             PROVE  [Service!Next]_(Service!vars)
  OBVIOUS
<1> DEFINE A == Invokes \cup Calls
<1>1. /\ Working \in Seq(A) /\ InvokeArgs(cmd) \in Seq(A)
      /\ Summary(delivered) \in Seq(EventData) /\ Taken \in Seq(EventData)
      /\ events \in Seq(EventData) /\ cmd \in Seq(Commands)
      /\ delivered \in Seq(Results)
  BY MappingTypes DEF AsyncInv, TypeOK, Results
<1> HIDE DEF A
<1>2. CASE Invoke
  <2> DEFINE c == [id |-> "IdInvoke", arg |-> invoked + 1]
  <2>1. invoked + 1 \in Invokes /\ invoked + 1 \in A
    BY <1>2, ConstAssumption DEF Invoke, AsyncInv, TypeOK, Invokes, A
  <2>2. c \in Commands /\ c.id = "IdInvoke" /\ c.arg = invoked + 1
    BY <2>1 DEF Commands, Ids
  <2>3. /\ cmd' = Append(cmd, c) /\ app'.pc = app.pc /\ app'.context = app.context
        /\ UNCHANGED <<svc, delivered, events, faults>>
    BY <1>2 DEF Invoke, AsyncInv, TypeOK
  <2> HIDE DEF c
  <2>4. InvokeArgs(cmd') = Append(InvokeArgs(cmd), invoked + 1)
    BY <1>1, <2>2, <2>3, InvokeArgsAppend DEF Plus
  <2>5. Commutes(Working, InvokeArgs(cmd), invoked + 1)
    BY <1>1, <2>1, AppendConcat
  <2>6. Unreported' = Append(Unreported, invoked + 1)
    BY <2>3, <2>4, <2>5, Mapping DEF Commutes, Unreported, Working
  <2>7. UNCHANGED <<Reported, Lossy>>
    BY <2>3 DEF Reported, Lossy
  <2>8. Service!Accept(invoked + 1)
    BY <2>6, <2>7 DEF Service!Accept, Lossy
  <2> QED BY <2>1, <2>8 DEF Service!Next
<1>3. ASSUME NEW id \in SyncIds, SendCommand(id) PROVE UNCHANGED Service!vars
  <2> DEFINE c == [id |-> id, arg |-> app.call + 1]
  <2>1. c \in Commands /\ c.id # "IdInvoke"
    BY <1>3, ConstAssumption DEF SendCommand, AsyncInv, TypeOK, Commands, Ids, Calls
  <2>2. /\ cmd' = Append(cmd, c) /\ app.pc = "ready" /\ app'.pc = "waiting"
        /\ UNCHANGED <<svc, delivered, events, faults>>
    BY <1>3 DEF SendCommand, AsyncInv, TypeOK
  <2> HIDE DEF c
  <2>3. InvokeArgs(cmd') = InvokeArgs(cmd)
    BY <1>1, <2>1, <2>2, InvokeArgsAppend DEF Plus
  <2>4. Unreported' = Unreported
    BY <2>2, <2>3 DEF Unreported
  <2>5. UNCHANGED <<Reported, Lossy>>
    BY <2>2 DEF Reported, Lossy
  <2> QED BY <2>4, <2>5 DEF Service!vars, Lossy
<1>4. CASE FetchEventData
  <2> DEFINE e == Head(events)
             s == Summary(delivered)
  <2>1. /\ events # <<>> /\ events' = Tail(events) /\ app.pc = "ready"
        /\ UNCHANGED <<cmd, svc, faults>>
    BY <1>4 DEF FetchEventData
  <2>2. e \in EventData /\ events' \in Seq(EventData)
    BY <1>1, <2>1
  <2>3. Moves(s, events)
    BY <1>1, <2>1, MoveProperties
  <2>4. Reported = s \o events
    BY <1>1, <2>1, Mapping DEF Taken
  <2>5. CASE e.type = "success"
    <3>1. app'.pc = "getOutput" /\ app'.context = e.context /\ delivered' = delivered
      BY <1>4, <2>5 DEF FetchEventData, AsyncInv, TypeOK
    <3>2. [context |-> e.context, type |-> "success"] = e
      BY <2>2, <2>5 DEF EventData
    <3>3. Taken' = <<e>>
      BY <3>1, <3>2 DEF Taken
    <3>4. Reported' = (s \o <<e>>) \o Tail(events)
      BY <2>1, <3>1, <3>3 DEF Reported, Summary, Taken
    <3> HIDE DEF s, e
    <3>5. s \o <<e>> = Append(s, e)
      BY <1>1, <2>2 DEF s
    <3> QED BY <2>1, <2>3, <2>4, <3>4, <3>5 DEF Moves, Unreported, Service!vars, e
  <2>6. CASE e.type # "success"
    <3> DEFINE r == [context |-> e.context, type |-> e.type, output |-> 0]
    <3>1. app' = app /\ delivered' = Append(delivered, r)
      BY <1>4, <2>6 DEF FetchEventData, Deliver
    <3>2. r \in Results /\ [context |-> r.context, type |-> r.type] = e
      BY <2>2 DEF EventData, Results
    <3>3. Summary(delivered') = Append(s, e)
      BY <1>1, <3>1, <3>2, SummaryAppend
    <3>4. Taken' = <<>>
      BY <2>1, <3>1 DEF Taken
    <3>5. Reported' = (Append(s, e) \o <<>>) \o Tail(events)
      BY <2>1, <3>3, <3>4 DEF Reported, Summary, Taken
    <3> HIDE DEF s, e
    <3>6. Append(s, e) \o <<>> = Append(s, e)
      BY <1>1, <2>2 DEF s
    <3> QED BY <2>1, <2>3, <2>4, <3>5, <3>6 DEF Moves, Unreported, Service!vars, e
  <2> QED BY <2>5, <2>6
<1>5. CASE GetOutput
  <2> DEFINE s == Summary(delivered)
             r == [context |-> app.context, type |-> "success", output |-> Head(outputs).output]
             e == [context |-> app.context, type |-> "success"]
  <2>1. /\ app.pc = "getOutput" /\ app'.pc = "ready" /\ delivered' = Append(delivered, r)
        /\ UNCHANGED <<cmd, svc, events, faults>>
    BY <1>5 DEF GetOutput, Deliver, AsyncInv, TypeOK
  <2>2. outputs \in Seq(OutputData) /\ outputs # <<>>
    BY <1>5 DEF GetOutput, AsyncInv, TypeOK, OutputData
  <2>3. Head(outputs) \in OutputData
    BY <2>2
  <2>4. r \in Results /\ e \in EventData /\ [context |-> r.context, type |-> r.type] = e
    BY <2>1, <2>3 DEF OutputData, Results, EventData, AsyncInv, CommandsOK
  <2> HIDE DEF r
  <2>5. Summary(delivered') = Append(s, e)
    BY <1>1, <2>1, <2>4, SummaryAppend
  <2>6. Reported' = (Append(s, e) \o <<>>) \o events
    BY <2>1, <2>5 DEF Reported, Summary, Taken
  <2>7. Reported = (s \o <<e>>) \o events
    BY <2>1, Mapping DEF Taken
  <2> HIDE DEF s, e
  <2>8. Append(s, e) \o <<>> = Append(s, e) /\ s \o <<e>> = Append(s, e)
    BY <1>1, <2>4 DEF s
  <2> QED BY <2>1, <2>6, <2>7, <2>8 DEF Unreported, Service!vars
<1>6. CASE MainHandler
  <2> DEFINE c == Head(cmd)
  <2>1. /\ cmd # <<>> /\ cmd' = Tail(cmd) /\ svc.pc = "idle"
        /\ svc'.pc = "command" /\ svc'.id = c.id /\ svc'.arg = c.arg
        /\ UNCHANGED <<app, delivered, events, faults>>
    BY <1>6 DEF MainHandler
  <2>2. InvokeArgs(cmd) = OneArg(c) \o InvokeArgs(cmd')
    BY <1>1, <2>1, InvokeArgsTail
  <2>3. Working = <<>> /\ Working' = OneArg(c)
    BY <2>1 DEF Working, OneArg
  <2>4. Unreported = InvokeArgs(cmd)
    BY <1>1, <2>3, Mapping
  <2>5. Unreported' = OneArg(c) \o InvokeArgs(cmd')
    BY <2>3, Mapping DEF Unreported, Working
  <2> QED BY <2>1, <2>2, <2>4, <2>5 DEF Reported, Service!vars
<1>7. CASE InvokeNoMemory \/ PublishEventData
  <2>1. /\ svc.pc # "idle" /\ svc.id = "IdInvoke" /\ svc'.pc = "idle" /\ svc.arg \in A
        /\ UNCHANGED <<cmd, app, delivered>>
    BY <1>7, ConstAssumption
       DEF InvokeNoMemory, PublishEventData, Idle, AsyncInv, CommandsOK, TypeOK, A, Invokes, pipes
  <2>2. Working = <<svc.arg>> /\ Working' = <<>>
    BY <2>1 DEF Working
  <2>3. Unreported = <<svc.arg>> \o InvokeArgs(cmd)
    BY <2>2, Mapping
  <2>4. Unreported' = InvokeArgs(cmd)
    <3>1. Unreported' = <<>> \o InvokeArgs(cmd)
      BY <2>1, <2>2 DEF Unreported, Working
    <3> QED BY <1>1, <3>1
  <2>5. /\ Unreported # <<>> /\ Unreported' = Tail(Unreported)
        /\ Head(Unreported) = svc.arg
    BY <1>1, <2>1, <2>3, <2>4, FrontProperties
  <2>6. CASE events' = events /\ Lossy'
    <3>1. Reported' = Reported
      BY <2>1, <2>6 DEF Reported
    <3>2. Service!Drop
      BY <2>5, <2>6, <3>1 DEF Service!Drop, Lossy
    <3> QED BY <3>2 DEF Service!Next
  <2>7. CASE PublishEventData /\ events' # events
    <3> DEFINE e == [context |-> svc.arg, type |-> svc.type]
               t == Summary(delivered) \o Taken
    <3>1. events' = Append(events, e) /\ faults' = faults
      BY <2>7 DEF PublishEventData
    <3>2. e \in EventData /\ svc.type \in {"success", "error"}
      BY <2>7, ConstAssumption DEF PublishEventData, AsyncInv, CommandsOK, EventData, TypeOK, Invokes
    <3>3. t \in Seq(EventData)
      BY <1>1
    <3>4. Reported = t \o events /\ Reported' = t \o events'
      BY <2>1, Mapping DEF Reported, Summary, Taken
    <3> HIDE DEF t, e
    <3>5. Commutes(t, events, e)
      BY <1>1, <3>2, <3>3, AppendConcat
    <3>6. Reported' = Append(Reported, e)
      BY <3>1, <3>4, <3>5 DEF Commutes
    <3>7. Lossy' = Lossy
      BY <3>1 DEF Lossy
    <3>8. Service!Report(svc.type)
      BY <2>5, <3>6, <3>7 DEF Service!Report, e, Lossy
    <3> QED BY <3>2, <3>8 DEF Service!Next, Service!EventKind
  <2> QED BY <1>7, <2>6, <2>7 DEF InvokeNoMemory, PublishEventData, Happens, Lossy, pipes
<1> QED BY <1>2, <1>3, <1>4, <1>5, <1>6, <1>7, QuietSteps, ConstAssumption DEF Next, Stop

\* The emulator implements the asynchronous service: one event for each accepted
\* inference, in the order of the Invoke() calls, and none is lost but by a failure
\* to allocate or to publish it.
THEOREM ImplementsServiceHolds == Spec => ImplementsService
<1>1. Init => Service!Init
  <2> SUFFICES ASSUME Init PROVE Service!Init
    OBVIOUS
  <2>1. cmd = <<>> /\ delivered = <<>> /\ events = <<>> /\ faults = {}
    BY DEF Init, PipesMade, EventPipe
  <2>2. Working = <<>> /\ Taken = <<>>
    BY DEF Init, Idle, Working, Taken
  <2>3. InvokeArgs(cmd) = <<>>
    <3>1. Len(cmd) = 0 /\ cmd \in Seq(Commands)
      BY <2>1
    <3> QED BY <3>1, ArgsRecursion DEF InvokeArgs
  <2>4. Summary(delivered) = <<>>
    BY <2>1 DEF Summary
  <2> QED BY <2>1, <2>2, <2>3, <2>4, Mapping DEF Service!Init
<1>2. []AsyncInv /\ [][Next]_vars => [][Service!Next]_(Service!vars)
  BY StepsMap, PTL
<1> QED BY <1>1, <1>2, AsyncInvariant, PTL DEF Spec, ImplementsService, Service!Spec
=============================================================================
