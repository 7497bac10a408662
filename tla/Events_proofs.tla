---------------------------- MODULE Events_proofs ----------------------------
(***************************************************************************)
(* Proofs about libbeyond's events: the life cycle of the event loop       *)
(* (EventLoop), the handler objects its thread shares with the application *)
(* (LoopHandlers), and the handlers of an event object (EventObject).  The *)
(* three are proved each on its own; they have their names apart.          *)
(***************************************************************************)
EXTENDS EventLoop, LoopHandlers, EventObject, SequenceTheorems, WellFoundedInduction, TLAPS

-----------------------------------------------------------------------------
(* EventLoop, for any number of application threads and runs and any mix   *)
(* of clients: the types, the exclusion of loop threads, that StopLoop()   *)
(* loses no wake-up, and that a careful client's Destroy() deletes a loop  *)
(* nobody is in.                                                           *)

\* The mask STOP_REQUESTED | STOPPED has one bit, STOPPED being 0x00: the test of
\* StopLoop() recognises STOP_REQUESTED only.
LEMMA StopMask ==
  ASSUME NEW s \in EventLoopState
  PROVE  Masked(s, STOP_REQUESTED + STOPPED) <=> s = STOP_REQUESTED
BY DEF Masked, Bit, EventLoopState, STOPPED, START_REQUESTED, STARTED,
       STOP_REQUESTED

\* Every step keeps the types.
THEOREM TypeCorrect == Spec => []TypeOK
<1> USE ConstAssumption DEF ConstAssumption, Threads, LoopThreads, CallerPC, LoopPC, DestroyPC,
        EventLoopState, STOPPED, START_REQUESTED, STARTED, STOP_REQUESTED
<1>1. Init => TypeOK
  <2> SUFFICES ASSUME Init PROVE TypeOK
    OBVIOUS
  <2>1. pc \in [Threads -> CallerPC \cup LoopPC]
    BY DEF Init
  <2>2. loopCount \in Int /\ timeoutInMS \in Int /\ ctrl \in Nat /\ runs \in 0..MaxRuns
    BY DEF Init
  <2> QED BY <2>1, <2>2 DEF Init, TypeOK
<1>2. TypeOK /\ [Next]_vars => TypeOK'
  <2> SUFFICES ASSUME TypeOK, [Next]_vars PROVE TypeOK'
    OBVIOUS
  <2> USE DEF TypeOK, fixed, runVars, Goto
  <2>1. CASE Call
    <3>1. ASSUME NEW c \in LoopCounts, NEW ms \in Timeouts, RunAccepted(c, ms)
          PROVE  TypeOK'
      BY <3>1 DEF RunAccepted
    <3>2. ASSUME NEW c \in LoopCounts, NEW ms \in Timeouts, RunThreadFails(c, ms)
          PROVE  TypeOK'
      BY <3>2 DEF RunThreadFails
    <3>3. ASSUME NEW t \in Callers, Stop(t) PROVE TypeOK'
      BY <3>3 DEF Stop, StopLoop
    <3>4. ASSUME NEW h \in {"null", "notify", "destroy"}, SetStopHandler(h)
          PROVE  TypeOK'
      BY <3>4 DEF SetStopHandler
    <3>5. CASE Destroy
      BY <3>5 DEF Destroy, DestroyEnter
    <3> QED BY <2>1, <3>1, <3>2, <3>3, <3>4, <3>5 DEF Call
  <2>2. CASE RunReturns
    BY <2>2 DEF RunReturns
  <2>3. ASSUME NEW t \in Callers, StopWrite(t) PROVE TypeOK'
    BY <2>3 DEF StopWrite, StopPush
  <2>4. ASSUME NEW t \in Threads, DestroyStep(t) PROVE TypeOK'
    <3>1. CASE DestroyStop(t)    BY <3>1 DEF DestroyStop, StopLoop
    <3>2. CASE DestroyPush(t)    BY <3>2 DEF DestroyPush, StopPush
    <3>3. CASE DestroyJoin(t)    BY <3>3 DEF DestroyJoin
    <3>4. CASE DestroyDelete(t)  BY <3>4 DEF DestroyDelete
    <3> QED BY <2>4, <3>1, <3>2, <3>3, <3>4 DEF DestroyStep
  <2>5. ASSUME NEW i \in LoopThreads, LoopStep(i) PROVE TypeOK'
    <3>1. CASE LoopStarts(i)       BY <3>1 DEF LoopStarts
    <3>2. CASE LoopCheck(i)        BY <3>2 DEF LoopCheck
    <3>3. CASE CtrlEventHandler(i) BY <3>3 DEF CtrlEventHandler
    <3>4. CASE HandlerStopWrite(i) BY <3>4 DEF HandlerStopWrite, StopPush
    <3>5. CASE LoopLeaves(i)       BY <3>5 DEF LoopLeaves
    <3>6. CASE TakeStopHandler(i)  BY <3>6 DEF TakeStopHandler
    <3>7. CASE StopHandler(i)      BY <3>7 DEF StopHandler, DestroyEnter
    <3> QED BY <2>5, <3>1, <3>2, <3>3, <3>4, <3>5, <3>6, <3>7 DEF LoopStep
  <2>6. ASSUME NEW i \in LoopThreads, LoopEvent(i) PROVE TypeOK'
    <3>1. CASE LoopSetupFails(i) BY <3>1 DEF LoopSetupFails
    <3>2. CASE WaitOther(i)      BY <3>2 DEF WaitOther
    <3>3. CASE WaitTimesOut(i)   BY <3>3 DEF WaitTimesOut
    <3>4. CASE HandlerStops(i)   BY <3>4 DEF HandlerStops, StopLoop
    <3> QED BY <2>6, <3>1, <3>2, <3>3, <3>4 DEF LoopEvent
  <2>7. CASE UNCHANGED vars
    BY <2>7 DEF vars
  <2> QED BY <2>1, <2>2, <2>3, <2>4, <2>5, <2>6, <2>7 DEF Next
<1>3. QED
  BY <1>1, <1>2, PTL DEF Spec

\* At most one thread is ever in the loop, and a stop request always reaches it.
\* StopNotLost needs the rest of LoopInv: that a thread blocked in WaitEpoll()
\* entered through STARTED (so StopLoop() decided to write), and that no other
\* thread consumes the pointer.
THEOREM LoopInvariant == Spec => []LoopInv
<1> USE ConstAssumption DEF ConstAssumption, Threads, LoopThreads, DestroyPC,
        EventLoopState, STOPPED, START_REQUESTED, STARTED, STOP_REQUESTED
<1>1. Init => LoopInv
  BY DEF Init, LoopInv, NotYetRun, StoppedIsEmpty, InLoopState, OneLoopThread,
         StopNotLost, Active
<1>2. TypeOK /\ LoopInv /\ [Next]_vars => LoopInv'
  <2> SUFFICES ASSUME TypeOK, LoopInv, [Next]_vars PROVE LoopInv'
    OBVIOUS
  <2> USE DEF TypeOK, LoopInv, NotYetRun, StoppedIsEmpty, InLoopState,
              OneLoopThread, StopNotLost, Active, Goto, fixed, runVars
  <2>1. CASE Call
    <3>1. ASSUME NEW c \in LoopCounts, NEW ms \in Timeouts, RunAccepted(c, ms)
          PROVE  LoopInv'
      BY <3>1 DEF RunAccepted, MayRun, MayCall
    <3>2. ASSUME NEW c \in LoopCounts, NEW ms \in Timeouts, RunThreadFails(c, ms)
          PROVE  LoopInv'
      BY <3>2 DEF RunThreadFails
    <3>3. ASSUME NEW t \in Callers, Stop(t) PROVE LoopInv'
      BY <3>3, StopMask DEF Stop, StopLoop
    <3>4. ASSUME NEW h \in {"null", "notify", "destroy"}, SetStopHandler(h)
          PROVE  LoopInv'
      BY <3>4 DEF SetStopHandler
    <3>5. CASE Destroy
      BY <3>5 DEF Destroy, DestroyEnter
    <3> QED BY <2>1, <3>1, <3>2, <3>3, <3>4, <3>5 DEF Call
  <2>2. CASE RunReturns
    BY <2>2 DEF RunReturns
  <2>3. ASSUME NEW t \in Callers, StopWrite(t) PROVE LoopInv'
    BY <2>3 DEF StopWrite, StopPush
  <2>4. ASSUME NEW t \in Threads, DestroyStep(t) PROVE LoopInv'
    <3>1. CASE DestroyStop(t)    BY <3>1, StopMask DEF DestroyStop, StopLoop
    <3>2. CASE DestroyPush(t)    BY <3>2 DEF DestroyPush, StopPush
    <3>3. CASE DestroyJoin(t)    BY <3>3 DEF DestroyJoin
    <3>4. CASE DestroyDelete(t)  BY <3>4 DEF DestroyDelete
    <3> QED BY <2>4, <3>1, <3>2, <3>3, <3>4 DEF DestroyStep
  <2>5. ASSUME NEW i \in LoopThreads, LoopStep(i) PROVE LoopInv'
    <3>1. CASE LoopStarts(i)       BY <3>1 DEF LoopStarts
    <3>2. CASE LoopCheck(i)        BY <3>2 DEF LoopCheck
    <3>3. CASE CtrlEventHandler(i) BY <3>3 DEF CtrlEventHandler
    <3>4. CASE HandlerStopWrite(i) BY <3>4 DEF HandlerStopWrite, StopPush
    <3>5. CASE LoopLeaves(i)       BY <3>5 DEF LoopLeaves
    <3>6. CASE TakeStopHandler(i)  BY <3>6 DEF TakeStopHandler
    <3>7. CASE StopHandler(i)      BY <3>7 DEF StopHandler, DestroyEnter
    <3> QED BY <2>5, <3>1, <3>2, <3>3, <3>4, <3>5, <3>6, <3>7 DEF LoopStep
  <2>6. ASSUME NEW i \in LoopThreads, LoopEvent(i) PROVE LoopInv'
    <3>1. CASE LoopSetupFails(i) BY <3>1 DEF LoopSetupFails
    <3>2. CASE WaitOther(i)      BY <3>2 DEF WaitOther
    <3>3. CASE WaitTimesOut(i)   BY <3>3 DEF WaitTimesOut
    <3>4. CASE HandlerStops(i)   BY <3>4, StopMask DEF HandlerStops, StopLoop
    <3> QED BY <2>6, <3>1, <3>2, <3>3, <3>4 DEF LoopEvent
  <2>7. CASE UNCHANGED vars
    BY <2>7 DEF vars
  <2> QED BY <2>1, <2>2, <2>3, <2>4, <2>5, <2>6, <2>7 DEF Next
<1>3. QED
  BY <1>1, <1>2, TypeCorrect, PTL DEF Spec

\* At most one loop thread at a time is in WaitEpoll() and in charge of loopCount.
THEOREM OneLoopThreadHolds == Spec => []OneLoopThread
  BY LoopInvariant, PTL DEF LoopInv

\* A blocked loop thread whose loop has been stopped has its wake-up coming.
THEOREM StopNotLostHolds == Spec => []StopNotLost
  BY LoopInvariant, PTL DEF LoopInv

\* With a careful client, one that lets a loop thread finish before it runs the
\* loop again and ends with Destroy(), Destroy() deletes a loop nobody is in.
THEOREM CarefulInvariant == Spec => []CarefulInv
<1> USE ConstAssumption DEF ConstAssumption, Threads, LoopThreads, DestroyPC,
        CallerPC, LoopPC, EventLoopState, STOPPED, START_REQUESTED, STARTED,
        STOP_REQUESTED
<1>1. Init => CarefulInv
  BY DEF Init, CarefulInv, LastCallIsDestroy, OldThreadsGone, LeavingState,
         ArmedStays, OnlyMainDeletes, DeletedAfterAll, Quiet, Armed, Gone
<1>2. TypeOK /\ LoopInv /\ CarefulInv /\ [Next]_vars => CarefulInv'
  <2>0. [Next]_vars => client' = client
    BY DEF Next, Call, RunAccepted, RunThreadFails, Stop, SetStopHandler,
           Destroy, RunReturns, StopWrite, DestroyStep, DestroyStop,
           DestroyPush, DestroyJoin, DestroyDelete, LoopStep, LoopEvent,
           LoopStarts, LoopCheck, CtrlEventHandler, HandlerStopWrite,
           LoopLeaves, TakeStopHandler, StopHandler, LoopSetupFails,
           WaitOther, WaitTimesOut, HandlerStops, fixed, vars
  <2> SUFFICES ASSUME TypeOK, LoopInv, CarefulInv, [Next]_vars,
                      client = "careful", client' = client
               PROVE  CarefulInv'
    BY <2>0 DEF CarefulInv
  <2> USE DEF TypeOK, LoopInv, NotYetRun, StoppedIsEmpty, InLoopState,
              OneLoopThread, Active, CarefulInv, LastCallIsDestroy,
              OldThreadsGone, LeavingState, ArmedStays, OnlyMainDeletes,
              DeletedAfterAll, Quiet, Armed, Gone, Goto, fixed, runVars
  <2>1. CASE Call
    <3>1. ASSUME NEW c \in LoopCounts, NEW ms \in Timeouts, RunAccepted(c, ms)
          PROVE  CarefulInv'
      <4>1. \A i \in LoopThreads : i <= runs => pc[i] = "exited"
        BY <3>1 DEF RunAccepted, MayRun, OldThreadsGone, NotYetRun
      <4>2. /\ runs + 1 \in LoopThreads /\ runs + 1 # Main
            /\ \A t \in Threads \ {Main, runs + 1} : pc'[t] = pc[t]
            /\ pc'[runs + 1] = "setup"
            /\ pc'[Main] = IF enable_thread THEN "idle" ELSE "inRun"
        BY <3>1 DEF RunAccepted
      <4>3. LastCallIsDestroy' /\ ArmedStays' /\ OnlyMainDeletes'
        BY <3>1, <4>1, <4>2 DEF RunAccepted, MayRun, MayCall
      <4>4. OldThreadsGone' /\ LeavingState' /\ DeletedAfterAll'
        BY <3>1, <4>1, <4>2 DEF RunAccepted, MayRun, MayCall
      <4> QED BY <4>3, <4>4
    <3>2. ASSUME NEW c \in LoopCounts, NEW ms \in Timeouts, RunThreadFails(c, ms)
          PROVE  CarefulInv'
      BY <3>2 DEF RunThreadFails, MayRun, MayCall
    <3>3. ASSUME NEW t \in Callers, Stop(t) PROVE CarefulInv'
      BY <3>3, StopMask DEF Stop, StopLoop, MayCall
    <3>4. ASSUME NEW h \in {"null", "notify", "destroy"}, SetStopHandler(h)
          PROVE  CarefulInv'
      BY <3>4 DEF SetStopHandler, MayCall
    <3>5. CASE Destroy
      BY <3>5 DEF Destroy, DestroyEnter
    <3> QED BY <2>1, <3>1, <3>2, <3>3, <3>4, <3>5 DEF Call
  <2>2. CASE RunReturns
    BY <2>2 DEF RunReturns
  <2>3. ASSUME NEW t \in Callers, StopWrite(t) PROVE CarefulInv'
    BY <2>3 DEF StopWrite, StopPush
  <2>4. ASSUME NEW t \in Threads, DestroyStep(t) PROVE CarefulInv'
    <3>1. CASE DestroyStop(t)    BY <3>1, StopMask DEF DestroyStop, StopLoop
    <3>2. CASE DestroyPush(t)    BY <3>2 DEF DestroyPush, StopPush
    <3>3. CASE DestroyJoin(t)    BY <3>3 DEF DestroyJoin
    <3>4. CASE DestroyDelete(t)  BY <3>4 DEF DestroyDelete
    <3> QED BY <2>4, <3>1, <3>2, <3>3, <3>4 DEF DestroyStep
  <2>5. ASSUME NEW i \in LoopThreads, LoopStep(i) PROVE CarefulInv'
    <3>1. CASE LoopStarts(i)       BY <3>1 DEF LoopStarts
    <3>2. CASE LoopCheck(i)        BY <3>2 DEF LoopCheck
    <3>3. CASE CtrlEventHandler(i) BY <3>3 DEF CtrlEventHandler
    <3>4. CASE HandlerStopWrite(i) BY <3>4 DEF HandlerStopWrite, StopPush
    <3>5. CASE LoopLeaves(i)       BY <3>5 DEF LoopLeaves
    <3>6. CASE TakeStopHandler(i)  BY <3>6 DEF TakeStopHandler
    <3>7. CASE StopHandler(i)      BY <3>7 DEF StopHandler, DestroyEnter
    <3> QED BY <2>5, <3>1, <3>2, <3>3, <3>4, <3>5, <3>6, <3>7 DEF LoopStep
  <2>6. ASSUME NEW i \in LoopThreads, LoopEvent(i) PROVE CarefulInv'
    <3>1. CASE LoopSetupFails(i) BY <3>1 DEF LoopSetupFails
    <3>2. CASE WaitOther(i)      BY <3>2 DEF WaitOther
    <3>3. CASE WaitTimesOut(i)   BY <3>3 DEF WaitTimesOut
    <3>4. CASE HandlerStops(i)   BY <3>4, StopMask DEF HandlerStops, StopLoop
    <3> QED BY <2>6, <3>1, <3>2, <3>3, <3>4 DEF LoopEvent
  <2>7. CASE UNCHANGED vars
    BY <2>7 DEF vars
  <2> QED BY <2>1, <2>2, <2>3, <2>4, <2>5, <2>6, <2>7 DEF Next
<1>3. QED
  BY <1>1, <1>2, TypeCorrect, LoopInvariant, PTL DEF Spec

\* No thread touches a deleted loop, and the owner knows that it is deleted.
THEOREM NoUseAfterFreeHolds == Spec => []NoUseAfterFree
<1>1. CarefulInv => NoUseAfterFree
  BY DEF CarefulInv, NoUseAfterFree, DeletedIsUnused, DeletedAfterAll,
         LastCallIsDestroy, Quiet, Gone, Inside, Threads, DestroyPC
<1>2. QED
  BY <1>1, CarefulInvariant, PTL

-----------------------------------------------------------------------------
(* LoopHandlers, for any set of handler objects, any number of events in   *)
(* one answer of epoll_pwait() and both kinds of application, the one on   *)
(* the loop's thread and the one on a thread of its own.                   *)
(*                                                                         *)
(* The argument is about who owns an object.  in_use.exchange(true) gives  *)
(* an object to the one that found FALSE, and nobody takes the flag away   *)
(* from a deleted object.  Every other fact of HandlerInv follows an       *)
(* object from the grant of its removal to its deletion.                   *)

\* The steps of WaitEpoll() at which it has won the exchange of in_use for item.
SvcOwns == svc \in {"handler", "load", "mark", "release"}

\* WaitEpoll() is at an item of the batch.
AtItem == SvcOwns \/ svc \in {"remove", "cancel"}

\* The memory of an object, its place in the epoll set and its flags.
ObjectLife ==
  \A h \in Handlers :
    /\ h \in registered => memory[h] = "allocated"
    /\ memory[h] = "freed" => in_use[h] /\ state[h] # "INIT"
    /\ h \in batch \cup removed => memory[h] # "unused"

\* What WaitEpoll() knows of its item, and when there is none.
ItemLife ==
  /\ SvcOwns => in_use[item] /\ memory[item] = "allocated"
  /\ svc = "remove" => ~in_use[item] /\ memory[item] = "allocated"
  /\ svc = "cancel" => memory[item] = "freed"
  /\ AtItem => item \notin batch
  /\ ~AtItem => item = Nobody
  /\ svc = "out" => batch = {}

\* What the application knows of the object it is about.
TargetLife ==
  /\ app # "idle" => memory[target] # "unused" /\ target \notin removed
  /\ app = "setCancel" => memory[target] = "allocated"
  /\ app = "delete" => /\ in_use[target] /\ memory[target] = "allocated"
                       /\ ~(SvcOwns /\ target = item)

\* With two threads, what the loop deletes is what the application has deferred.
TwoThreads ==
  concurrent =>
    /\ \A h \in Handlers : state[h] = "DELETE" => h \in removed
    /\ svc = "load" => opt = "RENEW"
    /\ svc \in {"mark", "remove"} => item \in removed

\* With one thread, an object in use is in the hands of the one that runs, and one
\* whose removal was granted is deleted or on its way to be.
OneThread ==
  ~concurrent =>
    /\ app # "idle" => svc = "out" /\ memory[target] = "allocated"
    /\ app # "defer"
    /\ \A h \in Handlers :
         /\ h \in batch => memory[h] = "allocated"
         /\ in_use[h] /\ memory[h] = "allocated" =>
              \/ SvcOwns /\ h = item
              \/ app = "delete" /\ h = target
         /\ h \in removed =>
              \/ memory[h] = "freed"
              \/ h = item /\ svc \in {"load", "mark", "remove"} /\ state[h] = "DELETE"

HandlerInv ==
  /\ HandlersTypeOK
  /\ ObjectLife
  /\ ItemLife
  /\ TargetLife
  /\ TwoThreads
  /\ OneThread
  /\ CancelReported

\* Every step of the application and of WaitEpoll() keeps the invariant.
THEOREM HandlerInvariant == HandlersSpec => []HandlerInv
<1> USE HandlersAssumption DEF HandlersAssumption, States
<1>1. HandlersInit => HandlerInv
  BY DEF HandlersInit, HandlerInv, HandlersTypeOK, ObjectLife, ItemLife, TargetLife, TwoThreads,
         OneThread, CancelReported, SvcOwns, AtItem
<1>2. HandlerInv /\ [HandlersNext]_handlersVars => HandlerInv'
  <2> SUFFICES ASSUME HandlerInv, [HandlersNext]_handlersVars PROVE HandlerInv'
    OBVIOUS
  <2> USE DEF HandlerInv, HandlersTypeOK, ObjectLife, ItemLife, TargetLife, TwoThreads,
              OneThread, CancelReported, SvcOwns, AtItem, objVars, waitVars, appVars
  <2>1. ASSUME NEW h \in Handlers, AddEventHandler(h) PROVE HandlerInv'
    BY <2>1 DEF AddEventHandler, AddEventHandlerInternal, AppRuns
  <2>2. ASSUME NEW h \in Handlers, RemoveEventHandler(h) PROVE HandlerInv'
    BY <2>2 DEF RemoveEventHandler, AppRuns
  <2>3. CASE SetCancelHandler
    BY <2>3 DEF SetCancelHandler
  <2>4. CASE RemoveExchange
    BY <2>4 DEF RemoveExchange
  <2>5. CASE RemoveDefer
    BY <2>5 DEF RemoveDefer
  <2>6. CASE RemoveDelete
    BY <2>6 DEF RemoveDelete, DeleteObject
  <2>7. CASE EpollWait
    BY <2>7 DEF EpollWait, SvcRuns
  <2>8. ASSUME NEW h \in Handlers, NextItem(h) PROVE HandlerInv'
    BY <2>8 DEF NextItem
  <2>9. ASSUME NEW h \in Handlers, SkipItem(h) PROVE HandlerInv'
    BY <2>9 DEF SkipItem
  <2>10. CASE BatchDone
    BY <2>10 DEF BatchDone
  <2>11. CASE SignalCaught
    BY <2>11 DEF SignalCaught
  <2>12. ASSUME NEW returned \in {"RENEW", "CANCEL"}, NEW self \in BOOLEAN,
                EventHandler(returned, self)
         PROVE  HandlerInv'
    <3>1. CASE self /\ state[item] = "INIT"
      BY <2>12, <3>1 DEF EventHandler
    <3>2. CASE ~(self /\ state[item] = "INIT") /\ UNCHANGED objVars
      BY <2>12, <3>2 DEF EventHandler
    <3>3. ASSUME ~(self /\ state[item] = "INIT"), ~concurrent, NEW h \in Handlers,
                 AddEventHandlerInternal(h)
          PROVE  HandlerInv'
      BY <2>12, <3>3 DEF EventHandler, AddEventHandlerInternal
    <3> QED BY <2>12, <3>1, <3>2, <3>3 DEF EventHandler
  <2>13. CASE LoadState
    BY <2>13 DEF LoadState
  <2>14. CASE MarkDeleted
    BY <2>14 DEF MarkDeleted
  <2>15. CASE RemoveItem
    BY <2>15 DEF RemoveItem, DeleteObject
  <2>16. CASE CancelHandler
    BY <2>16 DEF CancelHandler
  <2>17. CASE ReleaseItem
    BY <2>17 DEF ReleaseItem
  <2>18. ASSUME NEW h \in Handlers, Ready(h) PROVE HandlerInv'
    BY <2>18 DEF Ready
  <2>19. CASE UNCHANGED handlersVars
    BY <2>19 DEF handlersVars
  <2> QED BY <2>1, <2>2, <2>3, <2>4, <2>5, <2>6, <2>7, <2>8, <2>9, <2>10, <2>11, <2>12,
             <2>13, <2>14, <2>15, <2>16, <2>17, <2>18, <2>19 DEF HandlersNext, App, WaitStep
<1>3. QED
  BY <1>1, <1>2, PTL DEF HandlersSpec

\* No object is deleted while WaitEpoll() has it in its hands, on one thread and on
\* two, and on one thread none that is still in the batch or in the application's.
THEOREM NoDanglingHandlerHolds == HandlersSpec => []NoDanglingHandler
<1>1. HandlerInv => NoDanglingHandler
  BY DEF HandlerInv, HandlersTypeOK, ItemLife, OneThread, NoDanglingHandler, ObjectsOutliveUse,
         Touches, SvcOwns
<1>2. QED
  BY <1>1, HandlerInvariant, PTL

\* The objects' fields and the places of the two threads keep their types.
THEOREM HandlersTypeCorrect == HandlersSpec => []HandlersTypeOK
<1>1. HandlerInv => HandlersTypeOK
  BY DEF HandlerInv
<1>2. QED
  BY <1>1, HandlerInvariant, PTL

\* On one thread no event handler is called after its removal was granted.
THEOREM NotCalledAfterRemoveHolds == HandlersSpec => []NotCalledAfterRemove
<1>1. HandlerInv => NotCalledAfterRemove
  BY DEF HandlerInv, HandlersTypeOK, ItemLife, OneThread, NotCalledAfterRemove, SvcOwns
<1>2. QED
  BY <1>1, HandlerInvariant, PTL

\* The cancel handler is told of exactly the objects the loop has disposed of itself.
THEOREM CancelReportedHolds == HandlersSpec => []CancelReported
<1>1. HandlerInv => CancelReported
  BY DEF HandlerInv
<1>2. QED
  BY <1>1, HandlerInvariant, PTL

-----------------------------------------------------------------------------
(* EventObject, for any callbacks and types and any number of additions,   *)
(* removals and events.                                                    *)
(*                                                                         *)
(* The argument follows the iterator.  The entries called are before it,   *)
(* whatever the handlers do to the vector, because erasing only moves      *)
(* entries down (Called).  As long as no entry before it is erased and the *)
(* vector does not move, it also is where the walk believes it to be       *)
(* (OnTrack), and what the event has to go to is ahead of it (Ahead).      *)

\* Only the HandlerData whose function runs is in use, and one that was taken is
\* freed, or will be when its function returns.
InUse ==
  \A n \in 1..Len(info) :
    /\ info[n].in_use <=> n = inside
    /\ n \in taken => info[n].freed \/ (n = inside /\ info[n].is_deleted)

\* A HandlerData has one place in the vector, behind the ones allocated before it.
Ordered == \A p, q \in DOMAIN handlers : p < q => handlers[p] < handlers[q]

\* The entries that were called are before the iterator, or at it while the function
\* runs: so none is called again.
Called ==
  /\ it = 0 => inside = 0 /\ calls = <<>>
  /\ \A p \in DOMAIN handlers, i \in DOMAIN calls :
       handlers[p] = calls[i] => p < it \/ (p = it /\ inside # 0)
  /\ \A i, j \in DOMAIN calls : calls[i] = calls[j] => i = j
  /\ ~wronged

\* As long as the iterator is not astray, it is in the vector or at its end, at the
\* HandlerData whose function runs, and no entry is freed.
OnTrack ==
  /\ \A p \in DOMAIN handlers : ~info[handlers[p]].freed
  /\ it <= Len(handlers) + 1
  /\ inside # 0 => it \in DOMAIN handlers /\ handlers[it] = inside

\* A handler the event has to go to was called, or is ahead of the iterator.
Ahead(n) ==
  \/ \E i \in DOMAIN calls : calls[i] = n
  \/ \E p \in DOMAIN handlers : handlers[p] = n /\ (p > it \/ (p = it /\ inside = 0))

EventsDue ==
  /\ \A n \in due : info[n].type \cap event # {}
  /\ ~astray /\ it # 0 => \A n \in due \ taken : Ahead(n)

EventObjectInv ==
  /\ EventObjectTypeOK
  /\ InUse
  /\ Ordered
  /\ Called
  /\ ~astray => ~moved /\ ~crashed /\ OnTrack
  /\ EventsDue

-----------------------------------------------------------------------------
(* The vector, the records and the place of a handler.                     *)

LEMMA PushBackFacts ==
  ASSUME NEW S, NEW s \in Seq(S), NEW e \in S
  PROVE  /\ Append(s, e) \in Seq(S) /\ Len(Append(s, e)) = Len(s) + 1
         /\ DOMAIN Append(s, e) = DOMAIN s \cup {Len(s) + 1}
         /\ \A i \in DOMAIN s : Append(s, e)[i] = s[i]
         /\ Append(s, e)[Len(s) + 1] = e
OBVIOUS

LEMMA SeqWidens == ASSUME NEW m \in Nat, NEW s \in Seq(1..m) PROVE s \in Seq(1..(m + 1))
<1>1. 1..m \subseteq 1..(m + 1)
  OBVIOUS
<1> QED BY <1>1

\* The sizes and numbers a step computes with.
LEMMA Sizes ==
  ASSUME EventObjectTypeOK
  PROVE  /\ Len(info) \in Nat /\ DOMAIN info = 1..Len(info)
         /\ Len(handlers) \in Nat /\ DOMAIN handlers = 1..Len(handlers)
         /\ Len(calls) \in Nat /\ DOMAIN calls = 1..Len(calls)
         /\ \A p \in DOMAIN handlers : handlers[p] \in 1..Len(info)
         /\ \A i \in DOMAIN calls : calls[i] \in 1..Len(info)
         /\ it \in Nat /\ inside \in 0..Len(info) /\ inside \in Nat
BY DEF EventObjectTypeOK

\* A HandlerData that is written keeps its function and type, and the others stay.
LEMMA Written ==
  ASSUME NEW s \in Seq(HandlerData), NEW n \in DOMAIN s, NEW d \in HandlerData
  PROVE  /\ [s EXCEPT ![n] = d] \in Seq(HandlerData)
         /\ Len([s EXCEPT ![n] = d]) = Len(s)
         /\ [s EXCEPT ![n] = d][n] = d
         /\ \A m \in DOMAIN s : m # n => [s EXCEPT ![n] = d][m] = s[m]
OBVIOUS

\* A sequence without its entry at place p: the ones behind it have moved down by one.
LEMMA Shortened ==
  ASSUME NEW S, NEW s \in Seq(S), NEW p \in 1..Len(s)
  PROVE  LET r == SubSeq(s, 1, p - 1) \o SubSeq(s, p + 1, Len(s))
         IN  /\ r \in Seq(S) /\ Len(r) = Len(s) - 1
             /\ \A q \in 1..(Len(s) - 1) : r[q] = IF q < p THEN s[q] ELSE s[q + 1]
<1> DEFINE a == SubSeq(s, 1, p - 1)
           b == SubSeq(s, p + 1, Len(s))
<1>1. a \in Seq(S) /\ Len(a) = p - 1 /\ \A q \in 1..(p - 1) : a[q] = s[q]
  <2>1. \A q \in 1..(p - 1) : s[q] \in S
    OBVIOUS
  <2>2. /\ a \in Seq(S)
        /\ Len(a) = IF 1 <= p - 1 THEN (p - 1) - 1 + 1 ELSE 0
        /\ \A q \in 1..((p - 1) - 1 + 1) : a[q] = s[1 + q - 1]
    BY <2>1, SubSeqProperties
  <2> QED BY <2>2
<1>2. b \in Seq(S) /\ Len(b) = Len(s) - p /\ \A q \in 1..(Len(s) - p) : b[q] = s[p + q]
  <2>1. \A q \in (p + 1)..Len(s) : s[q] \in S
    OBVIOUS
  <2>2. /\ b \in Seq(S)
        /\ Len(b) = IF p + 1 <= Len(s) THEN Len(s) - (p + 1) + 1 ELSE 0
        /\ \A q \in 1..(Len(s) - (p + 1) + 1) : b[q] = s[(p + 1) + q - 1]
    BY <2>1, SubSeqProperties
  <2> QED BY <2>2
<1> HIDE DEF a, b
<1>3. /\ a \o b \in Seq(S) /\ Len(a \o b) = Len(a) + Len(b)
      /\ \A q \in 1..(Len(a) + Len(b)) : (a \o b)[q] = IF q <= Len(a) THEN a[q] ELSE b[q - Len(a)]
  BY <1>1, <1>2, ConcatProperties
<1>4. ASSUME NEW q \in 1..(Len(s) - 1)
      PROVE  (a \o b)[q] = IF q < p THEN s[q] ELSE s[q + 1]
  <2>1. CASE q < p
    BY <1>1, <1>2, <1>3, <2>1
  <2>2. CASE ~(q < p)
    <3>1. q - Len(a) \in 1..(Len(s) - p) /\ p + (q - Len(a)) = q + 1
      BY <1>1, <2>2
    <3>2. b[q - Len(a)] = s[q + 1]
      BY <1>2, <3>1
    <3> QED BY <1>1, <1>2, <1>3, <2>2, <3>2
  <2> QED BY <2>1, <2>2
<1>5. Len(a \o b) = Len(s) - 1
  BY <1>1, <1>2, <1>3
<1> QED BY <1>3, <1>4, <1>5 DEF a, b

\* What erase() leaves of the vector.
LEMMA Erased ==
  ASSUME NEW m \in Nat, handlers \in Seq(1..m), NEW p \in DOMAIN handlers
  PROVE  /\ Erase(p) \in Seq(1..m)
         /\ Len(handlers) \in Nat \ {0} /\ p \in 1..Len(handlers)
         /\ Len(Erase(p)) = Len(handlers) - 1
         /\ DOMAIN Erase(p) = 1..(Len(handlers) - 1)
         /\ \A q \in 1..(Len(handlers) - 1) :
              Erase(p)[q] = IF q < p THEN handlers[q] ELSE handlers[q + 1]
<1>1. Len(handlers) \in Nat \ {0} /\ p \in 1..Len(handlers)
  OBVIOUS
<1> DEFINE r == SubSeq(handlers, 1, p - 1) \o SubSeq(handlers, p + 1, Len(handlers))
<1>2. /\ r \in Seq(1..m) /\ Len(r) = Len(handlers) - 1
      /\ \A q \in 1..(Len(handlers) - 1) : r[q] = IF q < p THEN handlers[q] ELSE handlers[q + 1]
  BY <1>1, Shortened
<1>3. Erase(p) = r
  BY DEF Erase
<1> HIDE DEF r
<1>4. DOMAIN r = 1..(Len(handlers) - 1)
  BY <1>2
<1> QED BY <1>1, <1>2, <1>3, <1>4

\* A set of numbers that has a member has a least one.
LEMMA LeastNumber ==
  ASSUME NEW U, U \subseteq Nat, U # {}
  PROVE  \E x \in U : \A y \in U : ~(y < x)
<1>1. PICK x \in U : \A y \in U : ~(<<y, x>> \in OpToRel(<, Nat))
  BY NatLessThanWellFounded, WFMin, Zenon
<1> QED BY <1>1 DEF OpToRel

\* RemoveHandler() finds a place if there is one.
LEMMA PlaceFound ==
  ASSUME EventObjectTypeOK, NEW cb, NEW type,
         \E p \in DOMAIN handlers : info[handlers[p]].cb = cb /\ info[handlers[p]].type = type
  PROVE  Place(cb, type) \in DOMAIN handlers
<1> DEFINE U == {p \in DOMAIN handlers : info[handlers[p]].cb = cb /\ info[handlers[p]].type = type}
<1>1. DOMAIN handlers = 1..Len(handlers) /\ Len(handlers) \in Nat
  BY Sizes
<1>2. U \subseteq Nat /\ U # {}
  BY <1>1
<1>3. PICK x \in U : \A y \in U : ~(y < x)
  <2> HIDE DEF U
  <2> QED BY <1>2, LeastNumber
<1>4. \A q \in 1..(x - 1) : q \in DOMAIN handlers /\ q < x
  BY <1>1
<1>5. \E p \in DOMAIN handlers :
        /\ info[handlers[p]].cb = cb /\ info[handlers[p]].type = type
        /\ \A q \in 1..(p - 1) : info[handlers[q]].cb # cb \/ info[handlers[q]].type # type
  BY <1>3, <1>4
<1> QED BY <1>5 DEF Place

-----------------------------------------------------------------------------
(* The invariant.                                                          *)

LEMMA EventObjectStarts == EventObjectInit => EventObjectInv
<1> SUFFICES ASSUME EventObjectInit PROVE EventObjectInv
  OBVIOUS
<1>1. info = <<>> /\ handlers = <<>> /\ calls = <<>>
  BY DEF EventObjectInit
<1>2. info \in Seq(HandlerData) /\ Len(info) = 0 /\ 1..Len(info) = {}
  BY <1>1
<1>3. handlers \in Seq(1..Len(info)) /\ calls \in Seq(1..Len(info)) /\ Len(handlers) = 0
      /\ DOMAIN handlers = {} /\ DOMAIN calls = {}
  BY <1>1
<1>4. EventObjectTypeOK
  <2>1. /\ capacity \in Nat /\ Len(handlers) <= capacity /\ it \in Nat /\ inside \in 0..Len(info)
        /\ adds \in 0..MaxAdds /\ removes \in 0..MaxRemoves /\ fetched \in 0..MaxFetches
    BY <1>2, <1>3, EventObjectBounds DEF EventObjectInit
  <2>2. /\ event \in SUBSET Types /\ due \subseteq 1..Len(info) /\ taken \subseteq 1..Len(info)
        /\ moved \in BOOLEAN /\ astray \in BOOLEAN /\ wronged \in BOOLEAN /\ crashed \in BOOLEAN
    BY DEF EventObjectInit
  <2> QED BY <1>2, <1>3, <2>1, <2>2 DEF EventObjectTypeOK
<1>5. InUse /\ Ordered /\ Called
  BY <1>2, <1>3 DEF EventObjectInit, InUse, Ordered, Called
<1>6. ~moved /\ ~crashed /\ OnTrack
  BY <1>3 DEF EventObjectInit, OnTrack
<1>7. EventsDue
  BY DEF EventObjectInit, EventsDue
<1> QED BY <1>4, <1>5, <1>6, <1>7 DEF EventObjectInv

\* AddHandler() that is refused only looks at the entries.
LEMMA RefusedKeeps ==
  ASSUME EventObjectInv, NEW cb \in Callbacks, NEW type \in TypeSets, AddRefused(cb, type)
  PROVE  EventObjectInv'
<1>1. /\ UNCHANGED <<handlers, capacity, info, it, inside, event, fetched, calls, due, removes, moved, astray,
                     taken, wronged>>
      /\ crashed' = \E p \in DOMAIN handlers : info[handlers[p]].freed
      /\ adds' = adds + 1 /\ adds < MaxAdds
  BY DEF AddRefused, vecVars, walkVars, Freed
<1>2. EventObjectTypeOK'
  BY <1>1, EventObjectBounds DEF EventObjectInv, EventObjectTypeOK
<1>3. InUse' /\ Ordered' /\ Called' /\ EventsDue'
  BY <1>1 DEF EventObjectInv, InUse, Ordered, Called, EventsDue, Ahead
<1>4. ~astray' => ~moved' /\ ~crashed' /\ OnTrack'
  BY <1>1 DEF EventObjectInv, OnTrack
<1> QED BY <1>2, <1>3, <1>4 DEF EventObjectInv

\* FetchEventData() begins at the first entry, and owes the event to those of its type.
LEMMA FetchKeeps ==
  ASSUME EventObjectInv, NEW type \in TypeSets, FetchEventData(type)
  PROVE  EventObjectInv'
<1>1. /\ UNCHANGED <<handlers, capacity, info, inside, adds, removes, moved, astray, taken, wronged, crashed>>
      /\ it = 0 /\ it' = 1 /\ event' = type /\ calls' = <<>>
      /\ fetched' = fetched + 1 /\ fetched < MaxFetches
      /\ due' = {handlers[p] : p \in {q \in DOMAIN handlers : info[handlers[q]].type \cap type # {}}}
  BY DEF FetchEventData, vecVars
<1>2. inside = 0
  BY <1>1 DEF EventObjectInv, Called
<1>3. EventObjectTypeOK'
  <2>1. calls' \in Seq(1..Len(info')) /\ type \in SUBSET Types
    BY <1>1 DEF TypeSets
  <2>2. due' \subseteq 1..Len(info')
    BY <1>1, Sizes DEF EventObjectInv
  <2> QED BY <1>1, <2>1, <2>2, EventObjectBounds DEF EventObjectInv, EventObjectTypeOK
<1>4. InUse' /\ Ordered' /\ Called'
  BY <1>1 DEF EventObjectInv, InUse, Ordered, Called
<1>5. ~astray' => ~moved' /\ ~crashed' /\ OnTrack'
  <2>1. Len(handlers) \in Nat
    BY Sizes DEF EventObjectInv
  <2> QED BY <1>1, <1>2, <2>1 DEF EventObjectInv, OnTrack
<1>6. \A n \in due' : info[n].type \cap type # {} /\ \E p \in DOMAIN handlers : handlers[p] = n
  BY <1>1
<1>7. \A p \in DOMAIN handlers : p > 1 \/ p = 1
  BY Sizes DEF EventObjectInv
<1>8. EventsDue'
  BY <1>1, <1>2, <1>6, <1>7 DEF EventsDue, Ahead
<1> QED BY <1>3, <1>4, <1>5, <1>8 DEF EventObjectInv

\* An iterator that is not astray is not outside the vector, nor at what was freed.
LEMMA StrayKeeps ==
  ASSUME EventObjectInv, Stray
  PROVE  EventObjectInv'
<1>1. /\ UNCHANGED <<handlers, capacity, info, it, inside, event, fetched, calls, due, adds, removes, moved,
                     astray, taken, wronged>>
      /\ crashed' = TRUE
      /\ it # 0 /\ it # Len(handlers) + 1
      /\ it <= Len(handlers) => info[handlers[it]].freed
  BY DEF Stray, walking, AtEnd, Freed, vecVars, walkVars
<1>2. ASSUME ~astray PROVE FALSE
  <2>1. OnTrack /\ it \in Nat /\ Len(handlers) \in Nat /\ DOMAIN handlers = 1..Len(handlers)
    BY <1>2, Sizes DEF EventObjectInv
  <2>2. it \in DOMAIN handlers
    BY <1>1, <2>1 DEF OnTrack
  <2> QED BY <1>1, <2>1, <2>2 DEF OnTrack
<1>3. EventObjectTypeOK'
  BY <1>1 DEF EventObjectInv, EventObjectTypeOK
<1>4. InUse' /\ Ordered' /\ Called' /\ EventsDue'
  BY <1>1 DEF EventObjectInv, InUse, Ordered, Called, EventsDue, Ahead
<1> QED BY <1>1, <1>2, <1>3, <1>4 DEF EventObjectInv

\* An entry that is passed over is not one the event has to go to.
LEMMA PassKeeps ==
  ASSUME EventObjectInv, Pass
  PROVE  EventObjectInv'
<1>1. /\ UNCHANGED <<handlers, capacity, info, inside, event, fetched, calls, due, adds, removes, moved, astray,
                     taken, wronged, crashed>>
      /\ inside = 0 /\ it # 0 /\ it <= Len(handlers) /\ it' = it + 1
      /\ info[handlers[it]].type \cap event = {}
  BY DEF Pass, walking, vecVars
<1>2. it \in Nat /\ Len(handlers) \in Nat /\ DOMAIN handlers = 1..Len(handlers)
  BY Sizes DEF EventObjectInv
<1>3. EventObjectTypeOK'
  BY <1>1, <1>2 DEF EventObjectInv, EventObjectTypeOK
<1>4. InUse' /\ Ordered'
  BY <1>1 DEF EventObjectInv, InUse, Ordered
<1>5. \A p \in DOMAIN handlers : p \in Nat /\ (p < it => p < it + 1) /\ (p > it => p > it + 1 \/ p = it + 1)
  BY <1>2
<1>6. Called'
  <2>1. it' # 0
    BY <1>1, <1>2
  <2> QED BY <1>1, <1>5, <2>1 DEF EventObjectInv, Called
<1>7. ~astray' => ~moved' /\ ~crashed' /\ OnTrack'
  <2>1. it + 1 <= Len(handlers) + 1
    BY <1>1, <1>2
  <2> QED BY <1>1, <2>1 DEF EventObjectInv, OnTrack
<1>8. EventsDue'
  <2>1. ASSUME ~astray, NEW n \in due \ taken PROVE Ahead(n)'
    <3>1. Ahead(n) /\ info[n].type \cap event # {}
      BY <1>1, <2>1 DEF EventObjectInv, EventsDue
    <3>2. CASE \E i \in DOMAIN calls : calls[i] = n
      BY <1>1, <3>2 DEF Ahead
    <3>3. ASSUME NEW p \in DOMAIN handlers, handlers[p] = n, p > it \/ p = it PROVE Ahead(n)'
      <4>1. p # it
        BY <1>1, <3>1, <3>3
      <4>2. p > it + 1 \/ p = it + 1
        BY <1>5, <3>3, <4>1
      <4> QED BY <1>1, <3>3, <4>2 DEF Ahead
    <3> QED BY <3>1, <3>2, <3>3 DEF Ahead
  <2> QED BY <1>1, <2>1 DEF EventObjectInv, EventsDue
<1> QED BY <1>3, <1>4, <1>6, <1>7, <1>8 DEF EventObjectInv

\* The end of the walk.
LEMMA DoneKeeps ==
  ASSUME EventObjectInv, Done
  PROVE  EventObjectInv'
<1>1. /\ UNCHANGED <<handlers, capacity, info, inside, fetched, adds, removes, moved, astray, taken, wronged,
                     crashed>>
      /\ inside = 0 /\ it' = 0 /\ event' = {} /\ calls' = <<>> /\ due' = {}
  BY DEF Done, vecVars
<1>2. calls' \in Seq(1..Len(info')) /\ DOMAIN calls' = {}
  BY <1>1
<1>3. EventObjectTypeOK'
  BY <1>1, <1>2 DEF EventObjectInv, EventObjectTypeOK
<1>4. InUse' /\ Ordered' /\ Called'
  BY <1>1, <1>2 DEF EventObjectInv, InUse, Ordered, Called
<1>5. ~astray' => ~moved' /\ ~crashed' /\ OnTrack'
  <2>1. Len(handlers) \in Nat
    BY Sizes DEF EventObjectInv
  <2> QED BY <1>1, <2>1 DEF EventObjectInv, OnTrack
<1>6. EventsDue'
  BY <1>1 DEF EventsDue
<1> QED BY <1>3, <1>4, <1>5, <1>6 DEF EventObjectInv

\* A function is called with its HandlerData in use; it was not called for this event.
LEMMA CallKeeps ==
  ASSUME EventObjectInv, CallHandler
  PROVE  EventObjectInv'
<1>1. PICK n : n = handlers[it]
  OBVIOUS
<1> DEFINE d == [info[n] EXCEPT !.in_use = TRUE]
<1>2. /\ UNCHANGED <<handlers, capacity, it, event, fetched, due, adds, removes, moved, astray, taken, crashed>>
      /\ inside = 0 /\ it # 0 /\ it <= Len(handlers)
      /\ inside' = n /\ info' = [info EXCEPT ![n] = d] /\ calls' = Append(calls, n)
      /\ wronged' = (wronged \/ n \in taken)
      /\ ~info[n].freed
  BY <1>1 DEF CallHandler, walking, Freed
<1>3. /\ it \in Nat /\ Len(handlers) \in Nat /\ DOMAIN handlers = 1..Len(handlers) /\ it \in DOMAIN handlers
      /\ Len(info) \in Nat /\ DOMAIN info = 1..Len(info) /\ n \in 1..Len(info) /\ n # 0
      /\ info \in Seq(HandlerData) /\ calls \in Seq(1..Len(info))
      /\ Len(calls) \in Nat /\ DOMAIN calls = 1..Len(calls)
  <2>1. it \in DOMAIN handlers
    BY <1>2, Sizes DEF EventObjectInv
  <2> QED BY <1>1, <2>1, Sizes DEF EventObjectInv, EventObjectTypeOK
<1>4. d \in HandlerData /\ d.in_use = TRUE /\ d.type = info[n].type /\ d.freed = info[n].freed
      /\ d.is_deleted = info[n].is_deleted
  <2>1. info[n] \in HandlerData
    BY <1>3
  <2> QED BY <2>1 DEF HandlerData
<1> HIDE DEF d
<1>5. /\ info' \in Seq(HandlerData) /\ Len(info') = Len(info) /\ info'[n] = d
      /\ \A m \in 1..Len(info) : m # n => info'[m] = info[m]
  BY <1>2, <1>3, <1>4, Written
<1>6. /\ calls' \in Seq(1..Len(info)) /\ DOMAIN calls' = DOMAIN calls \cup {Len(calls) + 1}
      /\ calls'[Len(calls) + 1] = n /\ \A i \in DOMAIN calls : calls'[i] = calls[i]
      /\ Len(calls) + 1 \notin DOMAIN calls
  BY <1>2, <1>3, PushBackFacts
<1>7. n \notin taken
  BY <1>2, <1>3 DEF EventObjectInv, InUse
<1>8. \A p \in DOMAIN handlers : handlers[p] = n => p = it
  BY <1>1, <1>3 DEF EventObjectInv, Ordered
<1>9. \A i \in DOMAIN calls : calls[i] # n
  BY <1>1, <1>2, <1>3 DEF EventObjectInv, Called
<1>10. EventObjectTypeOK'
  <2>1. wronged' \in BOOLEAN /\ inside' \in 0..Len(info)
    BY <1>2, <1>3 DEF EventObjectInv, EventObjectTypeOK
  <2> QED BY <1>2, <1>5, <1>6, <2>1 DEF EventObjectInv, EventObjectTypeOK
<1>11. InUse'
  <2>1. \A m \in 1..Len(info) : m # n => ~info[m].in_use /\ (m \in taken => info[m].freed)
    BY <1>2 DEF EventObjectInv, InUse
  <2>2. \A m \in 1..Len(info) : info'[m].in_use <=> m = n
    BY <1>4, <1>5, <2>1
  <2>3. \A m \in 1..Len(info) : m \in taken => info'[m].freed
    BY <1>5, <1>7, <2>1
  <2> QED BY <1>2, <1>5, <2>2, <2>3 DEF InUse
<1>12. Ordered'
  BY <1>2 DEF EventObjectInv, Ordered
<1>13. Called'
  <2>1. ASSUME NEW p \in DOMAIN handlers, NEW i \in DOMAIN calls', handlers[p] = calls'[i]
        PROVE  p < it \/ (p = it /\ n # 0)
    <3>1. CASE i \in DOMAIN calls
      BY <1>2, <1>6, <2>1, <3>1 DEF EventObjectInv, Called
    <3>2. CASE i = Len(calls) + 1
      BY <1>3, <1>6, <1>8, <2>1, <3>2
    <3> QED BY <1>6, <3>1, <3>2
  <2>2. \A i, j \in DOMAIN calls' : calls'[i] = calls'[j] => i = j
    BY <1>6, <1>9 DEF EventObjectInv, Called
  <2>3. ~wronged'
    BY <1>2, <1>7 DEF EventObjectInv, Called
  <2> QED BY <1>2, <2>1, <2>2, <2>3 DEF Called
<1>14. ~astray' => ~moved' /\ ~crashed' /\ OnTrack'
  <2>1. ASSUME ~astray PROVE OnTrack'
    <3>1. \A p \in DOMAIN handlers : ~info[handlers[p]].freed /\ handlers[p] \in 1..Len(info)
      BY <2>1, Sizes DEF EventObjectInv, OnTrack
    <3>2. \A p \in DOMAIN handlers : ~info'[handlers[p]].freed
      BY <1>2, <1>4, <1>5, <3>1
    <3> QED BY <1>1, <1>2, <1>3, <2>1, <3>2 DEF EventObjectInv, OnTrack
  <2> QED BY <1>2, <2>1 DEF EventObjectInv
<1>15. EventsDue'
  <2>1. \A m \in due : info'[m].type \cap event # {}
    <3>1. \A m \in due : m \in 1..Len(info) /\ info[m].type \cap event # {}
      BY DEF EventObjectInv, EventObjectTypeOK, EventsDue
    <3> QED BY <1>4, <1>5, <3>1
  <2>2. ASSUME ~astray, NEW m \in due \ taken PROVE Ahead(m)'
    <3>1. Ahead(m)
      BY <1>2, <2>2 DEF EventObjectInv, EventsDue
    <3>2. CASE \E i \in DOMAIN calls : calls[i] = m
      BY <1>6, <3>2 DEF Ahead
    <3>3. CASE m = n
      BY <1>6, <3>3 DEF Ahead
    <3>4. ASSUME NEW p \in DOMAIN handlers, handlers[p] = m, p > it \/ p = it, m # n PROVE Ahead(m)'
      BY <1>1, <1>2, <3>4 DEF Ahead
    <3> QED BY <3>1, <3>2, <3>3, <3>4 DEF Ahead
  <2> QED BY <1>2, <2>1, <2>2 DEF EventsDue
<1> QED BY <1>10, <1>11, <1>12, <1>13, <1>14, <1>15 DEF EventObjectInv

\* RENEW: the iterator moves on from the entry that was called.
LEMMA RenewKeeps ==
  ASSUME EventObjectInv, ReturnRenews
  PROVE  EventObjectInv'
<1>1. PICK n : n = inside
  OBVIOUS
<1> DEFINE d == [info[n] EXCEPT !.in_use = FALSE]
<1>2. /\ UNCHANGED <<handlers, capacity, event, fetched, calls, due, adds, removes, moved, astray, taken, wronged>>
      /\ n # 0 /\ inside' = 0 /\ it' = it + 1 /\ info' = [info EXCEPT ![n] = d]
      /\ ~info[n].is_deleted
      /\ crashed' = (moved \/ info[n].freed)
  BY <1>1 DEF ReturnRenews, Freed
<1>3. /\ it \in Nat /\ Len(handlers) \in Nat /\ DOMAIN handlers = 1..Len(handlers)
      /\ Len(info) \in Nat /\ DOMAIN info = 1..Len(info) /\ n \in 1..Len(info)
      /\ info \in Seq(HandlerData)
  BY <1>1, <1>2, Sizes DEF EventObjectInv, EventObjectTypeOK
<1>4. d \in HandlerData /\ d.in_use = FALSE /\ d.type = info[n].type /\ d.freed = info[n].freed
  <2>1. info[n] \in HandlerData
    BY <1>3
  <2> QED BY <2>1 DEF HandlerData
<1> HIDE DEF d
<1>5. /\ info' \in Seq(HandlerData) /\ Len(info') = Len(info) /\ info'[n] = d
      /\ \A m \in 1..Len(info) : m # n => info'[m] = info[m]
  BY <1>2, <1>3, <1>4, Written
<1>6. \A p \in DOMAIN handlers : (p < it \/ p = it => p < it + 1) /\ (p > it => p > it + 1 \/ p = it + 1)
  BY <1>3
<1>7. EventObjectTypeOK'
  <2>1. crashed' \in BOOLEAN
    BY <1>2, <1>3, <1>4 DEF EventObjectInv, EventObjectTypeOK, HandlerData
  <2>2. inside' \in 0..Len(info) /\ it' \in Nat
    BY <1>2, <1>3
  <2> QED BY <1>2, <1>5, <2>1, <2>2 DEF EventObjectInv, EventObjectTypeOK
<1>8. InUse'
  <2>1. \A m \in 1..Len(info) : /\ info[m].in_use <=> m = n
                                /\ m \in taken => info[m].freed \/ (m = n /\ info[m].is_deleted)
    BY <1>1 DEF EventObjectInv, InUse
  <2>2. \A m \in 1..Len(info) : ~info'[m].in_use /\ m # 0
    BY <1>3, <1>4, <1>5, <2>1
  <2>3. \A m \in 1..Len(info) : m \in taken => info'[m].freed
    BY <1>2, <1>4, <1>5, <2>1
  <2> QED BY <1>2, <1>5, <2>2, <2>3 DEF InUse
<1>9. Ordered'
  BY <1>2 DEF EventObjectInv, Ordered
<1>10. Called'
  <2>1. it' # 0
    BY <1>2, <1>3
  <2> QED BY <1>2, <1>6, <2>1 DEF EventObjectInv, Called
<1>11. ~astray' => ~moved' /\ ~crashed' /\ OnTrack'
  <2>1. ASSUME ~astray PROVE ~moved /\ ~crashed' /\ OnTrack'
    <3>1. /\ ~moved /\ it \in DOMAIN handlers /\ handlers[it] = n
          /\ \A p \in DOMAIN handlers : ~info[handlers[p]].freed /\ handlers[p] \in 1..Len(info)
      BY <1>1, <1>2, <2>1, Sizes DEF EventObjectInv, OnTrack
    <3>2. ~crashed'
      BY <1>2, <3>1
    <3>3. \A p \in DOMAIN handlers : ~info'[handlers[p]].freed
      BY <1>4, <1>5, <3>1
    <3>4. it + 1 <= Len(handlers) + 1
      BY <1>3, <3>1
    <3> QED BY <1>2, <3>1, <3>2, <3>3, <3>4 DEF OnTrack
  <2> QED BY <1>2, <2>1
<1>12. EventsDue'
  <2>1. \A m \in due : info'[m].type \cap event # {}
    <3>1. \A m \in due : m \in 1..Len(info) /\ info[m].type \cap event # {}
      BY DEF EventObjectInv, EventObjectTypeOK, EventsDue
    <3> QED BY <1>4, <1>5, <3>1
  <2>2. ASSUME ~astray, NEW m \in due \ taken PROVE Ahead(m)'
    <3>1. Ahead(m)
      BY <1>1, <1>2, <2>2 DEF EventObjectInv, EventsDue, Called
    <3>2. CASE \E i \in DOMAIN calls : calls[i] = m
      BY <1>2, <3>2 DEF Ahead
    <3>3. ASSUME NEW p \in DOMAIN handlers, handlers[p] = m, p > it PROVE Ahead(m)'
      BY <1>2, <1>6, <3>3 DEF Ahead
    <3> QED BY <1>1, <1>2, <3>1, <3>2, <3>3 DEF Ahead
  <2> QED BY <1>2, <2>1, <2>2 DEF EventsDue
<1> QED BY <1>7, <1>8, <1>9, <1>10, <1>11, <1>12 DEF EventObjectInv

\* The entries before the erased place stay, the ones behind it move down.
LEMMA MovesDown ==
  ASSUME EventObjectTypeOK, NEW p \in DOMAIN handlers, handlers' = Erase(p)
  PROVE  /\ handlers' \in Seq(1..Len(info)) /\ Len(handlers') = Len(handlers) - 1
         /\ DOMAIN handlers' = 1..(Len(handlers) - 1)
         /\ p \in Nat /\ DOMAIN handlers' \subseteq Nat /\ DOMAIN handlers \subseteq Nat
         /\ \A q \in DOMAIN handlers' : \E r \in DOMAIN handlers :
              handlers'[q] = handlers[r] /\ r # p /\ IF q < p THEN r = q ELSE r = q + 1
         /\ \A r \in DOMAIN handlers : r # p =>
              \E q \in DOMAIN handlers' : handlers'[q] = handlers[r] /\ IF r < p THEN q = r ELSE q = r - 1
         /\ Ordered => Ordered'
<1>1. Len(info) \in Nat /\ handlers \in Seq(1..Len(info)) /\ DOMAIN handlers = 1..Len(handlers)
  BY Sizes DEF EventObjectTypeOK
<1> DEFINE n == Len(handlers)
           e == Erase(p)
<1>2. /\ e \in Seq(1..Len(info)) /\ n \in Nat \ {0} /\ p \in 1..n /\ Len(e) = n - 1 /\ DOMAIN e = 1..(n - 1)
      /\ \A q \in 1..(n - 1) : e[q] = IF q < p THEN handlers[q] ELSE handlers[q + 1]
  <2>1. PICK m \in Nat : m = Len(info)
    BY <1>1
  <2> QED BY <1>1, <2>1, Erased
<1> HIDE DEF n, e
<1>3. \A q \in 1..(n - 1) : q \in 1..n /\ q + 1 \in 1..n
  BY <1>2
<1>4. \A q \in DOMAIN e : \E r \in 1..n : e[q] = handlers[r] /\ r # p /\ IF q < p THEN r = q ELSE r = q + 1
  <2> TAKE q \in DOMAIN e
  <2>1. q \in 1..(n - 1)
    BY <1>2
  <2>2. CASE q < p
    BY <1>2, <1>3, <2>1, <2>2
  <2>3. CASE ~(q < p)
    <3>1. q + 1 # p
      BY <1>2, <2>1, <2>3
    <3> QED BY <1>2, <1>3, <2>1, <2>3, <3>1
  <2> QED BY <2>2, <2>3
<1>5. \A r \in 1..n : r # p => \E q \in DOMAIN e : e[q] = handlers[r] /\ IF r < p THEN q = r ELSE q = r - 1
  <2> SUFFICES ASSUME NEW r \in 1..n, r # p
               PROVE  \E q \in DOMAIN e : e[q] = handlers[r] /\ IF r < p THEN q = r ELSE q = r - 1
    OBVIOUS
  <2>2. CASE r < p
    <3>1. r \in 1..(n - 1)
      BY <1>2, <2>2
    <3> QED BY <1>2, <2>2, <3>1
  <2>3. CASE ~(r < p)
    <3>1. r - 1 \in 1..(n - 1) /\ ~(r - 1 < p) /\ (r - 1) + 1 = r
      BY <1>2, <2>3
    <3>2. e[r - 1] = handlers[r]
      BY <1>2, <3>1
    <3> QED BY <1>2, <2>3, <3>1, <3>2
  <2> QED BY <2>2, <2>3
<1>6. Ordered => \A q, r \in DOMAIN e : q < r => e[q] < e[r]
  <2> SUFFICES ASSUME Ordered, NEW q \in DOMAIN e, NEW r \in DOMAIN e, q < r PROVE e[q] < e[r]
    OBVIOUS
  <2>1. PICK a \in 1..n : e[q] = handlers[a] /\ IF q < p THEN a = q ELSE a = q + 1
    BY <1>4
  <2>2. PICK b \in 1..n : e[r] = handlers[b] /\ IF r < p THEN b = r ELSE b = r + 1
    BY <1>4
  <2>3. a < b
    BY <1>2, <2>1, <2>2
  <2>4. handlers[a] < handlers[b]
    BY <1>1, <2>3 DEF Ordered, n
  <2> QED BY <2>1, <2>2, <2>4
<1>7. handlers' = e /\ DOMAIN handlers = 1..n /\ n = Len(handlers)
  BY <1>1 DEF e, n
<1>8. p \in Nat /\ DOMAIN e \subseteq Nat /\ 1..n \subseteq Nat
  BY <1>2
<1>9. Ordered => Ordered'
  BY <1>6, <1>7 DEF Ordered
<1> QED BY <1>2, <1>4, <1>5, <1>7, <1>8, <1>9

\* CANCEL, or the removal of itself: the entry at the iterator goes, which is the one that
\* was called unless the iterator is astray, and the next one moves down to its place.
LEMMA ErasesKeeps ==
  ASSUME EventObjectInv, NEW cancel \in BOOLEAN, ReturnErases(cancel)
  PROVE  EventObjectInv'
<1>1. PICK n, w : n = inside /\ w = it
  OBVIOUS
<1> DEFINE d == [info[n] EXCEPT !.in_use = FALSE, !.freed = TRUE]
<1>2. /\ UNCHANGED <<capacity, event, fetched, calls, due, adds, removes, moved, astray, wronged>>
      /\ n # 0 /\ inside' = 0 /\ it' = w /\ taken' = taken \cup {n}
      /\ info' = [info EXCEPT ![n].in_use = FALSE, ![n].freed = TRUE]
      /\ crashed' = (moved \/ info[n].freed \/ w > Len(handlers))
      /\ handlers' = IF w <= Len(handlers) THEN Erase(w) ELSE handlers
  BY <1>1 DEF ReturnErases, Freed, NextPlace
<1>3. /\ w \in Nat /\ w # 0 /\ Len(handlers) \in Nat /\ DOMAIN handlers = 1..Len(handlers)
      /\ Len(info) \in Nat /\ DOMAIN info = 1..Len(info) /\ n \in 1..Len(info)
      /\ info \in Seq(HandlerData) /\ handlers \in Seq(1..Len(info))
  BY <1>1, <1>2, Sizes DEF EventObjectInv, EventObjectTypeOK, Called
<1>4. d \in HandlerData /\ d.in_use = FALSE /\ d.type = info[n].type /\ d.freed = TRUE
  <2>1. info[n] \in HandlerData
    BY <1>3
  <2> QED BY <2>1 DEF HandlerData
<1>5. info' = [info EXCEPT ![n] = d]
  <2>1. info[n] \in HandlerData
    BY <1>3
  <2> QED BY <1>2, <1>3, <2>1 DEF HandlerData
<1> HIDE DEF d
<1>6. /\ info' \in Seq(HandlerData) /\ Len(info') = Len(info) /\ info'[n] = d
      /\ \A m \in 1..Len(info) : m # n => info'[m] = info[m]
  BY <1>3, <1>4, <1>5, Written
<1>7. ASSUME w <= Len(handlers)
      PROVE  /\ EventObjectTypeOK' /\ Ordered' /\ Called'
             /\ ~astray => ~crashed' /\ OnTrack'
             /\ \A m \in due \ taken : ~astray /\ m # n => Ahead(m)'
  <2>1. handlers' = Erase(w) /\ w \in DOMAIN handlers
    BY <1>2, <1>3, <1>7
  <2>2. /\ handlers' \in Seq(1..Len(info)) /\ Len(handlers') = Len(handlers) - 1
        /\ DOMAIN handlers' \subseteq Nat /\ DOMAIN handlers \subseteq Nat
        /\ \A q \in DOMAIN handlers' : \E r \in DOMAIN handlers :
             handlers'[q] = handlers[r] /\ r # w /\ IF q < w THEN r = q ELSE r = q + 1
        /\ \A r \in DOMAIN handlers : r # w =>
             \E q \in DOMAIN handlers' : handlers'[q] = handlers[r] /\ IF r < w THEN q = r ELSE q = r - 1
        /\ Ordered'
    BY <2>1, MovesDown DEF EventObjectInv
  <2>3. EventObjectTypeOK'
    <3>1. crashed' \in BOOLEAN
      BY <1>2, <1>3, <1>7 DEF EventObjectInv, EventObjectTypeOK, HandlerData
    <3>2. inside' \in 0..Len(info) /\ it' \in Nat /\ taken' \subseteq 1..Len(info)
      BY <1>2, <1>3 DEF EventObjectInv, EventObjectTypeOK
    <3>3. Len(handlers') <= capacity /\ capacity \in Nat
      BY <1>3, <2>2 DEF EventObjectInv, EventObjectTypeOK
    <3> QED BY <1>2, <1>6, <2>2, <3>1, <3>2, <3>3 DEF EventObjectInv, EventObjectTypeOK
  <2>4. Called'
    <3>1. ASSUME NEW q \in DOMAIN handlers', NEW i \in DOMAIN calls, handlers'[q] = calls[i] PROVE q < w
      <4>1. PICK r \in DOMAIN handlers :
               handlers'[q] = handlers[r] /\ r # w /\ IF q < w THEN r = q ELSE r = q + 1
        BY <2>2
      <4>2. r < w
        BY <1>1, <3>1, <4>1 DEF EventObjectInv, Called
      <4> QED BY <1>3, <2>2, <4>1, <4>2
    <3> QED BY <1>2, <1>3, <3>1 DEF EventObjectInv, Called
  <2>5. ASSUME ~astray PROVE ~crashed' /\ OnTrack'
    <3>1. /\ ~moved /\ handlers[w] = n
          /\ \A r \in DOMAIN handlers : ~info[handlers[r]].freed /\ handlers[r] \in 1..Len(info)
      BY <1>1, <1>2, <2>5, Sizes DEF EventObjectInv, OnTrack
    <3>2. ~crashed'
      <4>1. ~(w > Len(handlers)) /\ ~info[n].freed
        BY <1>3, <1>7, <2>1, <3>1
      <4> QED BY <1>2, <3>1, <4>1, Zenon
    <3>3. \A r \in DOMAIN handlers : r # w => handlers[r] # n
      <4> SUFFICES ASSUME NEW r \in DOMAIN handlers, r # w PROVE handlers[r] # n
        OBVIOUS
      <4>1. r < w \/ w < r
        BY <1>3, <2>2
      <4>2. handlers[r] < handlers[w] \/ handlers[w] < handlers[r]
        BY <2>1, <4>1 DEF EventObjectInv, Ordered
      <4> QED BY <1>3, <3>1, <4>2
    <3>4. \A q \in DOMAIN handlers' : ~info'[handlers'[q]].freed
      BY <1>6, <2>2, <3>1, <3>3
    <3>5. w <= Len(handlers') + 1
      BY <1>3, <1>7, <2>2
    <3> QED BY <1>2, <3>2, <3>4, <3>5 DEF OnTrack
  <2>6. ASSUME ~astray, NEW m \in due \ taken, m # n PROVE Ahead(m)'
    <3>0. handlers[w] = n
      BY <1>1, <1>2, <2>6 DEF EventObjectInv, OnTrack
    <3>1. Ahead(m)
      BY <1>1, <1>2, <1>3, <2>6 DEF EventObjectInv, EventsDue
    <3>2. CASE \E i \in DOMAIN calls : calls[i] = m
      BY <1>2, <3>2 DEF Ahead
    <3>3. ASSUME NEW r \in DOMAIN handlers, handlers[r] = m, r > w PROVE Ahead(m)'
      <4>1. PICK q \in DOMAIN handlers' : handlers'[q] = handlers[r] /\ IF r < w THEN q = r ELSE q = r - 1
        BY <1>3, <2>2, <3>3
      <4>2. q > w \/ q = w
        <5>1. q = r - 1 /\ r \in Nat
          BY <1>3, <2>2, <3>3, <4>1
        <5> QED BY <1>3, <3>3, <5>1
      <4> QED BY <1>2, <3>3, <4>1, <4>2 DEF Ahead
    <3> QED BY <1>1, <1>2, <3>1, <3>2, <3>3 DEF Ahead
  <2> QED BY <2>2, <2>3, <2>4, <2>5, <2>6
<1>8. ASSUME ~(w <= Len(handlers))
      PROVE  /\ EventObjectTypeOK' /\ Ordered' /\ Called'
             /\ ~astray => ~crashed' /\ OnTrack'
             /\ \A m \in due \ taken : ~astray /\ m # n => Ahead(m)'
  <2>1. UNCHANGED handlers /\ w > Len(handlers)
    BY <1>2, <1>3, <1>8
  <2>2. astray
    BY <1>1, <1>2, <1>3, <1>8 DEF EventObjectInv, OnTrack
  <2>3. EventObjectTypeOK'
    <3>1. crashed' = TRUE
      BY <1>2, <2>1
    <3>2. inside' \in 0..Len(info) /\ it' \in Nat /\ taken' \subseteq 1..Len(info)
      BY <1>2, <1>3 DEF EventObjectInv, EventObjectTypeOK
    <3> QED BY <1>2, <1>6, <2>1, <3>1, <3>2 DEF EventObjectInv, EventObjectTypeOK
  <2>4. Ordered'
    BY <2>1 DEF EventObjectInv, Ordered
  <2>5. Called'
    <3>1. \A p \in DOMAIN handlers : p < w
      BY <1>3, <1>8
    <3> QED BY <1>2, <1>3, <2>1, <3>1 DEF EventObjectInv, Called
  <2> QED BY <2>2, <2>3, <2>4, <2>5
<1>9. InUse'
  <2>1. \A m \in 1..Len(info) : /\ info[m].in_use <=> m = n
                                /\ m \in taken => info[m].freed \/ m = n
    BY <1>1 DEF EventObjectInv, InUse
  <2>2. \A m \in 1..Len(info) : ~info'[m].in_use /\ m # 0
    BY <1>3, <1>4, <1>6, <2>1
  <2>3. \A m \in 1..Len(info) : m \in taken \cup {n} => info'[m].freed
    BY <1>4, <1>6, <2>1
  <2> QED BY <1>2, <1>6, <2>2, <2>3 DEF InUse
<1>10. ~astray' => ~moved' /\ ~crashed' /\ OnTrack'
  BY <1>2, <1>7, <1>8 DEF EventObjectInv
<1>11. EventsDue'
  <2>1. \A m \in due : info'[m].type \cap event # {}
    <3>1. \A m \in due : m \in 1..Len(info) /\ info[m].type \cap event # {}
      BY DEF EventObjectInv, EventObjectTypeOK, EventsDue
    <3> QED BY <1>4, <1>6, <3>1
  <2>2. ASSUME ~astray, NEW m \in due \ (taken \cup {n}) PROVE Ahead(m)'
    BY <1>7, <1>8, <2>2
  <2> QED BY <1>2, <2>1, <2>2 DEF EventsDue
<1>12. EventObjectTypeOK' /\ Ordered' /\ Called'
  BY <1>7, <1>8
<1> QED BY <1>9, <1>10, <1>11, <1>12 DEF EventObjectInv

\* A new HandlerData is the last, so no step of the walk has to do with it yet; a vector
\* that moves under the iterator takes it astray.
LEMMA AddKeeps ==
  ASSUME EventObjectInv, NEW cb \in Callbacks, NEW type \in TypeSets, AddHandler(cb, type)
  PROVE  EventObjectInv'
<1>1. PICK n : n = Len(info) + 1
  OBVIOUS
<1> DEFINE d == [cb |-> cb, type |-> type, in_use |-> FALSE, is_deleted |-> FALSE, freed |-> FALSE]
<1>2. /\ UNCHANGED <<it, inside, event, fetched, calls, due, removes, taken, wronged>>
      /\ info' = Append(info, d) /\ handlers' = Append(handlers, n)
      /\ crashed' = \E p \in DOMAIN handlers : info[handlers[p]].freed
      /\ adds' = adds + 1 /\ adds < MaxAdds
  BY <1>1 DEF AddHandler, walkVars, Freed
<1>3. IF Len(handlers) = capacity
      THEN /\ capacity' = IF capacity = 0 THEN 1 ELSE 2 * capacity
           /\ moved' = (it # 0)
           /\ astray' = (astray \/ it # 0)
      ELSE UNCHANGED <<capacity, moved, astray>>
  BY DEF AddHandler
<1>4. d \in HandlerData /\ ~d.in_use /\ ~d.freed
  BY DEF HandlerData
<1> HIDE DEF d
<1>5. /\ Len(handlers) \in Nat /\ DOMAIN handlers = 1..Len(handlers)
      /\ Len(info) \in Nat /\ DOMAIN info = 1..Len(info) /\ n \notin 1..Len(info) /\ n # 0
      /\ \A p \in DOMAIN handlers : handlers[p] \in 1..Len(info) /\ handlers[p] < n
      /\ info \in Seq(HandlerData) /\ handlers \in Seq(1..Len(info)) /\ calls \in Seq(1..Len(info))
      /\ \A i \in DOMAIN calls : calls[i] # n
      /\ n \in Nat /\ 1..n = 1..Len(info) \cup {n} /\ inside # n
      /\ due \subseteq 1..Len(info) /\ taken \subseteq 1..Len(info) /\ inside \in 0..n
      /\ it \in Nat /\ astray \in BOOLEAN /\ moved \in BOOLEAN /\ capacity \in Nat /\ Len(handlers) <= capacity
  <2>1. /\ Len(handlers) \in Nat /\ DOMAIN handlers = 1..Len(handlers)
        /\ Len(info) \in Nat /\ DOMAIN info = 1..Len(info)
        /\ \A p \in DOMAIN handlers : handlers[p] \in 1..Len(info)
        /\ \A i \in DOMAIN calls : calls[i] \in 1..Len(info)
        /\ inside \in 0..Len(info)
    BY Sizes DEF EventObjectInv
  <2>2. /\ info \in Seq(HandlerData) /\ handlers \in Seq(1..Len(info)) /\ calls \in Seq(1..Len(info))
        /\ due \subseteq 1..Len(info) /\ taken \subseteq 1..Len(info)
        /\ it \in Nat /\ astray \in BOOLEAN /\ moved \in BOOLEAN /\ capacity \in Nat /\ Len(handlers) <= capacity
    BY DEF EventObjectInv, EventObjectTypeOK
  <2>3. n \in Nat /\ n \notin 1..Len(info) /\ n # 0 /\ 1..n = 1..Len(info) \cup {n} /\ n > Len(info)
    BY <1>1, <2>1
  <2>4. inside # n /\ inside \in 0..n /\ \A m \in 1..Len(info) : m < n
    BY <2>1, <2>3
  <2> QED BY <2>1, <2>2, <2>3, <2>4
<1>6. /\ info' \in Seq(HandlerData) /\ Len(info') = n /\ info'[n] = d
      /\ \A m \in 1..Len(info) : info'[m] = info[m]
  BY <1>1, <1>2, <1>4, <1>5, PushBackFacts
<1>7. handlers \in Seq(1..n) /\ calls \in Seq(1..n)
  <2>1. PICK m \in Nat : m = Len(info)
    BY <1>5
  <2>2. handlers \in Seq(1..(m + 1)) /\ calls \in Seq(1..(m + 1))
    BY <1>5, <2>1, SeqWidens
  <2> QED BY <1>1, <2>1, <2>2
<1>8. /\ handlers' \in Seq(1..n) /\ Len(handlers') = Len(handlers) + 1
      /\ DOMAIN handlers' = DOMAIN handlers \cup {Len(handlers) + 1}
      /\ \A p \in DOMAIN handlers : handlers'[p] = handlers[p]
      /\ handlers'[Len(handlers) + 1] = n
  <2> DEFINE S == 1..n
  <2>1. handlers \in Seq(S) /\ n \in S
    BY <1>5, <1>7
  <2>2. handlers' \in Seq(S)
    <3> HIDE DEF S
    <3> QED BY <1>2, <2>1, PushBackFacts
  <2> QED BY <1>2, <2>1, <2>2, PushBackFacts
<1>9. capacity' \in Nat /\ Len(handlers') <= capacity'
  <2>1. CASE Len(handlers) = capacity /\ capacity = 0
    BY <1>3, <1>8, <2>1
  <2>2. CASE Len(handlers) = capacity /\ capacity # 0
    <3>1. capacity' = 2 * capacity
      BY <1>3, <2>2
    <3> QED BY <1>5, <1>8, <2>2, <3>1
  <2>3. CASE Len(handlers) # capacity
    <3>1. capacity' = capacity
      BY <1>3, <2>3
    <3>2. Len(handlers) + 1 <= capacity
      <4>1. Len(handlers) \in Nat /\ capacity \in Nat /\ Len(handlers) <= capacity
        BY <1>5
      <4> QED BY <2>3, <4>1
    <3> QED BY <1>5, <1>8, <3>1, <3>2
  <2> QED BY <2>1, <2>2, <2>3
<1>10. moved' \in BOOLEAN /\ astray' \in BOOLEAN /\ (~astray' => ~astray /\ (moved' => moved))
  <2>1. CASE Len(handlers) = capacity
    <3>1. moved' = (it # 0) /\ astray' = (astray \/ it # 0)
      BY <1>3, <2>1
    <3> QED BY <3>1, Zenon
  <2>2. CASE Len(handlers) # capacity
    <3>1. moved' = moved /\ astray' = astray
      BY <1>3, <2>2
    <3> QED BY <1>5, <3>1
  <2> QED BY <2>1, <2>2
<1>11. EventObjectTypeOK'
  <2>1. crashed' \in BOOLEAN
    BY <1>2
  <2>2. adds' \in 0..MaxAdds
    BY <1>2, EventObjectBounds DEF EventObjectInv, EventObjectTypeOK
  <2>3. due \subseteq 1..n /\ taken \subseteq 1..n
    BY <1>5
  <2>4. event \in SUBSET Types /\ removes \in 0..MaxRemoves /\ fetched \in 0..MaxFetches /\ wronged \in BOOLEAN
    BY DEF EventObjectInv, EventObjectTypeOK
  <2> QED BY <1>2, <1>5, <1>6, <1>7, <1>8, <1>9, <1>10, <2>1, <2>2, <2>3, <2>4 DEF EventObjectTypeOK
<1>12. InUse'
  <2>1. ASSUME NEW m \in 1..n
        PROVE  /\ info'[m].in_use <=> m = inside
               /\ m \in taken => info'[m].freed \/ (m = inside /\ info'[m].is_deleted)
    <3>1. CASE m \in 1..Len(info)
      BY <1>6, <3>1 DEF EventObjectInv, InUse
    <3>2. CASE m = n
      BY <1>4, <1>5, <1>6, <3>2
    <3> QED BY <1>5, <2>1, <3>1, <3>2
  <2> QED BY <1>2, <1>6, <2>1 DEF InUse
<1>13. Ordered'
  <2>1. \A p \in DOMAIN handlers : ~(Len(handlers) + 1 < p)
    BY <1>5
  <2>2. ~(Len(handlers) + 1 < Len(handlers) + 1)
    BY <1>5
  <2> QED BY <1>5, <1>8, <2>1, <2>2 DEF EventObjectInv, Ordered
<1>14. Called'
  BY <1>2, <1>5, <1>8 DEF EventObjectInv, Called
<1>15. ~astray' => ~moved' /\ ~crashed' /\ OnTrack'
  <2>1. ASSUME ~astray' PROVE ~moved' /\ ~crashed' /\ OnTrack'
    <3>1. ~moved' /\ OnTrack
      BY <1>10, <2>1 DEF EventObjectInv
    <3>2. ~crashed'
      BY <1>2, <3>1 DEF OnTrack
    <3>3. \A p \in DOMAIN handlers' : ~info'[handlers'[p]].freed
      BY <1>4, <1>5, <1>6, <1>8, <3>1 DEF OnTrack
    <3>4. it <= Len(handlers') + 1
      BY <1>5, <1>8, <3>1 DEF OnTrack
    <3>5. inside # 0 => it \in DOMAIN handlers' /\ handlers'[it] = inside
      BY <1>8, <3>1 DEF OnTrack
    <3> QED BY <1>2, <3>1, <3>2, <3>3, <3>4, <3>5 DEF OnTrack
  <2> QED BY <2>1
<1>16. EventsDue'
  <2>1. \A m \in due : info'[m].type \cap event # {}
    BY <1>5, <1>6 DEF EventObjectInv, EventsDue
  <2>2. ASSUME ~astray', it # 0, NEW m \in due \ taken PROVE Ahead(m)'
    <3>1. Ahead(m)
      BY <1>10, <2>2 DEF EventObjectInv, EventsDue
    <3> QED BY <1>2, <1>8, <3>1 DEF Ahead
  <2> QED BY <1>2, <2>1, <2>2 DEF EventsDue
<1> QED BY <1>11, <1>12, <1>13, <1>14, <1>15, <1>16 DEF EventObjectInv

\* A HandlerData whose function runs is only marked.
LEMMA MarkKeeps ==
  ASSUME EventObjectInv, NEW n \in 1..Len(info),
         info[n].in_use, ~info[n].is_deleted,
         taken' = taken \cup {n},
         crashed' \in BOOLEAN, ~astray => ~crashed',
         info' = [info EXCEPT ![n].is_deleted = TRUE],
         removes' = removes + 1, removes < MaxRemoves,
         UNCHANGED <<handlers, capacity, it, inside, event, fetched, calls, due, adds, moved, astray, wronged>>
  PROVE  EventObjectInv'
<1> DEFINE d == [info[n] EXCEPT !.is_deleted = TRUE]
<1>1. /\ Len(info) \in Nat /\ DOMAIN info = 1..Len(info) /\ info \in Seq(HandlerData)
      /\ \A p \in DOMAIN handlers : handlers[p] \in 1..Len(info)
  BY Sizes DEF EventObjectInv, EventObjectTypeOK
<1>2. /\ d \in HandlerData /\ d.in_use = info[n].in_use /\ d.type = info[n].type /\ d.freed = info[n].freed
      /\ d.is_deleted = TRUE
  <2>1. info[n] \in HandlerData
    BY <1>1
  <2> QED BY <2>1 DEF HandlerData
<1>3. info' = [info EXCEPT ![n] = d]
  BY <1>1
<1> HIDE DEF d
<1>4. /\ info' \in Seq(HandlerData) /\ Len(info') = Len(info) /\ info'[n] = d
      /\ \A m \in 1..Len(info) : m # n => info'[m] = info[m]
  <2> DEFINE f == [info EXCEPT ![n] = d]
  <2>1. n \in DOMAIN info
    BY <1>1
  <2>2. /\ f \in Seq(HandlerData) /\ Len(f) = Len(info) /\ f[n] = d
        /\ \A m \in DOMAIN info : m # n => f[m] = info[m]
    BY <1>1, <1>2, <2>1, Written
  <2>3. info' = f
    BY <1>3
  <2> HIDE DEF f
  <2> QED BY <1>1, <2>2, <2>3
<1>5. \A m \in 1..Len(info) : /\ info'[m].in_use = info[m].in_use /\ info'[m].freed = info[m].freed
                              /\ info'[m].type = info[m].type
  BY <1>2, <1>4
<1>6. n = inside
  BY DEF EventObjectInv, InUse
<1>7. EventObjectTypeOK'
  <2>1. removes' \in 0..MaxRemoves /\ taken' \subseteq 1..Len(info)
    BY EventObjectBounds DEF EventObjectInv, EventObjectTypeOK
  <2> QED BY <1>4, <2>1 DEF EventObjectInv, EventObjectTypeOK
<1>8. InUse'
  <2>1. \A m \in 1..Len(info) : info[m].in_use <=> m = inside
    BY DEF EventObjectInv, InUse
  <2>2. \A m \in 1..Len(info) : m \in taken /\ m # n => info[m].freed
    BY <1>6 DEF EventObjectInv, InUse
  <2>3. \A m \in 1..Len(info) : m \in taken \cup {n} => info'[m].freed \/ (m = inside /\ info'[m].is_deleted)
    BY <1>2, <1>4, <1>6, <2>2
  <2> QED BY <1>4, <1>5, <2>1, <2>3 DEF InUse
<1>9. Ordered' /\ Called'
  BY DEF EventObjectInv, Ordered, Called
<1>10. ~astray' => ~moved' /\ ~crashed' /\ OnTrack'
  BY <1>1, <1>5 DEF EventObjectInv, OnTrack
<1>11. EventsDue'
  <2>1. \A m \in due : m \in 1..Len(info) /\ info[m].type \cap event # {}
    BY DEF EventObjectInv, EventObjectTypeOK, EventsDue
  <2>2. \A m \in due : info'[m].type \cap event # {}
    BY <1>5, <2>1
  <2>3. ASSUME ~astray, it # 0, NEW m \in due \ taken PROVE Ahead(m)'
    BY <2>3 DEF EventObjectInv, EventsDue, Ahead
  <2> QED BY <2>2, <2>3 DEF EventsDue
<1> QED BY <1>7, <1>8, <1>9, <1>10, <1>11 DEF EventObjectInv

\* Any other is erased and freed; the walk is astray if that was before the iterator.
LEMMA EraseKeeps ==
  ASSUME EventObjectInv, it = 0 \/ inside # 0, NEW p \in DOMAIN handlers, NEW n, n = handlers[p],
         ~info[n].in_use,
         taken' = taken \cup {n},
         crashed' \in BOOLEAN, ~astray => ~crashed',
         handlers' = Erase(p), info' = [info EXCEPT ![n].freed = TRUE], astray' = (astray \/ p < it),
         removes' = removes + 1, removes < MaxRemoves,
         UNCHANGED <<capacity, it, inside, event, fetched, calls, due, adds, moved, wronged>>
  PROVE  EventObjectInv'
<1> DEFINE d == [info[n] EXCEPT !.freed = TRUE]
<1>1. /\ Len(info) \in Nat /\ DOMAIN info = 1..Len(info) /\ info \in Seq(HandlerData)
      /\ \A r \in DOMAIN handlers : handlers[r] \in 1..Len(info)
      /\ n \in 1..Len(info)
      /\ Len(handlers) \in Nat /\ DOMAIN handlers = 1..Len(handlers) /\ it \in Nat
  BY Sizes DEF EventObjectInv, EventObjectTypeOK
<1>2. /\ d \in HandlerData /\ d.in_use = info[n].in_use /\ d.type = info[n].type /\ d.freed = TRUE
  <2>1. info[n] \in HandlerData
    BY <1>1
  <2> QED BY <2>1 DEF HandlerData
<1>3. info' = [info EXCEPT ![n] = d]
  BY <1>1
<1> HIDE DEF d
<1>4. /\ info' \in Seq(HandlerData) /\ Len(info') = Len(info) /\ info'[n] = d
      /\ \A m \in 1..Len(info) : m # n => info'[m] = info[m]
  <2> DEFINE f == [info EXCEPT ![n] = d]
  <2>1. n \in DOMAIN info
    BY <1>1
  <2>2. /\ f \in Seq(HandlerData) /\ Len(f) = Len(info) /\ f[n] = d
        /\ \A m \in DOMAIN info : m # n => f[m] = info[m]
    BY <1>1, <1>2, <2>1, Written
  <2>3. info' = f
    BY <1>3
  <2> HIDE DEF f
  <2> QED BY <1>1, <2>2, <2>3
<1>5. \A m \in 1..Len(info) : info'[m].in_use = info[m].in_use /\ info'[m].type = info[m].type
  BY <1>2, <1>4
<1>6. n # inside
  BY <1>1 DEF EventObjectInv, InUse
<1>7. /\ handlers' \in Seq(1..Len(info)) /\ Len(handlers') = Len(handlers) - 1
      /\ DOMAIN handlers' = 1..(Len(handlers) - 1) /\ p \in Nat
      /\ DOMAIN handlers' \subseteq Nat /\ DOMAIN handlers \subseteq Nat
      /\ \A q \in DOMAIN handlers' : \E r \in DOMAIN handlers :
           handlers'[q] = handlers[r] /\ r # p /\ IF q < p THEN r = q ELSE r = q + 1
      /\ \A r \in DOMAIN handlers : r # p =>
           \E q \in DOMAIN handlers' : handlers'[q] = handlers[r] /\ IF r < p THEN q = r ELSE q = r - 1
      /\ Ordered'
  BY MovesDown DEF EventObjectInv
<1>8. \A r \in DOMAIN handlers : r # p => handlers[r] # n
  <2> SUFFICES ASSUME NEW r \in DOMAIN handlers, r # p PROVE handlers[r] # n
    OBVIOUS
  <2>1. r < p \/ p < r
    BY <1>7
  <2>2. handlers[r] < handlers[p] \/ handlers[p] < handlers[r]
    BY <2>1 DEF EventObjectInv, Ordered
  <2> QED BY <1>1, <2>2
<1>9. EventObjectTypeOK'
  <2>0. removes \in 0..MaxRemoves /\ taken \subseteq 1..Len(info)
    BY DEF EventObjectInv, EventObjectTypeOK
  <2>1. removes' \in 0..MaxRemoves /\ taken' \subseteq 1..Len(info)
    BY <1>1, <2>0, EventObjectBounds
  <2>2. Len(handlers') <= capacity /\ capacity \in Nat
    BY <1>1, <1>7 DEF EventObjectInv, EventObjectTypeOK
  <2>3. astray' \in BOOLEAN
    OBVIOUS
  <2> QED BY <1>4, <1>7, <2>1, <2>2, <2>3 DEF EventObjectInv, EventObjectTypeOK
<1>10. InUse'
  <2>1. \A m \in 1..Len(info) : info[m].in_use <=> m = inside
    BY DEF EventObjectInv, InUse
  <2>2. \A m \in 1..Len(info) : m \in taken => info[m].freed \/ (m = inside /\ info[m].is_deleted)
    BY DEF EventObjectInv, InUse
  <2>3. \A m \in 1..Len(info) : m \in taken \cup {n} => info'[m].freed \/ (m = inside /\ info'[m].is_deleted)
    BY <1>2, <1>4, <1>6, <2>2
  <2> QED BY <1>4, <1>5, <2>1, <2>3 DEF InUse
<1>11. Called'
  <2>1. ASSUME NEW q \in DOMAIN handlers', NEW i \in DOMAIN calls, handlers'[q] = calls[i]
        PROVE  q < it \/ (q = it /\ inside # 0)
    <3>1. PICK r \in DOMAIN handlers : handlers'[q] = handlers[r] /\ r # p /\ IF q < p THEN r = q ELSE r = q + 1
      BY <1>7
    <3>2. r < it \/ (r = it /\ inside # 0)
      BY <2>1, <3>1 DEF EventObjectInv, Called
    <3>3. q = r \/ (q \in Nat /\ r = q + 1)
      BY <1>7, <3>1
    <3> QED BY <1>1, <3>2, <3>3
  <2> QED BY <2>1 DEF EventObjectInv, Called
<1>12. ASSUME ~astray' PROVE ~astray /\ ~moved /\ OnTrack /\ ~(p < it) /\ p # it
  <2>1. ~astray /\ ~(p < it)
    BY <1>12
  <2>2. ~moved /\ OnTrack
    BY <2>1 DEF EventObjectInv
  <2>3. p # it
    BY <1>1, <1>6, <2>2 DEF OnTrack
  <2> QED BY <2>1, <2>2, <2>3
<1>13. ~astray' => ~moved' /\ ~crashed' /\ OnTrack'
  <2>1. ASSUME ~astray' PROVE OnTrack'
    <3>1. \A q \in DOMAIN handlers' : ~info'[handlers'[q]].freed
      <4> TAKE q \in DOMAIN handlers'
      <4>1. PICK r \in DOMAIN handlers : handlers'[q] = handlers[r] /\ r # p
        BY <1>7
      <4>2. ~info[handlers[r]].freed /\ handlers[r] \in 1..Len(info) /\ handlers[r] # n
        BY <1>1, <1>8, <1>12, <2>1, <4>1 DEF OnTrack
      <4> QED BY <1>4, <4>1, <4>2
    <3>2. CASE it = 0
      <4>1. inside = 0
        BY <3>2 DEF EventObjectInv, Called
      <4> QED BY <1>1, <1>7, <3>1, <3>2, <4>1 DEF OnTrack
    <3>3. CASE inside # 0
      <4>1. it \in DOMAIN handlers /\ handlers[it] = inside /\ it < p
        BY <1>1, <1>7, <1>12, <2>1, <3>3 DEF OnTrack
      <4>2. it \in DOMAIN handlers' /\ handlers'[it] = handlers[it]
        <5>1. PICK q \in DOMAIN handlers' : handlers'[q] = handlers[it] /\ IF it < p THEN q = it ELSE q = it - 1
          BY <1>7, <4>1
        <5> QED BY <4>1, <5>1
      <4>3. it <= Len(handlers') + 1
        BY <1>1, <1>7, <4>2
      <4> QED BY <3>1, <4>1, <4>2, <4>3 DEF OnTrack
    <3> QED BY <3>2, <3>3
  <2> QED BY <1>12, <2>1
<1>14. EventsDue'
  <2>1. \A m \in due : m \in 1..Len(info) /\ info[m].type \cap event # {}
    BY DEF EventObjectInv, EventObjectTypeOK, EventsDue
  <2>2. \A m \in due : info'[m].type \cap event # {}
    BY <1>5, <2>1
  <2>3. ASSUME ~astray', it # 0, NEW m \in due \ (taken \cup {n}) PROVE Ahead(m)'
    <3>0. inside # 0 /\ p > it
      BY <1>1, <1>7, <1>12, <2>3
    <3>1. Ahead(m)
      BY <1>12, <2>3 DEF EventObjectInv, EventsDue
    <3>2. CASE \E i \in DOMAIN calls : calls[i] = m
      BY <3>2 DEF Ahead
    <3>3. ASSUME NEW r \in DOMAIN handlers, handlers[r] = m, r > it PROVE Ahead(m)'
      <4>1. r # p
        BY <2>3, <3>3
      <4>2. PICK q \in DOMAIN handlers' : handlers'[q] = handlers[r] /\ IF r < p THEN q = r ELSE q = r - 1
        BY <1>7, <4>1
      <4>3. q > it
        <5>1. r \in Nat /\ p \in Nat /\ it \in Nat
          BY <1>1, <1>7
        <5>2. q = r \/ (q = r - 1 /\ p < r)
          BY <4>1, <4>2, <5>1
        <5> QED BY <3>0, <3>3, <5>1, <5>2
      <4> QED BY <3>3, <4>2, <4>3 DEF Ahead
    <3> QED BY <3>0, <3>1, <3>2, <3>3 DEF Ahead
  <2> QED BY <2>2, <2>3 DEF EventsDue
<1> QED BY <1>7, <1>9, <1>10, <1>11, <1>13, <1>14 DEF EventObjectInv

\* RemoveHandler() keeps the invariant either way.
LEMMA RemoveKeeps ==
  ASSUME EventObjectInv, NEW cb \in Callbacks, NEW type \in TypeSets, RemoveHandler(cb, type)
  PROVE  EventObjectInv'
<1>1. PICK p, n : p = Place(cb, type) /\ n = handlers[p]
  OBVIOUS
<1>2. p \in DOMAIN handlers
  BY <1>1, PlaceFound DEF RemoveHandler, EventObjectInv
<1>3. /\ it = 0 \/ inside # 0
      /\ removes < MaxRemoves /\ removes' = removes + 1
      /\ ~info[n].is_deleted /\ taken' = taken \cup {n}
      /\ crashed' = \E q \in 1..p : info[handlers[q]].freed
      /\ IF info[n].in_use
         THEN /\ info' = [info EXCEPT ![n].is_deleted = TRUE]
              /\ UNCHANGED <<handlers, astray>>
         ELSE /\ handlers' = Erase(p)
              /\ info' = [info EXCEPT ![n].freed = TRUE]
              /\ astray' = (astray \/ p < it)
      /\ UNCHANGED <<capacity, it, inside, event, fetched, calls, due, adds, moved, wronged>>
  BY <1>1 DEF RemoveHandler, Callable, Freed, KeptWhileInUse, walkVars
<1>4. DOMAIN handlers = 1..Len(handlers) /\ Len(handlers) \in Nat /\ n \in 1..Len(info)
  BY <1>1, <1>2, Sizes DEF EventObjectInv
<1>5. \A q \in 1..p : q \in DOMAIN handlers
  BY <1>2, <1>4
<1>6. crashed' \in BOOLEAN /\ (~astray => ~crashed')
  BY <1>3, <1>5 DEF EventObjectInv, OnTrack
<1>7. CASE info[n].in_use
  BY <1>3, <1>4, <1>6, <1>7, MarkKeeps
<1>8. CASE ~info[n].in_use
  BY <1>1, <1>2, <1>3, <1>6, <1>8, EraseKeeps
<1> QED BY <1>7, <1>8

-----------------------------------------------------------------------------
(* The theorems.                                                           *)

\* The invariant is kept by every step of the walk and every call of a handler.
THEOREM EventObjectInvariant == EventObjectSpec => []EventObjectInv
<1>1. EventObjectInv /\ [EventObjectNext]_eventObjectVars => EventObjectInv'
  <2> SUFFICES ASSUME EventObjectInv, [EventObjectNext]_eventObjectVars PROVE EventObjectInv'
    OBVIOUS
  <2>1. CASE UNCHANGED eventObjectVars
    <3>1. UNCHANGED <<handlers, capacity, info, it, inside, event, adds, removes, fetched, moved, astray, calls,
                      due, taken, wronged, crashed>>
      BY <2>1 DEF eventObjectVars, vecVars, walkVars
    <3>2. EventObjectTypeOK'
      BY <3>1 DEF EventObjectInv, EventObjectTypeOK
    <3>3. InUse' /\ Ordered' /\ Called' /\ EventsDue'
      BY <3>1 DEF EventObjectInv, InUse, Ordered, Called, EventsDue, Ahead
    <3>4. ~astray' => ~moved' /\ ~crashed' /\ OnTrack'
      BY <3>1 DEF EventObjectInv, OnTrack
    <3> QED BY <3>2, <3>3, <3>4 DEF EventObjectInv
  <2> QED BY <2>1, RefusedKeeps, AddKeeps, RemoveKeeps, FetchKeeps, StrayKeeps, PassKeeps, CallKeeps,
             ErasesKeeps, RenewKeeps, DoneKeeps DEF EventObjectNext
<1> QED BY <1>1, EventObjectStarts, PTL DEF EventObjectSpec

\* The vector, the iterator and the history of a walk keep their types.
THEOREM EventObjectTypeCorrect == EventObjectSpec => []EventObjectTypeOK
<1>1. EventObjectInv => EventObjectTypeOK
  BY DEF EventObjectInv
<1> QED BY <1>1, EventObjectInvariant, PTL

\* A handler that cancels or removes itself, removes a later one or adds one while the
\* vector has room leaves the iterator where it should be: a freed HandlerData is used only
\* after an earlier entry was erased, or the vector moved, during the walk.
THEOREM CrashNeedsAstrayHolds == EventObjectSpec => []CrashNeedsAstray
<1>1. EventObjectInv => CrashNeedsAstray
  BY DEF EventObjectInv, CrashNeedsAstray
<1> QED BY <1>1, EventObjectInvariant, PTL

\* No handler is called twice for an event, none after its removal, and none is left out
\* of a walk that was not led astray.
THEOREM CalledOnceHolds == EventObjectSpec => []CalledOnce
<1>1. EventObjectInv => CalledOnce
  <2> SUFFICES ASSUME EventObjectInv PROVE CalledOnce
    OBVIOUS
  <2>1. ~wronged /\ \A i, j \in DOMAIN calls : calls[i] = calls[j] => i = j
    BY DEF EventObjectInv, Called
  <2>2. ASSUME it # 0, inside = 0, AtEnd, ~astray, NEW n \in due \ taken
        PROVE  \E i \in DOMAIN calls : calls[i] = n
    <3>1. Ahead(n)
      BY <2>2 DEF EventObjectInv, EventsDue
    <3>2. \A p \in DOMAIN handlers : ~(p > it) /\ p # it
      BY <2>2, Sizes DEF EventObjectInv, AtEnd
    <3> QED BY <3>1, <3>2 DEF Ahead
  <2> QED BY <2>1, <2>2 DEF CalledOnce
<1> QED BY <1>1, EventObjectInvariant, PTL
=============================================================================
