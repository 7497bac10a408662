------------------------------ MODULE EventLoop ------------------------------
(***************************************************************************)
(* The life cycle of beyond::EventLoop::impl (libbeyond/src/               *)
(* event_loop_impl.cc): Run, Stop, SetStopHandler and Destroy as the       *)
(* application's threads call them, against the loop threads that Run      *)
(* starts (or, without a thread, against Main running the loop inline).    *)
(*                                                                         *)
(* A section under eventLoopStateMutex is one step, and so is every access *)
(* to an atomic; what a method does after it has unlocked is another step. *)
(* The loop condition reads eventLoopState without the mutex: an aligned   *)
(* word read that follows a system call, so it sees a value that was       *)
(* stored, old or new.                                                     *)
(***************************************************************************)
EXTENDS Integers, FiniteSets

CONSTANTS
  Callers,     \* application threads that call the loop's methods
  Main,        \* the thread that created the loop: main_thid
  MaxRuns,     \* bound: the number of Run() calls that are accepted
  LoopCounts,  \* values of Run()'s loop_count (-1: no limit)
  Timeouts,    \* values of Run()'s timeout_in_ms (-1: no limit)
  Clients      \* the kinds of client, of ClientKind, that use the loop

LoopThreads == 1..MaxRuns

\* "careful" runs the loop again only when the previous loop thread is gone, and
\* ends with Destroy(); "restarts" runs it again as soon as the state allows it;
\* "handsOver" may end with Stop() and leave Destroy() to the stop handler.
ClientKind == {"careful", "restarts", "handsOver"}

ASSUME ConstAssumption ==
  /\ Main \in Callers
  /\ MaxRuns \in Nat
  /\ Callers \cap LoopThreads = {}
  /\ LoopCounts \subseteq Int /\ Timeouts \subseteq Int
  /\ Clients \subseteq ClientKind

VARIABLES
  eventLoopState,   \* the enum EventLoopState, guarded by the mutex
  ctrl,             \* pointers written to spfd[SP_CTRL] and not yet read
  enable_thread,    \* Create()'s argument: Run() starts a thread
  loopCount,        \* iterations left, -1 for no limit
  timeoutInMS,
  stopEventObject,  \* the stop handler: none, one that notifies, one that
                    \* calls Destroy()
  runs,             \* loop threads started so far; svc_thid is the last one
  destructed,
  alive,            \* FALSE once "delete this" has run
  client,           \* the kind of client
  lastCall,         \* the owner has made its last call
  pc                \* what each thread is about to do

\* Set by Create() and by the choice of a client, and never changed.
fixed   == <<enable_thread, client>>
runVars == <<loopCount, timeoutInMS, runs>>
vars == <<eventLoopState, ctrl, enable_thread, loopCount, timeoutInMS,
          stopEventObject, runs, destructed, alive, client, lastCall, pc>>

-----------------------------------------------------------------------------
STOPPED         == 0
START_REQUESTED == 1
STARTED         == 2
STOP_REQUESTED  == 4
EventLoopState  == {STOPPED, START_REQUESTED, STARTED, STOP_REQUESTED}

Bit(x, b) == (x \div b) % 2 = 1
\* The C expression !!(x & mask), for the three bits the enum uses.
Masked(x, mask) == \E b \in {1, 2, 4} : Bit(x, b) /\ Bit(mask, b)

Threads   == Callers \cup LoopThreads
DestroyPC == {"destroyStop", "destroyPush", "destroyJoin", "destroyDelete"}
CallerPC  == {"idle", "inRun", "stopPush"} \cup DestroyPC
LoopPC    == {"none", "setup", "check", "wait", "eventPush", "leave", "tail",
              "notify", "destroy", "exited"} \cup DestroyPC

Goto(t, from, to) == pc[t] = from /\ pc' = [pc EXCEPT ![t] = to]

\* A loop thread past this point does not touch the loop any more.
Gone(i) == pc[i] \in {"none", "exited"}

Init ==
  /\ eventLoopState = STOPPED
  /\ ctrl = 0
  /\ enable_thread \in BOOLEAN
  /\ loopCount = -1
  /\ timeoutInMS = -1
  /\ stopEventObject = "null"
  /\ runs = 0
  /\ destructed = FALSE
  /\ alive = TRUE
  /\ client \in Clients
  /\ lastCall = FALSE
  /\ pc = [t \in Threads |-> IF t \in Callers THEN "idle" ELSE "none"]

-----------------------------------------------------------------------------
(* StopLoop() and Destroy(), which application threads and loop threads    *)
(* share.                                                                  *)

\* Mutant: pushEvent is computed after the state has been overwritten.
StopLoopPushesLate(t, from, push, done) ==
  /\ Goto(t, from, done)
  /\ eventLoopState' =
       IF Masked(eventLoopState, STOP_REQUESTED + STOPPED)
       THEN eventLoopState ELSE STOP_REQUESTED

\* The locked section of StopLoop() by thread t: on to "push" if the loop has
\* to be woken, to "done" otherwise (-EALREADY included).
StopLoop(t, from, push, done) ==
  /\ Goto(t, from, IF eventLoopState = STARTED THEN push ELSE done)
  /\ eventLoopState' =
       IF Masked(eventLoopState, STOP_REQUESTED + STOPPED)
       THEN eventLoopState ELSE STOP_REQUESTED

\* The write of StopLoop(), after the unlock.
StopPush(t, from, to) == Goto(t, from, to) /\ ctrl' = ctrl + 1

\* Destroy()'s guard against a second call.
DestroyEnter(t, from, ignored) ==
  /\ Goto(t, from, IF destructed THEN ignored ELSE "destroyStop")
  /\ destructed' = TRUE

\* Mutant: Destroy() trusts the user to have stopped the loop.
DestroyWithoutStop(t) ==
  /\ Goto(t, "destroyStop", "destroyJoin")
  /\ UNCHANGED <<eventLoopState, ctrl, fixed, runVars, stopEventObject, destructed,
                 alive, lastCall>>

DestroyStop(t) ==
  /\ StopLoop(t, "destroyStop", "destroyPush", "destroyJoin")
  /\ UNCHANGED <<ctrl, fixed, runVars, stopEventObject, destructed, alive, lastCall>>

DestroyPush(t) ==
  /\ StopPush(t, "destroyPush", "destroyJoin")
  /\ UNCHANGED <<eventLoopState, fixed, runVars, stopEventObject, destructed, alive,
                 lastCall>>

\* Mutant: Destroy() deletes without joining the loop thread.
DestroyWithoutJoin(t) ==
  /\ Goto(t, "destroyJoin", "destroyDelete")
  /\ UNCHANGED <<eventLoopState, ctrl, fixed, runVars, stopEventObject, destructed,
                 alive, lastCall>>

\* Main joins svc_thid (itself, hence EDEADLK, before the first Run()); the
\* loop thread detaches itself instead.
DestroyJoin(t) ==
  /\ (enable_thread /\ t = Main /\ runs > 0) => pc[runs] = "exited"
  /\ Goto(t, "destroyJoin", "destroyDelete")
  /\ UNCHANGED <<eventLoopState, ctrl, fixed, runVars, stopEventObject, destructed,
                 alive, lastCall>>

DestroyDelete(t) ==
  /\ Goto(t, "destroyDelete", IF t \in Callers THEN "idle" ELSE "exited")
  /\ alive' = FALSE
  /\ UNCHANGED <<eventLoopState, ctrl, fixed, runVars, stopEventObject, destructed,
                 lastCall>>

-----------------------------------------------------------------------------
(* The application's calls. Every client keeps C++'s ownership rule: nobody *)
(* calls the loop once the owner has made its last call, and no other call  *)
(* is in progress when the owner makes it. A stop handler that destroys the *)
(* loop is registered on a threaded loop that runs without a limit, and the *)
(* next call is the last: Inference::Runtime::impl::Async::Destroy().       *)

Armed   == stopEventObject = "destroy"
MayCall == ~lastCall /\ ~Armed
MayRun  ==
  /\ MayCall /\ pc[Main] = "idle"
  /\ client # "restarts" => \A i \in LoopThreads : Gone(i)
Quiet   == \A t \in Callers \ {Main} : pc[t] = "idle"

\* Mutant: only a STARTED loop refuses to run again.
RunUnlessStarted(count, timeout) ==
  /\ MayRun
  /\ runs < MaxRuns
  /\ eventLoopState # STARTED
  /\ eventLoopState' = START_REQUESTED
  /\ loopCount' = count /\ timeoutInMS' = timeout
  /\ runs' = runs + 1
  /\ pc' = [pc EXCEPT ![runs + 1] = "setup",
                      ![Main] = IF enable_thread THEN "idle" ELSE "inRun"]
  /\ UNCHANGED <<ctrl, fixed, stopEventObject, destructed, alive, lastCall>>

RunAccepted(count, timeout) ==
  /\ MayRun
  /\ runs < MaxRuns
  /\ eventLoopState = STOPPED
  /\ eventLoopState' = START_REQUESTED
  /\ loopCount' = count /\ timeoutInMS' = timeout
  /\ runs' = runs + 1
  /\ pc' = [pc EXCEPT ![runs + 1] = "setup",
                      ![Main] = IF enable_thread THEN "idle" ELSE "inRun"]
  /\ UNCHANGED <<ctrl, fixed, stopEventObject, destructed, alive, lastCall>>

\* pthread_attr_init() or pthread_create() fails: nothing resets the state.
RunThreadFails(count, timeout) ==
  /\ MayRun /\ enable_thread
  /\ eventLoopState = STOPPED
  /\ eventLoopState' = START_REQUESTED
  /\ loopCount' = count /\ timeoutInMS' = timeout
  /\ UNCHANGED <<ctrl, fixed, stopEventObject, runs, destructed, alive, lastCall,
                 pc>>

\* Without a thread Run() returns when ThreadMain() does.
RunReturns ==
  /\ Goto(Main, "inRun", "idle")
  /\ pc[runs] = "exited"
  /\ UNCHANGED <<eventLoopState, ctrl, fixed, runVars, stopEventObject, destructed,
                 alive, lastCall>>

Stop(t) ==
  /\ \/ MayCall /\ UNCHANGED lastCall
     \/ client = "handsOver" /\ Armed /\ ~lastCall /\ t = Main /\ lastCall' = TRUE
  /\ StopLoop(t, "idle", "stopPush", "idle")
  /\ UNCHANGED <<ctrl, fixed, runVars, stopEventObject, destructed, alive>>

StopWrite(t) ==
  /\ StopPush(t, "stopPush", "idle")
  /\ UNCHANGED <<eventLoopState, fixed, runVars, stopEventObject, destructed, alive,
                 lastCall>>

SetStopHandler(handler) ==
  /\ MayCall /\ pc[Main] = "idle"
  /\ handler = "destroy" =>
       /\ enable_thread /\ Quiet /\ loopCount = -1 /\ timeoutInMS = -1
       /\ eventLoopState \in {START_REQUESTED, STARTED}
  /\ stopEventObject' = handler
  /\ UNCHANGED <<eventLoopState, ctrl, fixed, runVars, destructed, alive, lastCall,
                 pc>>

Destroy ==
  /\ ~lastCall /\ Quiet
  /\ DestroyEnter(Main, "idle", "idle")
  /\ lastCall' = TRUE
  /\ UNCHANGED <<eventLoopState, ctrl, fixed, runVars, stopEventObject, alive>>

-----------------------------------------------------------------------------
(* ThreadMain(), by loop thread i.                                         *)

\* Mutant: the thread sets STARTED over a stop requested while it was starting.
LoopStartsAnyway(i) ==
  /\ Goto(i, "setup", "check")
  /\ eventLoopState' = STARTED
  /\ UNCHANGED <<ctrl, fixed, runVars, stopEventObject, destructed, alive, lastCall>>

LoopStarts(i) ==
  /\ Goto(i, "setup", "check")
  /\ eventLoopState' =
       IF eventLoopState = START_REQUESTED THEN STARTED ELSE eventLoopState
  /\ UNCHANGED <<ctrl, fixed, runVars, stopEventObject, destructed, alive, lastCall>>

\* Invalid parameters, malloc, pthread_sigmask, signalfd or epoll_ctl failed:
\* the stop handler is not called.
LoopSetupFails(i) ==
  /\ Goto(i, "setup", "exited")
  /\ eventLoopState' = STOPPED
  /\ UNCHANGED <<ctrl, fixed, runVars, stopEventObject, destructed, alive, lastCall>>

\* The condition of the while loop, and the decrement that follows it.
LoopCheck(i) ==
  LET again == eventLoopState = STARTED /\ loopCount # 0
  IN /\ Goto(i, "check", IF again THEN "wait" ELSE "leave")
     /\ loopCount' = IF again /\ loopCount > 0 THEN loopCount - 1 ELSE loopCount
     /\ UNCHANGED <<eventLoopState, ctrl, fixed, timeoutInMS, stopEventObject, runs,
                    destructed, alive, lastCall>>

\* WaitEpoll() returns with the socket pair readable: CtrlEventHandler() reads.
CtrlEventHandler(i) ==
  /\ ctrl > 0
  /\ Goto(i, "wait", "check")
  /\ ctrl' = ctrl - 1
  /\ UNCHANGED <<eventLoopState, fixed, runVars, stopEventObject, destructed, alive,
                 lastCall>>

\* WaitEpoll() returns with a signal, an error, or after another event's
\* handler: a stop pointer may still be unread.
WaitOther(i) ==
  /\ Goto(i, "wait", "check")
  /\ UNCHANGED <<eventLoopState, ctrl, fixed, runVars, stopEventObject, destructed,
                 alive, lastCall>>

WaitTimesOut(i) ==
  /\ timeoutInMS >= 0
  /\ Goto(i, "wait", "leave")
  /\ UNCHANGED <<eventLoopState, ctrl, fixed, runVars, stopEventObject, destructed,
                 alive, lastCall>>

\* An event handler, on the loop thread, calls Stop().
HandlerStops(i) ==
  /\ ~Armed
  /\ StopLoop(i, "wait", "eventPush", "check")
  /\ UNCHANGED <<ctrl, fixed, runVars, stopEventObject, destructed, alive, lastCall>>

HandlerStopWrite(i) ==
  /\ StopPush(i, "eventPush", "check")
  /\ UNCHANGED <<eventLoopState, fixed, runVars, stopEventObject, destructed, alive,
                 lastCall>>

LoopLeaves(i) ==
  /\ Goto(i, "leave", "tail")
  /\ eventLoopState' = STOPPED
  /\ UNCHANGED <<ctrl, fixed, runVars, stopEventObject, destructed, alive, lastCall>>

\* The signalfd is removed from the loop's epoll handle, and the stop handler
\* is taken: at most one thread gets it.
TakeStopHandler(i) ==
  /\ Goto(i, "tail",
          IF stopEventObject = "null" THEN "exited" ELSE stopEventObject)
  /\ stopEventObject' = "null"
  /\ UNCHANGED <<eventLoopState, ctrl, fixed, runVars, destructed, alive, lastCall>>

\* The stop handler runs: a notification, or a call of Destroy() on this thread.
StopHandler(i) ==
  /\ \/ Goto(i, "notify", "exited") /\ UNCHANGED destructed
     \/ DestroyEnter(i, "destroy", "exited")
  /\ UNCHANGED <<eventLoopState, ctrl, fixed, runVars, stopEventObject, alive,
                 lastCall>>

-----------------------------------------------------------------------------
Call ==
  \/ \E c \in LoopCounts, ms \in Timeouts :
       RunAccepted(c, ms) \/ RunThreadFails(c, ms)
  \/ \E t \in Callers : Stop(t)
  \/ \E handler \in {"null", "notify", "destroy"} : SetStopHandler(handler)
  \/ Destroy

\* What a thread inside Destroy() does next.
DestroyStep(t) ==
  DestroyStop(t) \/ DestroyPush(t) \/ DestroyJoin(t) \/ DestroyDelete(t)

\* What a loop thread does without waiting for anything but a stop pointer.
LoopStep(i) ==
  \/ LoopStarts(i) \/ LoopCheck(i) \/ CtrlEventHandler(i)
  \/ HandlerStopWrite(i) \/ LoopLeaves(i) \/ TakeStopHandler(i)
  \/ StopHandler(i)

\* What happens to a loop thread from outside.
LoopEvent(i) ==
  LoopSetupFails(i) \/ WaitOther(i) \/ WaitTimesOut(i) \/ HandlerStops(i)

Next ==
  \/ Call
  \/ RunReturns
  \/ \E t \in Callers : StopWrite(t)
  \/ \E t \in Threads : DestroyStep(t)
  \/ \E i \in LoopThreads : LoopStep(i) \/ LoopEvent(i)

Spec == Init /\ [][Next]_vars

\* A runnable thread is eventually scheduled: a call that has begun goes on, and
\* epoll reports a readable descriptor. Nobody has to call the loop, and no
\* event, failure or timeout has to happen.
Fairness ==
  /\ \A t \in Callers : WF_vars(StopWrite(t))
  /\ \A t \in Threads : WF_vars(DestroyStep(t))
  /\ \A i \in LoopThreads : WF_vars(LoopStep(i))
  /\ WF_vars(RunReturns)

FairSpec == Spec /\ Fairness

-----------------------------------------------------------------------------
\* The fields keep their types and every thread is at a place of its own code.
TypeOK ==
  /\ eventLoopState \in EventLoopState
  /\ ctrl \in Nat
  /\ loopCount \in Int /\ timeoutInMS \in Int
  /\ stopEventObject \in {"null", "notify", "destroy"}
  /\ destructed \in BOOLEAN /\ alive \in BOOLEAN
  /\ enable_thread \in BOOLEAN /\ client \in Clients /\ lastCall \in BOOLEAN
  /\ runs \in 0..MaxRuns
  /\ pc \in [Threads -> CallerPC \cup LoopPC]

\* A loop thread from the moment Run() accepts until it has set STOPPED.
Active(i) == pc[i] \in {"setup", "check", "wait", "eventPush", "leave"}

\* However often the loop is stopped and run again, and however late the old
\* loop threads finish, at most one thread is inside the loop: WaitEpoll() and
\* loopCount, which no lock guards, have one user.
OneLoopThread ==
  \A i, j \in LoopThreads : Active(i) /\ Active(j) => i = j

\* StopLoop() writes to the socket pair only if it saw STARTED, and writes after
\* the unlock. Even so no wake-up is lost: a loop thread that is blocked in
\* WaitEpoll() after the stop was requested has a pointer to read, or a thread
\* on its way to write one.
StopNotLost ==
  \A i \in LoopThreads :
    pc[i] = "wait" /\ eventLoopState = STOP_REQUESTED =>
      \/ ctrl > 0
      \/ \E t \in Threads : pc[t] \in {"stopPush", "destroyPush", "eventPush"}

\* Thread t is about to read or write a field of the loop.
Inside(t) ==
  pc[t] \in {"stopPush", "setup", "check", "wait", "eventPush", "leave", "tail",
            "destroy"} \cup DestroyPC

\* Nobody touches the loop once it is deleted, and its owner knows that it must
\* not call it any more.
DeletedIsUnused == ~alive => lastCall /\ \A t \in Threads : ~Inside(t)

\* With a careful client nobody touches the loop once Destroy() has deleted it:
\* not the loop thread (main joins it), not a Stop() that has still to write, and
\* not a stop handler that calls Destroy() again (the destructed flag).
NoUseAfterFree == client = "careful" => DeletedIsUnused

\* A stop that is requested while a loop thread runs ends that thread's loop:
\* there is always a later moment at which no thread is in the loop.
StopCompletes ==
  (eventLoopState = STOP_REQUESTED /\ \E i \in LoopThreads : Active(i))
    ~> (\A i \in LoopThreads : ~Active(i))

\* Destroy() returns: main's join of the loop thread cannot wait forever, with or
\* without an earlier Stop(), and whatever the stop handler does.
DestroyCompletes == destructed ~> ~alive

-----------------------------------------------------------------------------
(* The inductive invariant behind OneLoopThread and StopNotLost, in parts. *)

\* The loop threads that Run() has not started yet.
NotYetRun == \A i \in LoopThreads : i > runs => pc[i] = "none"

\* STOPPED is set by the thread that leaves, so it means that no thread is in
\* the loop. (The converse fails: Stop() on a stopped loop.)
StoppedIsEmpty == eventLoopState = STOPPED => \A i \in LoopThreads : ~Active(i)

\* The loop is entered through STARTED, and only the thread itself leaves it.
InLoopState ==
  \A i \in LoopThreads :
    pc[i] \in {"check", "wait", "eventPush"} =>
      eventLoopState \in {STARTED, STOP_REQUESTED}

LoopInv == NotYetRun /\ StoppedIsEmpty /\ InLoopState /\ OneLoopThread /\ StopNotLost

(* The inductive invariant behind NoUseAfterFree, in parts, for a careful  *)
(* client.                                                                 *)

\* Destroy() is the owner's last call: the other threads are out by then.
LastCallIsDestroy ==
  /\ \A t \in Callers \ {Main} : pc[t] \in {"idle", "stopPush"}
  /\ pc[Main] \in CallerPC
  /\ lastCall => Quiet /\ pc[Main] \in {"idle"} \cup DestroyPC
  /\ pc[Main] \in DestroyPC => lastCall
  /\ destructed <=> lastCall

\* Every loop thread but the last one is gone, and an inline loop has its Run()
\* on Main's stack.
OldThreadsGone ==
  /\ \A i \in LoopThreads : i < runs => pc[i] = "exited"
  /\ \A i \in LoopThreads : i = runs => pc[i] # "none"
  /\ ~enable_thread /\ runs > 0 /\ pc[Main] # "inRun" => pc[runs] = "exited"

\* How a thread that leaves the loop got there.
LeavingState ==
  \A i \in LoopThreads :
    /\ pc[i] = "eventPush" => eventLoopState = STOP_REQUESTED
    /\ pc[i] = "leave" =>
         \/ eventLoopState = STOP_REQUESTED
         \/ eventLoopState = STARTED /\ (loopCount = 0 \/ timeoutInMS >= 0)
    /\ pc[i] = "tail" => eventLoopState \in {STOPPED, STOP_REQUESTED}

\* A loop with a destroying stop handler does not end before the last call.
ArmedStays ==
  Armed /\ ~lastCall =>
    /\ loopCount = -1 /\ timeoutInMS = -1
    /\ eventLoopState # STOP_REQUESTED
    /\ \A i \in LoopThreads : pc[i] \notin {"leave", "tail"}

\* So the handler's Destroy() finds the flag set, and only Main deletes.
OnlyMainDeletes ==
  \A i \in LoopThreads : pc[i] \notin DestroyPC /\ (pc[i] = "destroy" => lastCall)

DeletedAfterAll ==
  /\ pc[Main] = "destroyDelete" => \A i \in LoopThreads : Gone(i)
  /\ ~alive => lastCall /\ pc[Main] = "idle" /\ \A i \in LoopThreads : Gone(i)

CarefulInv ==
  client = "careful" =>
    /\ LastCallIsDestroy /\ OldThreadsGone /\ LeavingState
    /\ ArmedStays /\ OnlyMainDeletes /\ DeletedAfterAll
=============================================================================
