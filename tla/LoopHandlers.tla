----------------------------- MODULE LoopHandlers -----------------------------
(***************************************************************************)
(* The handler objects of beyond::EventLoop::impl: how WaitEpoll(), on the *)
(* loop's thread, shares them with AddEventHandler() and                   *)
(* RemoveEventHandler(), through the atomics "state" and "in_use" and      *)
(* without a lock (libbeyond/src/event_loop_impl.cc).                      *)
(*                                                                         *)
(* Every access to an atomic is a step. Which events are in one answer of  *)
(* epoll_pwait(), and in which order, is up to the kernel.                 *)
(***************************************************************************)
EXTENDS Naturals, FiniteSets

CONSTANTS
  Handlers,      \* HandlerObjectImpl objects, each allocated at most once
  MaxEvents,     \* the epollWaitSize of Run()
  Nobody,        \* no object
  Threading      \* the values "concurrent" may have

ASSUME HandlersAssumption ==
  /\ MaxEvents \in Nat \ {0}
  /\ Nobody \notin Handlers
  /\ Threading \subseteq BOOLEAN

VARIABLES
  memory,         \* per object: "unused", "allocated" or "freed"
  registered,     \* objects in the epoll set
  ready,          \* objects whose descriptor is ready: level-triggered
  state,          \* the atomic State of each object
  in_use,
  cancelHandler,  \* objects that have a cancel handler
  batch,          \* events of the last epoll_pwait() still to be looked at
  item, svc,      \* WaitEpoll()'s current object and next step
  opt,            \* what the event handler returned
  target, app,    \* the application's current object and next step
  removed,        \* objects whose removal the application was granted
  cancelled,      \* objects whose cancel handler has been called
  concurrent      \* FALSE: the application adds and removes on the loop's
                  \* thread, outside WaitEpoll() or from a handler about
                  \* itself. TRUE: on another thread, at any time; its
                  \* handlers then leave the removal to that thread.

objVars  == <<memory, registered, state, in_use>>
waitVars == <<batch, item, svc, opt>>
appVars  == <<target, app>>
handlersVars == <<memory, registered, ready, state, in_use, cancelHandler, batch, item,
          svc, opt, target, app, removed, cancelled, concurrent>>

States == {"INIT", "DELETE", "DELETED"}

HandlersInit ==
  /\ memory = [h \in Handlers |-> "unused"]
  /\ registered = {} /\ ready = {}
  /\ state = [h \in Handlers |-> "INIT"]
  /\ in_use = [h \in Handlers |-> FALSE]
  /\ cancelHandler = {}
  /\ batch = {} /\ item = Nobody /\ svc = "out" /\ opt = "RENEW"
  /\ target = Nobody /\ app = "idle"
  /\ removed = {} /\ cancelled = {}
  /\ concurrent \in Threading

\* On one thread, the application and WaitEpoll() exclude each other.
AppRuns == concurrent \/ svc = "out"
SvcRuns == concurrent \/ app = "idle"

-----------------------------------------------------------------------------
(* AddEventHandler() and RemoveEventHandler(), by the application.         *)

\* AddEventHandlerInternal(): the object is in the epoll set from here on.
AddEventHandlerInternal(h) ==
  /\ memory[h] = "unused"
  /\ memory' = [memory EXCEPT ![h] = "allocated"]
  /\ registered' = registered \cup {h}
  /\ state' = [state EXCEPT ![h] = "INIT"]
  /\ in_use' = [in_use EXCEPT ![h] = FALSE]

AddEventHandler(h) ==
  /\ AppRuns /\ app = "idle"
  /\ AddEventHandlerInternal(h)
  /\ \/ UNCHANGED appVars
     \/ target' = h /\ app' = "setCancel"
  /\ UNCHANGED <<ready, cancelHandler, waitVars, removed, cancelled, concurrent>>

\* The overload with a cancel handler stores it after the object is registered.
SetCancelHandler ==
  /\ app = "setCancel" /\ app' = "idle" /\ target' = Nobody
  /\ cancelHandler' = cancelHandler \cup {target}
  /\ UNCHANGED <<objVars, ready, waitVars, removed, cancelled, concurrent>>

\* RemoveEventHandler(HandlerObject *): -EALREADY unless the state is INIT. The
\* application does not use a handle it has given back, or that the cancel
\* handler has reported.
RemoveEventHandler(h) ==
  /\ AppRuns /\ app = "idle"
  /\ memory[h] # "unused" /\ h \notin removed \cup cancelled
  /\ IF state[h] = "INIT"
     THEN target' = h /\ app' = "exchange"
     ELSE UNCHANGED appVars
  /\ UNCHANGED <<objVars, ready, cancelHandler, waitVars, removed, cancelled, concurrent>>

\* RemoveEventHandler(HandlerObjectImpl *): in_use.exchange(true).
RemoveExchange ==
  /\ app = "exchange"
  /\ in_use' = [in_use EXCEPT ![target] = TRUE]
  /\ app' = IF in_use[target] THEN "defer" ELSE "delete"
  /\ UNCHANGED <<memory, registered, ready, state, cancelHandler, waitVars, target,
                 removed, cancelled, concurrent>>

RemoveDefer ==
  /\ app = "defer"
  /\ state' = [state EXCEPT ![target] = "DELETE"]
  /\ app' = "idle" /\ target' = Nobody /\ removed' = removed \cup {target}
  /\ UNCHANGED <<memory, registered, in_use, ready, cancelHandler, waitVars,
                 cancelled, concurrent>>

\* EPOLL_CTL_DEL, state DELETED, delete.
DeleteObject(h) ==
  /\ registered' = registered \ {h}
  /\ state' = [state EXCEPT ![h] = "DELETED"]
  /\ memory' = [memory EXCEPT ![h] = "freed"]

RemoveDelete ==
  /\ app = "delete"
  /\ DeleteObject(target)
  /\ app' = "idle" /\ target' = Nobody /\ removed' = removed \cup {target}
  /\ UNCHANGED <<in_use, ready, cancelHandler, waitVars, cancelled, concurrent>>

-----------------------------------------------------------------------------
(* WaitEpoll(), on the loop's thread.                                      *)

EpollWait ==
  /\ SvcRuns /\ svc = "out"
  /\ \E events \in SUBSET (ready \cap registered) :
       Cardinality(events) \in 1..MaxEvents /\ batch' = events
  /\ svc' = "next"
  /\ UNCHANGED <<objVars, ready, cancelHandler, item, opt, appVars, removed,
                 cancelled, concurrent>>

\* The object's type is read, then in_use.exchange(true): an object in use is
\* skipped.
NextItem(h) ==
  /\ svc = "next" /\ h \in batch
  /\ batch' = batch \ {h}
  /\ in_use' = [in_use EXCEPT ![h] = TRUE]
  /\ IF in_use[h]
     THEN UNCHANGED <<item, svc>>
     ELSE item' = h /\ svc' = "handler"
  /\ UNCHANGED <<memory, registered, state, ready, cancelHandler, opt, appVars,
                 removed, cancelled, concurrent>>

\* An event the object did not subscribe to (EPOLLHUP, or EPOLLERR without
\* BEYOND_EVENT_TYPE_ERROR) is skipped before in_use is looked at.
SkipItem(h) ==
  /\ svc = "next" /\ h \in batch
  /\ batch' = batch \ {h}
  /\ UNCHANGED <<objVars, ready, cancelHandler, item, svc, opt, appVars, removed,
                 cancelled, concurrent>>

\* The batch has a signal in it: "ret = -EINTR" also ends the for loop, and the
\* events behind the signal are left to the next epoll_pwait().
SignalCaught ==
  /\ svc = "next"
  /\ batch' = {} /\ svc' = "out" /\ item' = Nobody
  /\ UNCHANGED <<objVars, ready, cancelHandler, opt, appVars, removed, cancelled,
                 concurrent>>

BatchDone ==
  /\ svc = "next" /\ batch = {}
  /\ svc' = "out" /\ item' = Nobody
  /\ UNCHANGED <<objVars, ready, cancelHandler, batch, opt, appVars, removed,
                 cancelled, concurrent>>

\* Mutant: the removal by the handler itself is not deferred.
EventHandlerDeletesItself(returned, removesItself) ==
  /\ svc = "handler" /\ svc' = "load"
  /\ opt' = returned
  /\ ready' = ready \ {item}
  /\ (concurrent => returned = "RENEW" /\ ~removesItself)
  /\ IF removesItself /\ state[item] = "INIT"
     THEN DeleteObject(item) /\ removed' = removed \cup {item} /\ UNCHANGED in_use
     ELSE UNCHANGED <<removed, objVars>>
  /\ UNCHANGED <<cancelHandler, batch, item, appVars, cancelled, concurrent>>

\* The event handler runs and reads its descriptor. On the loop's thread it may
\* call RemoveEventHandler() on its own object, which is in use, and it may add
\* another one.
EventHandler(returned, removesItself) ==
  /\ svc = "handler" /\ svc' = "load"
  /\ opt' = returned
  /\ ready' = ready \ {item}
  /\ (concurrent => returned = "RENEW" /\ ~removesItself)
  /\ IF removesItself /\ state[item] = "INIT"
     THEN /\ state' = [state EXCEPT ![item] = "DELETE"]
          /\ removed' = removed \cup {item}
          /\ UNCHANGED <<memory, registered, in_use>>
     ELSE /\ UNCHANGED removed
          /\ \/ UNCHANGED objVars
             \/ ~concurrent /\ \E h \in Handlers : AddEventHandlerInternal(h)
  /\ UNCHANGED <<cancelHandler, batch, item, appVars, cancelled, concurrent>>

\* Mutant: only the handler's answer is looked at.
LoadStateIgnored ==
  /\ svc = "load"
  /\ svc' = IF opt = "CANCEL" THEN "mark" ELSE "release"
  /\ UNCHANGED <<objVars, ready, cancelHandler, batch, item, opt, appVars, removed,
                 cancelled, concurrent>>

LoadState ==
  /\ svc = "load"
  /\ svc' = IF opt = "CANCEL" \/ state[item] = "DELETE" THEN "mark" ELSE "release"
  /\ UNCHANGED <<objVars, ready, cancelHandler, batch, item, opt, appVars, removed,
                 cancelled, concurrent>>

\* Mutant: the object stays in use, so the removal below is deferred for ever.
MarkKeepsInUse ==
  /\ svc = "mark" /\ svc' = "remove"
  /\ state' = [state EXCEPT ![item] = "DELETE"]
  /\ UNCHANGED <<memory, registered, in_use, ready, cancelHandler, batch, item, opt,
                 appVars, removed, cancelled, concurrent>>

\* state.store(DELETE), and in_use.store(false) for the remover below.
MarkDeleted ==
  /\ svc = "mark" /\ svc' = "remove"
  /\ state' = [state EXCEPT ![item] = "DELETE"]
  /\ in_use' = [in_use EXCEPT ![item] = FALSE]
  /\ UNCHANGED <<memory, registered, ready, cancelHandler, batch, item, opt,
                 appVars, removed, cancelled, concurrent>>

RemoveItem ==
  /\ svc = "remove" /\ svc' = "cancel"
  /\ in_use' = [in_use EXCEPT ![item] = TRUE]
  /\ IF in_use[item]
     THEN state' = [state EXCEPT ![item] = "DELETE"] /\ UNCHANGED <<memory, registered>>
     ELSE DeleteObject(item)
  /\ UNCHANGED <<ready, cancelHandler, batch, item, opt, appVars, removed, cancelled, concurrent>>

CancelHandler ==
  /\ svc = "cancel" /\ svc' = "next"
  /\ cancelled' = cancelled \cup (cancelHandler \cap {item})
  /\ item' = Nobody
  /\ UNCHANGED <<objVars, ready, cancelHandler, batch, opt, appVars, removed, concurrent>>

\* Mutant: in_use is left set after the callback.
ReleaseKeepsInUse ==
  /\ svc = "release" /\ svc' = "next"
  /\ item' = Nobody
  /\ UNCHANGED <<objVars, ready, cancelHandler, batch, opt, appVars, removed,
                 cancelled, concurrent>>

ReleaseItem ==
  /\ svc = "release" /\ svc' = "next"
  /\ in_use' = [in_use EXCEPT ![item] = FALSE]
  /\ item' = Nobody
  /\ UNCHANGED <<memory, registered, state, ready, cancelHandler, batch, opt,
                 appVars, removed, cancelled, concurrent>>

\* A descriptor becomes ready.
Ready(h) ==
  /\ h \in registered \ ready
  /\ ready' = ready \cup {h}
  /\ UNCHANGED <<objVars, cancelHandler, waitVars, appVars, removed, cancelled, concurrent>>

-----------------------------------------------------------------------------
App ==
  \/ \E h \in Handlers : AddEventHandler(h) \/ RemoveEventHandler(h)
  \/ SetCancelHandler \/ RemoveExchange \/ RemoveDefer \/ RemoveDelete

WaitStep ==
  \/ \E h \in Handlers : NextItem(h) \/ SkipItem(h)
  \/ BatchDone \/ SignalCaught
  \/ \E returned \in {"RENEW", "CANCEL"}, self \in BOOLEAN :
       EventHandler(returned, self)
  \/ LoadState \/ MarkDeleted \/ RemoveItem \/ CancelHandler \/ ReleaseItem

HandlersNext == App \/ EpollWait \/ WaitStep \/ \E h \in Handlers : Ready(h)

HandlersSpec == HandlersInit /\ [][HandlersNext]_handlersVars

\* WaitEpoll() goes on, whatever the application does.
HandlersFairSpec == HandlersSpec /\ WF_handlersVars(WaitStep)

-----------------------------------------------------------------------------
\* The objects' fields and the two threads' places in their code.
HandlersTypeOK ==
  /\ memory \in [Handlers -> {"unused", "allocated", "freed"}]
  /\ registered \subseteq Handlers /\ ready \subseteq Handlers
  /\ state \in [Handlers -> States]
  /\ in_use \in [Handlers -> BOOLEAN]
  /\ cancelHandler \subseteq Handlers /\ batch \subseteq Handlers
  /\ removed \subseteq Handlers /\ cancelled \subseteq Handlers
  /\ svc \in {"out", "next", "handler", "load", "mark", "remove", "cancel", "release"}
  /\ item \in Handlers \cup {Nobody}
  /\ svc \in {"handler", "load", "mark", "remove", "cancel", "release"} =>
       item \in Handlers
  /\ opt \in {"RENEW", "CANCEL"}
  /\ app \in {"idle", "setCancel", "exchange", "defer", "delete"}
  /\ target \in Handlers \cup {Nobody}
  /\ app # "idle" => target \in Handlers
  /\ concurrent \in Threading

\* WaitEpoll() is about to read or write object h.
Touches(h) ==
  \/ h \in batch
  \/ h = item /\ svc \in {"handler", "load", "mark", "remove", "release"}

\* No thread touches a deleted object: what holds on one thread.
ObjectsOutliveUse ==
  \A h \in Handlers :
    Touches(h) \/ (h = target /\ app # "idle") => memory[h] = "allocated"

\* On one thread an object is deleted only while it is not in the rest of the
\* batch and not in WaitEpoll()'s hands, whatever its handler returns and whether
\* or not it removes itself.  Even on two threads no object is deleted in WaitEpoll()'s
\* hands, from the call of its event handler to the removal the loop carries out:
\* in_use makes the other remover leave the deletion to the loop.
NoDanglingHandler ==
  /\ ~concurrent => ObjectsOutliveUse
  /\ svc \in {"handler", "load", "mark", "remove", "release"} => memory[item] = "allocated"

\* On one thread, once RemoveEventHandler() has answered 0 the event handler is
\* not called again, although the removal of an object in use is left to the loop.
NotCalledAfterRemove == ~concurrent /\ svc = "handler" => item \notin removed

\* On one thread a removal that was granted is carried out, deferred or not: the
\* object leaves the epoll set and its memory is released.
RemovalCompletes ==
  \A h \in Handlers :
    (~concurrent /\ h \in removed) ~> (memory[h] = "freed" /\ h \notin registered)

\* The cancel handler is told of every object that the loop deletes on its own
\* account, once the object is gone, and of no other: the application can keep
\* its handles apart from the ones the loop has disposed of.
CancelReported ==
  \A h \in Handlers :
    /\ h \in cancelled => memory[h] = "freed" /\ h \notin registered
    /\ memory[h] = "freed" /\ h \in cancelHandler /\ h \notin removed =>
         h \in cancelled \/ (h = item /\ svc = "cancel")
=============================================================================
