---------------------------- MODULE EventObject ----------------------------
(***************************************************************************)
(* The handlers of an EventObject (libbeyond/src/event_object.cc), the     *)
(* base of the event objects of inference, peer and authenticator.         *)
(* FetchEventData() walks the vector of handlers with an iterator and      *)
(* calls those of the event's type; a handler may call AddHandler() and    *)
(* RemoveHandler() of the same object, which change the vector under the   *)
(* iterator.                                                               *)
(*                                                                         *)
(* The vector is the one of libstdc++: erase() moves the later entries     *)
(* down, push_back() of a full vector moves it and doubles its capacity,   *)
(* and an iterator is an address, so that it keeps its place in the vector *)
(* as long as that does not move.                                          *)
(***************************************************************************)
EXTENDS Naturals, Sequences, FiniteSets

CONSTANTS
    Callbacks,      \* the pairs of a function and its data
    Types,          \* the bits of a type
    MaxAdds,        \* bound: calls of AddHandler()
    MaxRemoves,     \* bound: calls of RemoveHandler()
    MaxFetches      \* bound: events fetched

ASSUME EventObjectBounds ==
    /\ Types # {}
    /\ MaxAdds \in Nat /\ MaxRemoves \in Nat /\ MaxFetches \in Nat

VARIABLES
    handlers,       \* the vector: the numbers of the HandlerData
    capacity,       \* of the vector
    info,           \* info[n]: the HandlerData n, by the order of allocation
    it,             \* the iterator of FetchEventData(), 0 when it is not running
    inside,         \* the HandlerData whose function runs, or 0
    event,          \* the type of the event
    adds, removes, fetched,
    moved,          \* push_back() has moved the vector during the walk
    astray,         \* history: the vector was moved, or an entry before the iterator erased,
                    \* during a walk
    calls,          \* history: the HandlerData called for this event, in order
    due,            \* history: the HandlerData the event has to go to
    taken,          \* history: the HandlerData RemoveHandler() has taken
    wronged,        \* history: a removed HandlerData was called
    crashed         \* a freed HandlerData or a place outside the vector was used

vecVars  == <<handlers, capacity, info>>
walkVars == <<it, inside, event, fetched, calls, due>>
eventObjectVars == <<vecVars, walkVars, adds, removes, moved, astray, taken, wronged, crashed>>

TypeSets == SUBSET Types \ {{}}

\* cb stands for the function and its data, freed for an object that was deleted.
HandlerData == [cb : Callbacks, type : TypeSets, in_use : BOOLEAN, is_deleted : BOOLEAN, freed : BOOLEAN]

EventObjectInit ==
    /\ handlers = <<>> /\ capacity = 0 /\ info = <<>>
    /\ it = 0 /\ inside = 0 /\ event = {}
    /\ adds = 0 /\ removes = 0 /\ fetched = 0
    /\ moved = FALSE /\ astray = FALSE /\ calls = <<>> /\ due = {} /\ taken = {} /\ wronged = FALSE
    /\ crashed = FALSE

Freed(n) == info[n].freed

\* Where the code may be called from: outside FetchEventData(), or inside a function.
Callable == ~crashed /\ (it = 0 \/ inside # 0)

\* The vector without its entry at place p.
Erase(p) == SubSeq(handlers, 1, p - 1) \o SubSeq(handlers, p + 1, Len(handlers))

\* A HandlerData that AddHandler() takes for the one it is asked to add.
SameHandler(n, cb, type) == info[n].cb = cb /\ info[n].type \cap type # {}

\* AddHandler(): refused if there is one that overlaps, also one that is_deleted.
AddRefused(cb, type) ==
    /\ Callable
    /\ adds < MaxAdds
    /\ adds' = adds + 1
    /\ \E p \in DOMAIN handlers : SameHandler(handlers[p], cb, type)
    /\ crashed' = \E p \in DOMAIN handlers : Freed(handlers[p])
    /\ UNCHANGED <<vecVars, walkVars, removes, moved, astray, taken, wronged>>

\* AddHandler(): push_back(), which moves a vector that is full.
AddHandler(cb, type) ==
    /\ Callable
    /\ adds < MaxAdds
    /\ adds' = adds + 1
    /\ \A p \in DOMAIN handlers : ~SameHandler(handlers[p], cb, type)
    /\ crashed' = \E p \in DOMAIN handlers : Freed(handlers[p])
    /\ info' = Append(info, [cb |-> cb, type |-> type, in_use |-> FALSE, is_deleted |-> FALSE,
                             freed |-> FALSE])
    /\ handlers' = Append(handlers, Len(info) + 1)
    /\ IF Len(handlers) = capacity
       THEN /\ capacity' = IF capacity = 0 THEN 1 ELSE 2 * capacity
            /\ moved' = (it # 0)
            /\ astray' = (astray \/ it # 0)
       ELSE UNCHANGED <<capacity, moved, astray>>
    /\ UNCHANGED <<walkVars, removes, taken, wronged>>

\* The place RemoveHandler() finds: the first with the same function, data and type.
Place(cb, type) ==
    CHOOSE p \in DOMAIN handlers :
        /\ info[handlers[p]].cb = cb /\ info[handlers[p]].type = type
        /\ \A q \in 1..(p - 1) : info[handlers[q]].cb # cb \/ info[handlers[q]].type # type

\* Mutant: a HandlerData is deleted whether it is in use or not.
KeptWhileInUseNot(n) == FALSE

\* A HandlerData whose function runs is only marked.
KeptWhileInUse(n) == info[n].in_use

\* RemoveHandler() of a handler that is there and not marked already.
RemoveHandler(cb, type) ==
    /\ Callable
    /\ removes < MaxRemoves
    /\ removes' = removes + 1
    /\ \E p \in DOMAIN handlers : info[handlers[p]].cb = cb /\ info[handlers[p]].type = type
    /\ LET p == Place(cb, type)
           n == handlers[p] IN
       /\ ~info[n].is_deleted
       /\ taken' = taken \cup {n}
       /\ crashed' = \E q \in 1..p : Freed(handlers[q])
       /\ IF KeptWhileInUse(n)
          THEN /\ info' = [info EXCEPT ![n].is_deleted = TRUE]
               /\ UNCHANGED <<handlers, astray>>
          ELSE /\ handlers' = Erase(p)
               /\ info' = [info EXCEPT ![n].freed = TRUE]
               /\ astray' = (astray \/ p < it)
    /\ UNCHANGED <<capacity, walkVars, adds, moved, wronged>>

\* FetchEventData(): the event is there, and the walk begins.
FetchEventData(type) ==
    /\ ~crashed /\ it = 0
    /\ fetched < MaxFetches
    /\ fetched' = fetched + 1
    /\ it' = 1 /\ event' = type /\ calls' = <<>>
    /\ due' = {handlers[p] : p \in {q \in DOMAIN handlers : info[handlers[q]].type \cap type # {}}}
    /\ UNCHANGED <<vecVars, inside, adds, removes, moved, astray, taken, wronged, crashed>>

\* The end of the vector, as the iterator sees it.
AtEnd == it = Len(handlers) + 1

walking == ~crashed /\ it # 0 /\ inside = 0 /\ ~AtEnd

\* The iterator is outside the vector, or at a HandlerData that was freed.
Stray ==
    /\ walking
    /\ it <= Len(handlers) => Freed(handlers[it])
    /\ crashed' = TRUE
    /\ UNCHANGED <<vecVars, walkVars, adds, removes, moved, astray, taken, wronged>>

\* A handler of other types is passed over.
Pass ==
    /\ walking
    /\ it <= Len(handlers)
    /\ ~Freed(handlers[it])
    /\ info[handlers[it]].type \cap event = {}
    /\ it' = it + 1
    /\ UNCHANGED <<vecVars, inside, event, fetched, calls, due, adds, removes, moved, astray, taken, wronged,
                   crashed>>

\* A handler's function is called.
CallHandler ==
    /\ walking
    /\ it <= Len(handlers)
    /\ LET n == handlers[it] IN
       /\ ~Freed(n)
       /\ info[n].type \cap event # {}
       /\ inside' = n
       /\ info' = [info EXCEPT ![n].in_use = TRUE]
       /\ calls' = Append(calls, n)
       /\ wronged' = (wronged \/ n \in taken)
    /\ UNCHANGED <<handlers, capacity, it, event, fetched, due, adds, removes, moved, astray, taken, crashed>>

\* Mutant: after erase() the iterator is moved on.
NextPlacePlusOne(p) == p + 1

\* The iterator erase() returns: the place of the entry that has moved down.
NextPlace(p) == p

\* The function returns CANCEL, or was removed by itself: its entry is erased, or
\* rather the one the iterator is at, and its HandlerData deleted.
ReturnErases(cancel) ==
    /\ ~crashed /\ inside # 0
    /\ cancel \/ info[inside].is_deleted
    /\ info' = [info EXCEPT ![inside].in_use = FALSE, ![inside].freed = TRUE]
    /\ crashed' = (moved \/ Freed(inside) \/ it > Len(handlers))
    /\ handlers' = IF it <= Len(handlers) THEN Erase(it) ELSE handlers
    /\ it' = NextPlace(it)
    /\ taken' = taken \cup {inside}
    /\ inside' = 0
    /\ UNCHANGED <<capacity, event, fetched, calls, due, adds, removes, moved, astray, wronged>>

\* The function returns RENEW.
ReturnRenews ==
    /\ ~crashed /\ inside # 0
    /\ ~info[inside].is_deleted
    /\ info' = [info EXCEPT ![inside].in_use = FALSE]
    /\ crashed' = (moved \/ Freed(inside))
    /\ it' = it + 1
    /\ inside' = 0
    /\ UNCHANGED <<handlers, capacity, event, fetched, calls, due, adds, removes, moved, astray, taken, wronged>>

\* The walk has come to the end.
Done ==
    /\ ~crashed /\ it # 0 /\ inside = 0
    /\ AtEnd
    /\ it' = 0 /\ event' = {}
    /\ calls' = <<>> /\ due' = {}
    /\ UNCHANGED <<vecVars, inside, fetched, adds, removes, moved, astray, taken, wronged, crashed>>

EventObjectNext ==
    \/ \E cb \in Callbacks, type \in TypeSets : AddRefused(cb, type)
    \/ \E cb \in Callbacks, type \in TypeSets : AddHandler(cb, type)
    \/ \E cb \in Callbacks, type \in TypeSets : RemoveHandler(cb, type)
    \/ \E type \in TypeSets : FetchEventData(type)
    \/ Stray
    \/ Pass
    \/ CallHandler
    \/ \E cancel \in BOOLEAN : ReturnErases(cancel)
    \/ ReturnRenews
    \/ Done

EventObjectSpec == EventObjectInit /\ [][EventObjectNext]_eventObjectVars

----------------------------------------------------------------------------
(* Properties.                                                             *)

\* The vector has entries of allocated HandlerData and room for them, and so have the
\* iterator and the walk's history.
EventObjectTypeOK ==
    /\ info \in Seq(HandlerData)
    /\ handlers \in Seq(1..Len(info))
    /\ capacity \in Nat /\ Len(handlers) <= capacity
    /\ it \in Nat /\ inside \in 0..Len(info)
    /\ event \in SUBSET Types
    /\ adds \in 0..MaxAdds /\ removes \in 0..MaxRemoves /\ fetched \in 0..MaxFetches
    /\ calls \in Seq(1..Len(info))
    /\ due \subseteq 1..Len(info) /\ taken \subseteq 1..Len(info)
    /\ moved \in BOOLEAN /\ astray \in BOOLEAN /\ wronged \in BOOLEAN /\ crashed \in BOOLEAN

\* A handler may return CANCEL, remove itself, remove one that comes after it, and
\* add one while the vector has room: none of these leaves a freed HandlerData in
\* the vector or the iterator outside it.  What does is a handler that removes an
\* earlier one or makes the vector grow.
CrashNeedsAstray == crashed => astray

\* No handler is called twice for an event, whatever the handlers do to the vector, and
\* none after RemoveHandler() has returned 0 for it or it has returned CANCEL.
\* Every handler of the event's type that was there when the walk began, and that
\* no one has removed, has been called once the walk is at the end.
CalledOnce ==
    /\ ~wronged
    /\ \A i, j \in DOMAIN calls : calls[i] = calls[j] => i = j
    /\ (it # 0 /\ inside = 0 /\ AtEnd /\ ~astray) =>
           \A n \in due \ taken : \E i \in DOMAIN calls : calls[i] = n
=============================================================================
