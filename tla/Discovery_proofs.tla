-------------------------- MODULE Discovery_proofs --------------------------
(***************************************************************************)
(* Proofs about Discovery, for any services, any number of changes, calls, *)
(* lives, repeated replies and failures and a pipe of any capacity.        *)
(*                                                                         *)
(* There are two arguments.  No freed object is used (CrashNeedsRepeat)    *)
(* because the data of a resolve lives as long as a reply or a lookup of   *)
(* it is outstanding, which is so while the daemon answers once, and       *)
(* because a pipe is closed only when the loop thread is gone, which is so *)
(* when Deactivate() comes before Destroy().  The application's view is    *)
(* the daemon's (ViewAgrees) because at any time the view together with    *)
(* the events still in the pipe names the services the browse was told of, *)
(* but for those a resolve of which is still going on.                     *)
(***************************************************************************)
EXTENDS Discovery, TLAPS

(* The invariants.                                                         *)

\* The loop thread exists only between Activate() and the join, and holds a handle only
\* while it exists.
ThreadLife ==
    /\ app = "join" => svc
    /\ app = "idle" /\ ~svc => thread = "none"
    /\ thread = "none" => busy = Nothing
    /\ Closed /\ ~rash => ~svc /\ thread = "none"

\* As long as the daemon answers once, a resolve is answered at most once, has at most one
\* lookup, and has its callback data until the lookup is closed.
OneAnswer(r) ==
    /\ ~r.answered => r.lookups = 0 /\ r.data = "live"
    /\ r.lookups > 0 => r.lookups = 1 /\ r.data = "live"

ResolveLife == repeats = 0 => \A i \in DOMAIN resolves : OneAnswer(resolves[i])

CrashInv == ThreadLife /\ ResolveLife /\ CrashNeedsRepeat

\* A server's pipe has only names in it, and the last is the name of the service.
ServerEvents ==
    /\ busy.kind \in {"nothing", "register"}
    /\ resolves = <<>>
    /\ \A i \in DOMAIN events : events[i].type = "REGISTERED"

NameOnItsWay == IF events = <<>> THEN heardName = name ELSE events[Len(events)].x = name

ServerInv == role = "server" => ServerEvents /\ (~lost => NameOnItsWay)

Says(e, type, s) == e.type = type /\ e.x = s

\* The application that has the view v knows the service s when it has read the events q.
Knows(v, q, s) ==
    \/ \E i \in DOMAIN q :
          Says(q[i], "DISCOVERED", s) /\ \A j \in DOMAIN q : j > i => ~Says(q[j], "REMOVED", s)
    \/ s \in v /\ \A j \in DOMAIN q : ~Says(q[j], "REMOVED", s)

\* A resolve of the service s is going on.
Pending(rs, s) == \E i \in DOMAIN rs : rs[i].service = s /\ (~rs[i].answered \/ rs[i].lookups > 0)

Undisturbed == ~lost /\ ~late /\ ~unread /\ faults = 0

ToldIsKnown ==
    Undisturbed =>
        \A s \in Services :
            /\ Knows(view, events, s) => s \in told
            /\ s \in told => Knows(view, events, s) \/ Pending(resolves, s)

-----------------------------------------------------------------------------
(* Sequences.                                                              *)

LEMMA AppendFacts ==
    ASSUME NEW S, NEW q \in Seq(S), NEW e \in S
    PROVE  /\ Append(q, e) \in Seq(S)
           /\ Len(Append(q, e)) = Len(q) + 1
           /\ DOMAIN Append(q, e) = DOMAIN q \cup {Len(q) + 1}
           /\ \A i \in DOMAIN q : Append(q, e)[i] = q[i]
           /\ Append(q, e)[Len(q) + 1] = e
  OBVIOUS

LEMMA TailFacts ==
    ASSUME NEW S, NEW q \in Seq(S), q # <<>>
    PROVE  /\ Len(q) \in Nat \ {0}
           /\ Head(q) = q[1] /\ q[1] \in S
           /\ Tail(q) \in Seq(S)
           /\ Len(Tail(q)) = Len(q) - 1
           /\ \A i \in 1..(Len(q) - 1) : Tail(q)[i] = q[i + 1]
  OBVIOUS

\* A publication appends to a pipe that has room, and is lost in one that has not.
LEMMA Published ==
    ASSUME TypeOK, NEW e \in Events, Publish(e)
    PROVE  /\ busy' = Nothing
           /\ events' \in Seq(Events) /\ Len(events') <= Capacity /\ lost' \in BOOLEAN
           /\ \/ events' = Append(events, e) /\ lost' = lost
              \/ events' = events /\ lost' = TRUE
<1>1. /\ events \in Seq(Events) /\ lost \in BOOLEAN
      /\ Len(events) \in Nat /\ Capacity \in Nat /\ Len(events) <= Capacity
  BY DiscoveryBounds DEF TypeOK
<1>2. busy' = Nothing
  BY DEF Publish
<1>3. CASE Len(events) < Capacity
  <2>1. events' = Append(events, e) /\ lost' = lost
    BY <1>3 DEF Publish
  <2>2. events' \in Seq(Events) /\ Len(events') = Len(events) + 1
    BY <1>1, <2>1, AppendFacts
  <2>3. Len(events') <= Capacity
    BY <1>1, <1>3, <2>2
  <2> QED BY <1>1, <1>2, <2>1, <2>2, <2>3
<1>4. CASE ~(Len(events) < Capacity)
  <2>1. events' = events /\ lost' = TRUE
    BY <1>4 DEF Publish
  <2> QED BY <1>1, <1>2, <2>1
<1> QED BY <1>3, <1>4

\* Only these fields of a resolve change, and only of one.
LEMMA ResolveChanged ==
    ASSUME NEW rs \in Seq(Resolves), NEW a \in DOMAIN rs, NEW r \in Resolves
    PROVE  /\ [rs EXCEPT ![a] = r] \in Seq(Resolves)
           /\ Len([rs EXCEPT ![a] = r]) = Len(rs)
           /\ DOMAIN [rs EXCEPT ![a] = r] = DOMAIN rs
           /\ [rs EXCEPT ![a] = r][a] = r
           /\ \A i \in DOMAIN rs : i # a => [rs EXCEPT ![a] = r][i] = rs[i]
  OBVIOUS

-----------------------------------------------------------------------------
(* Types.                                                                  *)

LEMMA InitTyped == Init => TypeOK
<1> SUFFICES ASSUME Init PROVE TypeOK
  OBVIOUS
<1>1. resolves \in Seq(Resolves) /\ events \in Seq(Events) /\ Len(events) <= Capacity
  BY DiscoveryBounds DEF Init
<1>2. BusyTyped
  BY DEF Init, BusyTyped, Nothing
<1>3. changes \in 0..MaxChanges /\ itemCalls \in 0..MaxItems /\ lives \in 0..MaxLives
      /\ repeats \in 0..MaxRepeats /\ faults \in 0..MaxFaults
  BY DiscoveryBounds DEF Init
<1> QED BY <1>1, <1>2, <1>3 DEF Init, TypeOK, ServerConstructed, RuntimeCreated, Apps

\* The steps of the network and of the application.
LEMMA CallTyped ==
    ASSUME TypeOK,
           \/ \E s \in Services : Appear(s) \/ Vanish(s)
           \/ DiscoverServices \/ RegisterService \/ ActivateFails
           \/ \E k \in Keys : SetItem(k) \/ RemoveItem(k)
           \/ Deactivate \/ StopService \/ Destroy \/ DestroyService \/ DestroyJoined
    PROVE  TypeOK'
<1> USE DiscoveryBounds DEF TypeOK, BusyTyped, callOnly, envVars, serverVars, appVars, Fault, Run, Apps
<1>1. ASSUME NEW s \in Services, Appear(s) PROVE TypeOK'
  BY <1>1 DEF Appear
<1>2. ASSUME NEW s \in Services, Vanish(s) PROVE TypeOK'
  BY <1>2 DEF Vanish
<1>3. CASE DiscoverServices
  BY <1>3 DEF DiscoverServices
<1>4. CASE RegisterService
  BY <1>4 DEF RegisterService
<1>5. CASE ActivateFails
  BY <1>5 DEF ActivateFails
<1>6. ASSUME NEW k \in Keys, SetItem(k) PROVE TypeOK'
  BY <1>6 DEF SetItem
<1>7. ASSUME NEW k \in Keys, RemoveItem(k) PROVE TypeOK'
  BY <1>7 DEF RemoveItem
<1>8. CASE Deactivate
  BY <1>8 DEF Deactivate
<1>9. CASE StopService
  BY <1>9 DEF StopService
<1>10. CASE Destroy
  BY <1>10 DEF Destroy
<1>11. CASE DestroyService
  BY <1>11 DEF DestroyService
<1>12. CASE DestroyJoined
  BY <1>12 DEF DestroyJoined
<1> QED BY <1>1, <1>2, <1>3, <1>4, <1>5, <1>6, <1>7, <1>8, <1>9, <1>10, <1>11, <1>12

LEMMA FetchTyped == ASSUME TypeOK, FetchEventData PROVE TypeOK'
<1>1. events' \in Seq(Events) /\ Len(events') <= Capacity /\ Head(events) \in Events
  <2>1. events \in Seq(Events) /\ events # <<>> /\ events' = Tail(events) /\ Len(events) <= Capacity
    BY DEF TypeOK, FetchEventData
  <2>2. Len(events) \in Nat /\ Len(events') = Len(events) - 1 /\ events' \in Seq(Events) /\ Head(events) \in Events
    BY <2>1, TailFacts
  <2> QED BY <2>1, <2>2, DiscoveryBounds
<1>2. view' \subseteq Services
  BY <1>1 DEF TypeOK, FetchEventData, Hear, Events
<1>3. heardName' \in Nat
  BY <1>1 DEF TypeOK, FetchEventData, Hear, Events
<1> QED BY <1>1, <1>2, <1>3 DEF TypeOK, FetchEventData, BusyTyped, envVars, serverVars

\* The handle the thread takes is one that is ready.
LEMMA TakenHandle ==
    ASSUME TypeOK, NEW h \in Ready, LoopTakes(h)
    PROVE  /\ thread = "runs" /\ busy = Nothing /\ busy' = h
           /\ h \in [kind : {"browse", "register", "resolve", "addrinfo"}, at : Nat]
           /\ h.kind = "browse" => role = "client"
           /\ h.kind = "register" => role = "server"
           /\ h.kind \in {"resolve", "addrinfo"} => h.at \in DOMAIN resolves
           /\ h.kind = "addrinfo" => resolves[h.at].lookups > 0
           /\ h.kind = "resolve" => ~resolves[h.at].answered \/ repeats < MaxRepeats
<1>1. DOMAIN resolves \subseteq Nat
  BY DEF TypeOK
<1> QED BY <1>1 DEF LoopTakes, Ready

LEMMA TakeTyped == ASSUME TypeOK, (\E h \in Ready : LoopTakes(h)) \/ LoopQuits PROVE TypeOK'
<1>1. ASSUME NEW h \in Ready, LoopTakes(h) PROVE TypeOK'
  <2>1. resolves' = resolves
    BY <1>1 DEF LoopTakes
  <2>2. BusyTyped'
    BY <1>1, <2>1, TakenHandle DEF BusyTyped
  <2> QED BY <1>1, <2>2 DEF TypeOK, LoopTakes, envVars, serverVars, appVars
<1>2. CASE LoopQuits
  BY <1>2 DEF TypeOK, LoopQuits, BusyTyped, envVars, serverVars, appVars
<1> QED BY <1>1, <1>2

\* What a reply leaves to be shown: the pipe, the resolves and its own fields.
LEMMA ReplyTyped ==
    ASSUME TypeOK, busy' = Nothing,
           UNCHANGED <<role, envVars, svc, items, published, itemCalls, thread, app, appVars, lives, rash>>,
           told' \subseteq Services, resolves' \in Seq(Resolves),
           register' \in {"none", "live", "freed"}, name' \in Nat,
           events' \in Seq(Events), Len(events') <= Capacity,
           repeats' \in 0..MaxRepeats, faults' \in 0..MaxFaults,
           late' \in BOOLEAN, lost' \in BOOLEAN, crashed' \in BOOLEAN
    PROVE  TypeOK'
<1>1. BusyTyped'
  BY DEF BusyTyped, Nothing
<1> QED BY <1>1 DEF TypeOK, envVars, appVars

LEMMA Repeated ==
    ASSUME TypeOK, NEW again \in BOOLEAN, Repeat(again)
    PROVE  repeats' \in 0..MaxRepeats /\ repeats' >= repeats /\ (again => repeats' > 0)
                                                             /\ (~again => repeats' = repeats)
  BY DiscoveryBounds DEF TypeOK, Repeat

LEMMA Faulted == ASSUME TypeOK, Fault PROVE faults' \in 0..MaxFaults /\ faults' > 0
  BY DiscoveryBounds DEF TypeOK, Fault

LEMMA ResolveFields ==
    ASSUME TypeOK, NEW a \in DOMAIN resolves
    PROVE  /\ resolves \in Seq(Resolves) /\ resolves[a] \in Resolves
           /\ resolves[a].service \in Services /\ resolves[a].answered \in BOOLEAN
           /\ resolves[a].data \in {"live", "freed"} /\ resolves[a].lookups \in Nat
<1>1. resolves \in Seq(Resolves)
  BY DEF TypeOK
<1>2. resolves[a] \in Resolves
  BY <1>1
<1> QED BY <1>1, <1>2 DEF Resolves

\* The resolve a reply is for.
LEMMA BusyResolve ==
    ASSUME TypeOK, busy.kind \in {"resolve", "addrinfo"}
    PROVE  /\ resolves \in Seq(Resolves) /\ busy.at \in DOMAIN resolves
           /\ resolves[busy.at] \in Resolves /\ resolves[busy.at].service \in Services
           /\ resolves[busy.at].answered \in BOOLEAN
           /\ resolves[busy.at].data \in {"live", "freed"}
           /\ resolves[busy.at].lookups \in Nat
           /\ busy.kind = "addrinfo" => resolves[busy.at].lookups > 0
<1>1. resolves \in Seq(Resolves) /\ busy.at \in DOMAIN resolves
      /\ (busy.kind = "addrinfo" => resolves[busy.at].lookups > 0)
  BY DEF TypeOK, BusyTyped
<1> QED BY <1>1, ResolveFields

\* The resolves after a reply to the one at a: only that one is another.
LEMMA ResolveReplied ==
    ASSUME TypeOK, ResolveReply
    PROVE  \E a \in DOMAIN resolves, r \in Resolves :
              /\ a = busy.at
              /\ r.service = resolves[a].service /\ r.answered /\ r.lookups = resolves[a].lookups + 1
              /\ r.data = resolves[a].data
              /\ resolves' = [resolves EXCEPT ![a] = r]
              /\ Repeat(resolves[a].answered)
              /\ crashed' = (crashed \/ resolves[a].data = "freed")
<1> DEFINE a == busy.at
           o == resolves[a]
           r == [o EXCEPT !.answered = TRUE, !.lookups = @ + 1, !.data = ResolvedData(o)]
<1>1. /\ resolves \in Seq(Resolves) /\ a \in DOMAIN resolves /\ o \in Resolves
      /\ o.data \in {"live", "freed"} /\ o.lookups \in Nat
  BY BusyResolve DEF ResolveReply
<1>2. o.lookups + 1 \in Nat
  BY <1>1
<1>3. /\ r.service = o.service /\ r.answered /\ r.lookups = o.lookups + 1 /\ r.data = o.data
  BY <1>1 DEF Resolves, ResolvedData
<1>4. r \in Resolves
  BY <1>1, <1>2 DEF Resolves, ResolvedData
<1>5. resolves' = [resolves EXCEPT ![a] = r]
  BY <1>1 DEF ResolveReply, Resolves
<1>6. Repeat(o.answered) /\ crashed' = (crashed \/ o.data = "freed")
  BY DEF ResolveReply
<1> HIDE DEF r
<1> QED BY <1>1, <1>3, <1>4, <1>5, <1>6

LEMMA ResolveFailed ==
    ASSUME TypeOK, ResolveReplyFails
    PROVE  \E a \in DOMAIN resolves, r \in Resolves :
              /\ a = busy.at
              /\ r.service = resolves[a].service /\ r.answered /\ r.lookups = resolves[a].lookups
              /\ r.data = "freed"
              /\ resolves' = [resolves EXCEPT ![a] = r]
              /\ Repeat(resolves[a].answered)
              /\ Publish(Event("ERROR", resolves[a].service))
              /\ crashed' = (crashed \/ resolves[a].data = "freed" \/ Closed)
<1> DEFINE a == busy.at
           o == resolves[a]
           r == [o EXCEPT !.answered = TRUE, !.data = "freed"]
<1>1. /\ resolves \in Seq(Resolves) /\ a \in DOMAIN resolves /\ o \in Resolves
  BY BusyResolve DEF ResolveReplyFails
<1>3. /\ r.service = o.service /\ r.answered /\ r.lookups = o.lookups /\ r.data = "freed"
  BY <1>1 DEF Resolves
<1>4. r \in Resolves
  BY <1>1 DEF Resolves
<1>5. resolves' = [resolves EXCEPT ![a] = r]
  BY <1>1 DEF ResolveReplyFails, Resolves
<1>6. /\ Repeat(o.answered) /\ crashed' = (crashed \/ o.data = "freed" \/ Closed)
      /\ Publish(Event("ERROR", o.service))
  BY DEF ResolveReplyFails
<1> HIDE DEF r
<1> QED BY <1>1, <1>3, <1>4, <1>5, <1>6

LEMMA AddrinfoReplied ==
    ASSUME TypeOK, AddrinfoReply
    PROVE  \E a \in DOMAIN resolves, r \in Resolves :
              /\ a = busy.at
              /\ resolves[a].lookups > 0
              /\ r.service = resolves[a].service /\ r.answered = resolves[a].answered
              /\ r.lookups = resolves[a].lookups - 1
              /\ r.data = "freed"
              /\ resolves' = [resolves EXCEPT ![a] = r]
              /\ Publish(Event("DISCOVERED", resolves[a].service))
              /\ late' = (late \/ resolves[a].service \notin told)
              /\ crashed' = (crashed \/ resolves[a].data = "freed" \/ Closed)
<1> DEFINE a == busy.at
           o == resolves[a]
           r == [o EXCEPT !.lookups = @ - 1, !.data = "freed"]
<1>1. /\ resolves \in Seq(Resolves) /\ a \in DOMAIN resolves /\ o \in Resolves
      /\ o.lookups \in Nat /\ o.lookups > 0
  BY BusyResolve DEF AddrinfoReply
<1>2. o.lookups - 1 \in Nat
  BY <1>1
<1>3. /\ r.service = o.service /\ r.answered = o.answered /\ r.lookups = o.lookups - 1 /\ r.data = "freed"
  BY <1>1 DEF Resolves
<1>4. r \in Resolves
  BY <1>1, <1>2 DEF Resolves
<1>5. resolves' = [resolves EXCEPT ![a] = r]
  BY <1>1 DEF AddrinfoReply, Resolves
<1>6. /\ late' = (late \/ o.service \notin told)
      /\ crashed' = (crashed \/ o.data = "freed" \/ Closed)
      /\ Publish(Event("DISCOVERED", o.service))
  BY DEF AddrinfoReply
<1> HIDE DEF r
<1> QED BY <1>1, <1>3, <1>4, <1>5, <1>6

LEMMA EventTypes ==
    ASSUME NEW s \in Services, NEW n \in Nat
    PROVE  /\ Event("ERROR", s) \in Events /\ Event("REMOVED", s) \in Events
           /\ Event("DISCOVERED", s) \in Events /\ Event("REGISTERED", n) \in Events
  BY DEF Event, Events

\* The callbacks of the browse.
LEMMA BrowseTyped ==
    ASSUME TypeOK,
           \/ \E s \in Services : DiscoverReplyAdd(s) \/ ResolveServiceFails(s) \/ DiscoverReplyRemove(s)
           \/ BrowseOvertaken
    PROVE  TypeOK'
<1>0. /\ resolves \in Seq(Resolves) /\ events \in Seq(Events) /\ Len(events) <= Capacity
      /\ crashed \in BOOLEAN /\ late \in BOOLEAN /\ lost \in BOOLEAN /\ told \subseteq Services
      /\ name \in Nat /\ register \in {"none", "live", "freed"} /\ repeats \in 0..MaxRepeats
      /\ faults \in 0..MaxFaults /\ present \subseteq Services
  BY DEF TypeOK
<1> USE DEF replyOnly
<1>1. ASSUME NEW s \in Services, DiscoverReplyAdd(s) PROVE TypeOK'
  <2>1. NewResolve(s) \in Resolves
    BY DEF NewResolve, Resolves
  <2>2. resolves' \in Seq(Resolves)
    BY <1>0, <1>1, <2>1, AppendFacts DEF DiscoverReplyAdd
  <2> QED BY <1>0, <1>1, <2>2, ReplyTyped DEF DiscoverReplyAdd
<1>2. ASSUME NEW s \in Services, ResolveServiceFails(s) PROVE TypeOK'
  <2>1. Publish(Event("ERROR", s)) /\ Event("ERROR", s) \in Events /\ Fault
    BY <1>2, EventTypes DEF ResolveServiceFails
  <2>2. /\ busy' = Nothing /\ events' \in Seq(Events) /\ Len(events') <= Capacity /\ lost' \in BOOLEAN
        /\ faults' \in 0..MaxFaults
    BY <2>1, Published, Faulted
  <2>3. crashed' \in BOOLEAN
    BY <1>0, <1>2 DEF ResolveServiceFails
  <2> QED BY <1>0, <1>2, <2>2, <2>3, ReplyTyped DEF ResolveServiceFails
<1>3. ASSUME NEW s \in Services, DiscoverReplyRemove(s) PROVE TypeOK'
  <2>1. Publish(Event("REMOVED", s)) /\ Event("REMOVED", s) \in Events
    BY <1>3, EventTypes DEF DiscoverReplyRemove, ReportRemoved
  <2>2. busy' = Nothing /\ events' \in Seq(Events) /\ Len(events') <= Capacity /\ lost' \in BOOLEAN
    BY <2>1, Published
  <2>3. crashed' \in BOOLEAN
    BY <1>0, <1>3 DEF DiscoverReplyRemove
  <2> QED BY <1>0, <1>3, <2>2, <2>3, ReplyTyped DEF DiscoverReplyRemove
<1>4. CASE BrowseOvertaken
  BY <1>0, <1>4, ReplyTyped DEF BrowseOvertaken
<1> QED BY <1>1, <1>2, <1>3, <1>4

LEMMA ResolveTyped ==
    ASSUME TypeOK, ResolveReply \/ ResolveReplyFails \/ AddrinfoReply
    PROVE  TypeOK'
<1>0. /\ resolves \in Seq(Resolves) /\ events \in Seq(Events) /\ Len(events) <= Capacity
      /\ crashed \in BOOLEAN /\ late \in BOOLEAN /\ lost \in BOOLEAN /\ told \subseteq Services
      /\ name \in Nat /\ register \in {"none", "live", "freed"} /\ repeats \in 0..MaxRepeats
      /\ faults \in 0..MaxFaults
  BY DEF TypeOK
<1> USE DEF replyOnly
<1>1. CASE ResolveReply
  <2>1. PICK a \in DOMAIN resolves, r \in Resolves :
              /\ resolves' = [resolves EXCEPT ![a] = r]
              /\ Repeat(resolves[a].answered)
              /\ crashed' = (crashed \/ resolves[a].data = "freed")
    BY <1>1, ResolveReplied
  <2>2. resolves[a].answered \in BOOLEAN
    BY ResolveFields
  <2>3. resolves' \in Seq(Resolves) /\ crashed' \in BOOLEAN
    BY <1>0, <2>1, ResolveChanged
  <2>4. repeats' \in 0..MaxRepeats
    BY <2>1, <2>2, Repeated
  <2> QED BY <1>0, <1>1, <2>3, <2>4, ReplyTyped DEF ResolveReply
<1>2. CASE ResolveReplyFails
  <2>1. PICK a \in DOMAIN resolves, r \in Resolves :
              /\ resolves' = [resolves EXCEPT ![a] = r]
              /\ Repeat(resolves[a].answered)
              /\ Publish(Event("ERROR", resolves[a].service))
              /\ crashed' = (crashed \/ resolves[a].data = "freed" \/ Closed)
    BY <1>2, ResolveFailed
  <2>2. resolves[a].answered \in BOOLEAN /\ resolves[a].service \in Services
    BY ResolveFields
  <2>3. resolves' \in Seq(Resolves) /\ crashed' \in BOOLEAN
    BY <1>0, <2>1, ResolveChanged
  <2>4. repeats' \in 0..MaxRepeats
    BY <2>1, <2>2, Repeated
  <2>5. busy' = Nothing /\ events' \in Seq(Events) /\ Len(events') <= Capacity /\ lost' \in BOOLEAN
    BY <2>1, <2>2, Published, EventTypes
  <2>6. faults' \in 0..MaxFaults
    BY <1>2, Faulted DEF ResolveReplyFails
  <2> QED BY <1>0, <1>2, <2>3, <2>4, <2>5, <2>6, ReplyTyped DEF ResolveReplyFails
<1>3. CASE AddrinfoReply
  <2>1. PICK a \in DOMAIN resolves, r \in Resolves :
              /\ resolves' = [resolves EXCEPT ![a] = r]
              /\ Publish(Event("DISCOVERED", resolves[a].service))
              /\ late' = (late \/ resolves[a].service \notin told)
              /\ crashed' = (crashed \/ resolves[a].data = "freed" \/ Closed)
    BY <1>3, AddrinfoReplied
  <2>2. resolves[a].service \in Services
    BY ResolveFields
  <2>3. resolves' \in Seq(Resolves) /\ crashed' \in BOOLEAN /\ late' \in BOOLEAN
    BY <1>0, <2>1, ResolveChanged
  <2>5. busy' = Nothing /\ events' \in Seq(Events) /\ Len(events') <= Capacity /\ lost' \in BOOLEAN
    BY <2>1, <2>2, Published, EventTypes
  <2> QED BY <1>0, <1>3, <2>3, <2>5, ReplyTyped DEF AddrinfoReply
<1> QED BY <1>1, <1>2, <1>3

\* The name after the reply, and the event that tells of it.
LEMMA RegisterReplied ==
    ASSUME TypeOK, NEW renamed \in BOOLEAN, RegisterReply(renamed)
    PROVE  \E new \in Nat :
              /\ name' = new
              /\ Publish(Event("REGISTERED", new))
              /\ Repeat(register = "freed")
              /\ crashed' = (crashed \/ register = "freed" \/ Closed)
<1> DEFINE new == IF renamed THEN name + 1 ELSE name
<1>1. new \in Nat
  BY DEF TypeOK
<1>2. name' = new
  BY DEF RegisterReply
<1>3. Publish(Registered(name'))
  BY DEF RegisterReply
<1>4. Publish(Event("REGISTERED", new))
  BY <1>2, <1>3 DEF Publish, Registered
<1>5. Repeat(register = "freed") /\ crashed' = (crashed \/ register = "freed" \/ Closed)
  BY DEF RegisterReply
<1> HIDE DEF new
<1> QED BY <1>1, <1>2, <1>4, <1>5

LEMMA RegisterTyped ==
    ASSUME TypeOK, NEW renamed \in BOOLEAN, RegisterReply(renamed)
    PROVE  TypeOK'
<1>0. /\ resolves \in Seq(Resolves) /\ crashed \in BOOLEAN /\ late \in BOOLEAN /\ told \subseteq Services
      /\ faults \in 0..MaxFaults
  BY DEF TypeOK
<1>1. PICK new \in Nat :
              /\ name' = new
              /\ Publish(Event("REGISTERED", new))
              /\ Repeat(register = "freed")
              /\ crashed' = (crashed \/ register = "freed" \/ Closed)
  BY RegisterReplied
<1>2. repeats' \in 0..MaxRepeats
  BY <1>1, Repeated
<1>3. busy' = Nothing /\ events' \in Seq(Events) /\ Len(events') <= Capacity /\ lost' \in BOOLEAN
  <2> DEFINE e == Event("REGISTERED", new)
  <2>1. e \in Events
    BY DEF Event, Events
  <2>2. Publish(e)
    BY <1>1
  <2> HIDE DEF e
  <2> QED BY <2>1, <2>2, Published
<1>4. crashed' \in BOOLEAN
  BY <1>0, <1>1
<1> QED BY <1>0, <1>1, <1>2, <1>3, <1>4, ReplyTyped DEF RegisterReply

\* Every field keeps its type.
THEOREM DiscoveryTypeCorrect == Spec => []TypeOK
<1>1. TypeOK /\ [Next]_vars => TypeOK'
  <2> SUFFICES ASSUME TypeOK, [Next]_vars PROVE TypeOK'
    OBVIOUS
  <2>1. CASE UNCHANGED vars
    BY <2>1 DEF TypeOK, BusyTyped, vars, envVars, serverVars, appVars
  <2>2. CASE Next
    BY <2>2, CallTyped, FetchTyped, TakeTyped, BrowseTyped, ResolveTyped, RegisterTyped DEF Next
  <2> QED BY <2>1, <2>2
<1> QED BY <1>1, InitTyped, PTL DEF Spec

-----------------------------------------------------------------------------
(* No freed object is used.                                                *)

\* The loop thread lives from Activate() to the join.
LEMMA CallKeepsThread ==
    ASSUME TypeOK, ThreadLife,
           \/ \E s \in Services : Appear(s) \/ Vanish(s)
           \/ DiscoverServices \/ RegisterService \/ ActivateFails
           \/ \E k \in Keys : SetItem(k) \/ RemoveItem(k)
           \/ Deactivate \/ StopService \/ Destroy \/ DestroyService \/ DestroyJoined
           \/ FetchEventData \/ (\E h \in Ready : LoopTakes(h)) \/ LoopQuits
    PROVE  ThreadLife'
<1> USE DEF ThreadLife, Closed, callOnly
<1>1. ASSUME NEW s \in Services, Appear(s) \/ Vanish(s) PROVE ThreadLife'
  BY <1>1 DEF Appear, Vanish
<1>2. CASE DiscoverServices \/ RegisterService
  BY <1>2 DEF DiscoverServices, RegisterService, Run
<1>3. CASE ActivateFails
  BY <1>3 DEF ActivateFails
<1>4. ASSUME NEW k \in Keys, SetItem(k) \/ RemoveItem(k) PROVE ThreadLife'
  BY <1>4 DEF SetItem, RemoveItem
<1>5. CASE Deactivate \/ StopService \/ Destroy \/ DestroyService \/ DestroyJoined
  BY <1>5 DEF TypeOK, Deactivate, StopService, Destroy, DestroyService, DestroyJoined
<1>6. CASE FetchEventData
  BY <1>6 DEF FetchEventData
<1>7. CASE (\E h \in Ready : LoopTakes(h)) \/ LoopQuits
  BY <1>7 DEF LoopTakes, LoopQuits
<1> QED BY <1>1, <1>2, <1>3, <1>4, <1>5, <1>6, <1>7

\* None of these steps changes a resolve, repeats a reply or uses what is freed, unless
\* an active discovery is destroyed.
LEMMA CallKeepsResolves ==
    ASSUME TypeOK, ThreadLife,
           \/ \E s \in Services : Appear(s) \/ Vanish(s)
           \/ DiscoverServices \/ RegisterService \/ ActivateFails
           \/ \E k \in Keys : SetItem(k) \/ RemoveItem(k)
           \/ Deactivate \/ StopService \/ Destroy \/ DestroyService \/ DestroyJoined
           \/ FetchEventData \/ (\E h \in Ready : LoopTakes(h)) \/ LoopQuits
    PROVE  /\ resolves' = resolves /\ repeats' = repeats
           /\ rash => rash'
           /\ crashed' => crashed \/ rash'
<1> USE DEF callOnly
<1>1. ASSUME NEW s \in Services, Appear(s) \/ Vanish(s)
      PROVE  UNCHANGED <<resolves, repeats, rash, crashed>>
  BY <1>1 DEF Appear, Vanish
<1>2. CASE DiscoverServices \/ RegisterService
  BY <1>2 DEF DiscoverServices, RegisterService
<1>3. CASE ActivateFails
  BY <1>3 DEF ActivateFails
<1>4. ASSUME NEW k \in Keys, SetItem(k) \/ RemoveItem(k)
      PROVE  UNCHANGED <<resolves, repeats, rash, crashed>>
  BY <1>4 DEF SetItem, RemoveItem
<1>5. CASE Deactivate \/ StopService \/ DestroyJoined
  BY <1>5 DEF Deactivate, StopService, DestroyJoined
<1>6. CASE Destroy
  BY <1>6 DEF Destroy
<1>7. CASE DestroyService
  <2>1. svc => rash
    BY <1>7 DEF ThreadLife, Closed, DestroyService
  <2> QED BY <1>7, <2>1 DEF DestroyService
<1>8. CASE FetchEventData
  BY <1>8 DEF FetchEventData
<1>9. CASE (\E h \in Ready : LoopTakes(h)) \/ LoopQuits
  BY <1>9 DEF LoopTakes, LoopQuits
<1> QED BY <1>1, <1>2, <1>3, <1>4, <1>5, <1>6, <1>7, <1>8, <1>9

\* A reply ends with the thread free, and writes to a closed pipe only in a discovery that
\* was destroyed while it was active.
LEMMA ReplyKeepsThread ==
    ASSUME ThreadLife, busy.kind # "nothing", busy' = Nothing, UNCHANGED <<app, svc, thread, rash>>
    PROVE  ThreadLife' /\ (Closed => rash)
  BY DEF ThreadLife, Closed, Nothing

\* A reply that uses freed data is a repeated one.
LEMMA ReplyCrashes ==
    ASSUME CrashNeedsRepeat, repeats \in Nat, repeats' \in Nat, repeats' >= repeats, rash' = rash,
           crashed' => crashed \/ rash \/ repeats' > 0
    PROVE  CrashNeedsRepeat'
<1>1. repeats > 0 => repeats' > 0
  OBVIOUS
<1> QED BY <1>1, Zenon DEF CrashNeedsRepeat

LEMMA BrowseSafe ==
    ASSUME TypeOK, CrashInv,
           \/ \E s \in Services : DiscoverReplyAdd(s) \/ ResolveServiceFails(s) \/ DiscoverReplyRemove(s)
           \/ BrowseOvertaken
    PROVE  CrashInv'
<1>0. resolves \in Seq(Resolves) /\ repeats \in Nat
  BY DiscoveryBounds DEF TypeOK
<1>1. busy.kind # "nothing" /\ busy' = Nothing /\ UNCHANGED <<app, svc, thread, rash, repeats>>
  BY DEF DiscoverReplyAdd, ResolveServiceFails, DiscoverReplyRemove, BrowseOvertaken, ReportRemoved, Publish,
         replyOnly
<1>2. ThreadLife' /\ (Closed => rash)
  BY <1>1, ReplyKeepsThread DEF CrashInv
<1>3. crashed' => crashed \/ rash
  BY <1>2 DEF DiscoverReplyAdd, ResolveServiceFails, DiscoverReplyRemove, BrowseOvertaken
<1>4. CrashNeedsRepeat'
  BY <1>1, <1>3 DEF CrashInv, CrashNeedsRepeat
<1>5. ResolveLife'
  <2>1. ASSUME NEW s \in Services, DiscoverReplyAdd(s) PROVE ResolveLife'
    <3>1. resolves' = Append(resolves, NewResolve(s)) /\ NewResolve(s) \in Resolves
      BY <2>1 DEF DiscoverReplyAdd, NewResolve, Resolves
    <3>2. OneAnswer(NewResolve(s))
      BY DEF OneAnswer, NewResolve
    <3> DEFINE n == NewResolve(s)
               q == Append(resolves, n)
    <3>3. /\ DOMAIN q = DOMAIN resolves \cup {Len(resolves) + 1}
          /\ \A i \in DOMAIN resolves : q[i] = resolves[i]
          /\ q[Len(resolves) + 1] = n
      <4> HIDE DEF n
      <4> QED BY <1>0, <3>1, AppendFacts
    <3> HIDE DEF n, q
    <3>4. repeats = 0 => \A i \in DOMAIN q : OneAnswer(q[i])
      BY <3>2, <3>3 DEF CrashInv, ResolveLife, n
    <3>5. resolves' = q
      BY <3>1 DEF q, n
    <3> QED BY <1>1, <3>4, <3>5 DEF ResolveLife
  <2>2. CASE resolves' = resolves
    BY <1>1, <2>2 DEF CrashInv, ResolveLife
  <2> QED BY <2>1, <2>2 DEF ResolveServiceFails, DiscoverReplyRemove, BrowseOvertaken
<1> QED BY <1>2, <1>4, <1>5 DEF CrashInv

\* A reply changes the resolve at a to r, which is as it should be while no reply was
\* repeated.
LEMMA OneAnswerChanged ==
    ASSUME TypeOK, ResolveLife, NEW a \in DOMAIN resolves, NEW r \in Resolves,
           resolves' = [resolves EXCEPT ![a] = r], repeats' = 0 => repeats = 0 /\ OneAnswer(r)
    PROVE  ResolveLife'
<1> DEFINE q == [resolves EXCEPT ![a] = r]
<1>0. resolves \in Seq(Resolves)
  BY DEF TypeOK
<1>1. DOMAIN q = DOMAIN resolves /\ q[a] = r /\ \A i \in DOMAIN resolves : i # a => q[i] = resolves[i]
  BY <1>0, ResolveChanged
<1>2. resolves' = q
  OBVIOUS
<1> HIDE DEF q
<1>3. repeats' = 0 => \A i \in DOMAIN q : OneAnswer(q[i])
  BY <1>1 DEF ResolveLife
<1> QED BY <1>2, <1>3 DEF ResolveLife

LEMMA ResolveSafe ==
    ASSUME TypeOK, CrashInv, ResolveReply \/ ResolveReplyFails \/ AddrinfoReply
    PROVE  CrashInv'
<1>0. repeats \in Nat
  BY DiscoveryBounds DEF TypeOK
<1>1. busy.kind # "nothing" /\ busy' = Nothing /\ UNCHANGED <<app, svc, thread, rash>>
  BY DEF ResolveReply, ResolveReplyFails, AddrinfoReply, Publish, replyOnly
<1>2. ThreadLife' /\ (Closed => rash)
  BY <1>1, ReplyKeepsThread DEF CrashInv
<1>3. CASE ResolveReply
  <2>1. PICK a \in DOMAIN resolves, r \in Resolves :
              /\ r.answered /\ r.lookups = resolves[a].lookups + 1
              /\ r.data = resolves[a].data
              /\ resolves' = [resolves EXCEPT ![a] = r]
              /\ Repeat(resolves[a].answered)
              /\ crashed' = (crashed \/ resolves[a].data = "freed")
    BY <1>3, ResolveReplied
  <2>2. resolves[a].answered \in BOOLEAN
    BY ResolveFields
  <2>3. /\ repeats' \in Nat /\ repeats' >= repeats
        /\ repeats' = 0 => repeats = 0 /\ ~resolves[a].answered
    BY <1>0, <2>1, <2>2, Repeated, DiscoveryBounds
  <2>4. repeats' = 0 => OneAnswer(resolves[a]) /\ ~resolves[a].answered
    BY <2>3 DEF CrashInv, ResolveLife
  <2>5. repeats' = 0 => resolves[a].lookups = 0 /\ resolves[a].data = "live"
    BY <2>4 DEF OneAnswer
  <2>6. repeats' = 0 => OneAnswer(r)
    BY <2>1, <2>5 DEF OneAnswer
  <2>7. ResolveLife'
    BY <2>1, <2>3, <2>6, OneAnswerChanged DEF CrashInv
  <2>8. CrashNeedsRepeat'
    <3>1. repeats' \in Nat /\ repeats' >= repeats
      BY <1>0, <2>3
    <3>2. resolves[a].data = "freed" => repeats' > 0
      BY <2>5, <3>1
    <3>3. crashed' => crashed \/ rash \/ repeats' > 0
      BY <2>1, <3>2, Zenon
    <3> QED BY <1>0, <1>1, <3>1, <3>3, ReplyCrashes DEF CrashInv
  <2> QED BY <1>2, <2>7, <2>8 DEF CrashInv
<1>4. CASE ResolveReplyFails
  <2>1. PICK a \in DOMAIN resolves, r \in Resolves :
              /\ r.answered /\ r.lookups = resolves[a].lookups
              /\ resolves' = [resolves EXCEPT ![a] = r]
              /\ Repeat(resolves[a].answered)
              /\ crashed' = (crashed \/ resolves[a].data = "freed" \/ Closed)
    BY <1>4, ResolveFailed
  <2>2. resolves[a].answered \in BOOLEAN
    BY ResolveFields
  <2>3. /\ repeats' \in Nat /\ repeats' >= repeats
        /\ repeats' = 0 => repeats = 0 /\ ~resolves[a].answered
    BY <1>0, <2>1, <2>2, Repeated, DiscoveryBounds
  <2>4. repeats' = 0 => OneAnswer(resolves[a]) /\ ~resolves[a].answered
    BY <2>3 DEF CrashInv, ResolveLife
  <2>5. repeats' = 0 => resolves[a].lookups = 0 /\ resolves[a].data = "live"
    BY <2>4 DEF OneAnswer
  <2>6. repeats' = 0 => OneAnswer(r)
    BY <2>1, <2>5 DEF OneAnswer
  <2>7. ResolveLife'
    BY <2>1, <2>3, <2>6, OneAnswerChanged DEF CrashInv
  <2>8. CrashNeedsRepeat'
    <3>1. repeats' \in Nat /\ repeats' >= repeats
      BY <1>0, <2>3
    <3>2. resolves[a].data = "freed" => repeats' > 0
      BY <2>5, <3>1
    <3>3. crashed' => crashed \/ rash \/ repeats' > 0
      BY <2>1, <1>2, <3>2, Zenon
    <3> QED BY <1>0, <1>1, <3>1, <3>3, ReplyCrashes DEF CrashInv
  <2> QED BY <1>2, <2>7, <2>8 DEF CrashInv
<1>5. CASE AddrinfoReply
  <2>1. PICK a \in DOMAIN resolves, r \in Resolves :
              /\ resolves[a].lookups > 0
              /\ r.answered = resolves[a].answered
              /\ r.lookups = resolves[a].lookups - 1
              /\ resolves' = [resolves EXCEPT ![a] = r]
              /\ crashed' = (crashed \/ resolves[a].data = "freed" \/ Closed)
    BY <1>5, AddrinfoReplied
  <2>2. repeats' = repeats
    BY <1>5 DEF AddrinfoReply
  <2>4. repeats' = 0 => OneAnswer(resolves[a])
    BY <2>2 DEF CrashInv, ResolveLife
  <2>5. repeats' = 0 => resolves[a].lookups = 1 /\ resolves[a].answered /\ resolves[a].data = "live"
    BY <2>1, <2>4, ResolveFields DEF OneAnswer
  <2>6. repeats' = 0 => OneAnswer(r)
    BY <2>1, <2>5 DEF OneAnswer
  <2>7. ResolveLife'
    BY <2>1, <2>2, <2>6, OneAnswerChanged DEF CrashInv
  <2>8. CrashNeedsRepeat'
    <3>1. repeats' \in Nat /\ repeats' >= repeats
      BY <1>0, <2>2
    <3>2. resolves[a].data = "freed" => repeats' > 0
      BY <2>5, <3>1
    <3>3. crashed' => crashed \/ rash \/ repeats' > 0
      BY <2>1, <1>2, <3>2, Zenon
    <3> QED BY <1>0, <1>1, <3>1, <3>3, ReplyCrashes DEF CrashInv
  <2> QED BY <1>2, <2>7, <2>8 DEF CrashInv
<1> QED BY <1>3, <1>4, <1>5

LEMMA RegisterSafe ==
    ASSUME TypeOK, CrashInv, NEW renamed \in BOOLEAN, RegisterReply(renamed)
    PROVE  CrashInv'
<1>0. repeats \in Nat
  BY DiscoveryBounds DEF TypeOK
<1>1. busy.kind # "nothing" /\ busy' = Nothing /\ UNCHANGED <<app, svc, thread, rash, resolves>>
  BY DEF RegisterReply, Publish
<1>2. ThreadLife' /\ (Closed => rash)
  BY <1>1, ReplyKeepsThread DEF CrashInv
<1>3. Repeat(register = "freed") /\ crashed' = (crashed \/ register = "freed" \/ Closed)
  BY DEF RegisterReply
<1>4. repeats' \in Nat /\ repeats' >= repeats /\ (register = "freed" => repeats' > 0)
  <2> DEFINE again == register = "freed"
  <2>1. again \in BOOLEAN /\ Repeat(again)
    BY <1>3
  <2>2. repeats' \in Nat /\ repeats' >= repeats /\ (again => repeats' > 0)
    <3> HIDE DEF again
    <3> QED BY <2>1, Repeated, DiscoveryBounds
  <2> QED BY <2>2
<1>5. repeats' = 0 => repeats = 0
  BY <1>0, <1>4
<1>6. ResolveLife'
  BY <1>1, <1>5 DEF CrashInv, ResolveLife
<1>7. crashed' => crashed \/ rash \/ repeats' > 0
  BY <1>2, <1>3, <1>4, Zenon
<1>8. CrashNeedsRepeat'
  BY <1>0, <1>1, <1>4, <1>7, ReplyCrashes DEF CrashInv
<1> QED BY <1>2, <1>6, <1>8 DEF CrashInv

\* The invariant is kept by every step.
THEOREM CrashInvariant == Spec => []CrashInv
<1>1. Init => CrashInv
  BY DEF Init, RuntimeCreated, CrashInv, ThreadLife, ResolveLife, CrashNeedsRepeat, Closed
<1>2. TypeOK /\ CrashInv /\ [Next]_vars => CrashInv'
  <2> SUFFICES ASSUME TypeOK, CrashInv, [Next]_vars PROVE CrashInv'
    OBVIOUS
  <2>1. CASE UNCHANGED vars
    BY <2>1 DEF CrashInv, ThreadLife, ResolveLife, CrashNeedsRepeat, Closed, vars
  <2>2. CASE /\ ThreadLife' /\ resolves' = resolves /\ repeats' = repeats
             /\ rash => rash'
             /\ crashed' => crashed \/ rash'
    BY <2>2 DEF CrashInv, ResolveLife, CrashNeedsRepeat
  <2>3. CASE Next
    BY <2>2, <2>3, CallKeepsThread, CallKeepsResolves, BrowseSafe, ResolveSafe, RegisterSafe DEF Next, CrashInv
  <2> QED BY <2>1, <2>3
<1> QED BY <1>1, <1>2, DiscoveryTypeCorrect, PTL DEF Spec

\* The loop thread uses a freed object only if the daemon replies twice or an active
\* discovery is destroyed: the callback data of a resolve (or registration) goes with
\* the reply that frees it, and the pipe is closed after the join.
THEOREM CrashNeedsRepeatHolds == Spec => []CrashNeedsRepeat
  BY CrashInvariant, PTL DEF CrashInv

-----------------------------------------------------------------------------
(* The server's application knows the name.                                *)

\* Steps that leave the pipe, the resolves and the name alone.
LEMMA QuietSteps ==
    ASSUME \/ \E s \in Services : Appear(s) \/ Vanish(s)
           \/ DiscoverServices \/ RegisterService \/ ActivateFails
           \/ \E k \in Keys : SetItem(k) \/ RemoveItem(k)
           \/ Deactivate \/ StopService \/ Destroy \/ DestroyService \/ DestroyJoined
           \/ LoopQuits
           \/ UNCHANGED vars
    PROVE  UNCHANGED <<role, name, busy, events, resolves, heardName, lost, late>>
<1> USE DEF callOnly, serverVars, appVars
<1>1. ASSUME NEW s \in Services, Appear(s) \/ Vanish(s)
      PROVE  UNCHANGED <<role, name, busy, events, resolves, heardName, lost, late>>
  BY <1>1 DEF Appear, Vanish
<1>2. CASE DiscoverServices \/ RegisterService \/ ActivateFails
  BY <1>2 DEF DiscoverServices, RegisterService, ActivateFails
<1>3. ASSUME NEW k \in Keys, SetItem(k) \/ RemoveItem(k)
      PROVE  UNCHANGED <<role, name, busy, events, resolves, heardName, lost, late>>
  BY <1>3 DEF SetItem, RemoveItem
<1>4. CASE Deactivate \/ StopService \/ Destroy \/ DestroyService \/ DestroyJoined
  BY <1>4 DEF Deactivate, StopService, Destroy, DestroyService, DestroyJoined
<1>5. CASE LoopQuits
  BY <1>5 DEF LoopQuits
<1>6. CASE UNCHANGED vars
  BY <1>6 DEF vars
<1> QED BY <1>1, <1>2, <1>3, <1>4, <1>5, <1>6

LEMMA FetchKeepsServer == ASSUME TypeOK, ServerInv, FetchEventData PROVE ServerInv'
<1> SUFFICES ASSUME role' = "server" PROVE ServerEvents' /\ (~lost' => NameOnItsWay')
  BY DEF ServerInv
<1>1. UNCHANGED <<role, busy, resolves, lost, name>> /\ ServerEvents /\ (~lost => NameOnItsWay)
  BY DEF FetchEventData, ServerInv, serverVars
<1>2. /\ events \in Seq(Events) /\ events # <<>> /\ events' = Tail(events)
      /\ Hear(Head(events))
  BY DEF TypeOK, FetchEventData
<1> DEFINE q == Tail(events)
           n == Len(events)
<1>3. /\ n \in Nat \ {0} /\ Head(events) = events[1] /\ q \in Seq(Events) /\ Len(q) = n - 1
      /\ \A i \in 1..(n - 1) : q[i] = events[i + 1]
      /\ DOMAIN q = 1..(n - 1) /\ DOMAIN events = 1..n
  BY <1>2, TailFacts
<1>4. \A i \in 1..n : events[i].type = "REGISTERED"
  BY <1>1, <1>3 DEF ServerEvents
<1>5. heardName' = events[1].x
  BY <1>2, <1>3, <1>4 DEF Hear
<1>6. events[n].x = name \/ lost
  BY <1>1, <1>2 DEF NameOnItsWay
<1> HIDE DEF q, n
<1>7. \A i \in DOMAIN q : q[i].type = "REGISTERED"
  BY <1>3, <1>4
<1>8. IF q = <<>> THEN heardName' = name \/ lost ELSE q[Len(q)].x = name \/ lost
  <2>1. CASE n = 1
    BY <2>1, <1>3, <1>5, <1>6
  <2>2. CASE n # 1
    <3>1. n - 1 \in 1..(n - 1) /\ (n - 1) + 1 = n
      BY <1>3, <2>2
    <3>2. q[n - 1] = events[n]
      BY <1>3, <3>1
    <3>3. q # <<>> /\ Len(q) = n - 1
      BY <1>3, <2>2
    <3> QED BY <3>2, <3>3, <1>6
  <2> QED BY <2>1, <2>2
<1>9. events' = q
  BY <1>2 DEF q
<1>10. ServerEvents'
  BY <1>1, <1>7, <1>9 DEF ServerEvents
<1>11. ~lost' => NameOnItsWay'
  BY <1>1, <1>8, <1>9 DEF NameOnItsWay
<1> QED BY <1>10, <1>11

LEMMA RegisterKeepsServer ==
    ASSUME TypeOK, ServerInv, NEW renamed \in BOOLEAN, RegisterReply(renamed)
    PROVE  ServerInv'
<1> SUFFICES ASSUME role' = "server" PROVE ServerEvents' /\ (~lost' => NameOnItsWay')
  BY DEF ServerInv
<1>1. UNCHANGED <<role, resolves>> /\ ServerEvents
  BY DEF RegisterReply, ServerInv
<1>2. PICK new \in Nat : name' = new /\ Publish(Event("REGISTERED", new))
  BY RegisterReplied
<1> DEFINE e == Event("REGISTERED", new)
<1>3. e \in Events /\ e.type = "REGISTERED" /\ e.x = new
  BY DEF Event, Events
<1>4. Publish(e)
  BY <1>2
<1> HIDE DEF e
<1>5. events \in Seq(Events)
  BY DEF TypeOK
<1>6. /\ busy' = Nothing
      /\ \/ events' = Append(events, e) /\ lost' = lost
         \/ events' = events /\ lost' = TRUE
  BY <1>3, <1>4, Published
<1>7. CASE events' = events /\ lost' = TRUE
  BY <1>1, <1>6, <1>7 DEF ServerEvents, Nothing
<1>8. CASE events' = Append(events, e)
  <2> DEFINE q == Append(events, e)
  <2>1. /\ Len(q) = Len(events) + 1 /\ q[Len(events) + 1] = e /\ q # <<>>
        /\ DOMAIN q = DOMAIN events \cup {Len(events) + 1}
        /\ \A i \in DOMAIN events : q[i] = events[i]
    BY <1>3, <1>5, AppendFacts
  <2> HIDE DEF q
  <2>2. \A i \in DOMAIN q : q[i].type = "REGISTERED"
    BY <1>1, <1>3, <2>1 DEF ServerEvents
  <2>3. events' = q /\ q[Len(q)].x = new
    BY <1>3, <1>8, <2>1 DEF q
  <2>4. ServerEvents'
    BY <1>1, <1>6, <2>2, <2>3 DEF ServerEvents, Nothing
  <2>5. NameOnItsWay'
    BY <1>2, <2>1, <2>3 DEF NameOnItsWay
  <2> QED BY <2>4, <2>5
<1> QED BY <1>6, <1>7, <1>8

\* A server's pipe carries names only, the last of them the name that it has.
THEOREM ServerInvariant == Spec => []ServerInv
<1>1. Init => ServerInv
  BY DEF Init, ServerConstructed, RuntimeCreated, ServerInv, ServerEvents, NameOnItsWay, Nothing
<1>2. TypeOK /\ ServerInv /\ [Next]_vars => ServerInv'
  <2> SUFFICES ASSUME TypeOK, ServerInv, [Next]_vars PROVE ServerInv'
    OBVIOUS
  <2>1. CASE UNCHANGED <<role, name, busy, events, resolves, heardName, lost, late>>
    BY <2>1 DEF ServerInv, ServerEvents, NameOnItsWay
  <2>2. ASSUME NEW h \in Ready, LoopTakes(h) PROVE ServerInv'
    <3>1. role = "server" => h.kind = "register" \/ resolves # <<>>
      <4>1. h.kind \in {"resolve", "addrinfo"} => h.at \in DOMAIN resolves
        BY <2>2, TakenHandle
      <4>2. resolves = <<>> => DOMAIN resolves = {}
        OBVIOUS
      <4> QED BY <2>2, <4>1, <4>2, TakenHandle
    <3>2. UNCHANGED <<role, name, events, resolves, heardName, lost>> /\ busy' = h
      BY <2>2 DEF LoopTakes, serverVars, appVars
    <3> QED BY <3>1, <3>2 DEF ServerInv, ServerEvents, NameOnItsWay
  <2>3. CASE \/ \E s \in Services : DiscoverReplyAdd(s) \/ ResolveServiceFails(s) \/ DiscoverReplyRemove(s)
             \/ BrowseOvertaken \/ ResolveReply \/ ResolveReplyFails \/ AddrinfoReply
    <3>1. busy.kind \in {"browse", "resolve", "addrinfo"} /\ role' = role
      BY <2>3 DEF DiscoverReplyAdd, ResolveServiceFails, DiscoverReplyRemove, BrowseOvertaken, ResolveReply,
                  ResolveReplyFails, AddrinfoReply, replyOnly
    <3> QED BY <3>1 DEF ServerInv, ServerEvents
  <2> QED BY <2>1, <2>2, <2>3, QuietSteps, FetchKeepsServer, RegisterKeepsServer DEF Next
<1> QED BY <1>1, <1>2, DiscoveryTypeCorrect, PTL DEF Spec

-----------------------------------------------------------------------------
(* The client's application knows the services.                            *)

\* What an event at the end of the pipe changes of what the application will know.
LEMMA KnowsAppended ==
    ASSUME NEW v, NEW q \in Seq(Events), NEW e \in Events, NEW s
    PROVE  /\ Says(e, "DISCOVERED", s) => Knows(v, Append(q, e), s)
           /\ Says(e, "REMOVED", s) => ~Knows(v, Append(q, e), s)
           /\ ~Says(e, "DISCOVERED", s) /\ ~Says(e, "REMOVED", s) =>
                (Knows(v, Append(q, e), s) <=> Knows(v, q, s))
<1> DEFINE p == Append(q, e)
           n == Len(q) + 1
<1>1. /\ n \in Nat \ {0} /\ p[n] = e /\ DOMAIN q = 1..(n - 1) /\ DOMAIN p = 1..n
      /\ \A i \in DOMAIN q : p[i] = q[i]
  BY AppendFacts
<1> HIDE DEF p, n
<1>2. n \in DOMAIN p /\ (\A j \in DOMAIN p : ~(j > n)) /\ (\A j \in DOMAIN p : j \in DOMAIN q \/ j = n)
      /\ (\A j \in DOMAIN q : n > j /\ j \in DOMAIN p)
  BY <1>1
<1>3. Says(e, "DISCOVERED", s) => Knows(v, p, s)
  BY <1>1, <1>2 DEF Knows
<1>4. Says(e, "REMOVED", s) => ~Knows(v, p, s)
  <2> SUFFICES ASSUME Says(e, "REMOVED", s), Knows(v, p, s) PROVE FALSE
    OBVIOUS
  <2>1. ~(s \in v /\ \A j \in DOMAIN p : ~Says(p[j], "REMOVED", s))
    BY <1>1, <1>2
  <2>2. PICK i \in DOMAIN p :
           Says(p[i], "DISCOVERED", s) /\ \A j \in DOMAIN p : j > i => ~Says(p[j], "REMOVED", s)
    BY <2>1 DEF Knows
  <2>3. i # n
    BY <1>1, <2>2 DEF Says
  <2>4. n > i
    BY <1>2, <2>3
  <2> QED BY <1>1, <1>2, <2>2, <2>4
<1>5. ASSUME ~Says(e, "DISCOVERED", s), ~Says(e, "REMOVED", s)
      PROVE  Knows(v, p, s) <=> Knows(v, q, s)
  <2>1. (\A j \in DOMAIN p : ~Says(p[j], "REMOVED", s)) <=> (\A j \in DOMAIN q : ~Says(q[j], "REMOVED", s))
    BY <1>1, <1>2, <1>5
  <2>2. ASSUME NEW i \in DOMAIN q
        PROVE  /\ Says(p[i], "DISCOVERED", s) <=> Says(q[i], "DISCOVERED", s)
               /\ (\A j \in DOMAIN p : j > i => ~Says(p[j], "REMOVED", s)) <=>
                    (\A j \in DOMAIN q : j > i => ~Says(q[j], "REMOVED", s))
    BY <1>1, <1>2, <1>5
  <2>3. ~Says(p[n], "DISCOVERED", s)
    BY <1>1, <1>5
  <2>4. (\E i \in DOMAIN p :
            Says(p[i], "DISCOVERED", s) /\ \A j \in DOMAIN p : j > i => ~Says(p[j], "REMOVED", s)) <=>
        (\E i \in DOMAIN q :
            Says(q[i], "DISCOVERED", s) /\ \A j \in DOMAIN q : j > i => ~Says(q[j], "REMOVED", s))
    BY <1>2, <2>2, <2>3
  <2> QED BY <2>1, <2>4 DEF Knows
<1> QED BY <1>3, <1>4, <1>5 DEF p

\* Reading an event moves what the application knows from the pipe to its view.
LEMMA KnowsRead ==
    ASSUME NEW v, NEW q \in Seq(Events), q # <<>>, NEW w, NEW s,
           w = CASE Head(q).type = "DISCOVERED" -> v \cup {Head(q).x}
                 [] Head(q).type = "REMOVED"    -> v \ {Head(q).x}
                 [] OTHER                       -> v
    PROVE  Knows(w, Tail(q), s) <=> Knows(v, q, s)
<1> DEFINE p == Tail(q)
           n == Len(q)
<1>1. /\ n \in Nat \ {0} /\ Head(q) = q[1] /\ DOMAIN q = 1..n /\ DOMAIN p = 1..(n - 1)
      /\ \A i \in 1..(n - 1) : p[i] = q[i + 1]
  BY TailFacts
<1> HIDE DEF p, n
<1>2. s \in w <=> Says(q[1], "DISCOVERED", s) \/ (s \in v /\ ~Says(q[1], "REMOVED", s))
  BY <1>1 DEF Says
<1>3. /\ \A i \in DOMAIN p : i + 1 \in DOMAIN q /\ i + 1 # 1 /\ i + 1 > 1 /\ p[i] = q[i + 1]
      /\ \A i \in DOMAIN q : i = 1 \/ (i - 1 \in DOMAIN p /\ p[i - 1] = q[i] /\ i > 1)
      /\ 1 \in DOMAIN q
      /\ \A i, j \in DOMAIN p : j > i <=> j + 1 > i + 1
      /\ \A i, j \in DOMAIN q : j > i => j # 1
      /\ \A i, j \in DOMAIN q : i # 1 /\ j # 1 => (j > i <=> j - 1 > i - 1)
  BY <1>1
<1>4. (\A j \in DOMAIN p : ~Says(p[j], "REMOVED", s)) <=>
        (\A j \in DOMAIN q : j > 1 => ~Says(q[j], "REMOVED", s))
  BY <1>3
<1>5. (\A j \in DOMAIN q : ~Says(q[j], "REMOVED", s)) <=>
        ~Says(q[1], "REMOVED", s) /\ \A j \in DOMAIN q : j > 1 => ~Says(q[j], "REMOVED", s)
  BY <1>3
<1> DEFINE In(i) == Says(q[i], "DISCOVERED", s) /\ \A j \in DOMAIN q : j > i => ~Says(q[j], "REMOVED", s)
<1>6. (\E i \in DOMAIN p :
            Says(p[i], "DISCOVERED", s) /\ \A j \in DOMAIN p : j > i => ~Says(p[j], "REMOVED", s)) <=>
      (\E i \in DOMAIN q : i # 1 /\ In(i))
  <2>1. ASSUME NEW i \in DOMAIN p, Says(p[i], "DISCOVERED", s),
               \A j \in DOMAIN p : j > i => ~Says(p[j], "REMOVED", s)
        PROVE  \E k \in DOMAIN q : k # 1 /\ In(k)
    <3>1. i + 1 \in DOMAIN q /\ i + 1 # 1 /\ Says(q[i + 1], "DISCOVERED", s)
      BY <1>3, <2>1
    <3>2. ASSUME NEW j \in DOMAIN q, j > i + 1 PROVE ~Says(q[j], "REMOVED", s)
      <4>1. j # 1 /\ j - 1 \in DOMAIN p /\ p[j - 1] = q[j]
        BY <1>3, <3>1, <3>2
      <4>2. j - 1 > i
        BY <1>1, <3>2
      <4> QED BY <2>1, <4>1, <4>2
    <3> QED BY <3>1, <3>2
  <2>2. ASSUME NEW k \in DOMAIN q, k # 1, In(k)
        PROVE  \E i \in DOMAIN p :
            Says(p[i], "DISCOVERED", s) /\ \A j \in DOMAIN p : j > i => ~Says(p[j], "REMOVED", s)
    <3>1. k - 1 \in DOMAIN p /\ p[k - 1] = q[k]
      BY <1>3, <2>2
    <3>2. ASSUME NEW j \in DOMAIN p, j > k - 1 PROVE ~Says(p[j], "REMOVED", s)
      <4>1. j + 1 \in DOMAIN q /\ p[j] = q[j + 1]
        BY <1>3
      <4>2. j + 1 > k
        BY <1>1, <3>2
      <4> QED BY <2>2, <4>1, <4>2
    <3> QED BY <2>2, <3>1, <3>2
  <2> QED BY <2>1, <2>2
<1>7. Knows(v, q, s) <=> (\E i \in DOMAIN q : i # 1 /\ In(i)) \/ In(1)
                           \/ (s \in v /\ \A j \in DOMAIN q : ~Says(q[j], "REMOVED", s))
  BY <1>3 DEF Knows
<1>8. Knows(w, p, s) <=> (\E i \in DOMAIN q : i # 1 /\ In(i))
                           \/ (s \in w /\ \A j \in DOMAIN q : j > 1 => ~Says(q[j], "REMOVED", s))
  BY <1>4, <1>6 DEF Knows
<1>9. (s \in w /\ \A j \in DOMAIN q : j > 1 => ~Says(q[j], "REMOVED", s)) <=>
        In(1) \/ (s \in v /\ \A j \in DOMAIN q : ~Says(q[j], "REMOVED", s))
  BY <1>2, <1>5
<1> QED BY <1>7, <1>8, <1>9 DEF p

\* A resolve that was not going on may be after the reply, one of another service not.
LEMMA PendingChanged ==
    ASSUME TypeOK, NEW a \in DOMAIN resolves, NEW r \in Resolves, r.service = resolves[a].service,
           NEW s \in Services, Pending(resolves, s),
           r.answered /\ r.lookups = 0 => s # r.service
    PROVE  Pending([resolves EXCEPT ![a] = r], s)
<1> DEFINE q == [resolves EXCEPT ![a] = r]
<1>1. resolves \in Seq(Resolves)
  BY DEF TypeOK
<1>2. DOMAIN q = DOMAIN resolves /\ q[a] = r /\ \A i \in DOMAIN resolves : i # a => q[i] = resolves[i]
  BY <1>1, ResolveChanged
<1>3. PICK i \in DOMAIN resolves : resolves[i].service = s /\ (~resolves[i].answered \/ resolves[i].lookups > 0)
  BY DEF Pending
<1>4. r.lookups \in Nat
  BY DEF Resolves
<1> HIDE DEF q
<1>5. ASSUME i # a PROVE Pending(q, s)
  BY <1>2, <1>3, <1>5 DEF Pending
<1>6. ASSUME i = a PROVE Pending(q, s)
  <2>1. q[a].service = s /\ (~q[a].answered \/ q[a].lookups > 0)
    BY <1>2, <1>3, <1>4, <1>6
  <2> QED BY <1>2, <2>1 DEF Pending
<1>7. Pending(q, s)
  BY <1>5, <1>6
<1> QED BY <1>7 DEF q

\* A step that changes none of what ToldIsKnown is about, or disturbs it.
LEMMA UntoldSteps ==
    ASSUME TypeOK, ToldIsKnown,
           \/ \E s \in Services : Appear(s) \/ Vanish(s) \/ ResolveServiceFails(s)
           \/ RegisterService \/ ActivateFails
           \/ \E k \in Keys : SetItem(k) \/ RemoveItem(k)
           \/ Deactivate \/ StopService \/ Destroy \/ DestroyService \/ DestroyJoined
           \/ (\E h \in Ready : LoopTakes(h)) \/ LoopQuits \/ BrowseOvertaken \/ ResolveReplyFails
           \/ UNCHANGED vars
    PROVE  ToldIsKnown'
<1>1. CASE UNCHANGED <<told, view, events, resolves, lost, late, unread, faults>>
  BY <1>1 DEF ToldIsKnown, Undisturbed, Pending, Knows
<1>2. ASSUME faults' > 0 PROVE ToldIsKnown'
  BY <1>2 DEF ToldIsKnown, Undisturbed
<1> USE DEF callOnly, replyOnly, appVars
<1>3. ASSUME NEW s \in Services, Appear(s) \/ Vanish(s) PROVE ToldIsKnown'
  BY <1>1, <1>3 DEF Appear, Vanish
<1>4. ASSUME NEW s \in Services, ResolveServiceFails(s) PROVE ToldIsKnown'
  BY <1>2, <1>4, Faulted DEF ResolveServiceFails
<1>5. CASE RegisterService
  BY <1>1, <1>5 DEF RegisterService
<1>6. CASE ActivateFails
  BY <1>2, <1>6, Faulted DEF ActivateFails
<1>7. ASSUME NEW k \in Keys, SetItem(k) \/ RemoveItem(k) PROVE ToldIsKnown'
  BY <1>1, <1>7 DEF SetItem, RemoveItem
<1>8. CASE Deactivate \/ StopService \/ Destroy \/ DestroyService \/ DestroyJoined
  BY <1>1, <1>8 DEF Deactivate, StopService, Destroy, DestroyService, DestroyJoined
<1>9. CASE (\E h \in Ready : LoopTakes(h)) \/ LoopQuits
  BY <1>1, <1>9 DEF LoopTakes, LoopQuits
<1>10. CASE BrowseOvertaken
  BY <1>1, <1>10 DEF BrowseOvertaken
<1>11. CASE ResolveReplyFails
  BY <1>2, <1>11, Faulted DEF ResolveReplyFails
<1>12. CASE UNCHANGED vars
  BY <1>1, <1>12 DEF vars
<1> QED BY <1>3, <1>4, <1>5, <1>6, <1>7, <1>8, <1>9, <1>10, <1>11, <1>12

LEMMA DiscoverToldIsKnown == ASSUME TypeOK, DiscoverServices PROVE ToldIsKnown'
<1>1. view' = {} /\ told' = {} /\ events' = events /\ unread' = (unread \/ events # <<>>)
  BY DEF DiscoverServices, callOnly
<1>2. ASSUME Undisturbed' PROVE events' = <<>>
  BY <1>1, <1>2 DEF Undisturbed
<1>3. \A s \in Services : ~Knows({}, <<>>, s)
  BY DEF Knows
<1>4. ASSUME Undisturbed', NEW s \in Services PROVE ~Knows(view', events', s) /\ s \notin told'
  BY <1>1, <1>2, <1>3, <1>4
<1> QED BY <1>4 DEF ToldIsKnown, Knows

LEMMA FetchToldIsKnown == ASSUME TypeOK, ToldIsKnown, FetchEventData PROVE ToldIsKnown'
<1>1. /\ UNCHANGED <<told, resolves, lost, late, unread, faults>>
      /\ events \in Seq(Events) /\ events # <<>> /\ events' = Tail(events)
      /\ view' = CASE Head(events).type = "DISCOVERED" -> view \cup {Head(events).x}
                   [] Head(events).type = "REMOVED"    -> view \ {Head(events).x}
                   [] OTHER                            -> view
  BY DEF TypeOK, FetchEventData, Hear
<1>2. PICK w, q : w = view' /\ q = events'
  OBVIOUS
<1>3. \A s \in Services : Knows(w, q, s) <=> Knows(view, events, s)
  <2> TAKE s \in Services
  <2>1. Knows(w, Tail(events), s) <=> Knows(view, events, s)
    BY <1>1, <1>2, KnowsRead
  <2> QED BY <1>1, <1>2, <2>1
<1>4. Undisturbed' =>
        \A s \in Services :
            /\ Knows(w, q, s) => s \in told
            /\ s \in told => Knows(w, q, s) \/ Pending(resolves, s)
  BY <1>1, <1>3 DEF ToldIsKnown, Undisturbed
<1> QED BY <1>1, <1>2, <1>4 DEF ToldIsKnown, Knows, Pending

\* A service that the browse is told of is being resolved.
LEMMA AddToldIsKnown ==
    ASSUME TypeOK, ToldIsKnown, NEW s \in Services, DiscoverReplyAdd(s)
    PROVE  ToldIsKnown'
<1> DEFINE n == NewResolve(s)
           q == Append(resolves, n)
<1>1. /\ UNCHANGED <<view, events, lost, late, unread, faults>>
      /\ told' = told \cup {s} /\ resolves' = q
      /\ resolves \in Seq(Resolves)
  BY DEF DiscoverReplyAdd, TypeOK, replyOnly, appVars
<1>2. n \in Resolves /\ n.service = s /\ ~n.answered
  BY DEF NewResolve, Resolves
<1> HIDE DEF n
<1>3. /\ q[Len(resolves) + 1] = n /\ DOMAIN q = DOMAIN resolves \cup {Len(resolves) + 1}
      /\ \A i \in DOMAIN resolves : q[i] = resolves[i]
  BY <1>1, <1>2, AppendFacts
<1> HIDE DEF q
<1>4. Pending(q, s) /\ \A t \in Services : Pending(resolves, t) => Pending(q, t)
  BY <1>2, <1>3 DEF Pending
<1>5. Undisturbed' =>
        \A t \in Services :
            /\ Knows(view, events, t) => t \in told \cup {s}
            /\ t \in told \cup {s} => Knows(view, events, t) \/ Pending(q, t)
  BY <1>1, <1>4 DEF ToldIsKnown, Undisturbed
<1> QED BY <1>1, <1>5 DEF ToldIsKnown, Knows, Pending

\* A service that goes leaves the application's knowledge with the event of its removal.
LEMMA RemoveToldIsKnown ==
    ASSUME TypeOK, ToldIsKnown, NEW s \in Services, DiscoverReplyRemove(s)
    PROVE  ToldIsKnown'
<1> DEFINE e == Event("REMOVED", s)
           q == Append(events, e)
<1>1. /\ UNCHANGED <<view, resolves, late, unread, faults>>
      /\ told' = told \ {s} /\ Publish(e)
      /\ events \in Seq(Events) /\ e \in Events
  BY EventTypes DEF DiscoverReplyRemove, ReportRemoved, TypeOK, replyOnly, appVars
<1>2. \A t : ~Says(e, "DISCOVERED", t) /\ (Says(e, "REMOVED", t) <=> t = s)
  BY DEF Says, Event
<1> HIDE DEF e
<1>3. (events' = q /\ lost' = lost) \/ lost'
  BY <1>1, Published
<1>4. \A t \in Services : IF t = s THEN ~Knows(view, q, t) ELSE Knows(view, q, t) <=> Knows(view, events, t)
  BY <1>1, <1>2, KnowsAppended
<1> HIDE DEF q
<1>5. Undisturbed' =>
        /\ events' = q
        /\ \A t \in Services :
            /\ Knows(view, q, t) => t \in told \ {s}
            /\ t \in told \ {s} => Knows(view, q, t) \/ Pending(resolves, t)
  BY <1>1, <1>3, <1>4 DEF ToldIsKnown, Undisturbed
<1> QED BY <1>1, <1>5 DEF ToldIsKnown, Knows, Pending

LEMMA ResolveToldIsKnown ==
    ASSUME TypeOK, ToldIsKnown, ResolveReply
    PROVE  ToldIsKnown'
<1>1. PICK a \in DOMAIN resolves, r \in Resolves :
              /\ r.service = resolves[a].service /\ r.lookups = resolves[a].lookups + 1
              /\ resolves' = [resolves EXCEPT ![a] = r]
  BY ResolveReplied
<1>2. UNCHANGED <<told, view, events, lost, late, unread, faults>>
  BY DEF ResolveReply, replyOnly, appVars
<1> DEFINE q == [resolves EXCEPT ![a] = r]
<1>3. r.lookups # 0
  BY <1>1, ResolveFields
<1>4. \A t \in Services : Pending(resolves, t) => Pending(q, t)
  BY <1>1, <1>3, PendingChanged
<1> HIDE DEF q
<1>5. Undisturbed' =>
        \A t \in Services :
            /\ Knows(view, events, t) => t \in told
            /\ t \in told => Knows(view, events, t) \/ Pending(q, t)
  BY <1>2, <1>4 DEF ToldIsKnown, Undisturbed
<1>6. resolves' = q
  BY <1>1 DEF q
<1> QED BY <1>2, <1>5, <1>6 DEF ToldIsKnown, Knows, Pending

\* A service whose address is found is reported; it is late unless the browse knows it.
LEMMA AddrinfoToldIsKnown ==
    ASSUME TypeOK, ToldIsKnown, AddrinfoReply
    PROVE  ToldIsKnown'
<1>1. PICK a \in DOMAIN resolves, r \in Resolves :
              /\ r.service = resolves[a].service
              /\ resolves' = [resolves EXCEPT ![a] = r]
              /\ Publish(Event("DISCOVERED", resolves[a].service))
              /\ late' = (late \/ resolves[a].service \notin told)
  BY AddrinfoReplied
<1>2. UNCHANGED <<told, view, unread, faults>> /\ events \in Seq(Events)
  BY DEF TypeOK, AddrinfoReply, replyOnly, appVars
<1> DEFINE s == resolves[a].service
           e == Event("DISCOVERED", s)
           p == Append(events, e)
           q == [resolves EXCEPT ![a] = r]
<1>3. s \in Services
  BY ResolveFields
<1>4. e \in Events /\ \A t : ~Says(e, "REMOVED", t) /\ (Says(e, "DISCOVERED", t) <=> t = s)
  BY <1>3 DEF Says, Event, Events
<1>5. Publish(e)
  BY <1>1
<1>6. \A t \in Services : t # s /\ Pending(resolves, t) => Pending(q, t)
  BY <1>1, PendingChanged
<1>7. resolves' = q /\ late' = (late \/ s \notin told)
  BY <1>1
<1> HIDE DEF e, q, s
<1>8. (events' = p /\ lost' = lost) \/ lost'
  BY <1>4, <1>5, Published
<1>9. \A t \in Services : IF t = s THEN Knows(view, p, t) ELSE Knows(view, p, t) <=> Knows(view, events, t)
  BY <1>2, <1>4, KnowsAppended
<1> HIDE DEF p
<1>10. Undisturbed' =>
        /\ events' = p
        /\ \A t \in Services :
            /\ Knows(view, p, t) => t \in told
            /\ t \in told => Knows(view, p, t) \/ Pending(q, t)
  BY <1>2, <1>3, <1>6, <1>7, <1>8, <1>9 DEF ToldIsKnown, Undisturbed
<1> QED BY <1>2, <1>7, <1>10 DEF ToldIsKnown, Knows, Pending

LEMMA RegisterToldIsKnown ==
    ASSUME TypeOK, ToldIsKnown, NEW renamed \in BOOLEAN, RegisterReply(renamed)
    PROVE  ToldIsKnown'
<1>1. UNCHANGED <<told, view, resolves, late, unread, faults>> /\ events \in Seq(Events)
  BY DEF TypeOK, RegisterReply, appVars
<1>2. PICK new \in Nat : Publish(Event("REGISTERED", new))
  BY RegisterReplied
<1> DEFINE e == Event("REGISTERED", new)
           p == Append(events, e)
<1>3. e \in Events /\ \A t : ~Says(e, "REMOVED", t) /\ ~Says(e, "DISCOVERED", t)
  BY DEF Says, Event, Events
<1>4. Publish(e)
  BY <1>2
<1> HIDE DEF e
<1>5. (events' = p /\ lost' = lost) \/ lost'
  BY <1>3, <1>4, Published
<1>6. \A t \in Services : Knows(view, p, t) <=> Knows(view, events, t)
  BY <1>1, <1>3, KnowsAppended
<1> HIDE DEF p
<1>7. Undisturbed' =>
        /\ events' = p
        /\ \A t \in Services :
            /\ Knows(view, p, t) => t \in told
            /\ t \in told => Knows(view, p, t) \/ Pending(resolves, t)
  BY <1>1, <1>5, <1>6 DEF ToldIsKnown, Undisturbed
<1> QED BY <1>1, <1>7 DEF ToldIsKnown, Knows, Pending

\* What the browse was told of is what the application knows, once it has read the pipe
\* and the resolves have come to their end.
THEOREM ToldInvariant == Spec => []ToldIsKnown
<1>1. Init => ToldIsKnown
  BY DEF Init, RuntimeCreated, ToldIsKnown, Knows
<1>2. TypeOK /\ ToldIsKnown /\ [Next]_vars => ToldIsKnown'
  <2> SUFFICES ASSUME TypeOK, ToldIsKnown, [Next]_vars PROVE ToldIsKnown'
    OBVIOUS
  <2> QED BY UntoldSteps, DiscoverToldIsKnown, FetchToldIsKnown, AddToldIsKnown, RemoveToldIsKnown,
             ResolveToldIsKnown, AddrinfoToldIsKnown, RegisterToldIsKnown DEF Next
<1> QED BY <1>1, <1>2, DiscoveryTypeCorrect, PTL DEF Spec

\* When everything is said and nothing went amiss, the application knows the services
\* that are there, and a server's application knows the name its service has.
THEOREM ViewAgreesHolds == Spec => []ViewAgrees
<1>1. TypeOK /\ ServerInv /\ ToldIsKnown => ViewAgrees
  <2> SUFFICES ASSUME TypeOK, ServerInv, ToldIsKnown PROVE ViewAgrees
    OBVIOUS
  <2>1. (role = "server" /\ events = <<>> /\ ~lost) => heardName = name
    BY DEF ServerInv, NameOnItsWay
  <2>2. ASSUME Quiet, ~lost, ~late, ~unread, faults = 0 PROVE view = present
    <3>1. /\ told = present /\ events = <<>>
          /\ \A i \in DOMAIN resolves : resolves[i].answered /\ resolves[i].lookups = 0
      BY <2>2 DEF Quiet
    <3>2. \A s \in Services : ~Pending(resolves, s)
      BY <3>1 DEF Pending
    <3>3. \A s \in Services : Knows(view, events, s) <=> s \in view
      BY <3>1 DEF Knows
    <3>4. \A s \in Services : s \in view <=> s \in told
      BY <2>2, <3>2, <3>3 DEF ToldIsKnown, Undisturbed
    <3>5. view \subseteq Services /\ told \subseteq Services
      BY DEF TypeOK
    <3> QED BY <3>1, <3>4, <3>5
  <2> QED BY <2>1, <2>2 DEF ViewAgrees
<1> QED BY <1>1, DiscoveryTypeCorrect, ServerInvariant, ToldInvariant, PTL
=============================================================================
