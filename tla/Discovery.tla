----------------------------- MODULE Discovery -----------------------------
(***************************************************************************)
(* The discovery_dns_sd module: DiscoveryClient and DiscoveryServer over   *)
(* NsdManager, which asks the DNS-SD daemon, and NsdEventLoop, the thread  *)
(* that runs the daemon's replies; and the way its events take through the *)
(* pipe and Discovery::Runtime::impl to the application.                   *)
(*                                                                         *)
(* The daemon is external.  It tells a browse about the services that come *)
(* and go, and answers a resolve or a registration when it likes, at times *)
(* more than once, and a resolve also after the service has gone.          *)
(***************************************************************************)
EXTENDS Naturals, Sequences

CONSTANTS
    Services,       \* what the daemon may find
    Keys,           \* of the items of a server
    MaxChanges,     \* bound: services that come or go
    MaxItems,       \* bound: calls of SetItem() and RemoveItem()
    MaxLives,       \* bound: calls of Activate()
    MaxRepeats,     \* bound: replies of the daemon that repeat an earlier one
    MaxFaults,      \* bound: calls that fail
    Capacity        \* of the event pipe

ASSUME DiscoveryBounds ==
    /\ MaxChanges \in Nat /\ MaxItems \in Nat /\ MaxLives \in Nat /\ MaxRepeats \in Nat
    /\ MaxFaults \in Nat
    /\ Capacity \in Nat \ {0}

VARIABLES
    role,           \* "client" or "server"
    present,        \* the services on the network
    told,           \* the services the browse has been told of
    svc,            \* whether the browse or the registration is open
    resolves,       \* the resolves ever asked for; none of them is ever closed
    register,       \* the callback data of a registration: "none", "live" or "freed"
    name,           \* info.name: how often the daemon has renamed the service
    items,          \* info.valueMap: its keys
    published,      \* the keys in the TXT record of the registration
    thread,         \* the loop thread: "none" or "runs"
    busy,           \* the handle whose reply it is at, or Nothing
    events,         \* the event pipe
    app,            \* "idle", "join", or the step of Destroy()
    view,           \* the services the application has heard of
    heardName,      \* the name the application has heard last
    changes, itemCalls, lives, repeats, faults,
    late,           \* history: a service was reported that the browse does not know (any more)
    lost,           \* history: the pipe was full
    unread,         \* history: Activate() with events of an earlier life in the pipe
    rash,           \* history: Destroy() without Deactivate()
    crashed         \* freed callback data, a freed handle or a closed pipe was used

envVars    == <<present, changes>>
serverVars == <<register, name, items, published, itemCalls>>
appVars    == <<view, heardName, unread>>
vars == <<role, envVars, told, svc, resolves, serverVars, thread, busy, events, app, appVars,
          lives, repeats, faults, late, lost, rash, crashed>>

Nothing  == [kind |-> "nothing", at |-> 0]
Fault    == faults < MaxFaults /\ faults' = faults + 1
Event(type, x) == [type |-> type, x |-> x]

\* Mutant: the handle of the resolve is not watched.
NewResolveUnwatched(s) == [service |-> s, data |-> "live", answered |-> TRUE, lookups |-> 0]

\* A resolve: its callback data, whether the daemon has answered, and how many lookups
\* of the address are open.
NewResolve(s) == [service |-> s, data |-> "live", answered |-> FALSE, lookups |-> 0]

\* _main(): a client, or with the option --server a server.
Roles == {"client", "server"}

\* DiscoveryServer(): a pipe that does not block, a name, and no items.
ServerConstructed == register = "none" /\ name = 0 /\ items = {} /\ published = {}

\* Discovery::Runtime::impl::Create(): the module is loaded, and its type is right;
\* the application has heard nothing.
RuntimeCreated == app = "idle" /\ view = {} /\ heardName = 0

\* The constructors: a pipe that does not block; NsdManager has nothing open.
Init ==
    /\ role \in Roles
    /\ present = {} /\ told = {}
    /\ svc = FALSE
    /\ resolves = <<>>
    /\ ServerConstructed
    /\ thread = "none" /\ busy = Nothing
    /\ events = <<>>
    /\ RuntimeCreated
    /\ changes = 0 /\ itemCalls = 0 /\ lives = 0 /\ repeats = 0 /\ faults = 0
    /\ late = FALSE /\ lost = FALSE /\ unread = FALSE /\ rash = FALSE /\ crashed = FALSE

----------------------------------------------------------------------------
(* The network and the daemon.                                             *)

Appear(s) ==
    /\ role = "client" /\ s \notin present
    /\ changes < MaxChanges
    /\ changes' = changes + 1
    /\ present' = present \cup {s}
    /\ UNCHANGED <<role, told, svc, resolves, serverVars, thread, busy, events, app, appVars,
                   lives, repeats, faults, late, lost, rash, crashed>>

Vanish(s) ==
    /\ s \in present
    /\ changes < MaxChanges
    /\ changes' = changes + 1
    /\ present' = present \ {s}
    /\ UNCHANGED <<role, told, svc, resolves, serverVars, thread, busy, events, app, appVars,
                   lives, repeats, faults, late, lost, rash, crashed>>

----------------------------------------------------------------------------
(* The application's calls.                                                *)

callOnly == <<role, envVars, name, items, itemCalls, busy, events, repeats, late, lost, crashed>>

\* NsdEventLoop::run(): the eventfd that ends it, and the thread.
Run == thread' = "runs"

\* DiscoveryClient::Activate(), discoverServices(): a browse is opened and watched.
DiscoverServices ==
    /\ role = "client"
    /\ app = "idle"
    /\ ~svc
    /\ lives < MaxLives
    /\ lives' = lives + 1
    /\ svc' = TRUE /\ told' = {}
    /\ Run
    /\ unread' = (unread \/ events # <<>>)
    /\ view' = {}
    /\ UNCHANGED <<callOnly, resolves, register, published, app, heardName, faults, rash>>

\* DiscoveryServer::Activate(), registerService(): the items go with the registration.
RegisterService ==
    /\ role = "server"
    /\ app = "idle"
    /\ ~svc
    /\ lives < MaxLives
    /\ lives' = lives + 1
    /\ svc' = TRUE
    /\ register' = "live"
    /\ published' = items
    /\ Run
    /\ UNCHANGED <<callOnly, told, resolves, app, appVars, faults, rash>>

\* Either of them fails, at the daemon or at the loop, and what it has opened is closed.
ActivateFails ==
    /\ app = "idle"
    /\ ~svc
    /\ lives < MaxLives
    /\ lives' = lives + 1
    /\ Fault
    /\ UNCHANGED <<callOnly, told, svc, resolves, register, published, thread, app,
                   appVars, rash>>

\* DiscoveryServer::SetItem(), DiscoveryInfo::setValue(): a key that is there is refused.
SetItem(k) ==
    /\ role = "server" /\ app = "idle"
    /\ itemCalls < MaxItems
    /\ itemCalls' = itemCalls + 1
    /\ items' = items \cup {k}
    /\ UNCHANGED <<role, envVars, told, svc, resolves, register, name, published, thread,
                   busy, events, app, appVars, lives, repeats, faults, late, lost, rash, crashed>>

\* DiscoveryServer::RemoveItem(), DiscoveryInfo::removeValue()
RemoveItem(k) ==
    /\ role = "server" /\ app = "idle"
    /\ itemCalls < MaxItems
    /\ itemCalls' = itemCalls + 1
    /\ items' = items \ {k}
    /\ UNCHANGED <<role, envVars, told, svc, resolves, register, name, published, thread,
                   busy, events, app, appVars, lives, repeats, faults, late, lost, rash, crashed>>

\* Deactivate(), stopService(), NsdEventLoop::quit(): the eventfd is written and the
\* thread joined.
Deactivate ==
    /\ app = "idle"
    /\ svc
    /\ app' = "join"
    /\ UNCHANGED <<callOnly, told, svc, resolves, register, published, thread, appVars,
                   lives, faults, rash>>

\* The end of stopService(): the browse or the registration is no more watched, and
\* closed.  The resolves stay open and watched.
StopService ==
    /\ app = "join"
    /\ thread = "none"
    /\ app' = "idle"
    /\ svc' = FALSE
    /\ UNCHANGED <<callOnly, told, resolves, register, published, thread, appVars, lives,
                   faults, rash>>

\* Discovery::impl::Destroy() down to the destructors: the pipe is closed first.
Destroy ==
    /\ app = "idle"
    /\ app' = "closed"
    /\ rash' = (rash \/ svc)
    /\ UNCHANGED <<callOnly, told, svc, resolves, register, published, thread, appVars,
                   lives, faults>>

\* ~NsdManager(): then the browse or the registration.
DestroyService ==
    /\ app = "closed"
    /\ app' = "quit"
    /\ svc' = FALSE
    /\ crashed' = (crashed \/ (svc /\ busy.kind \in {"browse", "register"}))
    /\ UNCHANGED <<role, envVars, name, items, itemCalls, busy, events, repeats, late, lost, told,
                   resolves, register, published, thread, appVars, lives, faults, rash>>

\* ~NsdEventLoop(): and last the thread is joined.
DestroyJoined ==
    /\ app = "quit"
    /\ thread = "none"
    /\ app' = "gone"
    /\ UNCHANGED <<callOnly, told, svc, resolves, register, published, thread, appVars,
                   lives, faults, rash>>

\* Discovery::Runtime::impl::FetchEventData(): what the application makes of the
\* module's event.  One of type ERROR is refused with -EFAULT.
Hear(e) ==
    /\ view' = CASE e.type = "DISCOVERED" -> view \cup {e.x}
                 [] e.type = "REMOVED"    -> view \ {e.x}
                 [] OTHER                 -> view
    /\ heardName' = IF e.type = "REGISTERED" THEN e.x ELSE heardName

\* FetchEventData() of the module, for the runtime's.
FetchEventData ==
    /\ app = "idle"
    /\ events # <<>>
    /\ events' = Tail(events)
    /\ Hear(Head(events))
    /\ UNCHANGED <<role, envVars, told, svc, resolves, serverVars, thread, busy, app, unread,
                   lives, repeats, faults, late, lost, rash, crashed>>

----------------------------------------------------------------------------
(* The loop thread.                                                        *)

\* The handles the daemon has something to say to.
Ready ==
    {h \in [kind : {"browse"}, at : {0}] : role = "client" /\ svc /\ told # present}
        \cup {h \in [kind : {"register"}, at : {0}] :
                role = "server" /\ svc /\ (register = "live" \/ repeats < MaxRepeats)}
        \cup {h \in [kind : {"resolve"}, at : DOMAIN resolves] :
                ~resolves[h.at].answered \/ repeats < MaxRepeats}
        \cup {h \in [kind : {"addrinfo"}, at : DOMAIN resolves] : resolves[h.at].lookups > 0}

\* NsdEventLoop::run(): the thread takes one handle that is ready.
LoopTakes(h) ==
    /\ thread = "runs"
    /\ busy = Nothing
    /\ h \in Ready
    /\ busy' = h
    /\ UNCHANGED <<role, envVars, told, svc, resolves, serverVars, thread, events, app, appVars,
                   lives, repeats, faults, late, lost, rash, crashed>>

\* The thread sees the eventfd, which is one of the handles that are ready.
LoopQuits ==
    /\ thread = "runs"
    /\ busy = Nothing
    /\ app \in {"join", "quit"}
    /\ thread' = "none"
    /\ UNCHANGED <<role, envVars, told, svc, resolves, serverVars, busy, events, app, appVars,
                   lives, repeats, faults, late, lost, rash, crashed>>

\* onServiceDiscovered() and onServiceRegistered(): a write that does not block.
Publish(e) ==
    /\ busy' = Nothing
    /\ IF Len(events) < Capacity
       THEN events' = Append(events, e) /\ UNCHANGED lost
       ELSE lost' = TRUE /\ UNCHANGED events

Closed == app \notin {"idle", "join"}

replyOnly == <<role, envVars, svc, name, items, published, itemCalls, thread, app, appVars,
               lives, rash>>

\* discover_reply() for a service that was added: it is resolved.
DiscoverReplyAdd(s) ==
    /\ busy.kind = "browse"
    /\ s \in present \ told
    /\ told' = told \cup {s}
    /\ resolves' = Append(resolves, NewResolve(s))
    /\ busy' = Nothing
    /\ UNCHANGED <<replyOnly, register, events, repeats, faults, late, lost, crashed>>

\* resolveService() fails.
ResolveServiceFails(s) ==
    /\ busy.kind = "browse"
    /\ s \in present \ told
    /\ Fault
    /\ told' = told \cup {s}
    /\ Publish(Event("ERROR", s))
    /\ crashed' = (crashed \/ Closed)
    /\ UNCHANGED <<replyOnly, register, resolves, repeats, late>>

\* Mutant: the service that has gone is not reported.
ReportRemovedNot(s) == busy' = Nothing /\ UNCHANGED <<events, lost>>

\* What discover_reply() reports of a service that has gone.
ReportRemoved(s) == Publish(Event("REMOVED", s))

\* discover_reply() for a service that was removed.
DiscoverReplyRemove(s) ==
    /\ busy.kind = "browse"
    /\ s \in told \ present
    /\ told' = told \ {s}
    /\ ReportRemoved(s)
    /\ crashed' = (crashed \/ Closed)
    /\ UNCHANGED <<replyOnly, register, resolves, repeats, faults, late>>

\* The daemon's reply was overtaken: what it says of the browse is not so any more.
BrowseOvertaken ==
    /\ busy.kind = "browse"
    /\ told = present
    /\ busy' = Nothing
    /\ UNCHANGED <<replyOnly, told, resolves, register, events, repeats, faults, late, lost, crashed>>

Repeat(again) == IF again THEN repeats < MaxRepeats /\ repeats' = repeats + 1 ELSE UNCHANGED repeats

\* Mutant: resolve_reply() frees its callback data.
ResolvedDataFreed(r) == "freed"

\* The callback data goes on from resolve_reply() to the lookup of the address.
ResolvedData(r) == r.data

\* resolve_reply(): the address is looked up, with the same callback data.
ResolveReply ==
    /\ busy.kind = "resolve"
    /\ LET r == resolves[busy.at] IN
       /\ Repeat(r.answered)
       /\ resolves' = [resolves EXCEPT ![busy.at].answered = TRUE, ![busy.at].lookups = @ + 1,
                                          ![busy.at].data = ResolvedData(r)]
       /\ crashed' = (crashed \/ r.data = "freed")
    /\ busy' = Nothing
    /\ UNCHANGED <<replyOnly, told, register, events, faults, late, lost>>

\* DNSServiceGetAddrInfo() fails: the callback data is freed, the resolve stays open.
ResolveReplyFails ==
    /\ busy.kind = "resolve"
    /\ Fault
    /\ LET r == resolves[busy.at] IN
       /\ Repeat(r.answered)
       /\ resolves' = [resolves EXCEPT ![busy.at].answered = TRUE, ![busy.at].data = "freed"]
       /\ Publish(Event("ERROR", r.service))
       /\ crashed' = (crashed \/ r.data = "freed" \/ Closed)
    /\ UNCHANGED <<replyOnly, told, register, late>>

\* addrinfo_reply(): the lookup is closed, the service reported and the data freed.
AddrinfoReply ==
    /\ busy.kind = "addrinfo"
    /\ LET r == resolves[busy.at] IN
       /\ resolves' = [resolves EXCEPT ![busy.at].lookups = @ - 1, ![busy.at].data = "freed"]
       /\ Publish(Event("DISCOVERED", r.service))
       /\ late' = (late \/ r.service \notin told)
       /\ crashed' = (crashed \/ r.data = "freed" \/ Closed)
    /\ UNCHANGED <<replyOnly, told, register, repeats, faults>>

\* The event of onServiceRegistered().
Registered(new) == Event("REGISTERED", new)

\* register_reply(), onServiceRegistered(): the name, which may be a new one, is
\* reported and the callback data freed.
RegisterReply(renamed) ==
    /\ busy.kind = "register"
    /\ Repeat(register = "freed")
    /\ crashed' = (crashed \/ register = "freed" \/ Closed)
    /\ register' = "freed"
    /\ name' = IF renamed THEN name + 1 ELSE name
    /\ Publish(Registered(name'))
    /\ UNCHANGED <<role, envVars, svc, told, resolves, items, published, itemCalls, thread,
                   app, appVars, lives, rash, faults, late>>

Next ==
    \/ \E s \in Services : Appear(s)
    \/ \E s \in Services : Vanish(s)
    \/ DiscoverServices
    \/ RegisterService
    \/ ActivateFails
    \/ \E k \in Keys : SetItem(k)
    \/ \E k \in Keys : RemoveItem(k)
    \/ Deactivate
    \/ StopService
    \/ Destroy
    \/ DestroyService
    \/ DestroyJoined
    \/ FetchEventData
    \/ \E h \in Ready : LoopTakes(h)
    \/ LoopQuits
    \/ \E s \in Services : DiscoverReplyAdd(s)
    \/ \E s \in Services : ResolveServiceFails(s)
    \/ \E s \in Services : DiscoverReplyRemove(s)
    \/ BrowseOvertaken
    \/ ResolveReply
    \/ ResolveReplyFails
    \/ AddrinfoReply
    \/ \E renamed \in BOOLEAN : RegisterReply(renamed)

Replies ==
    \/ \E s \in Services : DiscoverReplyAdd(s) \/ DiscoverReplyRemove(s)
    \/ BrowseOvertaken
    \/ ResolveReply
    \/ AddrinfoReply
    \/ \E renamed \in BOOLEAN : RegisterReply(renamed)

\* The thread ends the callback it is in, and takes the handles that stay ready: epoll
\* puts a handle it has reported behind the others.  The daemon answers the first
\* time.  The application reads its events.
Fairness ==
    /\ WF_vars(Replies)
    /\ SF_vars(\E h \in Ready : h.kind = "browse" /\ LoopTakes(h))
    /\ SF_vars(\E h \in Ready : h.kind = "addrinfo" /\ LoopTakes(h))
    /\ SF_vars(\E h \in Ready : h.kind = "resolve" /\ ~resolves[h.at].answered /\ LoopTakes(h))
    /\ WF_vars(FetchEventData)

Spec == Init /\ [][Next]_vars /\ Fairness

----------------------------------------------------------------------------
(* Properties.                                                             *)

Apps     == {"idle", "join", "closed", "quit", "gone"}
Resolves == [service : Services, data : {"live", "freed"}, answered : BOOLEAN, lookups : Nat]
Events   == [type : {"DISCOVERED", "REMOVED", "ERROR"}, x : Services] \cup [type : {"REGISTERED"}, x : Nat]

\* The handle the loop thread is at: one of a resolve that was asked for, and of a
\* lookup that is open.
BusyTyped ==
    /\ busy \in [kind : {"nothing", "browse", "register", "resolve", "addrinfo"}, at : Nat]
    /\ busy.kind = "nothing" => busy = Nothing
    /\ busy.kind \in {"resolve", "addrinfo"} => busy.at \in DOMAIN resolves
    /\ busy.kind = "addrinfo" => resolves[busy.at].lookups > 0

\* The fields of the client, the server, the loop and the application.
TypeOK ==
    /\ role \in Roles
    /\ present \subseteq Services /\ told \subseteq Services /\ view \subseteq Services
    /\ svc \in BOOLEAN
    /\ resolves \in Seq(Resolves)
    /\ register \in {"none", "live", "freed"}
    /\ name \in Nat /\ heardName \in Nat
    /\ items \subseteq Keys /\ published \subseteq Keys
    /\ thread \in {"none", "runs"}
    /\ BusyTyped
    /\ events \in Seq(Events) /\ Len(events) <= Capacity
    /\ app \in Apps
    /\ changes \in 0..MaxChanges /\ itemCalls \in 0..MaxItems /\ lives \in 0..MaxLives
    /\ repeats \in 0..MaxRepeats /\ faults \in 0..MaxFaults
    /\ late \in BOOLEAN /\ lost \in BOOLEAN /\ unread \in BOOLEAN
    /\ rash \in BOOLEAN /\ crashed \in BOOLEAN

\* The callback data of a resolve or of a registration is freed by its reply while the
\* handle stays open, and the destructors close the pipe and the handle before
\* they join the thread: a freed object is used only if the daemon replies twice
\* or an active discovery is destroyed.
CrashNeedsRepeat == crashed => repeats > 0 \/ rash

Quiet ==
    /\ role = "client" /\ svc /\ app = "idle" /\ busy = Nothing
    /\ told = present
    /\ events = <<>>
    /\ \A i \in DOMAIN resolves : resolves[i].answered /\ resolves[i].lookups = 0

\* Once everything is said, the application knows the services that are there, unless
\* an event was lost in a full pipe, a step failed (such an event is refused on
\* its way up), events of an earlier life were left unread, or an answer came
\* after its service had gone.
\* A server's application that has read its events knows the
\* name of the service, whatever the daemon has made of it.
ViewAgrees ==
    /\ Quiet /\ ~lost /\ ~late /\ ~unread /\ ~crashed /\ faults = 0 => view = present
    /\ (role = "server" /\ events = <<>> /\ ~lost) => heardName = name

\* A service the browse was told of is reported, or it goes, or the discovery stops,
\* or something fails.
AddedIsReported ==
    \A s \in Services :
        (s \in told /\ svc) ~> (s \in view \/ s \notin told \/ ~svc \/ lost \/ faults > 0 \/ app # "idle")
=============================================================================
