------------------------ MODULE PeerPipeline_proofs ------------------------
(***************************************************************************)
(* Proofs about PeerPipeline, for any number of requests, pairs of         *)
(* pipelines and failures: frames that vanish are the ones missing from    *)
(* the pairs, a careful application is safe, and answers are given to      *)
(* the requests they were computed for.                                    *)
(***************************************************************************)
EXTENDS PeerPipeline, FiniteSetTheorems, SequenceTheorems, WellFoundedInduction, TLAPS

----------------------------------------------------------------------------
(* The inductive invariant.                                                *)

\* How many elements of a sequence are in a set.
Marked(s, S) == {i \in DOMAIN s : s[i] \in S}
Count(s, S)  == Cardinality(Marked(s, S))

\* The commands and events that are counted.
PrepareCommand == [id |-> "Prepare", arg |-> None]
StopCommand    == [id |-> "Stop", arg |-> None]
EventTypes     == {"SUCCESS", "ERROR", "STOPPED"}
Events         == [type : EventTypes, request : 0..MaxRequests]
Verdicts       == {e \in Events : e.type # "STOPPED"}

\* The pairs there are and the ones asked for keep to the bound.
Typed == TypeOK /\ pairs + Count(cmds, {PrepareCommand}) <= MaxPairs

\* The application has kept the rules, and no call or event has gone missing.
Calm == ~careless /\ ~shifted

\* The last command, alone or behind that of a Stop().
Sent(c) == cmds = <<c>> \/ cmds = <<StopCommand, c>>

\* Svc has answered the call.
Answered(id) == \E ok \in BOOLEAN : replies = <<[id |-> id, ok |-> ok]>>

\* How far the call of the application has got.
IdleOK ==
    app = "idle" => /\ svc = "loop" /\ replies = <<>>
                    /\ cmds = <<>> \/ cmds = <<StopCommand>>

PrepareOK ==
    app = "Prepare" => /\ svc = "loop" /\ requests <= seen
                       /\ \/ replies = <<>> /\ Sent(PrepareCommand)
                          \/ /\ cmds = <<>> /\ Answered("Prepare")
                             /\ Head(replies).ok => gstSource # None

InvokeOK ==
    app = "Invoke" =>
        /\ prepared /\ requests # 0
        /\ \/ svc = "loop" /\ replies = <<>> /\ cmds = <<[id |-> "Invoke", arg |-> requests]>>
           \/ svc = "pushed" /\ replies = <<>> /\ cmds = <<>> /\ request = requests
           \/ svc = "loop" /\ cmds = <<>> /\ Answered("Invoke")

EndOK ==
    app \in {"join", "gone"} =>
        /\ requests <= seen /\ replies = <<>>
        /\ \/ app = "join" /\ svc = "loop" /\ Sent([id |-> "Exit", arg |-> None])
           \/ svc = "exited" /\ cmds = <<>>

CommandOK == IdleOK /\ PrepareOK /\ InvokeOK /\ EndOK

\* There is a source for the commands that need one.
SourceOK ==
    /\ cmds # <<>> /\ Head(cmds).id = "Stop" => gstSource # None /\ ~prepared
    /\ prepared /\ app \in {"idle", "Invoke"} => gstSource # None

\* The request has not become a frame, or never will.
Pending == app = "Invoke" /\ (cmds # <<>> \/ (replies # <<>> /\ ~Head(replies).ok))

\* Frames on their way in the pipelines and at the sinks, and events of inferences.
InFlight(g) == InPair(g) + (IF sink[g].at = "idle" THEN 0 ELSE 1)
Flying      == IF gstSource = None THEN 0 ELSE InFlight(gstSource)
Told        == Count(events, Verdicts)

\* No request is in two places.
CountOK == seen + Told + Flying + (IF Pending THEN 1 ELSE 0) <= requests

\* Pairs that are not the source's are empty.
OldPairsEmpty == \A g \in Pairs : g # gstSource => InFlight(g) = 0

CallOK == Calm => ~crashed /\ CommandOK /\ SourceOK /\ CountOK /\ OldPairsEmpty

\* The requests whose frames have been pushed, in their order.
Awaited == IF svc = "pushed" THEN Append(requestQueue, request) ELSE requestQueue

Frames(g) == (pair[g].answers \o pair[g].wire) \o pair[g].slot

\* Frames and requests are in the same order.
FramesMatch == IF gstSource = None THEN Awaited = <<>> ELSE Frames(gstSource) = Awaited

\* How many requests svc has looked at.
Taken == IF app = "Invoke" /\ cmds # <<>> THEN requests - 1 ELSE requests

Increasing(s) == \A i, j \in 1..Len(s) : i < j => s[i] < s[j]

\* Event i tells of an answer.
Success(i) == i \in 1..Len(events) /\ events[i].type = "SUCCESS"

AwaitedOK == Increasing(Awaited) /\ \A j \in 1..Len(Awaited) : Awaited[j] <= Taken

SinkOK ==
    \A g \in Pairs : sink[g].at # "idle" =>
        /\ sink[g].frame = sink[g].request
        /\ sink[g].frame <= Taken
        /\ \A j \in 1..Len(Awaited) : sink[g].frame < Awaited[j]
        /\ \A i \in 1..Len(events) : Success(i) => events[i].request < sink[g].frame
        /\ sink[g].at = "popped" => \A k \in 1..Len(output) : output[k] < sink[g].frame
        /\ sink[g].at = "sent" => \E k \in 1..Len(output) : output[k] = sink[g].frame

\* The requests of the outputs are those of the events, in their order, and the one
\* whose event is about to be published.
OutputOK ==
    /\ Increasing(output)
    /\ \A k \in 1..Len(output) :
           /\ output[k] <= Taken
           /\ \A j \in 1..Len(Awaited) : output[k] < Awaited[j]
           /\ \/ \E i \in 1..Len(events) : Success(i) /\ events[i].request = output[k]
              \/ \E g \in Pairs : sink[g].at = "sent" /\ sink[g].frame = output[k]

EventsOK ==
    /\ \A i, j \in 1..Len(events) :
           i < j /\ Success(i) /\ Success(j) => events[i].request < events[j].request
    /\ \A i \in 1..Len(events) :
           Success(i) => \E k \in 1..Len(output) : output[k] = events[i].request

OrderOK == FramesMatch /\ AwaitedOK /\ SinkOK /\ OutputOK /\ EventsOK

ResultOK == \A x \in Requests : result[x] \in {None, x}

AnswersOK == Calm /\ missing = 0 => OrderOK /\ ResultOK

----------------------------------------------------------------------------
(* Lemmas about sequences and sums.                                        *)

\* The number of marked elements of a sequence is a number, 0 of the empty one.
LEMMA CountType ==
  ASSUME NEW T, NEW s \in Seq(T), NEW S
  PROVE  /\ IsFiniteSet(Marked(s, S))
         /\ Count(s, S) \in Nat
         /\ s = <<>> => Count(s, S) = 0
<1>1. Marked(s, S) \in SUBSET (1..Len(s))
  BY DEF Marked
<1>2. IsFiniteSet(1..Len(s))
  BY FS_Interval
<1>3. IsFiniteSet(Marked(s, S))
  BY <1>1, <1>2, FS_Subset
<1>4. s = <<>> => Marked(s, S) = {}
  BY DEF Marked
<1> QED BY <1>3, <1>4, FS_CardinalityType, FS_EmptySet DEF Count

\* Append counts its element, and only that.
LEMMA CountAppend ==
  ASSUME NEW T, NEW s \in Seq(T), NEW x \in T, NEW S
  PROVE  Count(Append(s, x), S) = Count(s, S) + (IF x \in S THEN 1 ELSE 0)
<1> DEFINE n == Len(s) + 1
<1>1. IsFiniteSet(Marked(s, S)) /\ Count(s, S) \in Nat
  BY CountType
<1>2. /\ DOMAIN Append(s, x) = 1..n
      /\ Append(s, x)[n] = x
      /\ \A k \in 1..Len(s) : Append(s, x)[k] = s[k]
      /\ Len(s) \in Nat /\ DOMAIN s = 1..Len(s)
  OBVIOUS
<1> HIDE DEF n
<1>3. n \notin Marked(s, S)
  BY <1>2 DEF Marked, n
<1>4. CASE x \in S
  <2>1. Marked(Append(s, x), S) = Marked(s, S) \union {n}
    BY <1>2, <1>4 DEF Marked, n
  <2> QED BY <1>1, <1>3, <1>4, <2>1, FS_AddElement DEF Count
<1>5. CASE x \notin S
  <2>1. Marked(Append(s, x), S) = Marked(s, S)
    BY <1>2, <1>5 DEF Marked, n
  <2> QED BY <1>1, <1>5, <2>1 DEF Count
<1> QED BY <1>4, <1>5

\* Tail takes off the head's count.
LEMMA CountTail ==
  ASSUME NEW T, NEW s \in Seq(T), s # <<>>, NEW S
  PROVE  Count(s, S) = Count(Tail(s), S) + (IF Head(s) \in S THEN 1 ELSE 0)
<1> DEFINE A == Marked(Tail(s), S)
           B == Marked(s, S) \ {1}
           f == [i \in A |-> i + 1]
<1>1. /\ Tail(s) \in Seq(T) /\ Head(s) = s[1]
      /\ Len(s) \in Nat /\ Len(s) # 0 /\ DOMAIN s = 1..Len(s)
      /\ DOMAIN Tail(s) = 1..(Len(s) - 1)
      /\ \A k \in 1..(Len(s) - 1) : Tail(s)[k] = s[k + 1]
  OBVIOUS
<1>2. /\ IsFiniteSet(A) /\ Cardinality(A) = Count(Tail(s), S) /\ Count(Tail(s), S) \in Nat
      /\ IsFiniteSet(Marked(s, S)) /\ Count(s, S) \in Nat
  BY <1>1, CountType DEF Count
<1>3. f \in Bijection(A, B)
  <2>1. A \subseteq Nat
    BY <1>1 DEF Marked
  <2>2. \A i \in A : i + 1 \in B
    BY <1>1 DEF Marked
  <2>3. f \in [A -> B]
    BY <2>2
  <2>4. \A i, j \in A : f[i] = f[j] => i = j
    BY <2>1
  <2>5. \A k \in B : k - 1 \in A /\ k = (k - 1) + 1
    BY <1>1 DEF Marked
  <2>6. \A k \in B : \E i \in A : f[i] = k
    BY <2>5
  <2> QED BY <2>3, <2>4, <2>6 DEF Bijection, Injection, Surjection, IsInjective
<1>4. Cardinality(B) = Cardinality(A) /\ IsFiniteSet(B)
  <2>1. ExistsBijection(A, B)
    BY <1>3 DEF ExistsBijection
  <2> HIDE DEF A, B
  <2> QED BY <1>2, <2>1, FS_Bijection
<1>5. 1 \in Marked(s, S) <=> Head(s) \in S
  BY <1>1 DEF Marked
<1>6. Cardinality(B) = IF 1 \in Marked(s, S) THEN Count(s, S) - 1 ELSE Count(s, S)
  BY <1>2, FS_RemoveElement DEF Count
<1> QED BY <1>2, <1>4, <1>5, <1>6

\* Induction over the naturals, as a fact about sets: it follows from the least
\* element of the numbers that are not in T.
LEMMA NatSetInduction ==
  ASSUME NEW T, 0 \in T, \A n \in Nat : n \in T => n + 1 \in T
  PROVE  Nat \subseteq T
<1> DEFINE U == {n \in Nat : n \notin T}
<1>1. SUFFICES ASSUME U # {} PROVE FALSE
  OBVIOUS
<1>2. U \subseteq Nat
  OBVIOUS
<1> HIDE DEF U
<1>3. PICK x \in U : \A y \in U : ~(<<y, x>> \in OpToRel(<, Nat))
  BY <1>1, <1>2, NatLessThanWellFounded, WFMin, Zenon
<1> USE DEF U
<1>4. \A y \in U : ~(y < x)
  BY <1>3 DEF OpToRel
<1>5. x # 0 /\ x - 1 \in Nat /\ x - 1 \notin U
  BY <1>4
<1> QED BY <1>5

\* Total is the last of the partial sums its recursion describes.
LEMMA TotalRecursion ==
  ASSUME NEW f
  PROVE  \E sum : /\ Total(f) = sum[MaxPairs]
                  /\ sum[0] = 0
                  /\ \A g \in 1..MaxPairs : sum[g] = f[g] + sum[g - 1]
<1> DEFINE Rec(s, m) == s = [g \in 0..m |-> IF g = 0 THEN 0 ELSE f[g] + s[g - 1]]
           T == {m \in Nat : \E s : Rec(s, m)}
<1>1. 0 \in T
  <2> DEFINE s == [g \in 0..0 |-> 0]
  <2>1. Rec(s, 0)
    OBVIOUS
  <2> QED BY <2>1
<1>2. ASSUME NEW m \in Nat, m \in T PROVE m + 1 \in T
  <2>1. PICK s : Rec(s, m)
    BY <1>2
  <2> DEFINE h == [g \in 0..(m + 1) |-> IF g <= m THEN s[g] ELSE f[m + 1] + s[m]]
  <2>2. Rec(h, m + 1)
    BY <2>1
  <2> HIDE DEF h, Rec
  <2> QED BY <2>2
<1>3. Nat \subseteq T
  <2> HIDE DEF T
  <2> QED BY <1>1, <1>2, NatSetInduction
<1>4. \E s : Rec(s, MaxPairs)
  BY <1>3, BoundsAssumption
<1> DEFINE c == CHOOSE s : Rec(s, MaxPairs)
<1>5. Total(f) = c[MaxPairs]
  BY DEF Total
<1>6. Rec(c, MaxPairs)
  BY <1>4
<1> HIDE DEF c
<1>7. c[0] = 0 /\ \A g \in 1..MaxPairs : c[g] = f[g] + c[g - 1]
  BY <1>6, BoundsAssumption
<1> QED BY <1>5, <1>7

\* A change of one pair's number changes the sum by as much.
LEMMA TotalChange ==
  ASSUME NEW f \in [Pairs -> Nat], NEW h \in [Pairs -> Nat], NEW g \in Pairs,
         \A k \in Pairs : k # g => h[k] = f[k]
  PROVE  /\ Total(f) \in Nat /\ Total(h) \in Nat
         /\ Total(h) + f[g] = Total(f) + h[g]
<1>1. PICK s : /\ Total(f) = s[MaxPairs]
               /\ s[0] = 0
               /\ \A k \in 1..MaxPairs : s[k] = f[k] + s[k - 1]
  BY TotalRecursion
<1>2. PICK t : /\ Total(h) = t[MaxPairs]
               /\ t[0] = 0
               /\ \A k \in 1..MaxPairs : t[k] = h[k] + t[k - 1]
  BY TotalRecursion
<1> DEFINE Ok(n) == /\ s[n] \in Nat /\ t[n] \in Nat
                    /\ n < g => t[n] = s[n]
                    /\ n >= g => t[n] + f[g] = s[n] + h[g]
           T == {n \in Nat : n <= MaxPairs => Ok(n)}
<1>3. 0 \in T
  BY <1>1, <1>2 DEF Pairs
<1>4. ASSUME NEW n \in Nat, n \in T PROVE n + 1 \in T
  <2>1. CASE n + 1 <= MaxPairs
    <3>1. /\ n + 1 \in Pairs /\ Ok(n)
          /\ s[n + 1] = f[n + 1] + s[n] /\ t[n + 1] = h[n + 1] + t[n]
      BY <1>1, <1>2, <1>4, <2>1, BoundsAssumption DEF Pairs
    <3>2. f[n + 1] \in Nat /\ h[n + 1] \in Nat
      BY <3>1
    <3>3. s[n + 1] \in Nat /\ t[n + 1] \in Nat
      BY <3>1, <3>2
    <3>4. f[g] \in Nat /\ h[g] \in Nat /\ g \in Nat
      BY DEF Pairs
    <3>5. CASE n + 1 = g
      BY <3>1, <3>2, <3>3, <3>4, <3>5
    <3>6. CASE n + 1 # g
      <4>1. h[n + 1] = f[n + 1]
        BY <3>1, <3>6
      <4> QED BY <3>1, <3>2, <3>3, <3>4, <3>6, <4>1
    <3> QED BY <3>5, <3>6
  <2>2. CASE ~(n + 1 <= MaxPairs)
    BY <2>2
  <2> QED BY <2>1, <2>2
<1>5. Nat \subseteq T
  <2> HIDE DEF T
  <2> QED BY <1>3, <1>4, NatSetInduction
<1>6. Ok(MaxPairs) /\ MaxPairs >= g
  BY <1>5, BoundsAssumption DEF Pairs
<1> QED BY <1>1, <1>2, <1>6

\* The sum of zeros.
LEMMA TotalZero ==
  ASSUME NEW f, \A k \in Pairs : f[k] = 0
  PROVE  Total(f) = 0
<1>1. PICK s : /\ Total(f) = s[MaxPairs]
               /\ s[0] = 0
               /\ \A k \in 1..MaxPairs : s[k] = f[k] + s[k - 1]
  BY TotalRecursion
<1> DEFINE T == {n \in Nat : n <= MaxPairs => s[n] = 0}
<1>2. 0 \in T
  BY <1>1
<1>3. ASSUME NEW n \in Nat, n \in T PROVE n + 1 \in T
  BY <1>1, <1>3, BoundsAssumption DEF Pairs
<1>4. Nat \subseteq T
  <2> HIDE DEF T
  <2> QED BY <1>2, <1>3, NatSetInduction
<1> QED BY <1>1, <1>4, BoundsAssumption

----------------------------------------------------------------------------
(* Types.                                                                  *)

\* The parts of Typed.
AppTyped ==
    /\ udp \in BOOLEAN /\ patient \in BOOLEAN
    /\ app \in {"idle", "Prepare", "Invoke", "join", "gone"}
    /\ requests \in 0..MaxRequests
    /\ result \in [Requests -> 0..MaxRequests]
    /\ seen \in Nat
    /\ prepared \in BOOLEAN /\ careless \in BOOLEAN

CmdsTyped ==
    /\ cmds \in Seq(Commands)
    /\ gstSource \in 0..MaxPairs
    /\ pairs \in 0..MaxPairs
    /\ pairs + Count(cmds, {PrepareCommand}) <= MaxPairs

SvcTyped ==
    /\ replies \in Seq([id : {"Prepare", "Invoke"}, ok : BOOLEAN])
    /\ svc \in {"loop", "pushed", "exited"}
    /\ request \in 0..MaxRequests /\ (svc = "pushed" => request # None)

PairRecord == [slot : Seq(Requests), wire : Seq(Requests), answers : Seq(Requests),
               playing : BOOLEAN]

PairTyped == pair \in [Pairs -> PairRecord] /\ requestQueue \in Seq(Requests)

SinkTyped ==
    /\ sink \in [Pairs -> SinkStates]
    /\ output \in Seq(Requests)
    /\ events \in Seq(Events)

RestTyped ==
    /\ faults \in 0..MaxFaults
    /\ missing \in Nat
    /\ shifted \in BOOLEAN /\ crashed \in BOOLEAN

\* Typed, and in the next state, part by part.
LEMMA TypedParts ==
  /\ Typed <=> AppTyped /\ CmdsTyped /\ SvcTyped /\ PairTyped /\ SinkTyped /\ RestTyped
  /\ Typed' <=> AppTyped' /\ CmdsTyped' /\ SvcTyped' /\ PairTyped' /\ SinkTyped' /\ RestTyped'
<1>1. Typed <=> AppTyped /\ CmdsTyped /\ SvcTyped /\ PairTyped /\ SinkTyped /\ RestTyped
  BY Zenon DEF Typed, TypeOK, AppTyped, CmdsTyped, SvcTyped, PairTyped, SinkTyped, RestTyped,
               PairRecord, Events, EventTypes
<1>2. Typed' <=> AppTyped' /\ CmdsTyped' /\ SvcTyped' /\ PairTyped' /\ SinkTyped' /\ RestTyped'
  BY Zenon DEF Typed, TypeOK, AppTyped, CmdsTyped, SvcTyped, PairTyped, SinkTyped, RestTyped,
               PairRecord, Events, EventTypes
<1> QED BY <1>1, <1>2

\* Parts whose variables a step leaves alone.
LEMMA Untouched ==
  /\ AppTyped /\ UNCHANGED appVars => AppTyped'
  /\ CmdsTyped /\ UNCHANGED <<cmds, gstSource, pairs>> => CmdsTyped'
  /\ SvcTyped /\ UNCHANGED <<replies, svc, request>> => SvcTyped'
  /\ PairTyped /\ UNCHANGED <<pair, requestQueue>> => PairTyped'
  /\ SinkTyped /\ UNCHANGED <<sink, output, events>> => SinkTyped'
<1>1. AppTyped /\ UNCHANGED appVars => AppTyped'
  BY Zenon DEF AppTyped, appVars
<1>2. CmdsTyped /\ UNCHANGED <<cmds, gstSource, pairs>> => CmdsTyped'
  BY DEF CmdsTyped
<1>3. SvcTyped /\ UNCHANGED <<replies, svc, request>> => SvcTyped'
  BY DEF SvcTyped
<1>4. PairTyped /\ UNCHANGED <<pair, requestQueue>> => PairTyped'
  BY DEF PairTyped
<1>5. SinkTyped /\ UNCHANGED <<sink, output, events>> => SinkTyped'
  BY DEF SinkTyped
<1> QED BY <1>1, <1>2, <1>3, <1>4, <1>5

\* The counters: one failure more, at most, and frames that go missing.
LEMMA RestStep ==
  ASSUME RestTyped, faults' = faults \/ Fault,
         missing' \in Nat, shifted' \in BOOLEAN, crashed' \in BOOLEAN
  PROVE  RestTyped'
<1>1. faults' \in 0..MaxFaults
  BY BoundsAssumption DEF RestTyped, Fault
<1> QED BY <1>1, Zenon DEF RestTyped

\* The queries of Prepare's guard counts Prepare commands.
LEMMA PreparingCounts == CmdsTyped => Preparing = Count(cmds, {PrepareCommand})
<1> SUFFICES ASSUME CmdsTyped PROVE Preparing = Count(cmds, {PrepareCommand})
  OBVIOUS
<1>1. \A c \in Commands : c.id = "Prepare" <=> c = PrepareCommand
  BY DEF Commands, PrepareCommand, None
<1>2. \A i \in DOMAIN cmds : cmds[i] \in Commands
  BY DEF CmdsTyped
<1>3. {i \in DOMAIN cmds : cmds[i].id = "Prepare"} = Marked(cmds, {PrepareCommand})
  BY <1>1, <1>2 DEF Marked
<1> QED BY <1>3 DEF Preparing, Count

\* A command is sent; only Prepare() sends a Prepare.
LEMMA SendTyped ==
  ASSUME CmdsTyped, NEW c \in Commands, cmds' = Append(cmds, c), UNCHANGED <<gstSource, pairs>>,
         c = PrepareCommand => pairs + Preparing < MaxPairs
  PROVE  CmdsTyped'
<1>1. Count(cmds', {PrepareCommand}) = Count(cmds, {PrepareCommand})
                                         + (IF c \in {PrepareCommand} THEN 1 ELSE 0)
  BY CountAppend DEF CmdsTyped
<1>2. Count(cmds, {PrepareCommand}) \in Nat
  BY CountType DEF CmdsTyped
<1>3. cmds' \in Seq(Commands)
  BY DEF CmdsTyped
<1>4. pairs + Count(cmds', {PrepareCommand}) <= MaxPairs
  BY <1>1, <1>2, PreparingCounts, BoundsAssumption DEF CmdsTyped
<1> QED BY <1>3, <1>4 DEF CmdsTyped

\* A command is taken; a Prepare makes a pair of pipelines, or none.
LEMMA TakeTyped ==
  ASSUME CmdsTyped, NEW id, Command(id),
         \/ UNCHANGED <<gstSource, pairs>>
         \/ gstSource' = None /\ UNCHANGED pairs
         \/ id = "Prepare" /\ pairs' = pairs + 1 /\ gstSource' = pairs + 1
  PROVE  CmdsTyped'
<1>1. cmds # <<>> /\ cmds' = Tail(cmds) /\ cmds \in Seq(Commands) /\ Head(cmds).id = id
  BY DEF Command, CmdsTyped
<1>2. Count(cmds, {PrepareCommand}) = Count(cmds', {PrepareCommand})
                                        + (IF Head(cmds) \in {PrepareCommand} THEN 1 ELSE 0)
  BY <1>1, CountTail
<1>3. cmds' \in Seq(Commands) /\ Head(cmds) \in Commands
  BY <1>1
<1>4. Count(cmds', {PrepareCommand}) \in Nat
  BY <1>3, CountType
<1>5. id = "Prepare" => Head(cmds) = PrepareCommand
  BY <1>1, <1>3 DEF Commands, PrepareCommand, None
<1>6. pairs \in Nat /\ pairs + Count(cmds, {PrepareCommand}) <= MaxPairs /\ MaxPairs \in Nat
  BY BoundsAssumption DEF CmdsTyped
<1>7. pairs' \in Nat /\ pairs' + Count(cmds', {PrepareCommand}) <= MaxPairs
  BY <1>2, <1>4, <1>5, <1>6
<1>8. gstSource' \in 0..MaxPairs /\ pairs' \in 0..MaxPairs
  BY <1>4, <1>6, <1>7 DEF CmdsTyped, None
<1> QED BY <1>3, <1>7, <1>8 DEF CmdsTyped

\* The answers to calls.
LEMMA RepliesTyped ==
  ASSUME SvcTyped, NEW id \in {"Prepare", "Invoke"}, NEW ok \in BOOLEAN
  PROVE  Reply(id, ok) \in Seq([id : {"Prepare", "Invoke"}, ok : BOOLEAN])
  BY DEF SvcTyped, Reply

\* The fields of a pair.
LEMMA PairFields ==
  ASSUME PairTyped, NEW g \in Pairs
  PROVE  /\ pair[g] \in PairRecord
         /\ pair[g].slot \in Seq(Requests)
         /\ pair[g].wire \in Seq(Requests)
         /\ pair[g].answers \in Seq(Requests)
         /\ pair[g].playing \in BOOLEAN
         /\ InPair(g) \in Nat
<1>1. pair[g] \in PairRecord
  BY DEF PairTyped
<1>2. /\ pair[g].slot \in Seq(Requests)
      /\ pair[g].wire \in Seq(Requests)
      /\ pair[g].answers \in Seq(Requests)
      /\ pair[g].playing \in BOOLEAN
  BY <1>1 DEF PairRecord
<1>3. Len(pair[g].slot) \in Nat /\ Len(pair[g].wire) \in Nat /\ Len(pair[g].answers) \in Nat
  BY <1>2, LenProperties
<1>4. InPair(g) \in Nat
  <2>1. \A a, b, c \in Nat : a + b + c \in Nat
    OBVIOUS
  <2> QED BY <1>3, <2>1, Zenon DEF InPair
<1> QED BY <1>1, <1>2, <1>4

\* A change of one pair.
LEMMA PairStep ==
  ASSUME PairTyped, NEW g \in Pairs, NEW p \in PairRecord, pair' = [pair EXCEPT ![g] = p],
         requestQueue' \in Seq(Requests)
  PROVE  PairTyped'
  BY DEF PairTyped

\* The fields of a sink that is busy.
LEMMA SinkFields ==
  ASSUME SinkTyped, NEW g \in Pairs
  PROVE  /\ sink[g] \in SinkStates
         /\ sink[g].at \in {"idle", "popped", "sent"}
         /\ sink[g].at # "idle" => sink[g].frame \in Requests /\ sink[g].request \in Requests
  BY DEF SinkTyped, SinkStates, IdleSink

\* A change of one sink.
LEMMA SinkStep ==
  ASSUME SinkTyped, NEW g \in Pairs, NEW s \in SinkStates, sink' = [sink EXCEPT ![g] = s],
         output' \in Seq(Requests), events' \in Seq(Events)
  PROVE  SinkTyped'
  BY DEF SinkTyped

\* An event more.
LEMMA EventTyped ==
  ASSUME SinkTyped, NEW t \in EventTypes, NEW x \in 0..MaxRequests
  PROVE  Append(events, [type |-> t, request |-> x]) \in Seq(Events)
  BY DEF SinkTyped, Events

\* The steps of the application's thread keep the types.
LEMMA AppTypes ==
  ASSUME Typed
  PROVE  /\ Prepare => Typed'
         /\ PrepareRefused => Typed'
         /\ Invoke => Typed'
         /\ CallReturns => Typed'
         /\ CallInterrupted => Typed'
         /\ Stop => Typed'
         /\ HandleEvent => Typed'
         /\ Destroy => Typed'
         /\ DestroyJoined => Typed'
<1>0. AppTyped /\ CmdsTyped /\ SvcTyped /\ PairTyped /\ SinkTyped /\ RestTyped
  BY TypedParts
<1> USE DEF None
<1>1. ASSUME Prepare PROVE Typed'
  <2>1. AppTyped'
    BY <1>0, <1>1 DEF Prepare, AppTyped, Unanswered
  <2>2. CmdsTyped'
    <3>1. PrepareCommand \in Commands
      BY DEF PrepareCommand, Commands
    <3> QED BY <1>0, <1>1, <3>1, SendTyped, Zenon DEF Prepare, SendCommand, PrepareCommand, pipeVars
  <2>3. SvcTyped' /\ PairTyped' /\ SinkTyped'
    BY <1>0, <1>1, Untouched DEF Prepare, pipeVars, sinkVars
  <2>4. RestTyped'
    BY <1>0, <1>1 DEF Prepare, RestTyped
  <2> QED BY <2>1, <2>2, <2>3, <2>4, TypedParts
<1>2. ASSUME PrepareRefused PROVE Typed'
  <2>1. AppTyped'
    BY <1>0, <1>2 DEF PrepareRefused, AppTyped
  <2>2. CmdsTyped' /\ SvcTyped' /\ PairTyped' /\ SinkTyped'
    BY <1>0, <1>2, Untouched DEF PrepareRefused, pipeVars, sinkVars
  <2>3. RestTyped'
    BY <1>0, <1>2, RestStep DEF PrepareRefused, RestTyped
  <2> QED BY <2>1, <2>2, <2>3, TypedParts
<1>3. ASSUME Invoke PROVE Typed'
  <2>1. NextInput \in Requests
    BY <1>0, <1>3, BoundsAssumption DEF Invoke, NextInput, Requests, AppTyped
  <2>2. AppTyped'
    <3>1. requests' \in 0..MaxRequests
      BY <1>3, <2>1 DEF Invoke, Requests
    <3> QED BY <1>0, <1>3, <3>1 DEF Invoke, AppTyped
  <2>3. CmdsTyped'
    <3>1. [id |-> "Invoke", arg |-> NextInput] \in Commands
      BY <2>1 DEF Commands
    <3>2. [id |-> "Invoke", arg |-> NextInput] # PrepareCommand
      BY DEF PrepareCommand
    <3> QED BY <1>0, <1>3, <3>1, <3>2, SendTyped, Zenon DEF Invoke, SendCommand, pipeVars
  <2>4. SvcTyped' /\ PairTyped' /\ SinkTyped'
    BY <1>0, <1>3, Untouched DEF Invoke, pipeVars, sinkVars
  <2>5. RestTyped'
    BY <1>0, <1>3 DEF Invoke, RestTyped
  <2> QED BY <2>2, <2>3, <2>4, <2>5, TypedParts
<1>4. ASSUME CallReturns PROVE Typed'
  <2> DEFINE ok == Head(replies).id = app /\ Head(replies).ok
             R == [id : {"Prepare", "Invoke"}, ok : BOOLEAN]
  <2>1. Head(replies) \in R /\ replies' \in Seq(R)
    <3>1. replies \in Seq(R) /\ replies # <<>> /\ replies' = Tail(replies)
      BY <1>0, <1>4 DEF CallReturns, SvcTyped
    <3> HIDE DEF R
    <3> QED BY <3>1, HeadTailProperties
  <2>2. ok \in BOOLEAN
    BY <2>1
  <2>3. /\ app' = "idle" /\ UNCHANGED <<udp, patient, requests, result, careless>>
        /\ prepared' = IF app = "Prepare" THEN ok ELSE prepared
        /\ seen' = IF app = "Invoke" /\ ~ok THEN seen + 1 ELSE seen
    BY <1>4, Zenon DEF CallReturns
  <2> HIDE DEF ok
  <2>4. seen' \in Nat
    BY <1>0, <2>2, <2>3 DEF AppTyped
  <2>5. prepared' \in BOOLEAN
    BY <1>0, <2>2, <2>3, Zenon DEF AppTyped
  <2>6. AppTyped'
    BY <1>0, <2>3, <2>4, <2>5 DEF AppTyped
  <2>7. SvcTyped'
    BY <1>0, <1>4, <2>1 DEF CallReturns, SvcTyped
  <2>8. CmdsTyped' /\ PairTyped' /\ SinkTyped'
    BY <1>0, <1>4, Untouched DEF CallReturns, pipeVars, sinkVars
  <2>9. RestTyped'
    BY <1>0, <1>4 DEF CallReturns, RestTyped
  <2> QED BY <2>6, <2>7, <2>8, <2>9, TypedParts
<1>5. ASSUME CallInterrupted PROVE Typed'
  <2>1. AppTyped'
    BY <1>0, <1>5 DEF CallInterrupted, AppTyped
  <2>2. CmdsTyped' /\ SvcTyped' /\ PairTyped' /\ SinkTyped'
    BY <1>0, <1>5, Untouched DEF CallInterrupted, pipeVars, sinkVars
  <2>3. RestTyped'
    BY <1>0, <1>5, RestStep DEF CallInterrupted, RestTyped
  <2> QED BY <2>1, <2>2, <2>3, TypedParts
<1>6. ASSUME Stop PROVE Typed'
  <2>1. AppTyped'
    BY <1>0, <1>6 DEF Stop, AppTyped, Unanswered
  <2>2. CmdsTyped'
    <3>1. StopCommand \in Commands /\ StopCommand # PrepareCommand
      BY DEF StopCommand, PrepareCommand, Commands
    <3> QED BY <1>0, <1>6, <3>1, SendTyped, Zenon DEF Stop, SendCommand, StopCommand, pipeVars
  <2>3. SvcTyped' /\ PairTyped' /\ SinkTyped'
    BY <1>0, <1>6, Untouched DEF Stop, pipeVars, sinkVars
  <2>4. RestTyped'
    BY <1>0, <1>6 DEF Stop, RestTyped
  <2> QED BY <2>1, <2>2, <2>3, <2>4, TypedParts
<1>7. ASSUME HandleEvent PROVE Typed'
  <2>1. /\ events # <<>> /\ events' = Tail(events)
        /\ events' \in Seq(Events) /\ Head(events) \in Events
    BY <1>0, <1>7, HeadTailProperties, Zenon DEF HandleEvent, FetchEventData, SinkTyped
  <2>2. output' \in Seq(Requests) /\ result' \in [Requests -> 0..MaxRequests]
    <3>1. CASE Head(events).type = "SUCCESS"
      <4>1. /\ output # <<>> /\ output' = Tail(output)
            /\ result' = [result EXCEPT ![Head(events).request] = Head(output)]
        BY <1>7, <3>1 DEF HandleEvent, GetOutput
      <4>2. output' \in Seq(Requests) /\ Head(output) \in Requests
        BY <1>0, <4>1 DEF SinkTyped
      <4>3. result \in [Requests -> 0..MaxRequests] /\ Head(output) \in 0..MaxRequests
        BY <1>0, <4>2 DEF AppTyped, Requests
      <4>4. result' \in [Requests -> 0..MaxRequests]
        BY <4>1, <4>3
      <4> QED BY <4>2, <4>4
    <3>2. CASE Head(events).type # "SUCCESS"
      BY <1>0, <1>7, <3>2 DEF HandleEvent, SinkTyped, AppTyped
    <3> QED BY <3>1, <3>2
  <2>3. seen' \in Nat
    BY <1>0, <1>7 DEF HandleEvent, AppTyped
  <2>4. AppTyped'
    BY <1>0, <1>7, <2>2, <2>3 DEF HandleEvent, AppTyped
  <2>5. SinkTyped'
    BY <1>0, <1>7, <2>1, <2>2 DEF HandleEvent, SinkTyped
  <2>6. CmdsTyped' /\ SvcTyped' /\ PairTyped'
    BY <1>0, <1>7, Untouched DEF HandleEvent, pipeVars
  <2>7. RestTyped'
    BY <1>0, <1>7 DEF HandleEvent, RestTyped
  <2> QED BY <2>4, <2>5, <2>6, <2>7, TypedParts
<1>8. ASSUME Destroy PROVE Typed'
  <2>1. AppTyped'
    BY <1>0, <1>8 DEF Destroy, AppTyped, Unanswered
  <2>2. CmdsTyped'
    <3>1. /\ [id |-> "Exit", arg |-> None] \in Commands
          /\ [id |-> "Exit", arg |-> None] # PrepareCommand
      BY DEF PrepareCommand, Commands
    <3> QED BY <1>0, <1>8, <3>1, SendTyped, Zenon DEF Destroy, SendCommand, pipeVars
  <2>3. SvcTyped' /\ PairTyped' /\ SinkTyped'
    BY <1>0, <1>8, Untouched DEF Destroy, pipeVars, sinkVars
  <2>4. RestTyped'
    BY <1>0, <1>8 DEF Destroy, RestTyped
  <2> QED BY <2>1, <2>2, <2>3, <2>4, TypedParts
<1>9. ASSUME DestroyJoined PROVE Typed'
  <2>1. AppTyped'
    BY <1>0, <1>9 DEF DestroyJoined, AppTyped
  <2>2. CmdsTyped'
    <3>1. UNCHANGED <<cmds, pairs>> /\ gstSource' = 0
      BY <1>9 DEF DestroyJoined
    <3> QED BY <1>0, <3>1, BoundsAssumption DEF CmdsTyped
  <2>3. SvcTyped' /\ PairTyped' /\ SinkTyped'
    BY <1>0, <1>9, Untouched DEF DestroyJoined, sinkVars
  <2>4. RestTyped'
    BY <1>0, <1>9 DEF DestroyJoined, RestTyped
  <2> QED BY <2>1, <2>2, <2>3, <2>4, TypedParts
<1> QED BY <1>1, <1>2, <1>3, <1>4, <1>5, <1>6, <1>7, <1>8, <1>9

\* The steps of the pipelines' thread keep the types.
LEMMA SvcTypes ==
  ASSUME Typed
  PROVE  /\ SvcPrepare => Typed'
         /\ SvcPrepareFails => Typed'
         /\ SvcInvoke => Typed'
         /\ SvcInvokeFails => Typed'
         /\ SvcQueue => Typed'
         /\ SvcStop => Typed'
         /\ SvcNoSource => Typed'
         /\ SvcExit => Typed'
         /\ BusError => Typed'
<1>0. AppTyped /\ CmdsTyped /\ SvcTyped /\ PairTyped /\ SinkTyped /\ RestTyped
  BY TypedParts
<1>1. ASSUME SvcPrepare PROVE Typed'
  <2>1. CmdsTyped'
    BY <1>0, <1>1, TakeTyped DEF SvcPrepare
  <2>2. SvcTyped'
    BY <1>0, <1>1, RepliesTyped DEF SvcPrepare, SvcTyped
  <2>3. AppTyped' /\ PairTyped' /\ SinkTyped'
    BY <1>0, <1>1, Untouched DEF SvcPrepare, sinkVars
  <2>4. RestTyped'
    BY <1>0, <1>1 DEF SvcPrepare, RestTyped
  <2> QED BY <2>1, <2>2, <2>3, <2>4, TypedParts
<1>2. ASSUME SvcPrepareFails PROVE Typed'
  <2>1. CmdsTyped'
    BY <1>0, <1>2, TakeTyped DEF SvcPrepareFails
  <2>2. SvcTyped'
    BY <1>0, <1>2, RepliesTyped DEF SvcPrepareFails, SvcTyped
  <2>3. AppTyped' /\ PairTyped' /\ SinkTyped'
    BY <1>0, <1>2, Untouched DEF SvcPrepareFails, sinkVars
  <2>4. RestTyped'
    BY <1>0, <1>2, RestStep DEF SvcPrepareFails, RestTyped
  <2> QED BY <2>1, <2>2, <2>3, <2>4, TypedParts
<1>3. ASSUME SvcInvoke PROVE Typed'
  <2>1. /\ cmds # <<>> /\ cmds \in Seq(Commands) /\ Head(cmds).id = "Invoke"
        /\ gstSource \in Pairs
    BY <1>0, <1>3 DEF SvcInvoke, Command, CmdsTyped, Pairs, None
  <2>2. Head(cmds) \in Commands
    BY <2>1
  <2>3. Head(cmds).arg \in Requests
    BY <2>1, <2>2 DEF Commands
  <2>4. CmdsTyped'
    BY <1>0, <1>3, TakeTyped DEF SvcInvoke
  <2>5. SvcTyped'
    BY <1>0, <1>3, <2>3 DEF SvcInvoke, SvcTyped, Requests, None
  <2>6. PairTyped'
    <3> DEFINE p == [pair[gstSource] EXCEPT !.slot = <<Head(cmds).arg>>]
    <3>1. <<Head(cmds).arg>> \in Seq(Requests)
      BY <2>3
    <3>2. p \in PairRecord
      BY <1>0, <2>1, <3>1, PairFields DEF PairRecord
    <3>3. pair' = [pair EXCEPT ![gstSource] = p]
      BY <1>3 DEF SvcInvoke
    <3> HIDE DEF p
    <3> QED BY <1>0, <1>3, <2>1, <3>2, <3>3, PairStep DEF SvcInvoke, PairTyped
  <2>7. AppTyped' /\ SinkTyped'
    BY <1>0, <1>3, Untouched DEF SvcInvoke, sinkVars
  <2>8. RestTyped'
    <3>1. Len(pair[gstSource].slot) \in Nat
      BY <1>0, <2>1, PairFields, LenProperties
    <3>2. missing' \in Nat
      BY <1>0, <1>3, <3>1 DEF SvcInvoke, RestTyped
    <3> QED BY <1>0, <1>3, <3>2 DEF SvcInvoke, RestTyped
  <2> QED BY <2>4, <2>5, <2>6, <2>7, <2>8, TypedParts
<1>4. ASSUME SvcInvokeFails PROVE Typed'
  <2>1. CmdsTyped'
    BY <1>0, <1>4, TakeTyped DEF SvcInvokeFails, pipeVars
  <2>2. SvcTyped'
    BY <1>0, <1>4, RepliesTyped DEF SvcInvokeFails, SvcTyped
  <2>3. AppTyped' /\ PairTyped' /\ SinkTyped'
    BY <1>0, <1>4, Untouched DEF SvcInvokeFails, sinkVars, pipeVars
  <2>4. RestTyped'
    BY <1>0, <1>4, RestStep DEF SvcInvokeFails, RestTyped
  <2> QED BY <2>1, <2>2, <2>3, <2>4, TypedParts
<1>5. ASSUME SvcQueue PROVE Typed'
  <2>1. request \in Requests
    BY <1>0, <1>5 DEF SvcQueue, SvcTyped, Requests, None
  <2>2. SvcTyped'
    <3>1. replies' \in Seq([id : {"Prepare", "Invoke"}, ok : BOOLEAN])
      BY <1>0, <1>5, RepliesTyped DEF SvcQueue
    <3>2. svc' = "loop" /\ request' = 0
      BY <1>5 DEF SvcQueue, None
    <3> QED BY <3>1, <3>2, BoundsAssumption DEF SvcTyped
  <2>3. PairTyped'
    BY <1>0, <1>5, <2>1 DEF SvcQueue, PairTyped
  <2>4. AppTyped' /\ CmdsTyped' /\ SinkTyped'
    BY <1>0, <1>5, Untouched DEF SvcQueue, sinkVars
  <2>5. RestTyped'
    BY <1>0, <1>5 DEF SvcQueue, RestTyped
  <2> QED BY <2>2, <2>3, <2>4, <2>5, TypedParts
<1>6. ASSUME SvcStop PROVE Typed'
  <2>1. gstSource \in Pairs
    BY <1>0, <1>6 DEF SvcStop, CmdsTyped, Pairs, None
  <2>2. CmdsTyped'
    BY <1>0, <1>6, TakeTyped DEF SvcStop
  <2>3. PairTyped'
    <3> DEFINE p == Paused(pair[gstSource])
    <3>1. p \in PairRecord
      BY <1>0, <2>1, PairFields DEF PairRecord, Paused
    <3>2. pair' = [pair EXCEPT ![gstSource] = p]
      BY <1>6 DEF SvcStop, Paused
    <3> HIDE DEF p
    <3> QED BY <1>0, <1>6, <2>1, <3>1, <3>2, PairStep DEF SvcStop, PairTyped
  <2>4. SinkTyped'
    <3>1. Append(events, [type |-> "STOPPED", request |-> None]) \in Seq(Events)
      BY <1>0, EventTyped, BoundsAssumption DEF EventTypes, None
    <3>2. events' \in Seq(Events)
      BY <1>0, <1>6, <3>1 DEF SvcStop, StateChanged, SinkTyped
    <3> QED BY <1>0, <1>6, <3>2 DEF SvcStop, SinkTyped
  <2>5. AppTyped' /\ SvcTyped'
    BY <1>0, <1>6, Untouched DEF SvcStop
  <2>6. RestTyped'
    BY <1>0, <1>6 DEF SvcStop, RestTyped
  <2> QED BY <2>2, <2>3, <2>4, <2>5, <2>6, TypedParts
<1>7. ASSUME SvcNoSource PROVE Typed'
  <2>1. CmdsTyped'
    BY <1>0, <1>7, TakeTyped DEF SvcNoSource, pipeVars
  <2>2. AppTyped' /\ SvcTyped' /\ PairTyped' /\ SinkTyped'
    BY <1>0, <1>7, Untouched DEF SvcNoSource, sinkVars, pipeVars
  <2>3. RestTyped'
    BY <1>0, <1>7 DEF SvcNoSource, RestTyped
  <2> QED BY <2>1, <2>2, <2>3, TypedParts
<1>8. ASSUME SvcExit PROVE Typed'
  <2>1. CmdsTyped'
    BY <1>0, <1>8, TakeTyped DEF SvcExit, pipeVars
  <2>2. SvcTyped'
    BY <1>0, <1>8 DEF SvcExit, SvcTyped
  <2>3. AppTyped' /\ PairTyped' /\ SinkTyped'
    BY <1>0, <1>8, Untouched DEF SvcExit, sinkVars, pipeVars
  <2>4. RestTyped'
    BY <1>0, <1>8 DEF SvcExit, RestTyped
  <2> QED BY <2>1, <2>2, <2>3, <2>4, TypedParts
<1>9. ASSUME BusError PROVE Typed'
  <2>1. SinkTyped'
    <3>1. events' \in Seq(Events)
      BY <1>0, <1>9, EventTyped, BoundsAssumption DEF BusError, EventTypes, None
    <3> QED BY <1>0, <1>9, <3>1 DEF BusError, SinkTyped
  <2>2. AppTyped' /\ CmdsTyped' /\ SvcTyped' /\ PairTyped'
    BY <1>0, <1>9, Untouched DEF BusError, pipeVars
  <2>3. RestTyped'
    BY <1>0, <1>9, RestStep DEF BusError, RestTyped
  <2> QED BY <2>1, <2>2, <2>3, TypedParts
<1> QED BY <1>1, <1>2, <1>3, <1>4, <1>5, <1>6, <1>7, <1>8, <1>9

\* An answer that arrives leaves its pair, and nothing else is changed.
LEMMA ArrivesTyped ==
  ASSUME PairTyped, NEW g \in Pairs, Arrives(g), requestQueue' \in Seq(Requests)
  PROVE  PairTyped'
<1> DEFINE p == [pair[g] EXCEPT !.answers = Tail(pair[g].answers)]
<1>1. Tail(pair[g].answers) \in Seq(Requests)
  BY PairFields DEF Arrives
<1>2. p \in PairRecord
  BY <1>1, PairFields DEF PairRecord
<1>3. pair' = [pair EXCEPT ![g] = p]
  BY DEF Arrives
<1> HIDE DEF p
<1> QED BY <1>2, <1>3, PairStep

\* The frames' steps and those of the streaming threads keep the types.
LEMMA SinkTypes ==
  ASSUME Typed, NEW g \in Pairs
  PROVE  /\ Transmit(g) => Typed'
         /\ LoseFrame(g) => Typed'
         /\ Serve(g) => Typed'
         /\ SinkPop(g) => Typed'
         /\ SinkFindsNone(g) => Typed'
         /\ SinkRefuses(g) => Typed'
         /\ SinkSend(g) => Typed'
         /\ SinkSendFails(g) => Typed'
         /\ SinkPublish(g) => Typed'
         /\ SinkPublishFails(g) => Typed'
         /\ SinkAfterDestroy(g) => Typed'
<1>0. AppTyped /\ CmdsTyped /\ SvcTyped /\ PairTyped /\ SinkTyped /\ RestTyped
  BY TypedParts
<1>01. /\ pair[g].slot \in Seq(Requests)
       /\ pair[g].wire \in Seq(Requests)
       /\ pair[g].answers \in Seq(Requests)
       /\ pair[g] \in PairRecord
       /\ pair \in [Pairs -> PairRecord]
       /\ requestQueue \in Seq(Requests)
  BY <1>0, PairFields DEF PairTyped
<1>02. IdleSink \in SinkStates
  BY DEF SinkStates
<1>03. /\ sink[g] \in SinkStates
       /\ sink[g].at # "idle" => sink[g].frame \in Requests /\ sink[g].request \in Requests
  BY <1>0, SinkFields
<1>04. Requests \subseteq 0..MaxRequests /\ None \in 0..MaxRequests
  BY BoundsAssumption DEF Requests, None
<1>1. ASSUME Transmit(g) PROVE Typed'
  <2> DEFINE p == [pair[g] EXCEPT !.slot = <<>>, !.wire = pair[g].wire \o pair[g].slot]
  <2>1. p \in PairRecord
    <3>1. <<>> \in Seq(Requests) /\ pair[g].wire \o pair[g].slot \in Seq(Requests)
      BY <1>01
    <3> QED BY <1>01, <3>1 DEF PairRecord
  <2>2. pair' = [pair EXCEPT ![g] = p]
    BY <1>1, <1>01 DEF Transmit, PairRecord
  <2> HIDE DEF p
  <2>3. PairTyped'
    BY <1>0, <1>1, <1>01, <2>1, <2>2, PairStep DEF Transmit, pairOnly
  <2>4. AppTyped' /\ CmdsTyped' /\ SvcTyped' /\ SinkTyped'
    BY <1>0, <1>1, Untouched DEF Transmit, pairOnly, sinkVars
  <2>5. RestTyped'
    BY <1>0, <1>1 DEF Transmit, pairOnly, RestTyped
  <2> QED BY <2>3, <2>4, <2>5, TypedParts
<1>2. ASSUME LoseFrame(g) PROVE Typed'
  <2> DEFINE p == [pair[g] EXCEPT !.wire = Tail(pair[g].wire)]
  <2>1. p \in PairRecord
    <3>1. Tail(pair[g].wire) \in Seq(Requests)
      BY <1>2, <1>01 DEF LoseFrame
    <3> QED BY <1>01, <3>1 DEF PairRecord
  <2>2. pair' = [pair EXCEPT ![g] = p]
    BY <1>2, <1>01 DEF LoseFrame
  <2> HIDE DEF p
  <2>3. PairTyped'
    BY <1>0, <1>2, <1>01, <2>1, <2>2, PairStep DEF LoseFrame, pairOnly
  <2>4. AppTyped' /\ CmdsTyped' /\ SvcTyped' /\ SinkTyped'
    BY <1>0, <1>2, Untouched DEF LoseFrame, pairOnly, sinkVars
  <2>5. RestTyped'
    BY <1>0, <1>2, RestStep DEF LoseFrame, pairOnly, RestTyped
  <2> QED BY <2>3, <2>4, <2>5, TypedParts
<1>3. ASSUME Serve(g) PROVE Typed'
  <2> DEFINE p == [pair[g] EXCEPT !.wire = Tail(pair[g].wire),
                                  !.answers = Append(pair[g].answers, Head(pair[g].wire))]
  <2>1. p \in PairRecord
    <3>1. Tail(pair[g].wire) \in Seq(Requests) /\ Head(pair[g].wire) \in Requests
      BY <1>3, <1>01 DEF Serve
    <3>2. Append(pair[g].answers, Head(pair[g].wire)) \in Seq(Requests)
      BY <1>01, <3>1
    <3> QED BY <1>01, <3>1, <3>2 DEF PairRecord
  <2>2. pair' = [pair EXCEPT ![g] = p]
    BY <1>3, <1>01 DEF Serve, PairRecord
  <2> HIDE DEF p
  <2>3. PairTyped'
    BY <1>0, <1>3, <1>01, <2>1, <2>2, PairStep DEF Serve, pairOnly
  <2>4. AppTyped' /\ CmdsTyped' /\ SvcTyped' /\ SinkTyped'
    BY <1>0, <1>3, Untouched DEF Serve, pairOnly, sinkVars
  <2>5. RestTyped'
    BY <1>0, <1>3 DEF Serve, pairOnly, RestTyped
  <2> QED BY <2>3, <2>4, <2>5, TypedParts
<1>4. ASSUME SinkPop(g) PROVE Typed'
  <2>1. requestQueue' \in Seq(Requests) /\ Head(requestQueue) \in Requests
    BY <1>4, <1>01 DEF SinkPop
  <2>2. PairTyped'
    BY <1>0, <1>4, <2>1, ArrivesTyped DEF SinkPop
  <2>3. Head(pair[g].answers) \in Requests
    BY <1>4, <1>01 DEF SinkPop, Arrives
  <2> DEFINE s == [at |-> "popped", frame |-> Head(pair[g].answers), request |-> NextRequest]
  <2>4. s \in SinkStates
    BY <2>1, <2>3 DEF SinkStates, NextRequest
  <2>5. sink' = [sink EXCEPT ![g] = s]
    BY <1>4 DEF SinkPop
  <2> HIDE DEF s
  <2>6. SinkTyped'
    BY <1>0, <1>4, <2>4, <2>5, SinkStep DEF SinkPop, SinkTyped
  <2>7. AppTyped' /\ CmdsTyped' /\ SvcTyped'
    BY <1>0, <1>4, Untouched DEF SinkPop
  <2>8. RestTyped'
    BY <1>0, <1>4 DEF SinkPop, RestTyped
  <2> QED BY <2>2, <2>6, <2>7, <2>8, TypedParts
<1>5. ASSUME SinkFindsNone(g) PROVE Typed'
  <2>1. PairTyped'
    BY <1>0, <1>5, <1>01, ArrivesTyped DEF SinkFindsNone
  <2>2. events' \in Seq(Events)
    BY <1>0, <1>5, <1>04, EventTyped DEF SinkFindsNone, Refused, EventTypes
  <2>3. SinkTyped'
    BY <1>0, <1>5, <2>2 DEF SinkFindsNone, SinkTyped
  <2>4. AppTyped' /\ CmdsTyped' /\ SvcTyped'
    BY <1>0, <1>5, Untouched DEF SinkFindsNone
  <2>5. RestTyped'
    BY <1>0, <1>5 DEF SinkFindsNone, RestTyped
  <2> QED BY <2>1, <2>3, <2>4, <2>5, TypedParts
<1>6. ASSUME SinkRefuses(g) PROVE Typed'
  <2>1. PairTyped'
    BY <1>0, <1>6, <1>01, ArrivesTyped DEF SinkRefuses, KeptRequests
  <2>2. events' \in Seq(Events)
    BY <1>0, <1>6, <1>04, EventTyped DEF SinkRefuses, Refused, EventTypes
  <2>3. SinkTyped'
    BY <1>0, <1>6, <2>2 DEF SinkRefuses, SinkTyped
  <2>4. AppTyped' /\ CmdsTyped' /\ SvcTyped'
    BY <1>0, <1>6, Untouched DEF SinkRefuses
  <2>5. RestTyped'
    BY <1>0, <1>6, RestStep DEF SinkRefuses, RestTyped
  <2> QED BY <2>1, <2>3, <2>4, <2>5, TypedParts
<1>7. ASSUME SinkSend(g) PROVE Typed'
  <2>1. output' \in Seq(Requests)
    BY <1>0, <1>7, <1>03 DEF SinkSend, SinkTyped
  <2> DEFINE s == [sink[g] EXCEPT !.at = "sent"]
  <2>2. s \in SinkStates
    BY <1>7, <1>03 DEF SinkSend, SinkStates, IdleSink
  <2>3. sink' = [sink EXCEPT ![g] = s]
    BY <1>7 DEF SinkSend
  <2> HIDE DEF s
  <2>4. SinkTyped'
    BY <1>0, <1>7, <2>1, <2>2, <2>3, SinkStep DEF SinkSend, SinkTyped
  <2>5. AppTyped' /\ CmdsTyped' /\ SvcTyped' /\ PairTyped'
    BY <1>0, <1>7, Untouched DEF SinkSend, sinkOnly, pipeVars
  <2>6. RestTyped'
    BY <1>0, <1>7 DEF SinkSend, sinkOnly, RestTyped
  <2> QED BY <2>4, <2>5, <2>6, TypedParts
<1>8. ASSUME SinkSendFails(g) PROVE Typed'
  <2>1. events' \in Seq(Events)
    BY <1>0, <1>8, <1>03, <1>04, EventTyped DEF SinkSendFails, EventTypes
  <2>2. SinkTyped'
    BY <1>0, <1>8, <1>02, <2>1, SinkStep DEF SinkSendFails, SinkTyped
  <2>3. AppTyped' /\ CmdsTyped' /\ SvcTyped' /\ PairTyped'
    BY <1>0, <1>8, Untouched DEF SinkSendFails, sinkOnly, pipeVars
  <2>4. RestTyped'
    BY <1>0, <1>8, RestStep DEF SinkSendFails, sinkOnly, RestTyped
  <2> QED BY <2>2, <2>3, <2>4, TypedParts
<1>9. ASSUME SinkPublish(g) PROVE Typed'
  <2>1. events' \in Seq(Events)
    BY <1>0, <1>9, <1>03, <1>04, EventTyped DEF SinkPublish, EventTypes
  <2>2. SinkTyped'
    BY <1>0, <1>9, <1>02, <2>1, SinkStep DEF SinkPublish, SinkTyped
  <2>3. AppTyped' /\ CmdsTyped' /\ SvcTyped' /\ PairTyped'
    BY <1>0, <1>9, Untouched DEF SinkPublish, sinkOnly, pipeVars
  <2>4. RestTyped'
    BY <1>0, <1>9 DEF SinkPublish, sinkOnly, RestTyped
  <2> QED BY <2>2, <2>3, <2>4, TypedParts
<1>10. ASSUME SinkPublishFails(g) PROVE Typed'
  <2>1. SinkTyped'
    BY <1>0, <1>10, <1>02, SinkStep DEF SinkPublishFails, SinkTyped
  <2>2. AppTyped' /\ CmdsTyped' /\ SvcTyped' /\ PairTyped'
    BY <1>0, <1>10, Untouched DEF SinkPublishFails, sinkOnly, pipeVars
  <2>3. RestTyped'
    BY <1>0, <1>10, RestStep DEF SinkPublishFails, sinkOnly, RestTyped
  <2> QED BY <2>1, <2>2, <2>3, TypedParts
<1>11. ASSUME SinkAfterDestroy(g) PROVE Typed'
  <2>1. AppTyped' /\ CmdsTyped' /\ SvcTyped' /\ PairTyped' /\ SinkTyped'
    BY <1>0, <1>11, Untouched DEF SinkAfterDestroy, sinkVars, pipeVars
  <2>2. RestTyped'
    BY <1>0, <1>11 DEF SinkAfterDestroy, RestTyped
  <2> QED BY <2>1, <2>2, TypedParts
<1> QED BY <1>1, <1>2, <1>3, <1>4, <1>5, <1>6, <1>7, <1>8, <1>9, <1>10, <1>11

\* The initial types.
LEMMA TypedInit == Init => Typed
<1> SUFFICES ASSUME Init PROVE Typed
  OBVIOUS
<1> USE BoundsAssumption DEF None
<1>1. <<>> \in Seq(Commands) /\ Count(<<>>, {PrepareCommand}) = 0
  <2>1. <<>> \in Seq(Commands)
    OBVIOUS
  <2> QED BY <2>1, CountType
<1>2. AppTyped
  <2>1. app = "idle" /\ requests = 0 /\ result = [x \in Requests |-> 0] /\ seen = 0
    BY DEF Init
  <2>2. /\ udp \in BOOLEAN /\ patient \in BOOLEAN
        /\ prepared \in BOOLEAN /\ careless \in BOOLEAN
    BY Zenon DEF Init, InputTypes
  <2> QED BY <2>1, <2>2 DEF AppTyped
<1>3. CmdsTyped
  BY <1>1 DEF Init, CmdsTyped
<1>4. SvcTyped
  BY DEF Init, SvcTyped
<1>5. PairTyped
  <2>1. NewPair \in PairRecord
    BY DEF NewPair, PairRecord
  <2> QED BY <2>1 DEF Init, PairTyped
<1>6. SinkTyped
  BY DEF Init, SinkTyped, SinkStates, EventPipe
<1>7. RestTyped
  <2>1. faults = 0 /\ missing = 0
    BY DEF Init
  <2>2. shifted \in BOOLEAN /\ crashed \in BOOLEAN
    BY Zenon DEF Init
  <2> QED BY <2>1, <2>2 DEF RestTyped
<1> QED BY <1>2, <1>3, <1>4, <1>5, <1>6, <1>7, TypedParts

\* Every step keeps the types.
LEMMA TypedStep == Typed /\ [Next]_vars => Typed'
<1> SUFFICES ASSUME Typed, [Next]_vars PROVE Typed'
  OBVIOUS
<1>1. CASE Next
  BY <1>1, AppTypes, SvcTypes, SinkTypes DEF Next
<1>2. CASE UNCHANGED vars
  <2>1. /\ UNCHANGED appVars /\ UNCHANGED <<cmds, gstSource, pairs>>
        /\ UNCHANGED <<replies, svc, request>> /\ UNCHANGED <<pair, requestQueue>>
        /\ UNCHANGED <<sink, output, events>>
    BY <1>2 DEF vars, appVars
  <2>2. RestTyped'
    BY <1>2, TypedParts DEF vars, RestTyped
  <2> QED BY <2>1, <2>2, TypedParts, Untouched
<1> QED BY <1>1, <1>2

\* The variables have their types, and no more pairs are asked for than are counted.
THEOREM PipelineTypeCorrect == Spec => []TypeOK
<1>1. Typed => TypeOK
  BY DEF Typed
<1> QED BY <1>1, TypedInit, TypedStep, PTL DEF Spec

----------------------------------------------------------------------------
(* The frames that went missing.                                           *)

\* Lengths of sequences that a step changes.
LEMMA Lengths ==
  ASSUME NEW T, NEW s \in Seq(T)
  PROVE  /\ Len(s) \in Nat
         /\ s # <<>> => /\ Len(Tail(s)) = Len(s) - 1 /\ Len(s) # 0
                        /\ Tail(s) \in Seq(T) /\ Head(s) \in T
         /\ \A x \in T : Len(Append(s, x)) = Len(s) + 1 /\ Append(s, x) \in Seq(T)
         /\ \A t \in Seq(T) : Len(s \o t) = Len(s) + Len(t) /\ s \o t \in Seq(T)
         /\ Len(s) = 0 <=> s = <<>>
  OBVIOUS

\* A step that changes one pair's frames changes their sum by as much.
LEMMA OnePairChanges ==
  ASSUME PairTyped, PairTyped', NEW g \in Pairs, \A k \in Pairs : k # g => pair'[k] = pair[k]
  PROVE  /\ InPairs \in Nat /\ InPairs' \in Nat
         /\ InPair(g) \in Nat /\ InPair(g)' \in Nat
         /\ InPairs' + InPair(g) = InPairs + InPair(g)'
<1> DEFINE f == [k \in Pairs |-> InPair(k)]
           h == [k \in Pairs |-> InPair(k)']
<1>1. \A k \in Pairs : InPair(k) \in Nat
  BY PairFields
<1>2. \A k \in Pairs : InPair(k)' \in Nat
  <2> SUFFICES ASSUME NEW k \in Pairs PROVE InPair(k)' \in Nat
    OBVIOUS
  <2>1. pair'[k] \in PairRecord
    BY DEF PairTyped
  <2>2. /\ pair'[k].slot \in Seq(Requests)
        /\ pair'[k].wire \in Seq(Requests)
        /\ pair'[k].answers \in Seq(Requests)
    BY <2>1 DEF PairRecord
  <2>3. Len(pair'[k].slot) \in Nat /\ Len(pair'[k].wire) \in Nat /\ Len(pair'[k].answers) \in Nat
    BY <2>2, LenProperties
  <2>4. \A a, b, c \in Nat : a + b + c \in Nat
    OBVIOUS
  <2> QED BY <2>3, <2>4, Zenon DEF InPair
<1>3. \A k \in Pairs : k # g => InPair(k)' = InPair(k)
  BY Zenon DEF InPair
<1>4. f \in [Pairs -> Nat] /\ h \in [Pairs -> Nat]
  BY <1>1, <1>2
<1>5. \A k \in Pairs : k # g => h[k] = f[k]
  BY <1>3
<1>6. InPairs = Total(f) /\ InPairs' = Total(h) /\ f[g] = InPair(g) /\ h[g] = InPair(g)'
  BY DEF InPairs, Total
<1> HIDE DEF f, h
<1>7. Total(f) \in Nat /\ Total(h) \in Nat /\ Total(h) + f[g] = Total(f) + h[g]
  BY <1>4, <1>5, TotalChange
<1> QED BY <1>1, <1>2, <1>6, <1>7

\* What the sum is when no frame is touched.
LEMMA PairsKept == UNCHANGED pair => InPairs' = InPairs
  BY DEF InPairs, InPair, Total

\* The number of frames there should be.
Due == Len(requestQueue) + (IF svc = "pushed" THEN 1 ELSE 0)

\* A step that touches neither frames nor requests.
LEMMA AccountsKept ==
  ASSUME RequestsAccounted, UNCHANGED <<pair, requestQueue, missing>>,
         svc' = svc \/ (svc # "pushed" /\ svc' # "pushed")
  PROVE  RequestsAccounted'
  BY PairsKept DEF RequestsAccounted

\* A step that changes one pair's frames, and as many requests and losses.
LEMMA AccountsStep ==
  ASSUME PairTyped, PairTyped', RequestsAccounted, NEW g \in Pairs,
         \A k \in Pairs : k # g => pair'[k] = pair[k],
         Due \in Nat, Due' \in Nat, missing \in Nat, missing' \in Nat,
         Due' + InPair(g) + missing = Due + InPair(g)' + missing'
  PROVE  RequestsAccounted'
<1>1. /\ InPairs \in Nat /\ InPairs' \in Nat
      /\ InPair(g) \in Nat /\ InPair(g)' \in Nat
      /\ InPairs' + InPair(g) = InPairs + InPair(g)'
  BY OnePairChanges
<1>2. Due = InPairs + missing
  BY DEF Due, RequestsAccounted
<1> DEFINE d == Due
           e == Due'
           p == InPairs
           q == InPairs'
           i == InPair(g)
           j == InPair(g)'
           n == missing'
<1>3. /\ d \in Nat /\ e \in Nat /\ p \in Nat /\ q \in Nat /\ i \in Nat /\ j \in Nat
      /\ missing \in Nat /\ n \in Nat
  BY <1>1
<1>4. q + i = p + j
  BY <1>1
<1>5. d = p + missing
  BY <1>2
<1>6. e + i + missing = d + j + n
  OBVIOUS
<1>7. e = q + n
  <2> HIDE DEF d, e, p, q, i, j, n
  <2> QED BY <1>3, <1>4, <1>5, <1>6
<1>8. Due' = InPairs' + missing'
  BY <1>7
<1> QED BY <1>8 DEF Due, RequestsAccounted

\* How long a queue of requests is.
LEMMA DueFacts ==
  ASSUME Typed
  PROVE  /\ Len(requestQueue) \in Nat /\ Due \in Nat /\ missing \in Nat
         /\ requestQueue \in Seq(Requests)
         /\ gstSource # None => gstSource \in Pairs
<1>1. requestQueue \in Seq(Requests) /\ missing \in Nat
  BY TypedParts DEF PairTyped, RestTyped
<1>2. Len(requestQueue) \in Nat
  BY <1>1
<1>3. gstSource # None => gstSource \in Pairs
  BY TypedParts DEF CmdsTyped, Pairs, None
<1> QED BY <1>1, <1>2, <1>3 DEF Due

\* The same of the next state.
LEMMA DueFactsNext ==
  ASSUME Typed'
  PROVE  Due' \in Nat /\ missing' \in Nat
<1>1. requestQueue' \in Seq(Requests) /\ missing' \in Nat
  BY TypedParts DEF PairTyped, RestTyped
<1>2. Len(requestQueue') \in Nat
  BY <1>1
<1> QED BY <1>1, <1>2 DEF Due

\* An answer that arrives is no longer in its pair.
LEMMA ArrivesCounts ==
  ASSUME Typed, NEW g \in Pairs, Arrives(g)
  PROVE  /\ \A k \in Pairs : k # g => pair'[k] = pair[k]
         /\ pair'[g] = [pair[g] EXCEPT !.answers = Tail(pair[g].answers)]
         /\ InPair(g)' \in Nat /\ InPair(g) = InPair(g)' + 1
<1>1. /\ pair[g] \in PairRecord
      /\ pair[g].slot \in Seq(Requests)
      /\ pair[g].wire \in Seq(Requests)
      /\ pair[g].answers \in Seq(Requests)
      /\ pair \in [Pairs -> PairRecord]
  BY TypedParts, PairFields DEF PairTyped
<1>2. \A k \in Pairs : k # g => pair'[k] = pair[k]
  BY <1>1 DEF Arrives
<1>3. pair'[g] = [pair[g] EXCEPT !.answers = Tail(pair[g].answers)]
  BY <1>1 DEF Arrives
<1>4. /\ pair'[g].slot = pair[g].slot /\ pair'[g].wire = pair[g].wire
      /\ pair'[g].answers = Tail(pair[g].answers)
  BY <1>1, <1>3 DEF PairRecord
<1>5. /\ Len(pair[g].slot) \in Nat /\ Len(pair[g].wire) \in Nat
      /\ Len(pair[g].answers) \in Nat /\ Len(pair[g].answers) # 0
      /\ Len(Tail(pair[g].answers)) = Len(pair[g].answers) - 1
  BY <1>1, Lengths DEF Arrives
<1> DEFINE a == Len(pair[g].answers)
           w == Len(pair[g].wire)
           s == Len(pair[g].slot)
<1>6. InPair(g) = s + w + a /\ InPair(g)' = s + w + (a - 1)
  BY <1>4, <1>5 DEF InPair
<1>7. s + w + (a - 1) \in Nat /\ s + w + a = s + w + (a - 1) + 1
  <2> HIDE DEF s, w, a
  <2>1. s \in Nat /\ w \in Nat /\ a \in Nat /\ a # 0
    BY <1>5 DEF s, w, a
  <2> QED BY <2>1
<1> QED BY <1>2, <1>3, <1>6, <1>7

\* What the frames' steps do to the number of frames in their pair.
LEMMA FrameCounts ==
  ASSUME Typed, NEW g \in Pairs, Transmit(g) \/ LoseFrame(g) \/ Serve(g)
  PROVE  /\ \A k \in Pairs : k # g => pair'[k] = pair[k]
         /\ InPair(g)' \in Nat
         /\ Transmit(g) \/ Serve(g) => InPair(g)' = InPair(g)
         /\ LoseFrame(g) => InPair(g) = InPair(g)' + 1
<1> DEFINE s == Len(pair[g].slot)
           w == Len(pair[g].wire)
           a == Len(pair[g].answers)
<1>1. /\ pair \in [Pairs -> PairRecord] /\ pair[g] \in PairRecord
      /\ pair[g].slot \in Seq(Requests)
      /\ pair[g].wire \in Seq(Requests)
      /\ pair[g].answers \in Seq(Requests)
  BY TypedParts, PairFields DEF PairTyped
<1>2. s \in Nat /\ w \in Nat /\ a \in Nat
  BY <1>1, LenProperties
<1>3. InPair(g) = s + w + a
  BY DEF InPair
<1>4. \A k \in Pairs : k # g => pair'[k] = pair[k]
  BY <1>1 DEF Transmit, LoseFrame, Serve
<1>5. ASSUME Transmit(g) PROVE InPair(g)' = InPair(g)
  <2>1. /\ pair'[g].slot = <<>> /\ pair'[g].wire = pair[g].wire \o pair[g].slot
        /\ pair'[g].answers = pair[g].answers
    BY <1>1, <1>5 DEF Transmit, PairRecord
  <2>2. Len(pair[g].wire \o pair[g].slot) = w + s
    BY <1>1, ConcatProperties
  <2>3. InPair(g)' = 0 + (w + s) + a
    BY <2>1, <2>2 DEF InPair
  <2> HIDE DEF s, w, a
  <2>4. s + w + a = 0 + (w + s) + a
    BY <1>2
  <2> QED BY <1>3, <2>3, <2>4
<1>6. ASSUME LoseFrame(g) PROVE InPair(g) = InPair(g)' + 1 /\ InPair(g)' \in Nat
  <2>1. /\ pair'[g].slot = pair[g].slot /\ pair'[g].wire = Tail(pair[g].wire)
        /\ pair'[g].answers = pair[g].answers /\ pair[g].wire # <<>>
    BY <1>1, <1>6 DEF LoseFrame, PairRecord
  <2>2. Len(Tail(pair[g].wire)) = w - 1 /\ w # 0
    BY <1>1, <2>1, Lengths
  <2>3. InPair(g)' = s + (w - 1) + a
    BY <2>1, <2>2 DEF InPair
  <2>4. w # 0
    BY <2>2
  <2> HIDE DEF s, w, a
  <2>5. s + w + a = s + (w - 1) + a + 1 /\ s + (w - 1) + a \in Nat
    BY <1>2, <2>4
  <2> QED BY <1>3, <2>3, <2>5
<1>7. ASSUME Serve(g) PROVE InPair(g)' = InPair(g)
  <2>1. /\ pair'[g].slot = pair[g].slot /\ pair'[g].wire = Tail(pair[g].wire)
        /\ pair'[g].answers = Append(pair[g].answers, Head(pair[g].wire))
        /\ pair[g].wire # <<>>
    BY <1>1, <1>7 DEF Serve, PairRecord
  <2>2. /\ Len(Tail(pair[g].wire)) = w - 1
        /\ Len(Append(pair[g].answers, Head(pair[g].wire))) = a + 1
    BY <1>1, <2>1, Lengths
  <2>3. InPair(g)' = s + (w - 1) + (a + 1)
    BY <2>1, <2>2 DEF InPair
  <2> HIDE DEF s, w, a
  <2>4. s + w + a = s + (w - 1) + (a + 1)
    BY <1>2
  <2> QED BY <1>3, <2>3, <2>4
<1>8. InPair(g) \in Nat
  BY TypedParts, PairFields
<1> QED BY <1>4, <1>5, <1>6, <1>7, <1>8

\* Svc pushes a frame; the one that waited is gone.
LEMMA PushCounts ==
  ASSUME Typed, SvcInvoke
  PROVE  \E g \in Pairs, lost \in Nat :
            /\ g = gstSource /\ gstSource' = g
            /\ lost = Len(pair[g].slot) /\ missing' = missing + lost
            /\ \A k \in Pairs : k # g => pair'[k] = pair[k]
            /\ pair'[g].slot = <<Head(cmds).arg>>
            /\ pair'[g].wire = pair[g].wire /\ pair'[g].answers = pair[g].answers
            /\ InPair(g)' \in Nat /\ InPair(g)' + lost = InPair(g) + 1
<1>1. PICK g \in Pairs : g = gstSource
  BY DueFacts DEF SvcInvoke
<1> DEFINE s == Len(pair[g].slot)
           w == Len(pair[g].wire)
           a == Len(pair[g].answers)
<1>2. /\ pair' = [pair EXCEPT ![g].slot = <<Head(cmds).arg>>]
      /\ missing' = missing + s /\ gstSource' = g
  BY <1>1 DEF SvcInvoke
<1>3. pair \in [Pairs -> PairRecord]
  BY TypedParts DEF PairTyped
<1>4. \A k \in Pairs : k # g => pair'[k] = pair[k]
  BY <1>1, <1>2, <1>3
<1>5. /\ pair'[g].slot = <<Head(cmds).arg>>
      /\ pair'[g].wire = pair[g].wire /\ pair'[g].answers = pair[g].answers
  BY <1>1, <1>2, <1>3 DEF PairRecord
<1>6. s \in Nat /\ w \in Nat /\ a \in Nat
  BY <1>1, TypedParts, PairFields, LenProperties
<1>7. Len(pair'[g].slot) = 1
  BY <1>5
<1>8. InPair(g) = s + w + a
  BY DEF InPair
<1>9. InPair(g)' = 1 + w + a
  BY <1>5, <1>7 DEF InPair
<1>10. 1 + w + a \in Nat /\ (1 + w + a) + s = (s + w + a) + 1
  <2> HIDE DEF s, w, a
  <2> QED BY <1>6
<1> QED BY <1>1, <1>2, <1>4, <1>5, <1>6, <1>8, <1>9, <1>10

\* Every step keeps the account.
LEMMA AccountedStep == Typed /\ RequestsAccounted /\ [Next]_vars => RequestsAccounted'
<1> SUFFICES ASSUME Typed, RequestsAccounted, [Next]_vars PROVE RequestsAccounted'
  OBVIOUS
<1>0. Typed'
  BY TypedStep
<1>01. /\ PairTyped /\ PairTyped' /\ Due \in Nat /\ Due' \in Nat
       /\ missing \in Nat /\ missing' \in Nat
       /\ Len(requestQueue) \in Nat /\ requestQueue \in Seq(Requests)
       /\ pair \in [Pairs -> PairRecord]
  BY <1>0, TypedParts, DueFacts, DueFactsNext DEF PairTyped
<1>1. CASE \/ Prepare \/ PrepareRefused \/ Invoke \/ CallReturns \/ CallInterrupted
           \/ Stop \/ HandleEvent \/ Destroy \/ DestroyJoined
           \/ SvcPrepare \/ SvcPrepareFails \/ SvcInvokeFails \/ SvcNoSource \/ SvcExit
           \/ BusError \/ UNCHANGED vars
  <2>1. UNCHANGED <<pair, requestQueue, missing>>
    BY <1>1 DEF Prepare, PrepareRefused, Invoke, CallReturns, CallInterrupted, Stop, HandleEvent,
                Destroy, DestroyJoined, SvcPrepare, SvcPrepareFails, SvcInvokeFails, SvcNoSource,
                SvcExit, BusError, pipeVars, vars
  <2>2. svc' = svc \/ (svc # "pushed" /\ svc' # "pushed")
    BY <1>1 DEF Prepare, PrepareRefused, Invoke, CallReturns, CallInterrupted, Stop, HandleEvent,
                Destroy, DestroyJoined, SvcPrepare, SvcPrepareFails, SvcInvokeFails, SvcNoSource,
                SvcExit, BusError, Command, vars
  <2> QED BY <2>1, <2>2, AccountsKept
<1>2. CASE SvcInvoke
  <2>1. PICK g \in Pairs, lost \in Nat :
            /\ missing' = missing + lost
            /\ \A k \in Pairs : k # g => pair'[k] = pair[k]
            /\ InPair(g)' \in Nat /\ InPair(g)' + lost = InPair(g) + 1
    BY <1>2, PushCounts
  <2>2. svc = "loop" /\ svc' = "pushed" /\ requestQueue' = requestQueue
    BY <1>2 DEF SvcInvoke, Command
  <2>3. Due' = Due + 1
    BY <1>01, <2>2 DEF Due
  <2> DEFINE d == Due
             i == InPair(g)
             j == InPair(g)'
  <2>4. d \in Nat /\ i \in Nat /\ j \in Nat /\ j + lost = i + 1
    BY <1>01, <2>1, PairFields
  <2>5. d + 1 + i + missing = d + j + (missing + lost)
    <3> HIDE DEF d, i, j
    <3> QED BY <1>01, <2>4
  <2>6. Due' + InPair(g) + missing = Due + InPair(g)' + missing'
    BY <2>1, <2>3, <2>5, Zenon
  <2> QED BY <1>01, <2>1, <2>6, AccountsStep, Zenon
<1>3. CASE SvcQueue
  <2>1. /\ svc = "pushed" /\ svc' = "loop" /\ UNCHANGED <<pair, missing>>
        /\ requestQueue' = Append(requestQueue, request) /\ request \in Requests
    BY <1>3, TypedParts DEF SvcQueue, SvcTyped, Requests, None
  <2>2. Len(requestQueue') = Len(requestQueue) + 1
    BY <1>01, <2>1
  <2>3. Due' = Due
    BY <1>01, <2>1, <2>2 DEF Due
  <2> QED BY <2>1, <2>3, PairsKept DEF RequestsAccounted, Due
<1>4. CASE SvcStop
  <2>1. gstSource \in Pairs /\ pair' = [pair EXCEPT ![gstSource] = Paused(pair[gstSource])]
    BY <1>4, DueFacts DEF SvcStop
  <2>2. UNCHANGED <<requestQueue, missing, svc>>
    BY <1>4 DEF SvcStop
  <2>3. \A k \in Pairs : /\ pair'[k].slot = pair[k].slot
                         /\ pair'[k].wire = pair[k].wire
                         /\ pair'[k].answers = pair[k].answers
    BY <1>01, <2>1 DEF Paused, PairRecord
  <2>4. \A k \in Pairs : InPair(k)' = InPair(k)
    BY <2>3, Zenon DEF InPair
  <2>5. InPairs' = InPairs
    <3> DEFINE f == [k \in Pairs |-> InPair(k)]
               h == [k \in Pairs |-> InPair(k)']
    <3>1. f = h
      BY <2>4
    <3>2. InPairs = Total(f) /\ InPairs' = Total(h)
      BY DEF InPairs, Total
    <3> HIDE DEF f, h
    <3> QED BY <3>1, <3>2
  <2> QED BY <2>2, <2>5 DEF RequestsAccounted
<1>5. ASSUME NEW g \in Pairs, Transmit(g) \/ Serve(g) PROVE RequestsAccounted'
  <2>1. \A k \in Pairs : k # g => pair'[k] = pair[k]
    BY <1>5, FrameCounts
  <2>2. InPair(g)' = InPair(g)
    BY <1>5, FrameCounts
  <2>3. Due' = Due /\ missing' = missing
    BY <1>5 DEF Transmit, Serve, pairOnly, Due
  <2>4. Due' + InPair(g) + missing = Due + InPair(g)' + missing'
    BY <2>2, <2>3, Zenon
  <2> QED BY <1>01, <2>1, <2>4, AccountsStep, Zenon
<1>6. ASSUME NEW g \in Pairs, LoseFrame(g) PROVE RequestsAccounted'
  <2>1. /\ \A k \in Pairs : k # g => pair'[k] = pair[k]
        /\ InPair(g)' \in Nat /\ InPair(g) = InPair(g)' + 1
    BY <1>6, FrameCounts
  <2>2. Due' = Due /\ missing' = missing + 1
    BY <1>6 DEF LoseFrame, pairOnly, Due
  <2> DEFINE e == Due
             j == InPair(g)'
  <2>3. e \in Nat /\ j \in Nat
    BY <1>01, <2>1
  <2>4. e + (j + 1) + missing = e + j + (missing + 1)
    <3> HIDE DEF e, j
    <3> QED BY <1>01, <2>3
  <2>5. Due' + InPair(g) + missing = Due + InPair(g)' + missing'
    BY <2>1, <2>2, <2>4, Zenon
  <2> QED BY <1>01, <2>1, <2>5, AccountsStep, Zenon
<1>7. ASSUME NEW g \in Pairs, SinkPop(g) PROVE RequestsAccounted'
  <2>1. /\ \A k \in Pairs : k # g => pair'[k] = pair[k]
        /\ InPair(g)' \in Nat /\ InPair(g) = InPair(g)' + 1
    BY <1>7, ArrivesCounts DEF SinkPop
  <2>2. /\ requestQueue # <<>> /\ requestQueue' = Tail(requestQueue)
        /\ UNCHANGED <<missing, svc>>
    BY <1>7 DEF SinkPop
  <2>3. Len(requestQueue') = Len(requestQueue) - 1
    BY <1>01, <2>2
  <2>4. Due = Due' + 1
    BY <1>01, <2>2, <2>3 DEF Due
  <2> DEFINE e == Due'
             j == InPair(g)'
  <2>5. e \in Nat /\ j \in Nat /\ missing \in Nat
    BY <1>01, <2>1
  <2>6. e + (j + 1) + missing = (e + 1) + j + missing
    <3> HIDE DEF e, j
    <3> QED BY <2>5
  <2>7. Due' + InPair(g) + missing = Due + InPair(g)' + missing'
    BY <2>1, <2>2, <2>4, <2>6, Zenon
  <2> QED BY <1>01, <2>1, <2>7, AccountsStep, Zenon
<1>8. ASSUME NEW g \in Pairs, SinkFindsNone(g) \/ SinkRefuses(g) PROVE RequestsAccounted'
  <2>1. /\ \A k \in Pairs : k # g => pair'[k] = pair[k]
        /\ InPair(g)' \in Nat /\ InPair(g) = InPair(g)' + 1
    BY <1>8, ArrivesCounts DEF SinkFindsNone, SinkRefuses
  <2>2. missing' = missing + 1 /\ UNCHANGED <<requestQueue, svc>>
    BY <1>8 DEF SinkFindsNone, SinkRefuses, KeptRequests
  <2>3. Due' = Due
    BY <2>2 DEF Due
  <2> DEFINE e == Due
             j == InPair(g)'
  <2>4. e \in Nat /\ j \in Nat /\ missing \in Nat
    BY <1>01, <2>1
  <2>5. e + (j + 1) + missing = e + j + (missing + 1)
    <3> HIDE DEF e, j
    <3> QED BY <2>4
  <2>6. Due' + InPair(g) + missing = Due + InPair(g)' + missing'
    BY <2>1, <2>2, <2>3, <2>5, Zenon
  <2> QED BY <1>01, <2>1, <2>6, AccountsStep, Zenon
<1>9. ASSUME NEW g \in Pairs, \/ SinkSend(g) \/ SinkSendFails(g) \/ SinkPublish(g)
                               \/ SinkPublishFails(g) \/ SinkAfterDestroy(g)
       PROVE  RequestsAccounted'
  <2>1. UNCHANGED <<pair, requestQueue, missing, svc>>
    BY <1>9 DEF SinkSend, SinkSendFails, SinkPublish, SinkPublishFails, SinkAfterDestroy, sinkOnly,
                 pipeVars
  <2> QED BY <2>1, AccountsKept
<1> QED BY <1>1, <1>2, <1>3, <1>4, <1>5, <1>6, <1>7, <1>8, <1>9 DEF Next

\* At first there is no frame, and no request.
LEMMA AccountedInit == Init => RequestsAccounted
<1> SUFFICES ASSUME Init PROVE RequestsAccounted
  OBVIOUS
<1>1. /\ requestQueue = <<>> /\ svc = "loop" /\ missing = 0
      /\ pair = [g \in Pairs |-> NewPair]
  BY DEF Init
<1>2. \A g \in Pairs : InPair(g) = 0
  BY <1>1 DEF InPair, NewPair
<1>3. InPairs = 0
  <2> DEFINE f == [g \in Pairs |-> InPair(g)]
  <2>1. \A g \in Pairs : f[g] = 0
    BY <1>2
  <2> HIDE DEF f
  <2>2. Total(f) = 0
    BY <2>1, TotalZero
  <2> QED BY <2>2 DEF InPairs, f
<1> QED BY <1>1, <1>3 DEF RequestsAccounted

\* The requests in the queue are those of the frames on their way and of the frames
\* that went missing, of however many pairs of pipelines (SinkRefuses() and a lost
\* frame leave their requests).
THEOREM RequestsAccountedHolds == Spec => []RequestsAccounted
<1>1. Init => Typed /\ RequestsAccounted
  BY TypedInit, AccountedInit
<1>2. Typed /\ RequestsAccounted /\ [Next]_vars => (Typed /\ RequestsAccounted)'
  BY TypedStep, AccountedStep
<1> QED BY <1>1, <1>2, PTL DEF Spec

----------------------------------------------------------------------------
(* Calls of a careful application.                                         *)

\* Short sequences.
LEMMA Tuples ==
  ASSUME NEW a, NEW b
  PROVE  /\ <<a>> # <<>> /\ Head(<<a>>) = a /\ Tail(<<a>>) = <<>>
         /\ <<a, b>> # <<>> /\ Head(<<a, b>>) = a /\ Tail(<<a, b>>) = <<b>>
         /\ Append(<<>>, a) = <<a>> /\ Append(<<a>>, b) = <<a, b>>
<1>1. <<a>> # <<>> /\ <<a, b>> # <<>>
  OBVIOUS
<1>2. Head(<<a>>) = a /\ Head(<<a, b>>) = a
  OBVIOUS
<1>3. Tail(<<a>>) = <<>>
  OBVIOUS
<1>4. Tail(<<a, b>>) = <<b>>
  OBVIOUS
<1>5. Append(<<>>, a) = <<a>>
  OBVIOUS
<1>6. Append(<<a>>, b) = <<a, b>>
  <2> DEFINE S == {a, b}
  <2>1. <<a>> \in Seq(S) /\ b \in S /\ <<a, b>> \in Seq(S)
    OBVIOUS
  <2>2. Len(<<a>>) = 1 /\ <<a>>[1] = a /\ Len(<<a, b>>) = 2 /\ <<a, b>>[1] = a /\ <<a, b>>[2] = b
    OBVIOUS
  <2> HIDE DEF S
  <2>3. /\ Append(<<a>>, b) \in Seq(S) /\ Len(Append(<<a>>, b)) = 2
        /\ Append(<<a>>, b)[1] = a /\ Append(<<a>>, b)[2] = b
    BY <2>1, <2>2, AppendProperties
  <2>4. \A i \in 1..2 : Append(<<a>>, b)[i] = <<a, b>>[i]
    BY <2>2, <2>3
  <2> QED BY <2>1, <2>2, <2>3, <2>4, SeqEqual
<1> QED BY <1>1, <1>2, <1>3, <1>4, <1>5, <1>6

\* The numbers that CountOK adds up.
FlightTypes ==
    /\ Told \in Nat /\ seen \in Nat /\ requests \in Nat /\ Flying \in Nat
    /\ \A g \in Pairs : InFlight(g) \in Nat
    /\ gstSource # None => gstSource \in Pairs

\* They are numbers.
LEMMA FlightFacts == Typed => FlightTypes
<1> SUFFICES ASSUME Typed PROVE FlightTypes
  OBVIOUS
<1>1. Told \in Nat
  BY TypedParts, CountType DEF Told, SinkTyped
<1>2. seen \in Nat /\ requests \in Nat
  BY TypedParts, BoundsAssumption DEF AppTyped
<1>3. \A g \in Pairs : InFlight(g) \in Nat
  <2> SUFFICES ASSUME NEW g \in Pairs PROVE InFlight(g) \in Nat
    OBVIOUS
  <2>1. InPair(g) \in Nat
    BY TypedParts, PairFields
  <2> QED BY <2>1 DEF InFlight
<1>4. gstSource # None => gstSource \in Pairs
  BY DueFacts
<1>5. Flying \in Nat
  BY <1>3, <1>4 DEF Flying
<1> QED BY <1>1, <1>2, <1>3, <1>4, <1>5 DEF FlightTypes

\* They are numbers in the next state.
LEMMA FlightFactsNext == Typed' => FlightTypes'
  BY FlightFacts, PTL

\* What CallOK says of a calm state.
CallBody == ~crashed /\ CommandOK /\ SourceOK /\ CountOK /\ OldPairsEmpty

\* Rules once broken stay broken.
LEMMA CalmBefore == Typed /\ [Next]_vars /\ Calm' => Calm
<1> SUFFICES ASSUME Typed, [Next]_vars PROVE (careless => careless') /\ (shifted => shifted')
  BY Zenon DEF Calm
<1> DEFINE Kept == (careless => careless') /\ (shifted => shifted')
<1>1. /\ Prepare => Kept
      /\ PrepareRefused => Kept
      /\ Invoke => Kept
      /\ CallReturns => Kept
      /\ CallInterrupted => Kept
      /\ Stop => Kept
      /\ HandleEvent => Kept
      /\ Destroy => Kept
      /\ DestroyJoined => Kept
  <2>1. Prepare => Kept
    <3>1. Prepare => careless' = (careless \/ Unanswered) /\ UNCHANGED shifted
      BY Zenon DEF Prepare
    <3> QED BY <3>1, Zenon
  <2>2. PrepareRefused => Kept
    BY DEF PrepareRefused
  <2>3. Invoke => Kept
    <3>1. Invoke => careless' = (careless \/ ~prepared) /\ UNCHANGED shifted
      BY Zenon DEF Invoke
    <3> QED BY <3>1, Zenon
  <2>4. CallReturns => Kept
    BY DEF CallReturns
  <2>5. CallInterrupted => Kept
    BY DEF CallInterrupted
  <2>6. Stop => Kept
    <3>1. Stop => careless' = (careless \/ ~prepared \/ Unanswered) /\ UNCHANGED shifted
      BY Zenon DEF Stop
    <3> QED BY <3>1, Zenon
  <2>7. HandleEvent => Kept
    BY DEF HandleEvent
  <2>8. Destroy => Kept
    <3>1. Destroy => careless' = (careless \/ Unanswered) /\ UNCHANGED shifted
      BY Zenon DEF Destroy
    <3> QED BY <3>1, Zenon
  <2>9. DestroyJoined => Kept
    BY DEF DestroyJoined
  <2> QED BY <2>1, <2>2, <2>3, <2>4, <2>5, <2>6, <2>7, <2>8, <2>9, Zenon
<1>2. /\ SvcPrepare \/ SvcPrepareFails \/ SvcInvoke \/ SvcInvokeFails => Kept
      /\ SvcQueue \/ SvcStop \/ SvcNoSource \/ SvcExit => Kept
      /\ BusError => Kept
      /\ UNCHANGED vars => Kept
  <2>1. SvcPrepare \/ SvcPrepareFails \/ SvcInvoke \/ SvcInvokeFails => Kept
    <3>1. SvcPrepare \/ SvcPrepareFails \/ SvcInvoke \/ SvcInvokeFails =>
             UNCHANGED appVars /\ UNCHANGED shifted
      BY Zenon DEF SvcPrepare, SvcPrepareFails, SvcInvoke, SvcInvokeFails
    <3> QED BY <3>1 DEF appVars
  <2>2. SvcQueue \/ SvcStop \/ SvcNoSource \/ SvcExit => Kept
    <3>1. SvcQueue \/ SvcStop \/ SvcNoSource \/ SvcExit => UNCHANGED appVars /\ UNCHANGED shifted
      BY DEF SvcQueue, SvcStop, SvcNoSource, SvcExit
    <3> QED BY <3>1 DEF appVars
  <2>3. BusError => Kept
    BY DEF BusError, appVars
  <2>4. UNCHANGED vars => Kept
    BY DEF vars
  <2> QED BY <2>1, <2>2, <2>3, <2>4, Zenon
<1>3. ASSUME NEW g \in Pairs
      PROVE  /\ Transmit(g) \/ LoseFrame(g) \/ Serve(g) => Kept
             /\ SinkPop(g) \/ SinkFindsNone(g) \/ SinkRefuses(g) => Kept
             /\ SinkSend(g) \/ SinkSendFails(g) \/ SinkPublish(g) => Kept
             /\ SinkPublishFails(g) \/ SinkAfterDestroy(g) => Kept
  <2>1. Transmit(g) \/ LoseFrame(g) \/ Serve(g) => Kept
    <3>1. Transmit(g) \/ LoseFrame(g) \/ Serve(g) => UNCHANGED appVars /\ UNCHANGED shifted
      <4>1. UNCHANGED pairOnly => UNCHANGED appVars /\ UNCHANGED shifted
        BY DEF pairOnly
      <4>2. Transmit(g) \/ LoseFrame(g) \/ Serve(g) => UNCHANGED pairOnly
        BY DEF Transmit, LoseFrame, Serve
      <4> QED BY <4>1, <4>2, Zenon
    <3> QED BY <3>1 DEF appVars
  <2>2. SinkPop(g) \/ SinkFindsNone(g) \/ SinkRefuses(g) => Kept
    BY DEF SinkPop, SinkFindsNone, SinkRefuses, appVars
  <2>3. SinkSend(g) \/ SinkSendFails(g) \/ SinkPublish(g) => Kept
    BY DEF SinkSend, SinkSendFails, SinkPublish, sinkOnly, appVars
  <2>4. SinkPublishFails(g) \/ SinkAfterDestroy(g) => Kept
    BY DEF SinkPublishFails, SinkAfterDestroy, sinkOnly, appVars
  <2> QED BY <2>1, <2>2, <2>3, <2>4, Zenon
<1> HIDE DEF Kept
<1>4. Kept
  BY <1>1, <1>2, <1>3 DEF Next
<1> QED BY <1>4 DEF Kept

\* The head of the commands tells what the application is doing.
LEMMA HeadFacts ==
  ASSUME Typed, CommandOK, SourceOK, NEW id, Command(id)
  PROVE  /\ cmds # <<>> /\ cmds' = Tail(cmds) /\ replies = <<>> /\ svc = "loop"
         /\ id = "Prepare" => app = "Prepare" /\ requests <= seen /\ cmds' = <<>>
         /\ id = "Invoke" => /\ app = "Invoke" /\ prepared /\ requests # 0 /\ cmds' = <<>>
                             /\ Head(cmds).arg = requests
         /\ id = "Exit" => app = "join" /\ requests <= seen /\ cmds' = <<>>
         /\ id = "Stop" => /\ ~prepared /\ gstSource # None
                           /\ \/ app = "idle" /\ cmds' = <<>>
                              \/ /\ app = "Prepare" /\ requests <= seen
                                 /\ cmds' = <<PrepareCommand>>
                              \/ /\ app = "join" /\ requests <= seen
                                 /\ cmds' = <<[id |-> "Exit", arg |-> None]>>
<1>1. cmds # <<>> /\ cmds' = Tail(cmds) /\ Head(cmds).id = id /\ svc = "loop"
  BY DEF Command
<1>2. app \in {"idle", "Prepare", "Invoke", "join", "gone"}
  BY TypedParts DEF AppTyped
<1>3. /\ StopCommand.id = "Stop" /\ PrepareCommand.id = "Prepare"
      /\ \A a, b : [id |-> a, arg |-> b].id = a /\ [id |-> a, arg |-> b].arg = b
  BY DEF StopCommand, PrepareCommand
<1>4. id = "Stop" => ~prepared /\ gstSource # None
  BY <1>1 DEF SourceOK
<1>5. CASE app = "idle"
  <2>1. cmds = <<StopCommand>> /\ replies = <<>>
    BY <1>1, <1>5 DEF CommandOK, IdleOK
  <2>2. cmds' = <<>> /\ Head(cmds) = StopCommand
    BY <1>1, <2>1, Tuples
  <2> QED BY <1>1, <1>3, <1>4, <1>5, <2>1, <2>2
<1>6. CASE app = "Prepare"
  <2>1. Sent(PrepareCommand) /\ replies = <<>> /\ requests <= seen
    BY <1>1, <1>6 DEF CommandOK, PrepareOK
  <2>2. \/ Head(cmds) = PrepareCommand /\ cmds' = <<>>
        \/ Head(cmds) = StopCommand /\ cmds' = <<PrepareCommand>>
    <3>1. CASE cmds = <<PrepareCommand>>
      BY <1>1, <3>1, Tuples, Zenon
    <3>2. CASE cmds = <<StopCommand, PrepareCommand>>
      BY <1>1, <3>2, Tuples, Zenon
    <3> QED BY <2>1, <3>1, <3>2, Zenon DEF Sent
  <2> QED BY <1>1, <1>3, <1>4, <1>6, <2>1, <2>2
<1>7. CASE app = "Invoke"
  <2>1. /\ cmds = <<[id |-> "Invoke", arg |-> requests]>> /\ replies = <<>>
        /\ prepared /\ requests # 0
    BY <1>1, <1>7 DEF CommandOK, InvokeOK
  <2>2. Head(cmds) = [id |-> "Invoke", arg |-> requests] /\ cmds' = <<>>
    BY <1>1, <2>1, Tuples, Zenon
  <2> QED BY <1>1, <1>3, <1>4, <1>7, <2>1, <2>2
<1>8. CASE app \in {"join", "gone"}
  <2> DEFINE e == [id |-> "Exit", arg |-> None]
  <2>1. app = "join" /\ Sent(e) /\ replies = <<>> /\ requests <= seen
    BY <1>1, <1>8 DEF CommandOK, EndOK
  <2>2. \/ Head(cmds) = e /\ cmds' = <<>>
        \/ Head(cmds) = StopCommand /\ cmds' = <<e>>
    <3> HIDE DEF e
    <3>1. CASE cmds = <<e>>
      BY <1>1, <3>1, Tuples, Zenon
    <3>2. CASE cmds = <<StopCommand, e>>
      BY <1>1, <3>2, Tuples, Zenon
    <3> QED BY <2>1, <3>1, <3>2, Zenon DEF Sent
  <2>3. e.id = "Exit"
    OBVIOUS
  <2> QED BY <1>1, <1>3, <1>4, <2>1, <2>2, <2>3
<1> QED BY <1>2, <1>5, <1>6, <1>7, <1>8

\* When an application that has heard of all its requests calls, nothing is in flight.
LEMMA NothingInFlight ==
  ASSUME Typed, CountOK, OldPairsEmpty, requests <= seen
  PROVE  /\ \A g \in Pairs : InFlight(g) = 0
         /\ Told = 0 /\ Flying = 0 /\ ~Pending /\ requests = seen
<1>1. FlightTypes
  BY FlightFacts
<1> DEFINE t == Told
           f == Flying
           p == IF Pending THEN 1 ELSE 0
<1>2. t \in Nat /\ f \in Nat /\ p \in Nat /\ seen \in Nat /\ requests \in Nat
  BY <1>1 DEF FlightTypes
<1>3. seen + t + f + p <= requests
  BY DEF CountOK
<1>4. t = 0 /\ f = 0 /\ p = 0 /\ requests = seen
  <2> HIDE DEF t, f, p
  <2> QED BY <1>2, <1>3
<1>5. \A g \in Pairs : InFlight(g) = 0
  BY <1>4 DEF OldPairsEmpty, Flying, None, Pairs
<1> QED BY <1>4, <1>5

\* An event more is counted, unless it is that of a Stop().
LEMMA ToldAppend ==
  ASSUME Typed, NEW t \in EventTypes, NEW x \in 0..MaxRequests,
         events' = Append(events, [type |-> t, request |-> x])
  PROVE  Told' = Told + (IF t = "STOPPED" THEN 0 ELSE 1)
<1> DEFINE e == [type |-> t, request |-> x]
<1>1. e \in Events /\ (e \in Verdicts <=> t # "STOPPED")
  BY DEF Events, Verdicts
<1>2. events \in Seq(Events) /\ events' = Append(events, e)
  BY TypedParts DEF SinkTyped
<1> HIDE DEF e
<1>3. Count(events', Verdicts) = Count(events, Verdicts) + (IF e \in Verdicts THEN 1 ELSE 0)
  BY <1>1, <1>2, CountAppend
<1> QED BY <1>1, <1>3 DEF Told

\* A pair and a sink that are left alone have as many frames as before.
LEMMA FlightKept ==
  ASSUME NEW k, pair'[k] = pair[k], sink'[k] = sink[k]
  PROVE  InFlight(k)' = InFlight(k)
  BY DEF InFlight, InPair

\* A step that takes frames of one pair, or tells of them.
LEMMA FlightStep ==
  ASSUME Typed, Typed', CallBody, NEW g \in Pairs,
         UNCHANGED appVars, UNCHANGED <<cmds, replies, svc, request, gstSource, crashed>>,
         \A k \in Pairs : k # g => InFlight(k)' = InFlight(k),
         InFlight(g)' <= InFlight(g),
         Told' + InFlight(g)' <= Told + InFlight(g)
  PROVE  CallBody'
<1>1. /\ UNCHANGED <<app, requests, seen, prepared>>
      /\ UNCHANGED <<cmds, replies, svc, request, gstSource, crashed>>
  BY DEF appVars
<1>2. CommandOK' /\ SourceOK'
  BY <1>1 DEF CallBody, CommandOK, IdleOK, PrepareOK, InvokeOK, EndOK, SourceOK, Sent, Answered
<1>3. FlightTypes /\ FlightTypes'
  BY FlightFacts, FlightFactsNext
<1>4. OldPairsEmpty'
  <2> SUFFICES ASSUME NEW k \in Pairs, k # gstSource' PROVE InFlight(k)' = 0
    BY DEF OldPairsEmpty
  <2>1. InFlight(k) = 0
    BY <1>1 DEF CallBody, OldPairsEmpty
  <2>2. InFlight(g) \in Nat /\ InFlight(g)' \in Nat
    BY <1>3 DEF FlightTypes
  <2>3. CASE k = g
    BY <2>1, <2>2, <2>3
  <2>4. CASE k # g
    BY <2>1, <2>4
  <2> QED BY <2>3, <2>4
<1> DEFINE t == Told
           u == Told'
           f == Flying
           h == Flying'
           i == InFlight(g)
           j == InFlight(g)'
           p == IF Pending THEN 1 ELSE 0
<1>5. /\ t \in Nat /\ u \in Nat /\ f \in Nat /\ h \in Nat /\ i \in Nat /\ j \in Nat /\ p \in Nat
      /\ seen \in Nat /\ requests \in Nat
  BY <1>3 DEF FlightTypes
<1>6. u + j <= t + i /\ j <= i
  OBVIOUS
<1>7. seen + t + f + p <= requests
  BY DEF CallBody, CountOK
<1>8. u + h <= t + f
  <2>1. CASE g = gstSource
    <3>1. g # None
      BY DEF Pairs, None
    <3>2. f = i /\ h = j
      BY <1>1, <2>1, <3>1 DEF Flying
    <3> QED BY <1>6, <3>2
  <2>2. CASE g # gstSource
    <3>1. i = 0
      BY <2>2 DEF CallBody, OldPairsEmpty
    <3>2. h = f
      BY <1>1, <1>3, <2>2 DEF Flying, FlightTypes
    <3>3. u <= t
      <4> HIDE DEF t, u, i, j
      <4> QED BY <1>5, <1>6, <3>1
    <3> HIDE DEF t, u, f, h
    <3> QED BY <1>5, <3>2, <3>3
  <2> QED BY <2>1, <2>2
<1>9. (IF Pending' THEN 1 ELSE 0) = p
  BY <1>1 DEF Pending
<1>10. seen + u + h + p <= requests
  <2> HIDE DEF t, u, f, h, p, i, j
  <2> QED BY <1>5, <1>7, <1>8
<1>11. CountOK'
  BY <1>1, <1>9, <1>10 DEF CountOK
<1> QED BY <1>1, <1>2, <1>4, <1>11 DEF CallBody

\* The frames' steps.
LEMMA FramesCall ==
  ASSUME Typed, Typed', CallBody, NEW g \in Pairs, Transmit(g) \/ LoseFrame(g) \/ Serve(g)
  PROVE  CallBody'
<1>1. /\ UNCHANGED appVars /\ UNCHANGED <<cmds, replies, svc, request, gstSource, crashed>>
      /\ UNCHANGED <<sink, events>>
  <2>1. UNCHANGED pairOnly
    BY DEF Transmit, LoseFrame, Serve
  <2> QED BY <2>1 DEF pairOnly, sinkVars
<1>2. /\ \A k \in Pairs : k # g => pair'[k] = pair[k]
      /\ InPair(g)' \in Nat /\ InPair(g) \in Nat
      /\ InPair(g)' = InPair(g) \/ InPair(g) = InPair(g)' + 1
  BY FrameCounts, TypedParts, PairFields
<1>3. \A k \in Pairs : k # g => InFlight(k)' = InFlight(k)
  BY <1>1, <1>2, FlightKept
<1> DEFINE i == InPair(g)
           j == InPair(g)'
           b == IF sink[g].at = "idle" THEN 0 ELSE 1
<1>4. InFlight(g) = i + b /\ InFlight(g)' = j + b
  BY <1>1 DEF InFlight
<1>5. Told' = Told /\ Told \in Nat
  BY <1>1, FlightFacts DEF Told, FlightTypes
<1>6. i \in Nat /\ j \in Nat /\ b \in Nat /\ (j = i \/ i = j + 1)
  BY <1>2
<1>7. j + b <= i + b /\ \A t \in Nat : t + (j + b) <= t + (i + b)
  <2> HIDE DEF i, j, b
  <2> QED BY <1>6
<1>8. InFlight(g)' <= InFlight(g) /\ Told' + InFlight(g)' <= Told + InFlight(g)
  BY <1>4, <1>5, <1>7, Zenon
<1> QED BY <1>1, <1>3, <1>8, FlightStep

\* The steps of a streaming thread, none of which finds its client deleted.
LEMMA SinkCall ==
  ASSUME Typed, Typed', CallBody, Calm', NEW g \in Pairs,
         \/ SinkPop(g) \/ SinkFindsNone(g) \/ SinkRefuses(g) \/ SinkSend(g) \/ SinkSendFails(g)
         \/ SinkPublish(g) \/ SinkPublishFails(g) \/ SinkAfterDestroy(g)
  PROVE  CallBody'
<1>0. FlightTypes /\ FlightTypes' /\ sink \in [Pairs -> SinkStates]
  BY FlightFacts, FlightFactsNext, TypedParts DEF SinkTyped
<1>01. /\ IdleSink.at = "idle"
       /\ sink[g].at # "idle" => sink[g].request \in 0..MaxRequests
       /\ None \in 0..MaxRequests
  BY TypedParts, SinkFields, BoundsAssumption DEF IdleSink, Requests, None
<1>02. InPair(g) \in Nat
  BY TypedParts, PairFields
<1>1. ASSUME SinkPop(g) PROVE CallBody'
  <2>1. /\ UNCHANGED appVars /\ UNCHANGED <<cmds, replies, svc, request, gstSource, crashed>>
        /\ UNCHANGED events /\ Arrives(g) /\ sink[g].at = "idle"
        /\ sink' = [sink EXCEPT ![g] = [at |-> "popped", frame |-> Head(pair[g].answers),
                                        request |-> NextRequest]]
    BY <1>1 DEF SinkPop, Arrives
  <2>2. sink'[g].at = "popped" /\ \A k \in Pairs : k # g => sink'[k] = sink[k]
    BY <1>0, <2>1
  <2>3. /\ \A k \in Pairs : k # g => pair'[k] = pair[k]
        /\ InPair(g)' \in Nat /\ InPair(g) = InPair(g)' + 1
    BY <2>1, ArrivesCounts
  <2>4. \A k \in Pairs : k # g => InFlight(k)' = InFlight(k)
    BY <2>2, <2>3, FlightKept
  <2>5. InFlight(g) = InPair(g) /\ InFlight(g)' = InPair(g)' + 1
    BY <1>02, <2>1, <2>2 DEF InFlight
  <2>6. InFlight(g)' = InFlight(g) /\ Told' = Told
    BY <2>1, <2>3, <2>5 DEF Told
  <2>7. InFlight(g)' <= InFlight(g) /\ Told' + InFlight(g)' <= Told + InFlight(g)
    BY <1>0, <2>6 DEF FlightTypes
  <2> QED BY <2>1, <2>4, <2>7, FlightStep
<1>2. ASSUME SinkFindsNone(g) \/ SinkRefuses(g) PROVE CallBody'
  <2>1. /\ UNCHANGED appVars /\ UNCHANGED <<cmds, replies, svc, request, gstSource, crashed>>
        /\ UNCHANGED sink /\ Arrives(g) /\ sink[g].at = "idle" /\ events' = Refused
    BY <1>2 DEF SinkFindsNone, SinkRefuses, Arrives
  <2>2. Told' = Told + 1
    BY <1>01, <2>1, ToldAppend DEF Refused, EventTypes
  <2>3. /\ \A k \in Pairs : k # g => pair'[k] = pair[k]
        /\ InPair(g)' \in Nat /\ InPair(g) = InPair(g)' + 1
    BY <2>1, ArrivesCounts
  <2>4. \A k \in Pairs : k # g => InFlight(k)' = InFlight(k)
    BY <2>1, <2>3, FlightKept
  <2>5. InFlight(g) = InPair(g) /\ InFlight(g)' = InPair(g)'
    BY <1>02, <2>1, <2>3 DEF InFlight
  <2> DEFINE t == Told
             j == InPair(g)'
  <2>6. t \in Nat /\ j \in Nat
    BY <1>0, <2>3 DEF FlightTypes
  <2>7. j <= j + 1 /\ (t + 1) + j <= t + (j + 1)
    <3> HIDE DEF t, j
    <3> QED BY <2>6
  <2>8. InFlight(g)' <= InFlight(g) /\ Told' + InFlight(g)' <= Told + InFlight(g)
    BY <2>2, <2>3, <2>5, <2>7, Zenon
  <2> QED BY <2>1, <2>4, <2>8, FlightStep
<1>3. ASSUME SinkSend(g) PROVE CallBody'
  <2>1. /\ UNCHANGED appVars /\ UNCHANGED <<cmds, replies, svc, request, gstSource, crashed>>
        /\ UNCHANGED <<pair, events>> /\ sink[g].at = "popped"
        /\ sink' = [sink EXCEPT ![g].at = "sent"]
    BY <1>3 DEF SinkSend, sinkOnly, pipeVars
  <2>2. sink'[g].at = "sent" /\ \A k \in Pairs : k # g => sink'[k] = sink[k]
    <3>1. sink[g] \in [at : {"popped", "sent"}, frame : Requests, request : Requests]
      BY <1>0, <2>1 DEF SinkStates, IdleSink
    <3> QED BY <1>0, <2>1, <3>1
  <2>3. \A k \in Pairs : k # g => InFlight(k)' = InFlight(k)
    BY <2>1, <2>2, FlightKept
  <2>4. InFlight(g)' = InFlight(g) /\ Told' = Told
    BY <2>1, <2>2 DEF InFlight, InPair, Told
  <2>5. InFlight(g)' <= InFlight(g) /\ Told' + InFlight(g)' <= Told + InFlight(g)
    BY <1>0, <2>4 DEF FlightTypes
  <2> QED BY <2>1, <2>3, <2>5, FlightStep
<1>4. ASSUME SinkSendFails(g) \/ SinkPublish(g) PROVE CallBody'
  <2>1. /\ UNCHANGED appVars /\ UNCHANGED <<cmds, replies, svc, request, gstSource, crashed>>
        /\ UNCHANGED pair /\ sink[g].at # "idle"
        /\ sink' = [sink EXCEPT ![g] = IdleSink]
    BY <1>4 DEF SinkSendFails, SinkPublish, sinkOnly, pipeVars
  <2>2. Told' = Told + 1
    <3>1. CASE SinkSendFails(g)
      BY <1>01, <2>1, <3>1, ToldAppend DEF SinkSendFails, EventTypes
    <3>2. CASE SinkPublish(g)
      BY <1>01, <2>1, <3>2, ToldAppend DEF SinkPublish, EventTypes
    <3> QED BY <1>4, <3>1, <3>2
  <2>3. sink'[g].at = "idle" /\ \A k \in Pairs : k # g => sink'[k] = sink[k]
    BY <1>0, <1>01, <2>1
  <2>4. \A k \in Pairs : k # g => InFlight(k)' = InFlight(k)
    BY <2>1, <2>3, FlightKept
  <2> DEFINE t == Told
             i == InPair(g)
  <2>5. InFlight(g) = i + 1 /\ InFlight(g)' = i
    BY <1>02, <2>1, <2>3 DEF InFlight, InPair
  <2>6. t \in Nat /\ i \in Nat
    BY <1>0, <1>02 DEF FlightTypes
  <2>7. i <= i + 1 /\ (t + 1) + i <= t + (i + 1)
    <3> HIDE DEF t, i
    <3> QED BY <2>6
  <2>8. InFlight(g)' <= InFlight(g) /\ Told' + InFlight(g)' <= Told + InFlight(g)
    BY <2>2, <2>5, <2>7, Zenon
  <2> QED BY <2>1, <2>4, <2>8, FlightStep
<1>5. ~SinkPublishFails(g)
  BY DEF SinkPublishFails, Calm
<1>6. ~SinkAfterDestroy(g)
  <2> SUFFICES ASSUME SinkAfterDestroy(g) PROVE FALSE
    OBVIOUS
  <2>1. requests <= seen
    BY DEF SinkAfterDestroy, CallBody, CommandOK, EndOK
  <2>2. InFlight(g) = 0
    BY <2>1, NothingInFlight DEF CallBody
  <2>3. InPair(g) = 0 /\ sink[g].at = "idle"
    BY <1>02, <2>2 DEF InFlight
  <2>4. pair[g].answers # <<>>
    BY <2>3 DEF SinkAfterDestroy
  <2> DEFINE s == Len(pair[g].slot)
             w == Len(pair[g].wire)
             a == Len(pair[g].answers)
  <2>5. s \in Nat /\ w \in Nat /\ a \in Nat /\ a # 0
    BY <2>4, TypedParts, PairFields, Lengths
  <2>6. s + w + a = 0
    BY <2>3 DEF InPair
  <2> HIDE DEF s, w, a
  <2> QED BY <2>5, <2>6
<1> QED BY <1>1, <1>2, <1>3, <1>4, <1>5, <1>6

\* Flying and Told when no frame moves and no event is published.
LEMMA FlightUntouched ==
  ASSUME UNCHANGED <<pair, sink>>
  PROVE  /\ \A k : InFlight(k)' = InFlight(k)
         /\ UNCHANGED gstSource => /\ Flying' = Flying
                                   /\ OldPairsEmpty => OldPairsEmpty'
         /\ UNCHANGED events => Told' = Told
<1>1. \A k : InFlight(k)' = InFlight(k)
  BY DEF InFlight, InPair
<1>2. UNCHANGED gstSource => Flying' = Flying
  BY DEF Flying, InFlight, InPair
<1>3. UNCHANGED gstSource /\ OldPairsEmpty => OldPairsEmpty'
  BY <1>1 DEF OldPairsEmpty
<1>4. UNCHANGED events => Told' = Told
  BY DEF Told
<1> QED BY <1>1, <1>2, <1>3, <1>4

\* The count is kept when the application hears of a request, or makes one.
LEMMA CountStep ==
  ASSUME FlightTypes, FlightTypes', CountOK,
         NEW heard \in Nat, NEW made \in Nat, NEW was \in 0..1, NEW is \in 0..1,
         Pending => was = 1, Pending' => is = 1, ~Pending => was = 0,
         seen' + Told' = seen + Told + heard, Flying' = Flying, requests' = requests + made,
         heard + is <= was + made
  PROVE  CountOK'
<1> DEFINE t == Told
           u == Told'
           f == Flying
           h == Flying'
           s == seen'
           r == requests'
<1>1. /\ t \in Nat /\ u \in Nat /\ f \in Nat /\ h \in Nat /\ s \in Nat /\ r \in Nat
      /\ seen \in Nat /\ requests \in Nat
  BY DEF FlightTypes
<1>2. seen + t + f + was <= requests
  BY DEF CountOK
<1>3. s + u = seen + t + heard /\ h = f /\ r = requests + made
  OBVIOUS
<1>4. s + u + h + is <= r
  <2> HIDE DEF t, u, f, h, s, r
  <2> QED BY <1>1, <1>2, <1>3
<1>5. s + u + h + (IF Pending' THEN 1 ELSE 0) <= r
  <2> DEFINE p == IF Pending' THEN 1 ELSE 0
  <2>1. p \in Nat /\ p <= is
    OBVIOUS
  <2> HIDE DEF t, u, f, h, s, r, p
  <2> QED BY <1>1, <1>4, <2>1
<1> QED BY <1>5 DEF CountOK

\* The steps of a careful application.
LEMMA AppCall ==
  ASSUME Typed, Typed', CallBody, Calm'
  PROVE  /\ Prepare => CallBody'
         /\ PrepareRefused => CallBody'
         /\ Invoke => CallBody'
         /\ CallReturns => CallBody'
         /\ ~CallInterrupted
         /\ Stop => CallBody'
         /\ HandleEvent => CallBody'
         /\ Destroy => CallBody'
         /\ DestroyJoined => CallBody'
<1>0. /\ ~crashed /\ CommandOK /\ SourceOK /\ CountOK /\ OldPairsEmpty
      /\ FlightTypes /\ FlightTypes'
  BY FlightFacts, FlightFactsNext DEF CallBody
<1>01. seen \in Nat /\ requests \in Nat
  BY <1>0 DEF FlightTypes
<1>02. ~careless' /\ ~shifted'
  BY DEF Calm
<1>03. /\ StopCommand.id = "Stop" /\ PrepareCommand.id = "Prepare"
       /\ \A a, b : [id |-> a, arg |-> b].id = a /\ [id |-> a, arg |-> b].arg = b
  BY DEF StopCommand, PrepareCommand
<1>1. ASSUME Prepare PROVE CallBody'
  <2>1. /\ app = "idle" /\ app' = "Prepare" /\ ~Unanswered
        /\ UNCHANGED <<requests, seen, prepared, replies, svc, request, gstSource, pair, sink, events,
                       crashed>>
        /\ cmds' = Append(cmds, PrepareCommand)
    BY <1>1, <1>02 DEF Prepare, Serviceable, SendCommand, PrepareCommand, pipeVars, sinkVars
  <2>2. svc = "loop" /\ replies = <<>> /\ (cmds = <<>> \/ cmds = <<StopCommand>>)
    BY <1>0, <2>1 DEF CommandOK, IdleOK
  <2>3. requests <= seen
    BY <1>01, <2>1 DEF Unanswered
  <2>4. \/ cmds = <<>> /\ cmds' = <<PrepareCommand>>
        \/ cmds = <<StopCommand>> /\ cmds' = <<StopCommand, PrepareCommand>>
    BY <2>1, <2>2, Tuples
  <2>5. CommandOK'
    <3>1. Sent(PrepareCommand)'
      BY <2>4 DEF Sent, PrepareCommand, StopCommand
    <3> QED BY <2>1, <2>2, <2>3, <3>1 DEF CommandOK, IdleOK, PrepareOK, InvokeOK, EndOK
  <2>6. SourceOK'
    <3>1. cmds' # <<>> /\ Head(cmds').id = "Stop" => gstSource # None /\ ~prepared
      <4>1. CASE cmds = <<>>
        BY <1>03, <2>4, <4>1, Tuples
      <4>2. CASE cmds = <<StopCommand>>
        BY <1>0, <1>03, <4>2, Tuples DEF SourceOK
      <4> QED BY <2>2, <4>1, <4>2
    <3> QED BY <2>1, <3>1 DEF SourceOK
  <2>7. ~Pending /\ ~Pending'
    BY <2>1 DEF Pending
  <2>8. Flying' = Flying /\ Told' = Told /\ OldPairsEmpty'
    BY <1>0, <2>1, FlightUntouched
  <2>9. CountOK'
    BY <1>0, <2>1, <2>7, <2>8 DEF CountOK
  <2> QED BY <1>0, <2>1, <2>5, <2>6, <2>8, <2>9 DEF CallBody
<1>2. ASSUME PrepareRefused PROVE CallBody'
  <2>1. /\ app = "idle" /\ app' = "idle" /\ ~prepared'
        /\ UNCHANGED <<requests, seen, cmds, replies, svc, request, gstSource, pair, sink, events,
                       crashed>>
    BY <1>2 DEF PrepareRefused, Serviceable, pipeVars, sinkVars
  <2>2. CommandOK' /\ SourceOK'
    BY <1>0, <2>1 DEF CommandOK, IdleOK, PrepareOK, InvokeOK, EndOK, SourceOK
  <2>3. Flying' = Flying /\ Told' = Told /\ OldPairsEmpty'
    BY <1>0, <2>1, FlightUntouched
  <2>4. CountOK'
    BY <1>0, <2>1, <2>3 DEF CountOK, Pending
  <2> QED BY <1>0, <2>1, <2>2, <2>3, <2>4 DEF CallBody
<1>3. ASSUME Invoke PROVE CallBody'
  <2>1. /\ app = "idle" /\ app' = "Invoke" /\ prepared /\ requests' = requests + 1
        /\ UNCHANGED <<seen, prepared, replies, svc, request, gstSource, pair, sink, events,
                       crashed>>
        /\ cmds' = Append(cmds, [id |-> "Invoke", arg |-> requests'])
    BY <1>3, <1>02 DEF Invoke, Serviceable, SendCommand, NextInput, pipeVars, sinkVars
  <2>2. svc = "loop" /\ replies = <<>> /\ (cmds = <<>> \/ cmds = <<StopCommand>>)
    BY <1>0, <2>1 DEF CommandOK, IdleOK
  <2>3. cmds = <<>>
    BY <1>0, <1>03, <2>1, <2>2, Tuples DEF SourceOK
  <2>4. cmds' = <<[id |-> "Invoke", arg |-> requests']>> /\ cmds' # <<>>
    BY <2>1, <2>3, Tuples
  <2>5. requests' # 0
    BY <1>01, <2>1
  <2>6. CommandOK'
    BY <2>1, <2>2, <2>4, <2>5 DEF CommandOK, IdleOK, PrepareOK, InvokeOK, EndOK
  <2>7. Head(cmds').id = "Invoke"
    BY <1>03, <2>4, Tuples
  <2>8. SourceOK'
    BY <1>0, <2>1, <2>7 DEF SourceOK
  <2>9. ~Pending
    BY <2>1 DEF Pending
  <2>10. Flying' = Flying /\ Told' = Told /\ OldPairsEmpty'
    BY <1>0, <2>1, FlightUntouched
  <2>11. CountOK'
    <3>1. seen' + Told' = seen + Told + 0
      BY <1>0, <2>1, <2>10 DEF FlightTypes
    <3> QED BY <1>0, <2>1, <2>9, <2>10, <3>1, CountStep
  <2> QED BY <1>0, <2>1, <2>6, <2>8, <2>10, <2>11 DEF CallBody
<1>4. ASSUME CallReturns PROVE CallBody'
  <2> DEFINE good == Head(replies).id = app /\ Head(replies).ok
  <2>1. /\ app \in {"Prepare", "Invoke"} /\ app' = "idle" /\ replies # <<>> /\ replies' = Tail(replies)
        /\ prepared' = (IF app = "Prepare" THEN good ELSE prepared)
        /\ seen' = (IF app = "Invoke" /\ ~good THEN seen + 1 ELSE seen)
        /\ UNCHANGED <<requests, cmds, svc, request, gstSource, pair, sink, events, crashed>>
    BY <1>4 DEF CallReturns, pipeVars, sinkVars
  <2>2. svc = "loop" /\ cmds = <<>> /\ Answered(app)
    BY <1>0, <2>1 DEF CommandOK, PrepareOK, InvokeOK
  <2>3. PICK ok \in BOOLEAN : replies = <<[id |-> app, ok |-> ok]>>
    BY <2>2 DEF Answered
  <2>4. Head(replies).id = app /\ Head(replies).ok = ok /\ replies' = <<>>
    BY <2>1, <2>3, Tuples
  <2>5. good <=> ok
    BY <2>4
  <2>6. CommandOK'
    BY <2>1, <2>2, <2>4 DEF CommandOK, IdleOK, PrepareOK, InvokeOK, EndOK
  <2>7. SourceOK'
    <3>1. cmds' = <<>> /\ app' = "idle" /\ gstSource' = gstSource
      BY <2>1, <2>2
    <3>2. prepared' => gstSource # None
      <4>1. CASE app = "Prepare"
        <5>1. ok => gstSource # None
          BY <1>0, <2>1, <2>4, <4>1 DEF CommandOK, PrepareOK
        <5>2. prepared' <=> ok
          BY <2>1, <2>5, <4>1
        <5> QED BY <5>1, <5>2
      <4>2. CASE app = "Invoke"
        <5>1. prepared' = prepared
          BY <2>1, <4>2
        <5> QED BY <1>0, <4>2, <5>1 DEF SourceOK
      <4> QED BY <2>1, <4>1, <4>2
    <3> QED BY <3>1, <3>2 DEF SourceOK
  <2>8. Flying' = Flying /\ Told' = Told /\ OldPairsEmpty'
    BY <1>0, <2>1, FlightUntouched
  <2>9. ~Pending'
    BY <2>1 DEF Pending
  <2>10. Pending <=> app = "Invoke" /\ ~ok
    BY <2>1, <2>2, <2>4 DEF Pending
  <2> DEFINE n == IF app = "Invoke" /\ ~ok THEN 1 ELSE 0
  <2>11. seen' = seen + n /\ n \in Nat /\ n \in 0..1
    BY <1>01, <2>1, <2>5
  <2>12. seen' + Told' = seen + Told + n
    <3> DEFINE t == Told
    <3>1. t \in Nat /\ Told' = t
      BY <1>0, <2>8 DEF FlightTypes
    <3> HIDE DEF n, t
    <3>2. seen + n + t = seen + t + n
      BY <1>01, <2>11, <3>1
    <3> QED BY <2>11, <3>1, <3>2 DEF t
  <2>13. (Pending => n = 1) /\ (~Pending => n = 0) /\ requests' = requests + 0
    BY <1>01, <2>1, <2>10
  <2> HIDE DEF n, good
  <2>14. n + 0 <= n + 0
    BY <2>11
  <2>15. CountOK'
    BY <1>0, <2>8, <2>9, <2>11, <2>12, <2>13, <2>14, CountStep
  <2> QED BY <1>0, <2>1, <2>6, <2>7, <2>8, <2>15 DEF CallBody
<1>5. ~CallInterrupted
  BY <1>02 DEF CallInterrupted
<1>6. ASSUME Stop PROVE CallBody'
  <2>1. /\ app = "idle" /\ app' = "idle" /\ prepared /\ ~prepared'
        /\ UNCHANGED <<requests, seen, replies, svc, request, gstSource, pair, sink, events,
                       crashed>>
        /\ cmds' = Append(cmds, StopCommand)
    BY <1>6, <1>02 DEF Stop, Serviceable, SendCommand, StopCommand, pipeVars, sinkVars
  <2>2. svc = "loop" /\ replies = <<>> /\ (cmds = <<>> \/ cmds = <<StopCommand>>)
    BY <1>0, <2>1 DEF CommandOK, IdleOK
  <2>3. cmds = <<>>
    BY <1>0, <1>03, <2>1, <2>2, Tuples DEF SourceOK
  <2>4. cmds' = <<StopCommand>>
    BY <2>1, <2>3, Tuples
  <2>5. CommandOK'
    <3>1. (cmds = <<>> \/ cmds = <<StopCommand>>)'
      BY <2>4 DEF StopCommand
    <3> QED BY <2>1, <2>2, <3>1 DEF CommandOK, IdleOK, PrepareOK, InvokeOK, EndOK
  <2>6. SourceOK'
    BY <1>0, <2>1 DEF SourceOK
  <2>7. Flying' = Flying /\ Told' = Told /\ OldPairsEmpty'
    BY <1>0, <2>1, FlightUntouched
  <2>8. CountOK'
    BY <1>0, <2>1, <2>7 DEF CountOK, Pending
  <2> QED BY <1>0, <2>1, <2>5, <2>6, <2>7, <2>8 DEF CallBody
<1>7. ASSUME HandleEvent PROVE CallBody'
  <2>1. /\ app = "idle" /\ events # <<>> /\ events' = Tail(events)
        /\ seen' = (IF Head(events).type = "STOPPED" THEN seen ELSE seen + 1)
        /\ UNCHANGED <<app, requests, prepared, cmds, replies, svc, request, gstSource, pair, sink,
                       crashed>>
    BY <1>7 DEF HandleEvent, FetchEventData, pipeVars
  <2>2. CommandOK' /\ SourceOK'
    BY <1>0, <2>1 DEF CommandOK, IdleOK, PrepareOK, InvokeOK, EndOK, SourceOK
  <2>3. Flying' = Flying /\ OldPairsEmpty'
    BY <1>0, <2>1, FlightUntouched
  <2>4. events \in Seq(Events) /\ Head(events) \in Events
    <3>1. events \in Seq(Events)
      BY TypedParts DEF SinkTyped
    <3> QED BY <2>1, <3>1, HeadTailProperties
  <2>5. Told = Told' + (IF Head(events) \in Verdicts THEN 1 ELSE 0)
    BY <2>1, <2>4, CountTail DEF Told
  <2>6. Head(events) \in Verdicts <=> Head(events).type # "STOPPED"
    BY <2>4 DEF Verdicts
  <2> DEFINE u == Told'
  <2>7. u \in Nat
    BY <1>0 DEF FlightTypes
  <2>8. seen' + Told' = seen + Told + 0
    <3>1. CASE Head(events).type = "STOPPED"
      <4>1. Told = u + 0 /\ seen' = seen
        BY <2>1, <2>5, <2>6, <3>1
      <4>2. seen + u = seen + (u + 0) + 0
        <5> HIDE DEF u
        <5> QED BY <1>01, <2>7
      <4> QED BY <4>1, <4>2, Zenon
    <3>2. CASE Head(events).type # "STOPPED"
      <4>1. Told = u + 1 /\ seen' = seen + 1
        BY <2>1, <2>5, <2>6, <3>2
      <4>2. seen + 1 + u = seen + (u + 1) + 0
        <5> HIDE DEF u
        <5> QED BY <1>01, <2>7
      <4> QED BY <4>1, <4>2, Zenon
    <3> QED BY <3>1, <3>2
  <2>9. ~Pending /\ ~Pending' /\ requests' = requests + 0
    BY <1>01, <2>1 DEF Pending
  <2>10. CountOK'
    BY <1>0, <2>3, <2>8, <2>9, CountStep
  <2> QED BY <1>0, <2>1, <2>2, <2>3, <2>10 DEF CallBody
<1>8. ASSUME Destroy PROVE CallBody'
  <2> DEFINE e == [id |-> "Exit", arg |-> None]
  <2>1. /\ app = "idle" /\ app' = "join" /\ ~Unanswered
        /\ UNCHANGED <<requests, seen, prepared, replies, svc, request, gstSource, pair, sink, events,
                       crashed>>
        /\ cmds' = Append(cmds, e)
    BY <1>8, <1>02 DEF Destroy, SendCommand, pipeVars, sinkVars
  <2>2. svc = "loop" /\ replies = <<>> /\ (cmds = <<>> \/ cmds = <<StopCommand>>)
    BY <1>0, <2>1 DEF CommandOK, IdleOK
  <2>3. requests <= seen
    BY <1>01, <2>1 DEF Unanswered
  <2>4. \/ cmds = <<>> /\ cmds' = <<e>>
        \/ cmds = <<StopCommand>> /\ cmds' = <<StopCommand, e>>
    BY <2>1, <2>2, Tuples
  <2>5. CommandOK'
    <3>1. Sent([id |-> "Exit", arg |-> None])'
      BY <2>4 DEF Sent, StopCommand
    <3> QED BY <2>1, <2>2, <2>3, <3>1 DEF CommandOK, IdleOK, PrepareOK, InvokeOK, EndOK
  <2>6. SourceOK'
    <3>1. cmds' # <<>> /\ Head(cmds').id = "Stop" => gstSource # None /\ ~prepared
      <4>1. CASE cmds = <<>>
        BY <1>03, <2>4, <4>1, Tuples
      <4>2. CASE cmds = <<StopCommand>>
        BY <1>0, <1>03, <4>2, Tuples DEF SourceOK
      <4> QED BY <2>2, <4>1, <4>2
    <3> QED BY <2>1, <3>1 DEF SourceOK
  <2>7. ~Pending /\ ~Pending'
    BY <2>1 DEF Pending
  <2>8. Flying' = Flying /\ Told' = Told /\ OldPairsEmpty'
    BY <1>0, <2>1, FlightUntouched
  <2>9. CountOK'
    BY <1>0, <2>1, <2>7, <2>8 DEF CountOK
  <2> QED BY <1>0, <2>1, <2>5, <2>6, <2>8, <2>9 DEF CallBody
<1>9. ASSUME DestroyJoined PROVE CallBody'
  <2>1. /\ app = "join" /\ app' = "gone" /\ svc = "exited" /\ gstSource' = None
        /\ UNCHANGED <<requests, seen, prepared, cmds, replies, svc, request, pair, sink, events,
                       crashed>>
    BY <1>9 DEF DestroyJoined, sinkVars
  <2>2. requests <= seen /\ cmds = <<>> /\ replies = <<>>
    BY <1>0, <2>1 DEF CommandOK, EndOK
  <2>3. CommandOK' /\ SourceOK'
    BY <2>1, <2>2 DEF CommandOK, IdleOK, PrepareOK, InvokeOK, EndOK, SourceOK
  <2>4. /\ \A g \in Pairs : InFlight(g) = 0
        /\ Told = 0 /\ Flying = 0 /\ ~Pending /\ requests = seen
    BY <1>0, <2>2, NothingInFlight
  <2>5. OldPairsEmpty' /\ Told' = Told
    BY <2>1, <2>4, FlightUntouched DEF OldPairsEmpty
  <2>6. Flying' = 0 /\ ~Pending'
    BY <2>1 DEF Flying, Pending
  <2>7. CountOK'
    BY <1>0, <2>1, <2>4, <2>5, <2>6 DEF CountOK
  <2> QED BY <1>0, <2>1, <2>3, <2>5, <2>7 DEF CallBody
<1> QED BY <1>1, <1>2, <1>3, <1>4, <1>5, <1>6, <1>7, <1>8, <1>9

\* The steps of the pipelines' thread, for a careful application.
LEMMA SvcCall ==
  ASSUME Typed, Typed', CallBody, Calm'
  PROVE  /\ SvcPrepare => CallBody'
         /\ SvcPrepareFails => CallBody'
         /\ SvcInvoke => CallBody'
         /\ SvcInvokeFails => CallBody'
         /\ SvcQueue => CallBody'
         /\ SvcStop => CallBody'
         /\ ~SvcNoSource
         /\ SvcExit => CallBody'
         /\ ~BusError
<1>0. /\ ~crashed /\ CommandOK /\ SourceOK /\ CountOK /\ OldPairsEmpty
      /\ FlightTypes /\ FlightTypes'
  BY FlightFacts, FlightFactsNext DEF CallBody
<1>01. seen \in Nat /\ requests \in Nat
  BY <1>0 DEF FlightTypes
<1>02. ~careless' /\ ~shifted'
  BY DEF Calm
<1>03. UNCHANGED appVars => UNCHANGED <<app, requests, seen, prepared>>
  BY DEF appVars
<1>1. ASSUME SvcPrepare \/ SvcPrepareFails PROVE CallBody'
  <2>1. /\ Command("Prepare") /\ UNCHANGED <<app, requests, seen, prepared>>
        /\ UNCHANGED <<svc, request, pair, sink, events, crashed>>
    BY <1>1, <1>03 DEF SvcPrepare, SvcPrepareFails, sinkVars
  <2>2. /\ cmds # <<>> /\ replies = <<>> /\ svc = "loop" /\ app = "Prepare" /\ requests <= seen
        /\ cmds' = <<>>
    BY <1>0, <2>1, HeadFacts
  <2>3. \E ok \in BOOLEAN : /\ replies' = Append(<<>>, [id |-> "Prepare", ok |-> ok])
                            /\ ok => gstSource' # None
    <3>1. CASE SvcPrepare
      <4>1. replies' = Append(<<>>, [id |-> "Prepare", ok |-> TRUE]) /\ gstSource' = pairs + 1
        BY <2>2, <3>1 DEF SvcPrepare, Reply
      <4>2. pairs + 1 # None
        BY TypedParts DEF CmdsTyped, None
      <4> QED BY <4>1, <4>2
    <3>2. CASE SvcPrepareFails
      <4>1. replies' = Append(<<>>, [id |-> "Prepare", ok |-> FALSE])
        BY <2>2, <3>2 DEF SvcPrepareFails, Reply
      <4> QED BY <4>1
    <3> QED BY <1>1, <3>1, <3>2
  <2>4. PICK ok \in BOOLEAN : /\ replies' = <<[id |-> "Prepare", ok |-> ok]>>
                              /\ ok => gstSource' # None
    BY <2>3, Tuples
  <2>5. Head(replies').ok = ok /\ Answered("Prepare")'
    BY <2>4, Tuples DEF Answered
  <2>6. CommandOK'
    BY <2>1, <2>2, <2>4, <2>5 DEF CommandOK, IdleOK, PrepareOK, InvokeOK, EndOK
  <2>7. SourceOK'
    BY <2>1, <2>2 DEF SourceOK
  <2>8. /\ \A g \in Pairs : InFlight(g) = 0
        /\ Told = 0 /\ Flying = 0 /\ ~Pending /\ requests = seen
    BY <1>0, <2>2, NothingInFlight
  <2>9. (\A g \in Pairs : InFlight(g)' = 0) /\ Told' = 0
    BY <2>1, <2>8, FlightUntouched
  <2>10. OldPairsEmpty' /\ Flying' = 0 /\ ~Pending'
    BY <1>0, <2>1, <2>2, <2>9 DEF OldPairsEmpty, Flying, FlightTypes, Pending
  <2>11. CountOK'
    BY <1>01, <2>1, <2>8, <2>9, <2>10 DEF CountOK
  <2> QED BY <1>0, <2>1, <2>6, <2>7, <2>10, <2>11 DEF CallBody
<1>2. ASSUME SvcInvoke PROVE CallBody'
  <2>1. /\ Command("Invoke") /\ UNCHANGED <<app, requests, seen, prepared>> /\ gstSource # None
        /\ UNCHANGED <<replies, gstSource, sink, events, crashed>>
        /\ svc' = "pushed" /\ request' = Head(cmds).arg
    BY <1>2, <1>03 DEF SvcInvoke, sinkVars
  <2>2. /\ cmds # <<>> /\ replies = <<>> /\ svc = "loop" /\ app = "Invoke" /\ cmds' = <<>>
        /\ prepared /\ requests # 0 /\ Head(cmds).arg = requests
    BY <1>0, <2>1, HeadFacts
  <2>3. CommandOK' /\ SourceOK'
    BY <2>1, <2>2 DEF CommandOK, IdleOK, PrepareOK, InvokeOK, EndOK, SourceOK
  <2>4. PICK g \in Pairs, lost \in Nat :
            /\ g = gstSource /\ gstSource' = g
            /\ \A k \in Pairs : k # g => pair'[k] = pair[k]
            /\ InPair(g)' \in Nat /\ InPair(g)' + lost = InPair(g) + 1
    BY <1>2, PushCounts
  <2>5. \A k \in Pairs : k # g => InFlight(k)' = InFlight(k)
    BY <2>1, <2>4, FlightKept
  <2>6. OldPairsEmpty'
    BY <1>0, <2>4, <2>5 DEF OldPairsEmpty
  <2>7. Pending /\ ~Pending'
    BY <2>1, <2>2 DEF Pending
  <2>8. Told' = Told
    BY <2>1 DEF Told
  <2> DEFINE i == InPair(g)
             j == InPair(g)'
             b == IF sink[g].at = "idle" THEN 0 ELSE 1
             t == Told
  <2>9. g # None
    BY DEF Pairs, None
  <2>10. Flying = i + b /\ Flying' = j + b
    BY <2>1, <2>4, <2>9 DEF Flying, InFlight
  <2>11. i \in Nat /\ j \in Nat /\ b \in Nat /\ t \in Nat /\ j + lost = i + 1
    BY <1>0, <2>4, TypedParts, PairFields DEF FlightTypes
  <2>12. seen + t + (i + b) + 1 <= requests
    BY <1>0, <2>7, <2>10 DEF CountOK
  <2>13. seen + t + (j + b) + 0 <= requests
    <3> HIDE DEF i, j, b, t
    <3> QED BY <1>01, <2>11, <2>12
  <2>14. CountOK'
    BY <2>1, <2>7, <2>8, <2>10, <2>13 DEF CountOK
  <2> QED BY <1>0, <2>1, <2>3, <2>6, <2>14 DEF CallBody
<1>3. ASSUME SvcInvokeFails PROVE CallBody'
  <2>1. /\ Command("Invoke") /\ UNCHANGED <<app, requests, seen, prepared>> /\ gstSource # None
        /\ UNCHANGED <<svc, request, gstSource, pair, sink, events, crashed>>
        /\ replies' = Append(replies, [id |-> "Invoke", ok |-> FALSE])
    BY <1>3, <1>03 DEF SvcInvokeFails, sinkVars, pipeVars, Reply
  <2>2. /\ cmds # <<>> /\ replies = <<>> /\ svc = "loop" /\ app = "Invoke" /\ cmds' = <<>>
        /\ prepared /\ requests # 0
    BY <1>0, <2>1, HeadFacts
  <2>3. replies' = <<[id |-> "Invoke", ok |-> FALSE]>>
    BY <2>1, <2>2, Tuples
  <2>4. Answered("Invoke")' /\ Pending'
    <3>1. Head(replies') = [id |-> "Invoke", ok |-> FALSE] /\ replies' # <<>>
      BY <2>3, Tuples, Zenon
    <3>2. ~Head(replies').ok
      BY <3>1
    <3>3. Answered("Invoke")'
      BY <2>3 DEF Answered
    <3> QED BY <2>1, <2>2, <3>1, <3>2, <3>3 DEF Pending
  <2>5. CommandOK' /\ SourceOK'
    BY <2>1, <2>2, <2>4 DEF CommandOK, IdleOK, PrepareOK, InvokeOK, EndOK, SourceOK
  <2>6. Flying' = Flying /\ Told' = Told /\ OldPairsEmpty'
    BY <1>0, <2>1, FlightUntouched
  <2>7. Pending
    BY <2>2 DEF Pending
  <2>8. CountOK'
    BY <1>0, <2>1, <2>4, <2>6, <2>7 DEF CountOK
  <2> QED BY <1>0, <2>1, <2>5, <2>6, <2>8 DEF CallBody
<1>4. ASSUME SvcQueue PROVE CallBody'
  <2>1. /\ svc = "pushed" /\ svc' = "loop" /\ UNCHANGED <<app, requests, seen, prepared>>
        /\ UNCHANGED <<cmds, gstSource, pair, sink, events, crashed>>
        /\ replies' = Append(replies, [id |-> "Invoke", ok |-> TRUE])
    BY <1>4, <1>03 DEF SvcQueue, sinkVars, Reply
  <2>2. app = "Invoke"
    <3>1. app \in {"idle", "Prepare", "Invoke", "join", "gone"}
      BY TypedParts DEF AppTyped
    <3> QED BY <1>0, <2>1, <3>1 DEF CommandOK, IdleOK, PrepareOK, EndOK
  <2>3. replies = <<>> /\ cmds = <<>> /\ prepared /\ requests # 0
    BY <1>0, <2>1, <2>2 DEF CommandOK, InvokeOK
  <2>4. replies' = <<[id |-> "Invoke", ok |-> TRUE]>>
    BY <2>1, <2>3, Tuples
  <2>5. Answered("Invoke")' /\ ~Pending'
    <3>1. Head(replies') = [id |-> "Invoke", ok |-> TRUE]
      BY <2>4, Tuples, Zenon
    <3>2. Head(replies').ok
      BY <3>1
    <3>3. Answered("Invoke")'
      BY <2>4 DEF Answered
    <3> QED BY <2>1, <2>3, <3>2, <3>3 DEF Pending
  <2>6. CommandOK' /\ SourceOK'
    BY <1>0, <2>1, <2>2, <2>3, <2>5 DEF CommandOK, IdleOK, PrepareOK, InvokeOK, EndOK, SourceOK
  <2>7. Flying' = Flying /\ Told' = Told /\ OldPairsEmpty'
    BY <1>0, <2>1, FlightUntouched
  <2>8. ~Pending
    BY <2>3 DEF Pending
  <2>9. CountOK'
    BY <1>0, <2>1, <2>5, <2>7, <2>8 DEF CountOK
  <2> QED BY <1>0, <2>1, <2>6, <2>7, <2>9 DEF CallBody
<1>5. ASSUME SvcStop PROVE CallBody'
  <2>1. /\ Command("Stop") /\ UNCHANGED <<app, requests, seen, prepared>> /\ gstSource # None
        /\ UNCHANGED <<replies, svc, request, gstSource, sink, crashed>>
        /\ pair' = [pair EXCEPT ![gstSource] = Paused(pair[gstSource])]
        /\ events' = StateChanged(pair[gstSource])
    BY <1>5, <1>03 DEF SvcStop
  <2>2. /\ cmds # <<>> /\ replies = <<>> /\ svc = "loop" /\ ~prepared
        /\ \/ app = "idle" /\ cmds' = <<>>
           \/ app = "Prepare" /\ requests <= seen /\ cmds' = <<PrepareCommand>>
           \/ app = "join" /\ requests <= seen /\ cmds' = <<[id |-> "Exit", arg |-> None]>>
    BY <1>0, <2>1, HeadFacts
  <2>3. CommandOK'
    <3>1. CASE app = "idle" /\ cmds' = <<>>
      BY <2>1, <2>2, <3>1 DEF CommandOK, IdleOK, PrepareOK, InvokeOK, EndOK
    <3>2. CASE app = "Prepare" /\ requests <= seen /\ cmds' = <<PrepareCommand>>
      <4>1. Sent(PrepareCommand)'
        BY <3>2 DEF Sent, PrepareCommand
      <4> QED BY <2>1, <2>2, <3>2, <4>1 DEF CommandOK, IdleOK, PrepareOK, InvokeOK, EndOK
    <3>3. CASE app = "join" /\ requests <= seen /\ cmds' = <<[id |-> "Exit", arg |-> None]>>
      <4>1. Sent([id |-> "Exit", arg |-> None])'
        BY <3>3 DEF Sent
      <4> QED BY <2>1, <2>2, <3>3, <4>1 DEF CommandOK, IdleOK, PrepareOK, InvokeOK, EndOK
    <3> QED BY <2>2, <3>1, <3>2, <3>3
  <2>4. SourceOK'
    BY <2>1, <2>2 DEF SourceOK
  <2>5. \A k \in Pairs : InFlight(k)' = InFlight(k)
    <3>1. pair \in [Pairs -> PairRecord]
      BY TypedParts DEF PairTyped
    <3>2. \A k \in Pairs : /\ pair'[k].slot = pair[k].slot
                           /\ pair'[k].wire = pair[k].wire
                           /\ pair'[k].answers = pair[k].answers
      BY <2>1, <3>1 DEF Paused, PairRecord
    <3> QED BY <2>1, <3>2 DEF InFlight, InPair
  <2>6. Told' = Told
    <3>1. CASE events' = events
      BY <3>1 DEF Told
    <3>2. CASE events' = Append(events, [type |-> "STOPPED", request |-> None])
      <4>1. None \in 0..MaxRequests /\ "STOPPED" \in EventTypes
        BY BoundsAssumption DEF None, EventTypes
      <4>2. Told' = Told + 0
        BY <3>2, <4>1, ToldAppend
      <4> QED BY <1>0, <4>2 DEF FlightTypes
    <3> QED BY <2>1, <3>1, <3>2 DEF StateChanged
  <2>7. OldPairsEmpty'
    BY <1>0, <2>1, <2>5 DEF OldPairsEmpty
  <2>8. Flying' = Flying
    BY <1>0, <2>1, <2>5 DEF Flying, FlightTypes
  <2>9. ~Pending /\ ~Pending'
    BY <2>1, <2>2 DEF Pending
  <2>10. CountOK'
    BY <1>0, <2>1, <2>6, <2>8, <2>9 DEF CountOK
  <2> QED BY <1>0, <2>1, <2>3, <2>4, <2>7, <2>10 DEF CallBody
<1>6. ~SvcNoSource
  <2> SUFFICES ASSUME SvcNoSource PROVE FALSE
    OBVIOUS
  <2>1. gstSource = None /\ (Command("Invoke") \/ Command("Stop"))
    BY DEF SvcNoSource
  <2>2. CASE Command("Invoke")
    <3>1. app = "Invoke" /\ prepared
      BY <1>0, <2>2, HeadFacts
    <3> QED BY <1>0, <2>1, <3>1 DEF SourceOK
  <2>3. CASE Command("Stop")
    BY <1>0, <2>1, <2>3, HeadFacts
  <2> QED BY <2>1, <2>2, <2>3
<1>7. ASSUME SvcExit PROVE CallBody'
  <2>1. /\ Command("Exit") /\ UNCHANGED <<app, requests, seen, prepared>> /\ svc' = "exited"
        /\ UNCHANGED <<replies, request, gstSource, pair, sink, events, crashed>>
    BY <1>7, <1>03 DEF SvcExit, pipeVars, sinkVars
  <2>2. app = "join" /\ requests <= seen /\ cmds' = <<>> /\ replies = <<>>
    BY <1>0, <2>1, HeadFacts
  <2>3. CommandOK' /\ SourceOK'
    BY <1>0, <2>1, <2>2 DEF CommandOK, IdleOK, PrepareOK, InvokeOK, EndOK, SourceOK
  <2>4. Flying' = Flying /\ Told' = Told /\ OldPairsEmpty'
    BY <1>0, <2>1, FlightUntouched
  <2>5. ~Pending /\ ~Pending'
    BY <2>1, <2>2 DEF Pending
  <2>6. CountOK'
    BY <1>0, <2>1, <2>4, <2>5 DEF CountOK
  <2> QED BY <1>0, <2>1, <2>3, <2>4, <2>6 DEF CallBody
<1>8. ~BusError
  BY <1>02 DEF BusError
<1> QED BY <1>1, <1>2, <1>3, <1>4, <1>5, <1>6, <1>7, <1>8

\* A calm state stays in order.
LEMMA CallStep ==
  ASSUME Typed, CallBody, [Next]_vars, Calm'
  PROVE  CallBody'
<1>0. Typed'
  BY TypedStep
<1>1. CASE Next
  BY <1>0, <1>1, AppCall, SvcCall, FramesCall, SinkCall DEF Next
<1>2. CASE UNCHANGED vars
  <2>1. /\ UNCHANGED <<app, requests, seen, prepared, cmds, replies, svc, request, gstSource>>
        /\ UNCHANGED <<pair, sink, events, crashed>>
    BY <1>2 DEF vars
  <2>2. CommandOK' /\ SourceOK'
    BY <2>1 DEF CallBody, CommandOK, IdleOK, PrepareOK, InvokeOK, EndOK, SourceOK, Sent, Answered
  <2>3. Flying' = Flying /\ Told' = Told /\ OldPairsEmpty'
    BY <2>1, FlightUntouched DEF CallBody
  <2>4. CountOK'
    BY <2>1, <2>3 DEF CallBody, CountOK, Pending
  <2> QED BY <2>1, <2>2, <2>3, <2>4 DEF CallBody
<1> QED BY <1>1, <1>2

\* CallOK is inductive.
LEMMA CallOKStep == Typed /\ CallOK /\ [Next]_vars => CallOK'
<1> SUFFICES ASSUME Typed, CallOK, [Next]_vars, Calm' PROVE CallBody'
  BY DEF CallOK, CallBody
<1>1. Calm
  BY CalmBefore
<1>2. CallBody
  BY <1>1 DEF CallOK, CallBody
<1> QED BY <1>2, CallStep

\* At first there is no call.
LEMMA CallOKInit == Init => CallOK
<1> SUFFICES ASSUME Init PROVE CallBody
  BY DEF CallOK, CallBody
<1>1. /\ ~crashed /\ ~prepared /\ app = "idle" /\ svc = "loop" /\ replies = <<>> /\ cmds = <<>>
      /\ gstSource = None /\ requests = 0 /\ seen = 0 /\ events = <<>>
      /\ pair = [g \in Pairs |-> NewPair] /\ sink = [g \in Pairs |-> IdleSink]
  BY DEF Init, EventPipe
<1>2. CommandOK /\ SourceOK
  BY <1>1 DEF CommandOK, IdleOK, PrepareOK, InvokeOK, EndOK, SourceOK
<1>3. \A g \in Pairs : InFlight(g) = 0
  BY <1>1 DEF InFlight, InPair, NewPair, IdleSink
<1>4. OldPairsEmpty
  BY <1>3 DEF OldPairsEmpty
<1>5. Told = 0
  <2>1. events \in Seq(Events)
    BY <1>1
  <2> QED BY <1>1, <2>1, CountType DEF Told
<1>6. CountOK
  BY <1>1, <1>5 DEF CountOK, Flying, Pending
<1> QED BY <1>1, <1>2, <1>4, <1>6 DEF CallBody

\* An application that prepares before it invokes, and that stops, prepares or
\* deactivates its peer only when all its requests have been answered, makes no
\* thread use a null source (CommandHandlerInvoke(), CommandHandlerStop()) or a
\* deleted client (NewDataHandler()), unless a call or an event has gone missing.
THEOREM CrashNeedsCarelessHolds == Spec => []CrashNeedsCareless
<1>1. Init => Typed /\ CallOK
  BY TypedInit, CallOKInit
<1>2. Typed /\ CallOK /\ [Next]_vars => (Typed /\ CallOK)'
  BY TypedStep, CallOKStep
<1>3. CallOK => CrashNeedsCareless
  BY DEF CallOK, Calm, CrashNeedsCareless
<1> QED BY <1>1, <1>2, <1>3, PTL DEF Spec

----------------------------------------------------------------------------
(* Whose answer a request gets.                                            *)

\* The first element of a concatenation.
LEMMA ConcatHeadTail ==
  ASSUME NEW T, NEW s \in Seq(T), NEW t \in Seq(T), s # <<>>
  PROVE  s \o t # <<>> /\ Head(s \o t) = Head(s) /\ Tail(s \o t) = Tail(s) \o t
<1> DEFINE q == s \o t
           r == Tail(s) \o t
           n == Len(s)
           m == Len(t)
<1>1. n \in Nat /\ m \in Nat /\ n # 0 /\ Tail(s) \in Seq(T) /\ Len(Tail(s)) = n - 1
  OBVIOUS
<1>2. q \in Seq(T) /\ Len(q) = n + m
      /\ \A i \in 1..(n + m) : q[i] = IF i <= n THEN s[i] ELSE t[i - n]
  BY ConcatProperties
<1>3. r \in Seq(T) /\ Len(r) = (n - 1) + m
      /\ \A i \in 1..((n - 1) + m) : r[i] = IF i <= n - 1 THEN Tail(s)[i] ELSE t[i - (n - 1)]
  BY <1>1, ConcatProperties
<1>4. Head(s) = s[1] /\ \A i \in 1..(n - 1) : Tail(s)[i] = s[i + 1]
  BY <1>1, HeadTailProperties
<1> HIDE DEF q, r, n, m
<1>5. q # <<>>
  BY <1>1, <1>2, Lengths
<1>6. Tail(q) \in Seq(T) /\ Len(Tail(q)) = (n + m) - 1 /\ Head(q) = q[1]
      /\ \A i \in 1..((n + m) - 1) : Tail(q)[i] = q[i + 1]
  BY <1>1, <1>2, <1>5, HeadTailProperties
<1>7. Head(q) = Head(s)
  BY <1>1, <1>2, <1>4, <1>6
<1>8. Len(Tail(q)) = Len(r)
  BY <1>1, <1>3, <1>6
<1>9. \A i \in 1..Len(Tail(q)) : Tail(q)[i] = r[i]
  <2> SUFFICES ASSUME NEW i \in 1..((n + m) - 1) PROVE Tail(q)[i] = r[i]
    BY <1>6
  <2>1. i + 1 \in 1..(n + m) /\ i \in 1..((n - 1) + m) /\ i \in Nat
    BY <1>1
  <2>2. CASE i <= n - 1
    <3>1. i + 1 <= n /\ i \in 1..(n - 1)
      BY <1>1, <2>1, <2>2
    <3> QED BY <1>2, <1>3, <1>4, <1>6, <2>1, <2>2, <3>1
  <2>3. CASE ~(i <= n - 1)
    <3>1. ~(i + 1 <= n) /\ (i + 1) - n = i - (n - 1)
      BY <1>1, <2>1, <2>3
    <3> QED BY <1>2, <1>3, <1>6, <2>1, <2>3, <3>1
  <2> QED BY <2>2, <2>3
<1>10. Tail(q) = r
  BY <1>3, <1>6, <1>8, <1>9, SeqEqual
<1> QED BY <1>5, <1>7, <1>10 DEF q, r

\* The head of the second part goes over to the first.
LEMMA ConcatShift ==
  ASSUME NEW T, NEW s \in Seq(T), NEW t \in Seq(T), t # <<>>
  PROVE  Append(s, Head(t)) \o Tail(t) = s \o t
<1> DEFINE h == Head(t)
           u == Tail(t)
<1>1. h \in T /\ u \in Seq(T) /\ <<h>> \in Seq(T)
  OBVIOUS
<1>2. <<h>> \o u = t
  <2>1. Head(<<h>>) = h /\ Tail(<<h>>) = <<>> /\ <<h>> # <<>>
    BY Tuples
  <2> DEFINE v == <<h>> \o u
  <2>2. v # <<>> /\ Head(v) = h /\ Tail(v) = <<>> \o u /\ v \in Seq(T)
    <3> DEFINE o == <<h>>
    <3>1. o \in Seq(T) /\ o # <<>> /\ Head(o) = h /\ Tail(o) = <<>>
      BY <1>1, <2>1
    <3> HIDE DEF o, h, u
    <3>2. o \o u # <<>> /\ Head(o \o u) = Head(o) /\ Tail(o \o u) = Tail(o) \o u
      BY <1>1, <3>1, ConcatHeadTail
    <3>3. o \o u \in Seq(T)
      BY <1>1, <3>1, ConcatProperties
    <3> QED BY <3>1, <3>2, <3>3 DEF o
  <2>3. Tail(v) = u
    BY <1>1, <2>2, ConcatEmptySeq
  <2> HIDE DEF v
  <2>4. /\ Len(v) \in Nat /\ Len(v) # 0 /\ Head(v) = v[1] /\ Len(Tail(v)) = Len(v) - 1
        /\ \A i \in 1..(Len(v) - 1) : Tail(v)[i] = v[i + 1]
    BY <2>2
  <2>5. /\ Len(t) \in Nat /\ Len(t) # 0 /\ Head(t) = t[1] /\ Len(Tail(t)) = Len(t) - 1
        /\ \A i \in 1..(Len(t) - 1) : Tail(t)[i] = t[i + 1]
    OBVIOUS
  <2>6. Len(v) = Len(t)
    <3> DEFINE n == Len(v)
               m == Len(t)
               k == Len(u)
    <3>1. n \in Nat /\ m \in Nat /\ k = n - 1 /\ k = m - 1
      BY <2>3, <2>4, <2>5
    <3> HIDE DEF n, m, k
    <3>2. n = m
      BY <3>1
    <3> QED BY <3>2 DEF n, m
  <2>7. \A i \in 1..Len(v) : v[i] = t[i]
    <3> SUFFICES ASSUME NEW i \in 1..Len(v) PROVE v[i] = t[i]
      OBVIOUS
    <3>1. CASE i = 1
      BY <2>2, <2>4, <2>5, <3>1
    <3>2. CASE i # 1
      <4>1. i - 1 \in 1..(Len(v) - 1) /\ (i - 1) + 1 = i
        BY <2>4, <3>2
      <4> QED BY <2>3, <2>4, <2>5, <2>6, <4>1
    <3> QED BY <3>1, <3>2
  <2> QED BY <2>2, <2>6, <2>7, SeqEqual DEF v
<1> HIDE DEF h, u
<1>3. Append(s, h) = s \o <<h>>
  BY <1>1, AppendIsConcat
<1>4. (s \o <<h>>) \o u = s \o (<<h>> \o u)
  BY <1>1, ConcatAssociative
<1> QED BY <1>2, <1>3, <1>4 DEF h, u

\* Sequences of numbers that grow.
LEMMA IncreasingFacts ==
  ASSUME NEW s \in Seq(Requests), Increasing(s)
  PROVE  /\ \A x \in Requests : (\A i \in 1..Len(s) : s[i] < x) => Increasing(Append(s, x))
         /\ s # <<>> => /\ Increasing(Tail(s))
                        /\ \A i \in 1..Len(Tail(s)) : Head(s) < Tail(s)[i]
<1>1. ASSUME NEW x \in Requests, \A i \in 1..Len(s) : s[i] < x PROVE Increasing(Append(s, x))
  BY <1>1 DEF Increasing
<1>2. ASSUME s # <<>>
      PROVE  Increasing(Tail(s)) /\ \A i \in 1..Len(Tail(s)) : Head(s) < Tail(s)[i]
  <2>1. /\ Len(s) \in Nat /\ Len(s) # 0 /\ Head(s) = s[1] /\ Len(Tail(s)) = Len(s) - 1
        /\ \A i \in 1..(Len(s) - 1) : Tail(s)[i] = s[i + 1]
    BY <1>2
  <2>2. \A i \in 1..(Len(s) - 1) : i + 1 \in 1..Len(s) /\ 1 \in 1..Len(s) /\ 1 < i + 1
    BY <2>1
  <2>3. \A i, j \in 1..(Len(s) - 1) : i < j => i + 1 < j + 1
    BY <2>1
  <2>4. Increasing(Tail(s))
    BY <2>1, <2>2, <2>3 DEF Increasing
  <2> QED BY <2>1, <2>2, <2>4 DEF Increasing
<1> QED BY <1>1, <1>2

\* The frames of a pair.
LEMMA FramesFacts ==
  ASSUME Typed, NEW g \in Pairs
  PROVE  /\ Frames(g) \in Seq(Requests)
         /\ Len(Frames(g)) = InPair(g)
         /\ InFlight(g) = 0 => Frames(g) = <<>>
<1> DEFINE a == pair[g].answers
           w == pair[g].wire
           s == pair[g].slot
<1>1. a \in Seq(Requests) /\ w \in Seq(Requests) /\ s \in Seq(Requests) /\ InPair(g) \in Nat
  BY TypedParts, PairFields
<1>2. a \o w \in Seq(Requests) /\ Len(a \o w) = Len(a) + Len(w)
  BY <1>1, ConcatProperties
<1>3. /\ (a \o w) \o s \in Seq(Requests)
      /\ Len((a \o w) \o s) = (Len(a) + Len(w)) + Len(s)
  BY <1>1, <1>2, ConcatProperties
<1>4. Len(a) \in Nat /\ Len(w) \in Nat /\ Len(s) \in Nat
  BY <1>1, LenProperties
<1>5. InPair(g) = Len(s) + Len(w) + Len(a)
  BY DEF InPair
<1>6. (Len(a) + Len(w)) + Len(s) = Len(s) + Len(w) + Len(a)
  <2> HIDE DEF a, w, s
  <2>1. \A i, j, k \in Nat : (i + j) + k = k + j + i
    OBVIOUS
  <2> QED BY <1>4, <2>1
<1>7. Len(Frames(g)) = InPair(g) /\ Frames(g) \in Seq(Requests)
  BY <1>3, <1>5, <1>6, Zenon DEF Frames
<1>8. InFlight(g) = 0 => InPair(g) = 0
  BY <1>1 DEF InFlight
<1>9. Len(Frames(g)) = 0 => Frames(g) = <<>>
  BY <1>7, Lengths
<1> QED BY <1>7, <1>8, <1>9

\* GStreamer, the network and the server keep the frames in order.
LEMMA FramesKept ==
  ASSUME Typed, NEW g \in Pairs, Transmit(g) \/ Serve(g)
  PROVE  \A k \in Pairs : Frames(k)' = Frames(k)
<1> DEFINE a == pair[g].answers
           w == pair[g].wire
           s == pair[g].slot
<1>1. /\ a \in Seq(Requests) /\ w \in Seq(Requests) /\ s \in Seq(Requests)
      /\ pair \in [Pairs -> PairRecord]
  BY TypedParts, PairFields DEF PairTyped
<1>2. \A k \in Pairs : k # g => Frames(k)' = Frames(k)
  BY FrameCounts DEF Frames
<1>3. CASE Transmit(g)
  <2>1. pair'[g].slot = <<>> /\ pair'[g].wire = w \o s /\ pair'[g].answers = a
    BY <1>1, <1>3 DEF Transmit, PairRecord
  <2>2. Frames(g)' = (a \o (w \o s)) \o <<>>
    BY <2>1 DEF Frames
  <2> HIDE DEF a, w, s
  <2>3. w \o s \in Seq(Requests)
    BY <1>1, ConcatProperties
  <2>4. a \o (w \o s) \in Seq(Requests)
    BY <1>1, <2>3, ConcatProperties
  <2>5. (a \o (w \o s)) \o <<>> = a \o (w \o s)
    BY <2>4, ConcatEmptySeq
  <2>6. (a \o w) \o s = a \o (w \o s)
    BY <1>1, ConcatAssociative
  <2>7. Frames(g) = (a \o w) \o s
    BY DEF Frames, a, w, s
  <2>8. Frames(g)' = Frames(g)
    BY <2>2, <2>5, <2>6, <2>7
  <2> QED BY <1>2, <2>8
<1>4. CASE Serve(g)
  <2>1. /\ pair'[g].slot = s /\ pair'[g].wire = Tail(w) /\ pair'[g].answers = Append(a, Head(w))
        /\ w # <<>>
    BY <1>1, <1>4 DEF Serve, PairRecord
  <2>2. Frames(g)' = (Append(a, Head(w)) \o Tail(w)) \o s
    BY <2>1 DEF Frames
  <2> HIDE DEF a, w, s
  <2>3. Append(a, Head(w)) \o Tail(w) = a \o w
    BY <1>1, <2>1, ConcatShift
  <2>4. Frames(g) = (a \o w) \o s
    BY DEF Frames, a, w, s
  <2>5. Frames(g)' = Frames(g)
    BY <2>2, <2>3, <2>4
  <2> QED BY <1>2, <2>5
<1> QED BY <1>3, <1>4

\* An answer that arrives is the oldest frame.
LEMMA FramesPopped ==
  ASSUME Typed, NEW g \in Pairs, Arrives(g)
  PROVE  /\ Frames(g) # <<>> /\ Head(Frames(g)) = Head(pair[g].answers)
         /\ Frames(g)' = Tail(Frames(g))
         /\ \A k \in Pairs : k # g => Frames(k)' = Frames(k)
<1> DEFINE a == pair[g].answers
           w == pair[g].wire
           s == pair[g].slot
<1>1. /\ a \in Seq(Requests) /\ w \in Seq(Requests) /\ s \in Seq(Requests) /\ a # <<>>
      /\ pair[g] \in PairRecord
  BY TypedParts, PairFields DEF Arrives
<1>2. pair'[g].slot = s /\ pair'[g].wire = w /\ pair'[g].answers = Tail(a)
  BY <1>1, ArrivesCounts DEF PairRecord
<1>3. Frames(g) = (a \o w) \o s /\ Frames(g)' = (Tail(a) \o w) \o s
  BY <1>2 DEF Frames
<1>4. \A k \in Pairs : k # g => Frames(k)' = Frames(k)
  BY ArrivesCounts DEF Frames
<1> HIDE DEF a, w, s
<1> DEFINE q == a \o w
<1>5. q \in Seq(Requests) /\ q # <<>> /\ Head(q) = Head(a) /\ Tail(q) = Tail(a) \o w
  BY <1>1, ConcatHeadTail, ConcatProperties
<1> HIDE DEF q
<1>6. q \o s # <<>> /\ Head(q \o s) = Head(q) /\ Tail(q \o s) = Tail(q) \o s
  BY <1>1, <1>5, ConcatHeadTail
<1>7. Frames(g) = q \o s
  BY <1>3 DEF q
<1>8. Frames(g) # <<>> /\ Head(Frames(g)) = Head(a) /\ Frames(g)' = Tail(Frames(g))
  BY <1>3, <1>5, <1>6, <1>7
<1> QED BY <1>4, <1>8 DEF a

\* A frame that is pushed while none is in the leaky queue is the newest.
LEMMA FramesPushed ==
  ASSUME Typed, SvcInvoke, missing = 0, missing' = 0
  PROVE  /\ gstSource \in Pairs
         /\ Frames(gstSource)' = Append(Frames(gstSource), Head(cmds).arg)
<1>1. PICK g \in Pairs, lost \in Nat :
            /\ g = gstSource /\ gstSource' = g
            /\ lost = Len(pair[g].slot) /\ missing' = missing + lost
            /\ pair'[g].slot = <<Head(cmds).arg>>
            /\ pair'[g].wire = pair[g].wire /\ pair'[g].answers = pair[g].answers
  BY PushCounts
<1> DEFINE a == pair[g].answers
           w == pair[g].wire
           s == pair[g].slot
           x == Head(cmds).arg
<1>2. a \in Seq(Requests) /\ w \in Seq(Requests) /\ s \in Seq(Requests)
  BY TypedParts, PairFields
<1>3. s = <<>>
  <2>1. Len(s) = 0
    BY <1>1
  <2> QED BY <1>2, <2>1, Lengths
<1>4. x \in Requests
  <2>1. Head(cmds).id = "Invoke" /\ cmds # <<>>
    BY DEF SvcInvoke, Command
  <2>2. cmds \in Seq(Commands)
    BY TypedParts DEF CmdsTyped
  <2>3. Head(cmds) \in Commands
    BY <2>1, <2>2
  <2> QED BY <2>1, <2>3 DEF Commands
<1>5. Frames(g) = (a \o w) \o <<>> /\ Frames(g)' = (a \o w) \o <<x>>
  BY <1>1, <1>3 DEF Frames
<1> HIDE DEF a, w, s, x
<1>6. a \o w \in Seq(Requests)
  BY <1>2, ConcatProperties
<1>7. (a \o w) \o <<>> = a \o w /\ Append(a \o w, x) = (a \o w) \o <<x>>
  BY <1>4, <1>6, ConcatEmptySeq, AppendIsConcat
<1>8. Frames(g)' = Append(Frames(g), x)
  BY <1>5, <1>7
<1>9. Frames(gstSource)' = Frames(g)'
  BY <1>1 DEF Frames
<1> QED BY <1>1, <1>8, <1>9 DEF x

\* What OrderOK says beside FramesMatch.
RestOrder == AwaitedOK /\ SinkOK /\ OutputOK /\ EventsOK

\* The numbers that the order compares.
OrderTypes ==
    /\ Awaited \in Seq(Requests) /\ output \in Seq(Requests) /\ events \in Seq(Events)
    /\ \A j \in 1..Len(Awaited) : Awaited[j] \in Nat
    /\ \A k \in 1..Len(output) : output[k] \in Nat
    /\ \A i \in 1..Len(events) : events[i].request \in Nat
    /\ \A g \in Pairs : sink[g].at # "idle" => sink[g].frame \in Requests /\ sink[g].request \in Requests
    /\ Taken \in Int /\ Len(events) \in Nat /\ Len(output) \in Nat /\ Len(Awaited) \in Nat

\* They are numbers.
LEMMA OrderFacts == Typed => OrderTypes
<1> SUFFICES ASSUME Typed PROVE OrderTypes
  OBVIOUS
<1>1. output \in Seq(Requests) /\ events \in Seq(Events) /\ requestQueue \in Seq(Requests)
  BY TypedParts DEF SinkTyped, PairTyped
<1>2. svc = "pushed" => request \in Requests
  BY TypedParts DEF SvcTyped, Requests, None
<1>3. Awaited \in Seq(Requests)
  BY <1>1, <1>2 DEF Awaited
<1>4. Requests \subseteq Nat
  BY DEF Requests
<1>5. \A i \in 1..Len(events) : events[i].request \in Nat
  <2> SUFFICES ASSUME NEW i \in 1..Len(events) PROVE events[i].request \in Nat
    OBVIOUS
  <2>1. events[i] \in Events
    BY <1>1, ElementOfSeq
  <2> QED BY <2>1 DEF Events
<1>6. \A k \in 1..Len(output) : output[k] \in Nat
  BY <1>1, <1>4, ElementOfSeq
<1>7. \A j \in 1..Len(Awaited) : Awaited[j] \in Nat
  BY <1>3, <1>4, ElementOfSeq
<1>8. \A g \in Pairs : sink[g].at # "idle" => sink[g].frame \in Requests /\ sink[g].request \in Requests
  BY TypedParts, SinkFields
<1>9. Taken \in Int
  BY TypedParts DEF AppTyped, Taken
<1>10. Len(events) \in Nat /\ Len(output) \in Nat /\ Len(Awaited) \in Nat
  BY <1>1, <1>3, LenProperties
<1> QED BY <1>1, <1>3, <1>5, <1>6, <1>7, <1>8, <1>9, <1>10 DEF OrderTypes

\* They are numbers in the next state.
LEMMA OrderFactsNext == Typed' => OrderTypes'
  BY OrderFacts, PTL

\* Svc does not take back a request it has looked at.
LEMMA TakenKept ==
  ASSUME Typed, requests' = requests,
         app' # "Invoke" \/ (app' = app /\ (cmds = <<>> => cmds' = <<>>))
  PROVE  Taken <= Taken'
<1>1. requests \in Nat
  BY FlightFacts DEF FlightTypes
<1> QED BY <1>1 DEF Taken

\* Nor does any step.
LEMMA TakenStep == Typed /\ [Next]_vars => Taken <= Taken'
<1> SUFFICES ASSUME Typed, [Next]_vars PROVE Taken <= Taken'
  OBVIOUS
<1>0. requests \in Nat
  BY FlightFacts DEF FlightTypes
<1>1. CASE Prepare \/ PrepareRefused \/ CallReturns \/ CallInterrupted
  <2>1. requests' = requests /\ app' # "Invoke"
    BY <1>1 DEF Prepare, PrepareRefused, CallReturns, CallInterrupted, Serviceable
  <2> QED BY <2>1, TakenKept
<1>2. CASE Stop \/ HandleEvent \/ Destroy \/ DestroyJoined
  <2>1. requests' = requests /\ app' # "Invoke"
    BY <1>2 DEF Stop, HandleEvent, Destroy, DestroyJoined, Serviceable
  <2> QED BY <2>1, TakenKept
<1>3. CASE Invoke
  <2>1. app = "idle" /\ requests' = requests + 1
    BY <1>3 DEF Invoke, Serviceable, NextInput
  <2> QED BY <1>0, <2>1 DEF Taken
<1>4. CASE SvcPrepare \/ SvcPrepareFails \/ SvcInvoke \/ SvcInvokeFails
  <2>1. requests' = requests /\ app' = app /\ cmds # <<>>
    BY <1>4 DEF SvcPrepare, SvcPrepareFails, SvcInvoke, SvcInvokeFails, Command, appVars
  <2> QED BY <2>1, TakenKept
<1>5. CASE SvcStop \/ SvcNoSource \/ SvcExit
  <2>1. requests' = requests /\ app' = app /\ cmds # <<>>
    BY <1>5 DEF SvcStop, SvcNoSource, SvcExit, Command, appVars
  <2> QED BY <2>1, TakenKept
<1>6. CASE SvcQueue \/ BusError \/ UNCHANGED vars
  <2>1. requests' = requests /\ app' = app /\ cmds' = cmds
    BY <1>6 DEF SvcQueue, BusError, appVars, vars
  <2> QED BY <2>1, TakenKept
<1>7. ASSUME NEW g \in Pairs, \/ Transmit(g) \/ LoseFrame(g) \/ Serve(g) \/ SinkPop(g)
                              \/ SinkFindsNone(g) \/ SinkRefuses(g) \/ SinkSend(g)
                              \/ SinkSendFails(g) \/ SinkPublish(g) \/ SinkPublishFails(g)
                              \/ SinkAfterDestroy(g)
      PROVE  Taken <= Taken'
  <2>1. UNCHANGED appVars /\ cmds' = cmds
    <3>1. CASE Transmit(g) \/ LoseFrame(g) \/ Serve(g)
      <4>1. UNCHANGED pairOnly
        BY <3>1 DEF Transmit, LoseFrame, Serve
      <4> QED BY <4>1 DEF pairOnly
    <3>2. CASE SinkPop(g) \/ SinkFindsNone(g) \/ SinkRefuses(g) \/ SinkAfterDestroy(g)
      BY <3>2 DEF SinkPop, SinkFindsNone, SinkRefuses, SinkAfterDestroy
    <3>3. CASE SinkSend(g) \/ SinkSendFails(g) \/ SinkPublish(g) \/ SinkPublishFails(g)
      <4>1. UNCHANGED sinkOnly
        BY <3>3 DEF SinkSend, SinkSendFails, SinkPublish, SinkPublishFails
      <4> QED BY <4>1 DEF sinkOnly
    <3> QED BY <1>7, <3>1, <3>2, <3>3
  <2> QED BY <2>1, TakenKept DEF appVars
<1> QED BY <1>1, <1>2, <1>3, <1>4, <1>5, <1>6, <1>7 DEF Next

\* A step that takes no request, no answer and no output, publishes nothing of an
\* answer, and lets a sink go on or give up.
LEMMA RestKept ==
  ASSUME OrderTypes, OrderTypes', RestOrder, Awaited' = Awaited, output' = output,
         Taken <= Taken',
         \A g \in Pairs : sink'[g] = sink[g] \/ (sink'[g].at = "idle" /\ sink[g].at # "sent"),
         \/ events' = events
         \/ \E e \in Events : e.type # "SUCCESS" /\ events' = Append(events, e)
  PROVE  RestOrder'
<1>1. /\ Len(events') \in Nat /\ Len(events) \in Nat /\ Len(events) <= Len(events')
      /\ \A i \in 1..Len(events') : Success(i)' => i \in 1..Len(events) /\ Success(i)
      /\ \A i \in 1..Len(events) : i \in 1..Len(events') /\ events'[i] = events[i]
      /\ \A i \in 1..Len(events) : Success(i) => Success(i)'
  <2>1. CASE events' = events
    BY <2>1 DEF OrderTypes, Success
  <2>2. ASSUME NEW e \in Events, e.type # "SUCCESS", events' = Append(events, e)
        PROVE  <1>1!:
    <3>1. /\ Len(events) \in Nat /\ Len(events') = Len(events) + 1
          /\ events'[Len(events) + 1] = e
          /\ \A i \in 1..Len(events) : events'[i] = events[i]
      BY <2>2, AppendProperties DEF OrderTypes
    <3> QED BY <2>2, <3>1 DEF Success
  <2> QED BY <2>1, <2>2
<1>2. AwaitedOK'
  <2>1. \A j \in 1..Len(Awaited) : Awaited[j] <= Taken'
    BY DEF RestOrder, AwaitedOK, OrderTypes
  <2> QED BY <2>1 DEF RestOrder, AwaitedOK, Increasing
<1>3. SinkOK'
  <2> SUFFICES ASSUME NEW g \in Pairs, sink'[g].at # "idle"
               PROVE  /\ sink'[g].frame = sink'[g].request
                      /\ sink'[g].frame <= Taken'
                      /\ \A j \in 1..Len(Awaited) : sink'[g].frame < Awaited[j]
                      /\ \A i \in 1..Len(events') : Success(i)' => events'[i].request < sink'[g].frame
                      /\ sink'[g].at = "popped" => \A k \in 1..Len(output) : output[k] < sink'[g].frame
                      /\ sink'[g].at = "sent" => \E k \in 1..Len(output) : output[k] = sink'[g].frame
    BY DEF SinkOK
  <2>1. sink'[g] = sink[g] /\ sink[g].frame \in Nat
    BY DEF OrderTypes, Requests
  <2>2. sink[g].frame <= Taken'
    BY <2>1 DEF RestOrder, SinkOK, OrderTypes
  <2> QED BY <1>1, <2>1, <2>2 DEF RestOrder, SinkOK
<1>4. OutputOK'
  <2>1. Increasing(output)'
    BY DEF RestOrder, OutputOK, Increasing
  <2>2. ASSUME NEW k \in 1..Len(output)
        PROVE  /\ output[k] <= Taken'
               /\ \A j \in 1..Len(Awaited) : output[k] < Awaited[j]
               /\ \/ \E i \in 1..Len(events') : Success(i)' /\ events'[i].request = output[k]
                  \/ \E g \in Pairs : sink'[g].at = "sent" /\ sink'[g].frame = output[k]
    <3>1. output[k] <= Taken'
      BY DEF RestOrder, OutputOK, OrderTypes
    <3>2. \A j \in 1..Len(Awaited) : output[k] < Awaited[j]
      BY DEF RestOrder, OutputOK
    <3>3. CASE \E i \in 1..Len(events) : Success(i) /\ events[i].request = output[k]
      BY <1>1, <3>1, <3>2, <3>3
    <3>4. CASE \E g \in Pairs : sink[g].at = "sent" /\ sink[g].frame = output[k]
      BY <3>1, <3>2, <3>4
    <3> QED BY <3>3, <3>4 DEF RestOrder, OutputOK
  <2> QED BY <2>1, <2>2 DEF OutputOK
<1>5. EventsOK'
  BY <1>1 DEF RestOrder, EventsOK
<1> QED BY <1>2, <1>3, <1>4, <1>5 DEF RestOrder

\* A step that leaves the frames, the requests, the outputs and the results alone.
LEMMA QuietStep ==
  ASSUME Typed, Typed', Taken <= Taken', OrderOK, ResultOK,
         Awaited' = Awaited, gstSource' = gstSource, output' = output, result' = result,
         \A k \in Pairs : Frames(k)' = Frames(k),
         \A g \in Pairs : sink'[g] = sink[g] \/ (sink'[g].at = "idle" /\ sink[g].at # "sent"),
         \/ events' = events
         \/ \E e \in Events : e.type # "SUCCESS" /\ events' = Append(events, e)
  PROVE  OrderOK' /\ ResultOK'
<1>1. OrderTypes /\ OrderTypes' /\ FlightTypes
  BY OrderFacts, OrderFactsNext, FlightFacts
<1>2. RestOrder /\ FramesMatch
  BY DEF OrderOK, RestOrder
<1>3. RestOrder'
  BY <1>1, <1>2, RestKept
<1>4. FramesMatch'
  <2>1. CASE gstSource = None
    BY <1>2, <2>1 DEF FramesMatch
  <2>2. CASE gstSource # None
    <3>1. PICK g \in Pairs : g = gstSource
      BY <1>1, <2>2 DEF FlightTypes
    <3>2. g # None /\ gstSource' = g
      BY <2>2, <3>1
    <3>3. Frames(g) = Awaited
      BY <1>2, <3>1, <3>2 DEF FramesMatch
    <3>4. Frames(g)' = Awaited'
      BY <3>3
    <3> QED BY <3>2, <3>4 DEF FramesMatch, Frames
  <2> QED BY <2>1, <2>2
<1>5. ResultOK'
  BY DEF ResultOK
<1> QED BY <1>3, <1>4, <1>5 DEF OrderOK, RestOrder

\* Frames and requests that are left alone.
LEMMA WaitingKept ==
  ASSUME pair' = pair, svc' = svc, request' = request, requestQueue' = requestQueue
  PROVE  Awaited' = Awaited /\ \A k \in Pairs : Frames(k)' = Frames(k)
  BY DEF Awaited, Frames

\* The calls of the application, and what svc does with no frame and no event.
LEMMA CallsAnswers ==
  ASSUME Typed, Typed', [Next]_vars, OrderOK, ResultOK,
         \/ Prepare \/ PrepareRefused \/ Invoke \/ CallReturns \/ Stop \/ Destroy
         \/ SvcInvokeFails \/ SvcExit \/ SvcQueue \/ UNCHANGED vars
  PROVE  OrderOK' /\ ResultOK'
<1>1. /\ gstSource' = gstSource /\ output' = output /\ result' = result
      /\ sink' = sink /\ events' = events /\ pair' = pair
  <2>1. CASE Prepare \/ PrepareRefused \/ Invoke \/ CallReturns \/ Stop \/ Destroy
    BY <2>1 DEF Prepare, PrepareRefused, Invoke, CallReturns, Stop, Destroy, pipeVars, sinkVars
  <2>2. CASE SvcInvokeFails \/ SvcExit \/ SvcQueue
    BY <2>2 DEF SvcInvokeFails, SvcExit, SvcQueue, appVars, pipeVars, sinkVars
  <2>3. CASE UNCHANGED vars
    BY <2>3 DEF vars
  <2> QED BY <2>1, <2>2, <2>3
<1>2. Awaited' = Awaited
  <2>1. CASE Prepare \/ PrepareRefused \/ Invoke \/ CallReturns \/ Stop \/ Destroy
    BY <2>1 DEF Prepare, PrepareRefused, Invoke, CallReturns, Stop, Destroy, pipeVars, Awaited
  <2>2. CASE SvcInvokeFails \/ SvcExit
    BY <2>2 DEF SvcInvokeFails, SvcExit, Command, pipeVars, Awaited
  <2>3. CASE SvcQueue
    BY <2>3 DEF SvcQueue, Awaited
  <2>4. CASE UNCHANGED vars
    BY <2>4 DEF vars, Awaited
  <2> QED BY <2>1, <2>2, <2>3, <2>4
<1>3. \A k \in Pairs : Frames(k)' = Frames(k)
  BY <1>1 DEF Frames
<1>4. Taken <= Taken'
  BY TakenStep
<1> QED BY <1>1, <1>2, <1>3, <1>4, QuietStep

\* GStreamer, the network and the server.
LEMMA FramesAnswers ==
  ASSUME Typed, Typed', [Next]_vars, OrderOK, ResultOK, NEW g \in Pairs, Transmit(g) \/ Serve(g)
  PROVE  OrderOK' /\ ResultOK'
<1>1. UNCHANGED pairOnly
  BY DEF Transmit, Serve
<1>2. /\ gstSource' = gstSource /\ output' = output /\ result' = result
      /\ sink' = sink /\ events' = events /\ Awaited' = Awaited
  BY <1>1 DEF pairOnly, appVars, sinkVars, Awaited
<1>3. \A k \in Pairs : Frames(k)' = Frames(k)
  BY FramesKept
<1>4. Taken <= Taken'
  BY TakenStep
<1> QED BY <1>2, <1>3, <1>4, QuietStep

\* A Stop() pauses the pipelines with their frames.
LEMMA StopAnswers ==
  ASSUME Typed, Typed', [Next]_vars, OrderOK, ResultOK, SvcStop
  PROVE  OrderOK' /\ ResultOK'
<1>1. /\ gstSource' = gstSource /\ output' = output /\ result' = result
      /\ sink' = sink /\ Awaited' = Awaited
  BY DEF SvcStop, appVars, Awaited, Command
<1>2. pair' = [pair EXCEPT ![gstSource] = Paused(@)] /\ pair \in [Pairs -> PairRecord]
  BY TypedParts DEF SvcStop, PairTyped
<1>3. ASSUME NEW k \in Pairs PROVE Frames(k)' = Frames(k)
  <2>1. pair'[k] = IF k = gstSource THEN Paused(pair[k]) ELSE pair[k]
    BY <1>2
  <2>2. pair[k] \in PairRecord
    BY <1>2
  <2>3. /\ pair'[k].slot = pair[k].slot /\ pair'[k].wire = pair[k].wire
        /\ pair'[k].answers = pair[k].answers
    BY <2>1, <2>2 DEF Paused, PairRecord
  <2> QED BY <2>3 DEF Frames
<1>4. \/ events' = events
      \/ \E e \in Events : e.type # "SUCCESS" /\ events' = Append(events, e)
  <2> DEFINE e == [type |-> "STOPPED", request |-> None]
  <2>1. e \in Events /\ e.type # "SUCCESS"
    BY BoundsAssumption DEF Events, EventTypes, None
  <2>2. events' = Append(events, e) \/ events' = events
    BY DEF SvcStop, StateChanged
  <2> HIDE DEF e
  <2> QED BY <2>1, <2>2
<1>5. Taken <= Taken'
  BY TakenStep
<1> QED BY <1>1, <1>3, <1>4, <1>5, QuietStep

\* An output that is lost takes its request with it.
LEMMA SendFailsAnswers ==
  ASSUME Typed, Typed', [Next]_vars, OrderOK, ResultOK, NEW g \in Pairs, SinkSendFails(g)
  PROVE  OrderOK' /\ ResultOK'
<1>1. /\ gstSource' = gstSource /\ output' = output /\ result' = result /\ pair' = pair
      /\ Awaited' = Awaited
  BY DEF SinkSendFails, sinkOnly, appVars, pipeVars, Awaited
<1>2. \A k \in Pairs : sink'[k] = sink[k] \/ (sink'[k].at = "idle" /\ sink[k].at # "sent")
  <2>1. sink[g].at = "popped" /\ sink' = [sink EXCEPT ![g] = IdleSink]
    BY DEF SinkSendFails
  <2>2. sink \in [Pairs -> SinkStates] /\ IdleSink.at = "idle"
    BY TypedParts DEF SinkTyped, IdleSink
  <2> QED BY <2>1, <2>2
<1>3. \E e \in Events : e.type # "SUCCESS" /\ events' = Append(events, e)
  <2> DEFINE e == [type |-> "ERROR", request |-> sink[g].request]
  <2>1. sink[g].request \in 0..MaxRequests
    BY TypedParts, SinkFields DEF SinkSendFails, Requests
  <2>2. e \in Events /\ e.type # "SUCCESS"
    BY <2>1 DEF Events, EventTypes
  <2>3. events' = Append(events, e)
    BY DEF SinkSendFails
  <2> HIDE DEF e
  <2> QED BY <2>2, <2>3
<1>4. \A k \in Pairs : Frames(k)' = Frames(k)
  BY <1>1 DEF Frames
<1>5. Taken <= Taken'
  BY TakenStep
<1> QED BY <1>1, <1>2, <1>3, <1>4, <1>5, QuietStep

\* A source comes or goes only while no frame is on its way.
LEMMA SourceAnswers ==
  ASSUME Typed, Typed', [Next]_vars, CallBody, OrderOK, ResultOK,
         DestroyJoined \/ SvcPrepare \/ SvcPrepareFails
  PROVE  OrderOK' /\ ResultOK'
<1>1. requests <= seen
  <2>1. CASE DestroyJoined
    BY <2>1 DEF DestroyJoined, CallBody, CommandOK, EndOK
  <2>2. CASE SvcPrepare \/ SvcPrepareFails
    <3>1. Command("Prepare")
      BY <2>2 DEF SvcPrepare, SvcPrepareFails
    <3>2. requests <= seen
      BY <3>1, HeadFacts DEF CallBody
    <3> QED BY <3>2
  <2> QED BY <2>1, <2>2
<1>2. \A k \in Pairs : Frames(k) = <<>>
  <2>1. \A k \in Pairs : InFlight(k) = 0
    BY <1>1, NothingInFlight DEF CallBody
  <2> QED BY <2>1, FramesFacts
<1>3. /\ output' = output /\ result' = result /\ sink' = sink /\ events' = events /\ pair' = pair
      /\ svc' = svc /\ request' = request /\ requestQueue' = requestQueue
  <2>1. CASE DestroyJoined
    BY <2>1 DEF DestroyJoined, sinkVars
  <2>2. CASE SvcPrepare \/ SvcPrepareFails
    BY <2>2 DEF SvcPrepare, SvcPrepareFails, sinkVars, appVars
  <2> QED BY <2>1, <2>2
<1>4. Awaited' = Awaited /\ \A k \in Pairs : Frames(k)' = Frames(k)
  BY <1>3, WaitingKept
<1>5. FlightTypes /\ FlightTypes' /\ OrderTypes /\ OrderTypes'
  BY FlightFacts, FlightFactsNext, OrderFacts, OrderFactsNext
<1>6. Awaited = <<>>
  BY <1>2, <1>5 DEF OrderOK, FramesMatch, FlightTypes
<1>7. FramesMatch'
  <2>1. CASE gstSource' = None
    BY <1>4, <1>6, <2>1 DEF FramesMatch
  <2>2. CASE gstSource' # None
    <3>1. PICK g \in Pairs : g = gstSource'
      BY <1>5, <2>2 DEF FlightTypes
    <3>2. Frames(g)' = Awaited'
      BY <1>2, <1>4, <1>6
    <3> QED BY <2>2, <3>1, <3>2 DEF FramesMatch, Frames
  <2> QED BY <2>1, <2>2
<1>8. RestOrder'
  <2>1. Taken <= Taken'
    BY TakenStep
  <2>2. RestOrder
    BY DEF OrderOK, RestOrder
  <2> QED BY <1>3, <1>4, <1>5, <2>1, <2>2, RestKept
<1>9. ResultOK'
  BY <1>3 DEF ResultOK
<1> QED BY <1>7, <1>8, <1>9 DEF OrderOK, RestOrder

\* A frame that is pushed is the newest of all.
LEMMA InvokeAnswers ==
  ASSUME Typed, Typed', CallBody, OrderOK, ResultOK, missing = 0, missing' = 0, SvcInvoke
  PROVE  OrderOK' /\ ResultOK'
<1>1. OrderTypes /\ OrderTypes' /\ FlightTypes
  BY OrderFacts, OrderFactsNext, FlightFacts
<1>2. /\ app = "Invoke" /\ cmds' = <<>> /\ cmds # <<>> /\ svc = "loop"
      /\ requests # 0 /\ Head(cmds).arg = requests
  <2>1. Command("Invoke")
    BY DEF SvcInvoke
  <2> QED BY <2>1, HeadFacts DEF CallBody
<1>3. /\ gstSource' = gstSource /\ output' = output /\ result' = result /\ sink' = sink
      /\ events' = events /\ requestQueue' = requestQueue /\ request' = Head(cmds).arg
      /\ svc' = "pushed" /\ app' = app /\ requests' = requests
  BY DEF SvcInvoke, appVars, sinkVars
<1> DEFINE x == requests
           s == Awaited
<1>4. x \in Nat /\ x \in Requests
  BY <1>1, <1>2, TypedParts DEF FlightTypes, AppTyped, Requests
<1>5. Awaited' = Append(s, x)
  BY <1>2, <1>3 DEF Awaited
<1>6. Taken = x - 1 /\ Taken' = x
  BY <1>2, <1>3 DEF Taken
<1>7. s \in Seq(Requests) /\ Increasing(s) /\ \A j \in 1..Len(s) : s[j] <= x - 1 /\ s[j] \in Nat
  BY <1>1, <1>6 DEF OrderOK, AwaitedOK, OrderTypes
<1> HIDE DEF s
<1>8. /\ Len(Append(s, x)) = Len(s) + 1 /\ Len(s) \in Nat
      /\ \A j \in 1..Len(s) : Append(s, x)[j] = s[j]
      /\ Append(s, x)[Len(s) + 1] = x
  BY <1>4, <1>7, AppendProperties, LenProperties
<1>9. \A j \in 1..(Len(s) + 1) : j \in 1..Len(s) \/ j = Len(s) + 1
  BY <1>8
<1>10. \A y \in Nat : y <= x - 1 => y < x /\ y <= x
  BY <1>4
<1>11. AwaitedOK'
  <2>1. Increasing(Append(s, x))
    BY <1>4, <1>7, <1>10, IncreasingFacts
  <2>2. \A j \in 1..Len(Append(s, x)) : Append(s, x)[j] <= x
    BY <1>4, <1>7, <1>8, <1>9, <1>10
  <2> QED BY <1>5, <1>6, <2>1, <2>2 DEF AwaitedOK, Increasing
<1>12. SinkOK'
  <2> SUFFICES ASSUME NEW g \in Pairs, sink[g].at # "idle"
               PROVE  /\ sink[g].frame = sink[g].request
                      /\ sink[g].frame <= x
                      /\ \A j \in 1..Len(Append(s, x)) : sink[g].frame < Append(s, x)[j]
                      /\ \A i \in 1..Len(events) : Success(i) => events[i].request < sink[g].frame
                      /\ sink[g].at = "popped" => \A k \in 1..Len(output) : output[k] < sink[g].frame
                      /\ sink[g].at = "sent" => \E k \in 1..Len(output) : output[k] = sink[g].frame
    BY <1>3, <1>5, <1>6 DEF SinkOK, Success
  <2>1. sink[g].frame \in Nat
    BY <1>1 DEF OrderTypes, Requests
  <2>2. /\ sink[g].frame = sink[g].request
        /\ sink[g].frame <= x - 1
        /\ \A j \in 1..Len(s) : sink[g].frame < s[j]
        /\ \A i \in 1..Len(events) : Success(i) => events[i].request < sink[g].frame
        /\ sink[g].at = "popped" => \A k \in 1..Len(output) : output[k] < sink[g].frame
        /\ sink[g].at = "sent" => \E k \in 1..Len(output) : output[k] = sink[g].frame
    BY <1>6 DEF OrderOK, SinkOK, s
  <2>3. sink[g].frame <= x /\ sink[g].frame < x
    BY <1>10, <2>1, <2>2
  <2>4. \A j \in 1..Len(Append(s, x)) : sink[g].frame < Append(s, x)[j]
    BY <1>8, <1>9, <2>2, <2>3
  <2> QED BY <2>2, <2>3, <2>4
<1>13. OutputOK'
  <2>1. ASSUME NEW k \in 1..Len(output)
        PROVE  output[k] <= x /\ \A j \in 1..Len(Append(s, x)) : output[k] < Append(s, x)[j]
    <3>1. output[k] \in Nat
      BY <1>1 DEF OrderTypes
    <3>2. output[k] <= x - 1 /\ \A j \in 1..Len(s) : output[k] < s[j]
      BY <1>6 DEF OrderOK, OutputOK, s
    <3>3. output[k] <= x /\ output[k] < x
      BY <1>10, <3>1, <3>2
    <3> QED BY <1>8, <1>9, <3>2, <3>3
  <2> QED BY <1>3, <1>5, <1>6, <2>1 DEF OrderOK, OutputOK, Increasing, Success
<1>14. EventsOK'
  BY <1>3 DEF OrderOK, EventsOK, Success
<1>15. FramesMatch'
  <2>1. gstSource \in Pairs /\ Frames(gstSource)' = Append(Frames(gstSource), x)
    BY <1>2, FramesPushed
  <2>2. gstSource # None
    BY <2>1 DEF Pairs, None
  <2>3. Frames(gstSource) = s
    BY <2>2 DEF OrderOK, FramesMatch, s
  <2> QED BY <1>3, <1>5, <2>1, <2>2, <2>3 DEF FramesMatch
<1>16. ResultOK'
  BY <1>3 DEF ResultOK
<1> QED BY <1>11, <1>12, <1>13, <1>14, <1>15, <1>16 DEF OrderOK

\* At most one sink has a frame.
LEMMA OneSink ==
  ASSUME Typed, OldPairsEmpty, NEW g \in Pairs, InFlight(g) # 0
  PROVE  g = gstSource /\ \A k \in Pairs : k # g => sink[k].at = "idle"
<1>1. g = gstSource
  BY DEF OldPairsEmpty
<1>2. ASSUME NEW k \in Pairs, k # g PROVE sink[k].at = "idle"
  <2>1. InFlight(k) = 0 /\ InPair(k) \in Nat
    BY <1>1, <1>2, TypedParts, PairFields DEF OldPairsEmpty
  <2> QED BY <2>1 DEF InFlight
<1> QED BY <1>1, <1>2

\* The oldest frame meets the oldest request.
LEMMA PopAnswers ==
  ASSUME Typed, Typed', CallBody, OrderOK, ResultOK, NEW g \in Pairs, SinkPop(g)
  PROVE  OrderOK' /\ ResultOK'
<1>1. OrderTypes /\ OrderTypes' /\ FlightTypes
  BY OrderFacts, OrderFactsNext, FlightFacts
<1>2. /\ Arrives(g) /\ sink[g].at = "idle" /\ requestQueue # <<>>
      /\ requestQueue' = Tail(requestQueue)
      /\ sink' = [sink EXCEPT ![g] = [at |-> "popped", frame |-> Head(pair[g].answers),
                                      request |-> Head(requestQueue)]]
      /\ gstSource' = gstSource /\ output' = output /\ events' = events /\ svc' = svc
      /\ request' = request /\ cmds' = cmds /\ UNCHANGED appVars
  BY DEF SinkPop, Arrives, NextRequest
<1>3. result' = result /\ Taken' = Taken
  BY <1>2 DEF appVars, Taken
<1>4. g = gstSource /\ \A k \in Pairs : sink[k].at = "idle"
  <2>1. InPair(g)' \in Nat /\ InPair(g) = InPair(g)' + 1
    BY <1>2, ArrivesCounts
  <2>2. InFlight(g) = InPair(g)
    BY <1>2, <2>1 DEF InFlight
  <2>3. InFlight(g) # 0
    BY <2>1, <2>2
  <2> QED BY <1>2, <2>3, OneSink DEF CallBody
<1> DEFINE s == Awaited
<1>5. s \in Seq(Requests) /\ s # <<>> /\ Head(s) = Head(requestQueue) /\ Awaited' = Tail(s)
  <2>1. requestQueue \in Seq(Requests) /\ (svc = "pushed" => request \in Requests)
    BY TypedParts DEF PairTyped, SvcTyped, Requests, None
  <2>2. CASE svc = "pushed"
    <3> DEFINE o == <<request>>
    <3>1. o \in Seq(Requests) /\ Tail(requestQueue) \in Seq(Requests)
      BY <1>2, <2>1, <2>2
    <3>2. s = requestQueue \o o
      BY <2>1, <2>2, AppendIsConcat DEF Awaited
    <3>3. Awaited' = Tail(requestQueue) \o o
      <4>1. Awaited' = Append(Tail(requestQueue), request)
        BY <1>2, <2>2 DEF Awaited
      <4> QED BY <2>1, <2>2, <3>1, <4>1, AppendIsConcat
    <3> HIDE DEF o
    <3>4. /\ requestQueue \o o # <<>> /\ Head(requestQueue \o o) = Head(requestQueue)
          /\ Tail(requestQueue \o o) = Tail(requestQueue) \o o
      BY <1>2, <2>1, <3>1, ConcatHeadTail
    <3> QED BY <1>1, <3>2, <3>3, <3>4 DEF OrderTypes
  <2>3. CASE svc # "pushed"
    BY <1>2, <2>1, <2>3 DEF Awaited
  <2> QED BY <2>2, <2>3
<1>6. /\ Frames(g) = s /\ Frames(g)' = Tail(s) /\ Head(pair[g].answers) = Head(s)
  <2>1. g # None
    BY DEF Pairs, None
  <2>2. Frames(g) = s
    BY <1>4, <2>1 DEF OrderOK, FramesMatch
  <2>3. Head(Frames(g)) = Head(pair[g].answers) /\ Frames(g)' = Tail(Frames(g))
    BY <1>2, FramesPopped
  <2> QED BY <2>2, <2>3
<1> DEFINE x == Head(s)
<1>7. Increasing(s) /\ \A j \in 1..Len(s) : s[j] <= Taken
  BY DEF OrderOK, AwaitedOK
<1>8. \A k \in 1..Len(output) : \A j \in 1..Len(s) : output[k] < s[j]
  BY DEF OrderOK, OutputOK
<1> HIDE DEF s
<1>9. /\ Len(s) \in Nat /\ Len(s) # 0 /\ x = s[1] /\ x \in Requests /\ Len(Tail(s)) = Len(s) - 1
      /\ Tail(s) \in Seq(Requests)
      /\ \A j \in 1..(Len(s) - 1) : Tail(s)[j] = s[j + 1]
  BY <1>5
<1>10. \A j \in 1..(Len(s) - 1) : j + 1 \in 1..Len(s)
  BY <1>9
<1>11. 1 \in 1..Len(s)
  BY <1>9
<1>12. Increasing(Tail(s)) /\ \A j \in 1..Len(Tail(s)) : x < Tail(s)[j]
  BY <1>5, <1>7, IncreasingFacts
<1>13. /\ sink'[g] = [at |-> "popped", frame |-> x, request |-> x]
       /\ \A k \in Pairs : k # g => sink'[k] = sink[k]
  BY <1>2, <1>5, <1>6, TypedParts DEF SinkTyped
<1>14. AwaitedOK'
  <2>1. \A j \in 1..Len(Tail(s)) : Tail(s)[j] <= Taken
    BY <1>7, <1>9, <1>10
  <2> QED BY <1>3, <1>5, <1>12, <2>1 DEF AwaitedOK, Increasing
<1> HIDE DEF x
<1>15. SinkOK'
  <2> SUFFICES ASSUME NEW k \in Pairs, sink'[k].at # "idle"
               PROVE  /\ sink'[k].frame = sink'[k].request
                      /\ sink'[k].frame <= Taken
                      /\ \A j \in 1..Len(Tail(s)) : sink'[k].frame < Tail(s)[j]
                      /\ \A i \in 1..Len(events) : Success(i) => events[i].request < sink'[k].frame
                      /\ sink'[k].at = "popped" => \A i \in 1..Len(output) : output[i] < sink'[k].frame
                      /\ sink'[k].at = "sent" => \E i \in 1..Len(output) : output[i] = sink'[k].frame
    BY <1>2, <1>3, <1>5 DEF SinkOK, Success
  <2>1. k = g /\ sink'[k].at = "popped" /\ sink'[k].frame = x /\ sink'[k].request = x
    BY <1>4, <1>13
  <2>2. x <= Taken
    BY <1>7, <1>9, <1>11
  <2>3. \A i \in 1..Len(output) : output[i] < x
    BY <1>8, <1>9, <1>11
  <2>4. \A i \in 1..Len(events) : Success(i) => events[i].request < x
    <3>1. \A i \in 1..Len(events) : Success(i) => \E n \in 1..Len(output) : output[n] = events[i].request
      BY DEF OrderOK, EventsOK
    <3> QED BY <2>3, <3>1
  <2> QED BY <1>12, <2>1, <2>2, <2>3, <2>4
<1>16. OutputOK'
  <2>1. ASSUME NEW k \in 1..Len(output)
        PROVE  /\ output[k] <= Taken
               /\ \A j \in 1..Len(Tail(s)) : output[k] < Tail(s)[j]
               /\ \E i \in 1..Len(events) : Success(i) /\ events[i].request = output[k]
    <3>1. output[k] <= Taken
      BY DEF OrderOK, OutputOK
    <3>2. \A j \in 1..Len(Tail(s)) : output[k] < Tail(s)[j]
      BY <1>8, <1>9, <1>10
    <3>3. \E i \in 1..Len(events) : Success(i) /\ events[i].request = output[k]
      BY <1>4 DEF OrderOK, OutputOK
    <3> QED BY <3>1, <3>2, <3>3
  <2> QED BY <1>2, <1>3, <1>5, <2>1 DEF OrderOK, OutputOK, Increasing, Success
<1>17. EventsOK'
  BY <1>2 DEF OrderOK, EventsOK, Success
<1>18. FramesMatch'
  <2>1. g # None
    BY DEF Pairs, None
  <2>2. gstSource' = g /\ Frames(g)' = Awaited'
    BY <1>2, <1>4, <1>5, <1>6
  <2> QED BY <2>1, <2>2 DEF FramesMatch, Frames
<1>19. ResultOK'
  BY <1>3 DEF ResultOK
<1> QED BY <1>14, <1>15, <1>16, <1>17, <1>18, <1>19 DEF OrderOK

\* What the last two steps of a sink leave alone.
LEMMA SinkFrame ==
  ASSUME Typed, CallBody, OrderOK, NEW g \in Pairs, sink[g].at # "idle", UNCHANGED sinkOnly
  PROVE  /\ Awaited' = Awaited /\ result' = result /\ Taken' = Taken
         /\ FramesMatch'
         /\ \A k \in Pairs : k # g => sink[k].at = "idle"
<1>1. /\ Awaited' = Awaited /\ result' = result /\ Taken' = Taken /\ gstSource' = gstSource
      /\ pair' = pair
  BY DEF sinkOnly, appVars, pipeVars, Awaited, Taken
<1>2. FramesMatch'
  BY <1>1 DEF OrderOK, FramesMatch, Frames
<1>3. InPair(g) \in Nat
  BY TypedParts, PairFields
<1>4. InFlight(g) # 0
  BY <1>3 DEF InFlight
<1>5. \A k \in Pairs : k # g => sink[k].at = "idle"
  BY <1>4, OneSink DEF CallBody
<1> QED BY <1>1, <1>2, <1>5

\* The newest output is that of the event to come.
LEMMA SendAnswers ==
  ASSUME Typed, Typed', CallBody, OrderOK, ResultOK, NEW g \in Pairs, SinkSend(g)
  PROVE  OrderOK' /\ ResultOK'
<1>1. OrderTypes /\ OrderTypes'
  BY OrderFacts, OrderFactsNext
<1>2. /\ sink[g].at = "popped" /\ UNCHANGED sinkOnly /\ events' = events
      /\ output' = Append(output, sink[g].frame)
      /\ sink' = [sink EXCEPT ![g].at = "sent"]
  BY DEF SinkSend
<1>3. /\ Awaited' = Awaited /\ result' = result /\ Taken' = Taken /\ FramesMatch'
      /\ \A k \in Pairs : k # g => sink[k].at = "idle"
  BY <1>2, SinkFrame
<1> DEFINE x == sink[g].frame
           o == output
<1>4. /\ sink'[g].at = "sent" /\ sink'[g].frame = x /\ sink'[g].request = sink[g].request
      /\ \A k \in Pairs : k # g => sink'[k].at = "idle"
  <2>1. sink \in [Pairs -> SinkStates]
    BY TypedParts DEF SinkTyped
  <2>2. sink[g] \in [at : {"popped", "sent"}, frame : Requests, request : Requests]
    BY <1>2, <2>1 DEF SinkStates, IdleSink
  <2> QED BY <1>2, <1>3, <2>1, <2>2
<1>5. /\ x \in Requests /\ x = sink[g].request /\ x <= Taken
      /\ \A j \in 1..Len(Awaited) : x < Awaited[j]
      /\ \A i \in 1..Len(events) : Success(i) => events[i].request < x
      /\ \A k \in 1..Len(o) : o[k] < x
  BY <1>1, <1>2 DEF OrderTypes, OrderOK, SinkOK
<1>6. /\ o \in Seq(Requests) /\ Increasing(o)
      /\ \A k \in 1..Len(o) :
             /\ o[k] <= Taken
             /\ \A j \in 1..Len(Awaited) : o[k] < Awaited[j]
             /\ \E i \in 1..Len(events) : Success(i) /\ events[i].request = o[k]
  BY <1>1, <1>2, <1>3 DEF OrderTypes, OrderOK, OutputOK
<1>7. /\ \A i, j \in 1..Len(events) :
             i < j /\ Success(i) /\ Success(j) => events[i].request < events[j].request
      /\ \A i \in 1..Len(events) : Success(i) => \E k \in 1..Len(o) : o[k] = events[i].request
  BY DEF OrderOK, EventsOK
<1>8. output' = Append(o, x)
  BY <1>2
<1> HIDE DEF x, o
<1>9. /\ Len(Append(o, x)) = Len(o) + 1 /\ Len(o) \in Nat
      /\ \A k \in 1..Len(o) : Append(o, x)[k] = o[k] /\ k \in 1..(Len(o) + 1)
      /\ Append(o, x)[Len(o) + 1] = x /\ Len(o) + 1 \in 1..(Len(o) + 1)
  BY <1>5, <1>6, AppendProperties, LenProperties
<1>10. \A k \in 1..(Len(o) + 1) : k \in 1..Len(o) \/ k = Len(o) + 1
  BY <1>9
<1>11. AwaitedOK'
  BY <1>3 DEF OrderOK, AwaitedOK, Increasing
<1>12. SinkOK'
  <2> SUFFICES ASSUME NEW k \in Pairs, sink'[k].at # "idle"
               PROVE  /\ sink'[k].frame = sink'[k].request
                      /\ sink'[k].frame <= Taken
                      /\ \A j \in 1..Len(Awaited) : sink'[k].frame < Awaited[j]
                      /\ \A i \in 1..Len(events) : Success(i) => events[i].request < sink'[k].frame
                      /\ sink'[k].at = "popped" => \A i \in 1..Len(output') : output'[i] < sink'[k].frame
                      /\ sink'[k].at = "sent" => \E i \in 1..Len(output') : output'[i] = sink'[k].frame
    BY <1>2, <1>3 DEF SinkOK, Success
  <2>1. k = g /\ sink'[k].at = "sent" /\ sink'[k].frame = x /\ sink'[k].request = x
    BY <1>4, <1>5
  <2>2. \E i \in 1..Len(output') : output'[i] = x
    BY <1>8, <1>9
  <2> QED BY <1>5, <2>1, <2>2
<1>13. OutputOK'
  <2>1. Increasing(Append(o, x))
    BY <1>5, <1>6, IncreasingFacts
  <2>2. ASSUME NEW k \in 1..Len(Append(o, x))
        PROVE  /\ Append(o, x)[k] <= Taken
               /\ \A j \in 1..Len(Awaited) : Append(o, x)[k] < Awaited[j]
               /\ \/ \E i \in 1..Len(events) : Success(i) /\ events[i].request = Append(o, x)[k]
                  \/ sink'[g].at = "sent" /\ sink'[g].frame = Append(o, x)[k]
    <3>1. CASE k \in 1..Len(o)
      BY <1>6, <1>9, <3>1
    <3>2. CASE k = Len(o) + 1
      BY <1>4, <1>5, <1>9, <3>2
    <3> QED BY <1>9, <1>10, <3>1, <3>2
  <2> QED BY <1>2, <1>3, <1>8, <2>1, <2>2 DEF OutputOK, Increasing, Success
<1>14. EventsOK'
  <2>1. \A i \in 1..Len(events) :
            Success(i) => \E k \in 1..Len(output') : output'[k] = events[i].request
    BY <1>7, <1>8, <1>9
  <2> QED BY <1>2, <1>7, <2>1 DEF EventsOK, Success
<1>15. ResultOK'
  BY <1>3 DEF ResultOK
<1> QED BY <1>3, <1>11, <1>12, <1>13, <1>14, <1>15 DEF OrderOK

\* The newest event is that of the newest output.
LEMMA PublishAnswers ==
  ASSUME Typed, Typed', CallBody, OrderOK, ResultOK, NEW g \in Pairs, SinkPublish(g)
  PROVE  OrderOK' /\ ResultOK'
<1>1. OrderTypes /\ OrderTypes'
  BY OrderFacts, OrderFactsNext
<1>2. /\ sink[g].at = "sent" /\ UNCHANGED sinkOnly /\ output' = output
      /\ events' = Append(events, [type |-> "SUCCESS", request |-> sink[g].request])
      /\ sink' = [sink EXCEPT ![g] = IdleSink]
  BY DEF SinkPublish
<1>3. /\ Awaited' = Awaited /\ result' = result /\ Taken' = Taken /\ FramesMatch'
      /\ \A k \in Pairs : k # g => sink[k].at = "idle"
  BY <1>2, SinkFrame
<1> DEFINE x == sink[g].frame
           e == [type |-> "SUCCESS", request |-> x]
<1>0. PICK n \in Nat : n = Len(events)
  BY <1>1 DEF OrderTypes
<1>4. \A k \in Pairs : sink'[k].at = "idle"
  <2>1. sink \in [Pairs -> SinkStates] /\ IdleSink.at = "idle"
    BY TypedParts DEF SinkTyped, IdleSink
  <2> QED BY <1>2, <1>3, <2>1
<1>5. /\ x \in Requests /\ x = sink[g].request
      /\ \A i \in 1..n : Success(i) => events[i].request < x
      /\ \E k \in 1..Len(output) : output[k] = x
  BY <1>0, <1>1, <1>2 DEF OrderTypes, OrderOK, SinkOK
<1>6. e \in Events /\ e.type = "SUCCESS" /\ e.request = x
  BY <1>5 DEF Events, EventTypes, Requests
<1>7. events' = Append(events, e)
  BY <1>2, <1>5
<1> HIDE DEF e
<1>8. /\ n \in Nat /\ Len(events') = n + 1 /\ events'[n + 1] = e
      /\ \A i \in 1..n : events'[i] = events[i]
  BY <1>0, <1>1, <1>6, <1>7, AppendProperties, LenProperties DEF OrderTypes
<1>9. /\ n + 1 \in 1..(n + 1)
      /\ \A i \in 1..(n + 1) : i \in 1..n \/ i = n + 1
      /\ \A i \in 1..n : i \in 1..(n + 1) /\ ~(n + 1 < i)
  BY <1>8
<1>10. /\ \A i \in 1..n : Success(i)' <=> Success(i)
       /\ Success(n + 1)'
  BY <1>0, <1>6, <1>8, <1>9 DEF Success
<1>11. AwaitedOK'
  BY <1>3 DEF OrderOK, AwaitedOK, Increasing
<1>12. SinkOK'
  BY <1>4 DEF SinkOK
<1>13. OutputOK'
  <2>1. ASSUME NEW k \in 1..Len(output)
        PROVE  /\ output[k] <= Taken
               /\ \A j \in 1..Len(Awaited) : output[k] < Awaited[j]
               /\ \E i \in 1..Len(events') : Success(i)' /\ events'[i].request = output[k]
    <3>1. /\ output[k] <= Taken
          /\ \A j \in 1..Len(Awaited) : output[k] < Awaited[j]
          /\ \/ \E i \in 1..n : Success(i) /\ events[i].request = output[k]
             \/ \E h \in Pairs : sink[h].at = "sent" /\ sink[h].frame = output[k]
      BY <1>0 DEF OrderOK, OutputOK
    <3>2. CASE \E i \in 1..n : Success(i) /\ events[i].request = output[k]
      BY <1>8, <1>9, <1>10, <3>1, <3>2
    <3>3. CASE \E h \in Pairs : sink[h].at = "sent" /\ sink[h].frame = output[k]
      <4>1. output[k] = x
        BY <1>3, <3>3
      <4> QED BY <1>6, <1>8, <1>9, <1>10, <3>1, <4>1
    <3> QED BY <3>1, <3>2, <3>3
  <2> QED BY <1>2, <1>3, <2>1 DEF OrderOK, OutputOK, Increasing
<1>14. EventsOK'
  <2>1. ASSUME NEW i \in 1..(n + 1), NEW j \in 1..(n + 1), i < j, Success(i)', Success(j)'
        PROVE  events'[i].request < events'[j].request
    <3>1. i \in 1..n
      BY <1>8, <2>1
    <3>2. CASE j = n + 1
      BY <1>5, <1>6, <1>8, <1>10, <2>1, <3>1, <3>2
    <3>3. CASE j \in 1..n
      BY <1>0, <1>8, <1>10, <2>1, <3>1, <3>3 DEF OrderOK, EventsOK
    <3> QED BY <1>9, <3>2, <3>3
  <2>2. ASSUME NEW i \in 1..(n + 1), Success(i)'
        PROVE  \E k \in 1..Len(output) : output[k] = events'[i].request
    <3>1. CASE i = n + 1
      BY <1>5, <1>6, <1>8, <3>1
    <3>2. CASE i \in 1..n
      BY <1>0, <1>8, <1>10, <2>2, <3>2 DEF OrderOK, EventsOK
    <3> QED BY <1>9, <3>1, <3>2
  <2> QED BY <1>2, <1>8, <2>1, <2>2 DEF EventsOK
<1>15. ResultOK'
  BY <1>3 DEF ResultOK
<1> QED BY <1>3, <1>11, <1>12, <1>13, <1>14, <1>15 DEF OrderOK

\* An event is taken, and the output it tells of is the oldest.
LEMMA EventAnswers ==
  ASSUME Typed, Typed', OrderOK, ResultOK, HandleEvent
  PROVE  OrderOK' /\ ResultOK'
<1>1. OrderTypes /\ OrderTypes'
  BY OrderFacts, OrderFactsNext
<1>2. /\ events # <<>> /\ events' = Tail(events) /\ sink' = sink /\ pair' = pair
      /\ gstSource' = gstSource
      /\ IF Head(events).type = "SUCCESS"
         THEN /\ output # <<>> /\ output' = Tail(output)
              /\ result' = [result EXCEPT ![Head(events).request] = Head(output)]
         ELSE output' = output /\ result' = result
  BY DEF HandleEvent, FetchEventData, GetOutput, pipeVars
<1>3. Awaited' = Awaited /\ Taken' = Taken
  BY DEF HandleEvent, pipeVars, Awaited, Taken
<1>4. FramesMatch'
  BY <1>2, <1>3 DEF OrderOK, FramesMatch, Frames
<1>5. AwaitedOK'
  BY <1>3 DEF OrderOK, AwaitedOK, Increasing
<1>6. PICK n \in Nat : n = Len(events) /\ n # 0
  BY <1>1, <1>2, Lengths DEF OrderTypes
<1>7. /\ Len(events') = n - 1 /\ Head(events) = events[1]
      /\ \A i \in 1..(n - 1) : events'[i] = events[i + 1]
  BY <1>1, <1>2, <1>6, HeadTailProperties DEF OrderTypes
<1>8. /\ 1 \in 1..n
      /\ \A i \in 1..(n - 1) : i + 1 \in 1..n /\ 1 < i + 1
      /\ \A i, j \in 1..(n - 1) : i < j => i + 1 < j + 1
      /\ \A i \in 1..n : i = 1 \/ (i - 1 \in 1..(n - 1) /\ (i - 1) + 1 = i)
  BY <1>6
<1>9. \A i \in 1..(n - 1) : Success(i)' <=> Success(i + 1)
  BY <1>6, <1>7, <1>8 DEF Success
<1>10. \A i \in 1..n : events[i].request \in Nat
  BY <1>1, <1>6 DEF OrderTypes
<1>11. /\ \A i, j \in 1..n :
              i < j /\ Success(i) /\ Success(j) => events[i].request < events[j].request
       /\ \A i \in 1..n : Success(i) => \E k \in 1..Len(output) : output[k] = events[i].request
  BY <1>6 DEF OrderOK, EventsOK
<1>12. CASE events[1].type # "SUCCESS"
  <2>1. output' = output /\ result' = result /\ ~Success(1)
    BY <1>2, <1>7, <1>12 DEF Success
  <2>2. SinkOK'
    <3>1. ASSUME NEW g \in Pairs, sink[g].at # "idle"
          PROVE  \A i \in 1..(n - 1) : Success(i)' => events'[i].request < sink[g].frame
      BY <1>6, <1>7, <1>8, <1>9, <3>1 DEF OrderOK, SinkOK
    <3> QED BY <1>2, <1>3, <1>7, <2>1, <3>1 DEF OrderOK, SinkOK
  <2>3. OutputOK'
    <3>1. ASSUME NEW k \in 1..Len(output)
          PROVE  \/ \E i \in 1..(n - 1) : Success(i)' /\ events'[i].request = output[k]
                 \/ \E g \in Pairs : sink[g].at = "sent" /\ sink[g].frame = output[k]
      <4>1. CASE \E i \in 1..n : Success(i) /\ events[i].request = output[k]
        <5>1. PICK i \in 1..n : Success(i) /\ events[i].request = output[k]
          BY <4>1
        <5>2. i - 1 \in 1..(n - 1) /\ (i - 1) + 1 = i
          BY <1>8, <2>1, <5>1
        <5>3. Success(i - 1)' /\ events'[i - 1].request = output[k]
          BY <1>7, <1>9, <5>1, <5>2
        <5> QED BY <5>2, <5>3
      <4>2. CASE \E g \in Pairs : sink[g].at = "sent" /\ sink[g].frame = output[k]
        BY <4>2
      <4> QED BY <1>6, <4>1, <4>2 DEF OrderOK, OutputOK
    <3> QED BY <1>2, <1>3, <1>7, <2>1, <3>1 DEF OrderOK, OutputOK, Increasing
  <2>4. EventsOK'
    <3>1. ASSUME NEW i \in 1..(n - 1), NEW j \in 1..(n - 1), i < j, Success(i)', Success(j)'
          PROVE  events'[i].request < events'[j].request
      BY <1>7, <1>8, <1>9, <1>11, <3>1
    <3>2. ASSUME NEW i \in 1..(n - 1), Success(i)'
          PROVE  \E k \in 1..Len(output) : output[k] = events'[i].request
      <4>1. PICK h \in 1..n : Success(h) /\ events'[i] = events[h]
        BY <1>7, <1>8, <1>9, <3>2
      <4> QED BY <1>11, <4>1
    <3> QED BY <1>7, <2>1, <3>1, <3>2 DEF EventsOK
  <2>5. ResultOK'
    BY <2>1 DEF ResultOK
  <2> QED BY <1>4, <1>5, <2>2, <2>3, <2>4, <2>5 DEF OrderOK
<1>13. CASE events[1].type = "SUCCESS"
  <2>1. PICK m \in Nat : m = Len(output) /\ m # 0
    BY <1>1, <1>2, <1>7, <1>13, Lengths DEF OrderTypes
  <2>2. /\ output' = Tail(output) /\ Len(output') = m - 1 /\ Head(output) = output[1]
        /\ \A k \in 1..(m - 1) : output'[k] = output[k + 1]
        /\ result' = [result EXCEPT ![events[1].request] = output[1]]
    <3>1. output # <<>> /\ output' = Tail(output)
          /\ result' = [result EXCEPT ![events[1].request] = Head(output)]
      BY <1>2, <1>7, <1>13
    <3>2. output \in Seq(Requests)
      BY <1>1 DEF OrderTypes
    <3>3. /\ Len(Tail(output)) = m - 1 /\ Head(output) = output[1]
          /\ \A k \in 1..(m - 1) : Tail(output)[k] = output[k + 1]
      BY <2>1, <3>1, <3>2, HeadTailProperties
    <3> QED BY <3>1, <3>3
  <2>3. Success(1)
    BY <1>6, <1>8, <1>13 DEF Success
  <2>4. /\ 1 \in 1..m
        /\ \A k \in 1..(m - 1) : k + 1 \in 1..m /\ 1 < k + 1
        /\ \A k, j \in 1..(m - 1) : k < j => k + 1 < j + 1
        /\ \A k \in 1..m : k = 1 \/ (k - 1 \in 1..(m - 1) /\ (k - 1) + 1 = k /\ 1 < k)
    BY <2>1
  <2>5. /\ \A k \in 1..m : output[k] \in Nat
        /\ \A k, j \in 1..m : k < j => output[k] < output[j]
        /\ \A k \in 1..m :
               /\ output[k] <= Taken
               /\ \A j \in 1..Len(Awaited) : output[k] < Awaited[j]
               /\ \/ \E i \in 1..n : Success(i) /\ events[i].request = output[k]
                  \/ \E g \in Pairs : sink[g].at = "sent" /\ sink[g].frame = output[k]
    BY <1>1, <1>6, <2>1 DEF OrderTypes, OrderOK, OutputOK, Increasing
  <2>6. ASSUME NEW g \in Pairs, sink[g].at # "idle"
        PROVE  /\ sink[g].frame \in Nat
               /\ sink[g].frame = sink[g].request
               /\ sink[g].frame <= Taken
               /\ \A j \in 1..Len(Awaited) : sink[g].frame < Awaited[j]
               /\ \A i \in 1..n : Success(i) => events[i].request < sink[g].frame
               /\ sink[g].at = "popped" => \A k \in 1..m : output[k] < sink[g].frame
               /\ sink[g].at = "sent" => \E k \in 1..m : output[k] = sink[g].frame
    BY <1>1, <1>6, <2>1, <2>6 DEF OrderTypes, OrderOK, SinkOK, Requests
  <2>7. \A a, b \in Nat : a < b => ~(b < a) /\ a # b
    OBVIOUS
  <2>8. output[1] = events[1].request
    <3>1. PICK k \in 1..m : output[k] = events[1].request
      BY <1>8, <1>11, <2>1, <2>3
    <3>2. SUFFICES ASSUME k # 1 PROVE FALSE
      BY <3>1
    <3>3. output[1] < events[1].request
      BY <2>4, <2>5, <3>1, <3>2
    <3>4. output[1] \in Nat /\ events[1].request \in Nat
      BY <1>8, <1>10, <2>4, <2>5
    <3>5. CASE \E i \in 1..n : Success(i) /\ events[i].request = output[1]
      <4>1. PICK i \in 1..n : Success(i) /\ events[i].request = output[1]
        BY <3>5
      <4>2. i # 1
        BY <2>7, <3>3, <3>4, <4>1
      <4>3. 1 < i
        BY <1>8, <4>2
      <4>4. events[1].request < output[1]
        BY <1>8, <1>11, <2>3, <4>1, <4>3
      <4> QED BY <2>7, <3>3, <3>4, <4>4
    <3>6. CASE \E g \in Pairs : sink[g].at = "sent" /\ sink[g].frame = output[1]
      <4>1. PICK g \in Pairs : sink[g].at = "sent" /\ sink[g].frame = output[1]
        BY <3>6
      <4>2. events[1].request < output[1]
        BY <1>8, <2>3, <2>6, <4>1
      <4> QED BY <2>7, <3>3, <3>4, <4>2
    <3> QED BY <2>4, <2>5, <3>5, <3>6
  <2>9. \A k \in 1..m : k = 1 \/ output[k] # output[1]
    <3> SUFFICES ASSUME NEW k \in 1..m, k # 1 PROVE output[k] # output[1]
      OBVIOUS
    <3>1. output[1] < output[k]
      BY <2>4, <2>5
    <3> QED BY <2>4, <2>5, <2>7, <3>1
  <2>10. SinkOK'
    <3> SUFFICES ASSUME NEW g \in Pairs, sink[g].at # "idle"
                 PROVE  /\ sink[g].frame = sink[g].request
                        /\ sink[g].frame <= Taken
                        /\ \A j \in 1..Len(Awaited) : sink[g].frame < Awaited[j]
                        /\ \A i \in 1..(n - 1) : Success(i)' => events'[i].request < sink[g].frame
                        /\ sink[g].at = "popped" => \A k \in 1..(m - 1) : output'[k] < sink[g].frame
                        /\ sink[g].at = "sent" => \E k \in 1..(m - 1) : output'[k] = sink[g].frame
      BY <1>2, <1>3, <1>7, <2>2 DEF SinkOK
    <3>1. \A i \in 1..(n - 1) : Success(i)' => events'[i].request < sink[g].frame
      BY <1>7, <1>8, <1>9, <2>6
    <3>2. sink[g].at = "popped" => \A k \in 1..(m - 1) : output'[k] < sink[g].frame
      BY <2>2, <2>4, <2>6
    <3>3. ASSUME sink[g].at = "sent" PROVE \E k \in 1..(m - 1) : output'[k] = sink[g].frame
      <4>1. PICK k \in 1..m : output[k] = sink[g].frame
        BY <2>6, <3>3
      <4>2. output[1] < sink[g].frame
        BY <1>8, <2>3, <2>6, <2>8
      <4>3. k # 1
        BY <2>4, <2>5, <2>6, <2>7, <4>1, <4>2
      <4>4. k - 1 \in 1..(m - 1) /\ output'[k - 1] = output[k]
        BY <2>2, <2>4, <4>3
      <4> QED BY <4>1, <4>4
    <3> QED BY <2>6, <3>1, <3>2, <3>3
  <2>11. OutputOK'
    <3>1. ASSUME NEW k \in 1..(m - 1)
          PROVE  /\ output'[k] <= Taken
                 /\ \A j \in 1..Len(Awaited) : output'[k] < Awaited[j]
                 /\ \/ \E i \in 1..(n - 1) : Success(i)' /\ events'[i].request = output'[k]
                    \/ \E g \in Pairs : sink[g].at = "sent" /\ sink[g].frame = output'[k]
      <4>1. PICK h \in 1..m : h = k + 1 /\ h # 1 /\ output'[k] = output[h]
        BY <2>2, <2>4
      <4>2. CASE \E i \in 1..n : Success(i) /\ events[i].request = output[h]
        <5>1. PICK i \in 1..n : Success(i) /\ events[i].request = output[h]
          BY <4>2
        <5>2. i # 1
          BY <2>8, <2>9, <4>1, <5>1
        <5>3. i - 1 \in 1..(n - 1) /\ (i - 1) + 1 = i
          BY <1>8, <5>2
        <5>4. Success(i - 1)' /\ events'[i - 1].request = output'[k]
          BY <1>7, <1>9, <4>1, <5>1, <5>3
        <5> QED BY <2>5, <4>1, <5>3, <5>4
      <4>3. CASE \E g \in Pairs : sink[g].at = "sent" /\ sink[g].frame = output[h]
        BY <2>5, <4>1, <4>3
      <4> QED BY <2>5, <4>2, <4>3
    <3>2. \A k, j \in 1..(m - 1) : k < j => output'[k] < output'[j]
      BY <2>2, <2>4, <2>5
    <3> QED BY <1>2, <1>3, <1>7, <2>2, <3>1, <3>2 DEF OutputOK, Increasing
  <2>12. EventsOK'
    <3>1. ASSUME NEW i \in 1..(n - 1), NEW j \in 1..(n - 1), i < j, Success(i)', Success(j)'
          PROVE  events'[i].request < events'[j].request
      BY <1>7, <1>8, <1>9, <1>11, <3>1
    <3>2. ASSUME NEW i \in 1..(n - 1), Success(i)'
          PROVE  \E k \in 1..(m - 1) : output'[k] = events'[i].request
      <4>1. PICK h \in 1..n : h = i + 1 /\ 1 < h /\ Success(h) /\ events'[i] = events[h]
        BY <1>7, <1>8, <1>9, <3>2
      <4>2. PICK k \in 1..m : output[k] = events[h].request
        BY <1>11, <2>1, <4>1
      <4>3. output[1] < output[k]
        BY <1>8, <1>11, <2>3, <2>8, <4>1, <4>2
      <4>4. k # 1
        BY <2>4, <2>5, <2>7, <4>3
      <4>5. k - 1 \in 1..(m - 1) /\ output'[k - 1] = output[k]
        BY <2>2, <2>4, <4>4
      <4> QED BY <4>1, <4>2, <4>5
    <3> QED BY <1>7, <2>2, <3>1, <3>2 DEF EventsOK
  <2>13. ResultOK'
    <3>1. result \in [Requests -> 0..MaxRequests]
      BY TypedParts DEF AppTyped
    <3> SUFFICES ASSUME NEW x \in Requests PROVE result'[x] \in {None, x}
      BY DEF ResultOK
    <3>2. result[x] \in {None, x}
      BY DEF ResultOK
    <3> QED BY <2>2, <2>8, <3>1, <3>2
  <2> QED BY <1>4, <1>5, <2>10, <2>11, <2>12, <2>13 DEF OrderOK
<1> QED BY <1>12, <1>13

\* Frames that went missing stay so.
LEMMA MissingBefore == Typed /\ [Next]_vars /\ missing' = 0 => missing = 0
<1> SUFFICES ASSUME Typed, [Next]_vars, missing' = 0 PROVE missing = 0
  OBVIOUS
<1>0. missing \in Nat
  BY TypedParts DEF RestTyped
<1>1. CASE \/ Prepare \/ PrepareRefused \/ Invoke \/ CallReturns \/ CallInterrupted \/ Stop
           \/ HandleEvent \/ Destroy \/ DestroyJoined
  BY <1>1 DEF Prepare, PrepareRefused, Invoke, CallReturns, CallInterrupted, Stop, HandleEvent,
              Destroy, DestroyJoined
<1>2. CASE SvcInvoke
  <2>1. PICK lost \in Nat : missing' = missing + lost
    BY <1>2, PushCounts
  <2> QED BY <1>0, <2>1
<1>3. CASE \/ SvcPrepare \/ SvcPrepareFails \/ SvcInvokeFails \/ SvcQueue \/ SvcStop
           \/ SvcNoSource \/ SvcExit \/ BusError \/ UNCHANGED vars
  BY <1>3 DEF SvcPrepare, SvcPrepareFails, SvcInvokeFails, SvcQueue, SvcStop, SvcNoSource,
              SvcExit, BusError, vars
<1>4. ASSUME NEW g \in Pairs,
             \/ Transmit(g) \/ LoseFrame(g) \/ Serve(g) \/ SinkPop(g)
             \/ SinkFindsNone(g) \/ SinkRefuses(g) \/ SinkSend(g)
             \/ SinkSendFails(g) \/ SinkPublish(g) \/ SinkPublishFails(g)
             \/ SinkAfterDestroy(g)
      PROVE  missing = 0
  <2>1. CASE Transmit(g) \/ LoseFrame(g) \/ Serve(g)
    <3>1. missing' = missing \/ missing' = missing + 1
      BY <2>1, Zenon DEF Transmit, LoseFrame, Serve
    <3> QED BY <1>0, <3>1
  <2>2. CASE SinkPop(g) \/ SinkFindsNone(g) \/ SinkRefuses(g) \/ SinkAfterDestroy(g)
    BY <1>0, <2>2 DEF SinkPop, SinkFindsNone, SinkRefuses, SinkAfterDestroy
  <2>3. CASE SinkSend(g) \/ SinkSendFails(g) \/ SinkPublish(g) \/ SinkPublishFails(g)
    <3>1. UNCHANGED sinkOnly
      BY <2>3 DEF SinkSend, SinkSendFails, SinkPublish, SinkPublishFails
    <3> QED BY <3>1 DEF sinkOnly
  <2> QED BY <1>4, <2>1, <2>2, <2>3
<1> QED BY <1>1, <1>2, <1>3, <1>4 DEF Next

\* Every step keeps the order, while nothing has gone missing.
LEMMA AnswersStep ==
  ASSUME Typed, Typed', CallBody, CallBody', Calm', missing = 0, missing' = 0,
         OrderOK, ResultOK, [Next]_vars
  PROVE  OrderOK' /\ ResultOK'
<1>1. CASE \/ Prepare \/ PrepareRefused \/ Invoke \/ CallReturns \/ Stop \/ Destroy
           \/ SvcInvokeFails \/ SvcExit \/ SvcQueue \/ UNCHANGED vars
  BY <1>1, CallsAnswers
<1>2. CASE DestroyJoined \/ SvcPrepare \/ SvcPrepareFails
  BY <1>2, SourceAnswers
<1>3. CASE HandleEvent
  BY <1>3, EventAnswers
<1>4. CASE SvcInvoke
  BY <1>4, InvokeAnswers
<1>5. CASE SvcStop
  BY <1>5, StopAnswers
<1>6. ~CallInterrupted /\ ~BusError
  BY DEF CallInterrupted, BusError, Calm
<1>7. ~SvcNoSource
  BY DEF SvcNoSource, CallBody
<1>8. ASSUME NEW g \in Pairs,
             \/ Transmit(g) \/ LoseFrame(g) \/ Serve(g) \/ SinkPop(g)
             \/ SinkFindsNone(g) \/ SinkRefuses(g) \/ SinkSend(g)
             \/ SinkSendFails(g) \/ SinkPublish(g) \/ SinkPublishFails(g)
             \/ SinkAfterDestroy(g)
      PROVE  OrderOK' /\ ResultOK'
  <2>1. CASE Transmit(g) \/ Serve(g)
    BY <2>1, FramesAnswers
  <2>2. CASE SinkPop(g)
    BY <2>2, PopAnswers
  <2>3. CASE SinkSend(g)
    BY <2>3, SendAnswers
  <2>4. CASE SinkSendFails(g)
    BY <2>4, SendFailsAnswers
  <2>5. CASE SinkPublish(g)
    BY <2>5, PublishAnswers
  <2>6. ~LoseFrame(g) /\ ~SinkFindsNone(g) /\ ~SinkRefuses(g)
    BY DEF LoseFrame, SinkFindsNone, SinkRefuses
  <2>7. ~SinkPublishFails(g)
    BY DEF SinkPublishFails, Calm
  <2>8. ~SinkAfterDestroy(g)
    BY DEF SinkAfterDestroy, CallBody
  <2> QED BY <1>8, <2>1, <2>2, <2>3, <2>4, <2>5, <2>6, <2>7, <2>8
<1> QED BY <1>1, <1>2, <1>3, <1>4, <1>5, <1>6, <1>7, <1>8 DEF Next

\* The invariant is kept.
LEMMA AnswersOKStep ==
  Typed /\ Typed' /\ CallOK /\ CallOK' /\ AnswersOK /\ [Next]_vars => AnswersOK'
<1> SUFFICES ASSUME Typed, Typed', CallOK, CallOK', AnswersOK, [Next]_vars, Calm', missing' = 0
             PROVE  OrderOK' /\ ResultOK'
  BY DEF AnswersOK
<1>1. Calm /\ missing = 0
  BY CalmBefore, MissingBefore
<1>2. CallBody /\ CallBody'
  BY <1>1 DEF CallOK, CallBody
<1>3. OrderOK /\ ResultOK
  BY <1>1 DEF AnswersOK
<1> QED BY <1>1, <1>2, <1>3, AnswersStep

\* There is nothing to be in order at first.
LEMMA AnswersOKInit == Init => AnswersOK
<1> SUFFICES ASSUME Init PROVE OrderOK /\ ResultOK
  BY DEF AnswersOK
<1>1. /\ events = <<>> /\ output = <<>> /\ requestQueue = <<>> /\ svc = "loop"
      /\ gstSource = None /\ sink = [g \in Pairs |-> IdleSink]
      /\ result = [x \in Requests |-> None]
  BY DEF Init, EventPipe
<1>2. Awaited = <<>>
  BY <1>1 DEF Awaited
<1>3. FramesMatch /\ AwaitedOK /\ OutputOK /\ EventsOK
  BY <1>1, <1>2 DEF FramesMatch, AwaitedOK, OutputOK, EventsOK, Increasing
<1>4. SinkOK
  BY <1>1 DEF SinkOK, IdleSink
<1>5. ResultOK
  BY <1>1 DEF ResultOK
<1> QED BY <1>3, <1>4, <1>5 DEF OrderOK

\* The output that GetOutput() returns for the request of an event of success was
\* computed from the frame of that very request, as long as every answer has taken
\* its request off requestQueue, the application has kept the rules, and no call or
\* event has gone astray.
THEOREM OwnAnswerHolds == Spec => []OwnAnswer
<1>1. Init => Typed /\ CallOK /\ AnswersOK
  BY TypedInit, CallOKInit, AnswersOKInit
<1>2. Typed /\ CallOK /\ AnswersOK /\ [Next]_vars => (Typed /\ CallOK /\ AnswersOK)'
  BY TypedStep, CallOKStep, AnswersOKStep
<1>3. AnswersOK => OwnAnswer
  BY DEF AnswersOK, OwnAnswer, Calm, ResultOK
<1> QED BY <1>1, <1>2, <1>3, PTL DEF Spec
=============================================================================
