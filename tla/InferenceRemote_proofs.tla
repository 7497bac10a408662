----------------------- MODULE InferenceRemote_proofs -----------------------
(***************************************************************************)
(* Proofs about InferenceRemote, for any set of peers and any history of   *)
(* additions, failed activations and removals, of models loaded and of     *)
(* attempts to prepare: the registrations, the peer the loop of Prepare()  *)
(* selects, the model the application was promised, and the pipelines.     *)
(***************************************************************************)
EXTENDS InferenceRemote, SequenceTheorems, WellFoundedInduction, TLAPS

\* Erasing the element at index i keeps the others, in their order.
LEMMA RemoveAtProperties ==
  ASSUME NEW S, NEW s \in Seq(S), NEW i \in 1..Len(s)
  PROVE  /\ RemoveAt(s, i) \in Seq(S)
         /\ Len(RemoveAt(s, i)) = Len(s) - 1
         /\ \A k \in 1..(Len(s) - 1) :
                RemoveAt(s, i)[k] = IF k < i THEN s[k] ELSE s[k + 1]
<1> DEFINE a == SubSeq(s, 1, i - 1)
           b == SubSeq(s, i + 1, Len(s))
<1>1. /\ a \in Seq(S)
      /\ Len(a) = i - 1
      /\ \A k \in 1..(i - 1) : a[k] = s[k]
  <2>1. \A k \in 1..(i - 1) : s[k] \in S
    OBVIOUS
  <2>2. /\ a \in Seq(S)
        /\ Len(a) = IF 1 <= i - 1 THEN (i - 1) - 1 + 1 ELSE 0
        /\ \A k \in 1..((i - 1) - 1 + 1) : a[k] = s[1 + k - 1]
    BY <2>1, SubSeqProperties
  <2> QED BY <2>2
<1>2. /\ b \in Seq(S)
      /\ Len(b) = Len(s) - i
      /\ \A k \in 1..(Len(s) - i) : b[k] = s[i + k]
  <2>1. \A k \in (i + 1)..Len(s) : s[k] \in S
    OBVIOUS
  <2>2. /\ b \in Seq(S)
        /\ Len(b) = IF i + 1 <= Len(s) THEN Len(s) - (i + 1) + 1 ELSE 0
        /\ \A k \in 1..(Len(s) - (i + 1) + 1) : b[k] = s[(i + 1) + k - 1]
    BY <2>1, SubSeqProperties
  <2> QED BY <2>2
<1> HIDE DEF a, b
<1>3. /\ a \o b \in Seq(S)
      /\ Len(a \o b) = Len(a) + Len(b)
      /\ \A k \in 1..(Len(a) + Len(b)) :
             (a \o b)[k] = IF k <= Len(a) THEN a[k] ELSE b[k - Len(a)]
  BY <1>1, <1>2, ConcatProperties
<1>4. RemoveAt(s, i) = a \o b
  BY DEF RemoveAt, a, b
<1>5. ASSUME NEW k \in 1..(Len(s) - 1)
      PROVE  (a \o b)[k] = IF k < i THEN s[k] ELSE s[k + 1]
  <2>1. CASE k < i
    BY <1>1, <1>2, <1>3, <2>1
  <2>2. CASE ~(k < i)
    <3>1. /\ k - Len(a) \in 1..(Len(s) - i)
          /\ i + (k - Len(a)) = k + 1
      BY <1>1, <2>2
    <3>2. b[k - Len(a)] = s[k + 1]
      BY <1>2, <3>1
    <3> QED BY <1>1, <1>2, <1>3, <2>2, <3>2
  <2> QED BY <2>1, <2>2
<1>6. Len(a \o b) = Len(s) - 1
  BY <1>1, <1>2, <1>3
<1>7. \A k \in 1..(Len(s) - 1) : (a \o b)[k] = IF k < i THEN s[k] ELSE s[k + 1]
  BY <1>5
<1> QED BY <1>3, <1>4, <1>6, <1>7, Zenon

\* The part of the types that the registrations need.
VectorOK == peerVector \in Seq(Peers) /\ handlers \subseteq Peers

\* AddPeer() and RemovePeer() keep the handlers and the vector of peers in step.
THEOREM RegistrationsInvariant == Spec => [](VectorOK /\ HandlersAreMembers)
<1> DEFINE IInv == VectorOK /\ HandlersAreMembers
<1>1. Init => IInv
  BY DEF Init, PeersCreated, VectorOK, HandlersAreMembers, Range
<1>2. IInv /\ [Next]_vars => IInv'
  <2> SUFFICES ASSUME IInv, [Next]_vars PROVE IInv'
    OBVIOUS
  <2>1. ASSUME NEW p \in Peers, AddPeer(p) PROVE IInv'
    <3>1. /\ peerVector' = Append(peerVector, p)
          /\ handlers' = handlers \union {p}
          /\ p \notin handlers
      BY <2>1 DEF AddPeer
    <3>2. /\ peerVector' \in Seq(Peers)
          /\ DOMAIN peerVector = 1..Len(peerVector)
          /\ DOMAIN peerVector' = 1..(Len(peerVector) + 1)
          /\ \A k \in 1..Len(peerVector) : peerVector'[k] = peerVector[k]
          /\ peerVector'[Len(peerVector) + 1] = p
          /\ Len(peerVector) \in Nat
      BY <3>1 DEF VectorOK
    <3>3. Range(peerVector') = Range(peerVector) \union {p}
      BY <3>2 DEF Range
    <3>4. \A k \in 1..Len(peerVector) : peerVector[k] # p
      BY <3>1, <3>2 DEF HandlersAreMembers, Range
    <3>5. \A k, l \in DOMAIN peerVector' : peerVector'[k] = peerVector'[l] => k = l
      BY <3>2, <3>4 DEF HandlersAreMembers
    <3> QED BY <3>1, <3>2, <3>3, <3>5 DEF VectorOK, HandlersAreMembers
  <2>2. ASSUME NEW p \in Peers, AddPeerFails(p) PROVE IInv'
    BY <2>2 DEF AddPeerFails, VectorOK, HandlersAreMembers, Range
  <2>3. ASSUME NEW p \in Peers, RemovePeer(p) PROVE IInv'
    <3> DEFINE n == Len(peerVector)
               i == FindPeer(p)
    <3>1. /\ p \in Range(peerVector)
          /\ handlers' = handlers \ {p}
          /\ peerVector' = RemoveAt(peerVector, i)
      BY <2>3 DEF RemovePeer
    <3>2. n \in Nat /\ DOMAIN peerVector = 1..n
      BY DEF VectorOK
    <3>3. i \in 1..n /\ peerVector[i] = p
      <4>1. PICK k \in 1..n : peerVector[k] = p
        BY <3>1, <3>2 DEF Range
      <4>2. \A j \in 1..(k - 1) : peerVector[j] # p
        BY <3>2, <4>1 DEF HandlersAreMembers
      <4> QED BY <3>2, <4>1, <4>2 DEF FindPeer
    <3> HIDE DEF i
    <3>4. /\ peerVector' \in Seq(Peers)
          /\ Len(peerVector') = n - 1
          /\ \A k \in 1..(n - 1) : peerVector'[k] = IF k < i THEN peerVector[k]
                                                     ELSE peerVector[k + 1]
      BY <3>1, <3>3, RemoveAtProperties DEF VectorOK
    <3>5. DOMAIN peerVector' = 1..(n - 1)
      BY <3>4
    <3>6. \A k, l \in DOMAIN peerVector' : peerVector'[k] = peerVector'[l] => k = l
      <4> SUFFICES ASSUME NEW k \in 1..(n - 1), NEW l \in 1..(n - 1),
                          peerVector'[k] = peerVector'[l]
                   PROVE  k = l
        BY <3>5
      <4> DEFINE before(x) == IF x < i THEN x ELSE x + 1
      <4>1. /\ before(k) \in 1..n /\ peerVector'[k] = peerVector[before(k)]
            /\ before(l) \in 1..n /\ peerVector'[l] = peerVector[before(l)]
        BY <3>2, <3>3, <3>4
      <4>2. before(k) = before(l)
        BY <3>2, <4>1 DEF HandlersAreMembers
      <4> QED BY <3>2, <3>3, <4>2
    <3>7. ASSUME NEW q
          PROVE  q \in Range(peerVector') <=> q \in Range(peerVector) /\ q # p
      <4>1. ASSUME q \in Range(peerVector') PROVE q \in Range(peerVector) /\ q # p
        <5>1. PICK k \in 1..(n - 1) : peerVector'[k] = q
          BY <3>5, <4>1 DEF Range
        <5> DEFINE l == IF k < i THEN k ELSE k + 1
        <5>2. l \in 1..n /\ l # i /\ peerVector[l] = q
          BY <3>2, <3>3, <3>4, <5>1
        <5> QED BY <3>2, <3>3, <5>2 DEF HandlersAreMembers, Range
      <4>2. ASSUME q \in Range(peerVector), q # p PROVE q \in Range(peerVector')
        <5>1. PICK l \in 1..n : peerVector[l] = q
          BY <3>2, <4>2 DEF Range
        <5>2. l # i
          BY <3>3, <4>2, <5>1
        <5> DEFINE k == IF l < i THEN l ELSE l - 1
        <5>3. k \in 1..(n - 1) /\ peerVector'[k] = q
          BY <3>2, <3>3, <3>4, <5>1, <5>2
        <5> QED BY <3>5, <5>3 DEF Range
      <4> QED BY <4>1, <4>2
    <3>8. handlers' = Range(peerVector')
      BY <3>1, <3>7 DEF HandlersAreMembers
    <3> QED BY <3>1, <3>4, <3>6, <3>8 DEF VectorOK, HandlersAreMembers
  <2>4. ASSUME UNCHANGED <<peerVector, handlers>> PROVE IInv'
    BY <2>4 DEF VectorOK, HandlersAreMembers, Range
  <2>5. ASSUME NEW m \in Models, KeepModel(m) \/ LoadModel(m) PROVE IInv'
    BY <2>4, <2>5 DEF KeepModel, LoadModel
  <2>6. CASE PrepareAgain
    BY <2>4, <2>6 DEF PrepareAgain
  <2>7. CASE PrepareSelects
    BY <2>4, <2>7 DEF PrepareSelects
  <2>8. CASE PrepareCannotLoad
    BY <2>4, <2>8 DEF PrepareCannotLoad
  <2>9. ASSUME NEW p \in Peers, AppActivate(p) \/ AppDeactivate(p) PROVE IInv'
    BY <2>4, <2>9 DEF AppActivate, AppDeactivate
  <2>10. CASE UNCHANGED vars
    BY <2>4, <2>10 DEF vars
  <2> QED BY <2>1, <2>2, <2>3, <2>5, <2>6, <2>7, <2>8, <2>9, <2>10 DEF Next
<1> QED BY <1>1, <1>2, PTL DEF Spec

\* The handlers registered at the peers follow the vector of peers, whatever the
\* peers' operations return: no peer is added twice, and none that has left can
\* call into the inference.
THEOREM HandlersFollowMembers == Spec => []HandlersAreMembers
  BY RegistrationsInvariant, PTL

----------------------------------------------------------------------------
(* The loop of Prepare().                                                  *)

\* Induction over the naturals, as a fact about sets: it follows from the least
\* element of the numbers that are not in T.
LEMMA NatSetInduction ==
  ASSUME NEW T, 0 \in T, \A n \in Nat : n \in T => n + 1 \in T
  PROVE  Nat \subseteq T
<1> DEFINE U == {n \in Nat : n \notin T}
<1>1. SUFFICES ASSUME U # {} PROVE FALSE
  OBVIOUS
<1>2. U \subseteq Nat
  OBVIOUS
<1> HIDE DEF U
<1>3. PICK x \in U : \A y \in U : ~(<<y, x>> \in OpToRel(<, Nat))
  BY <1>1, <1>2, NatLessThanWellFounded, WFMin, Zenon
<1> USE DEF U
<1>4. \A y \in U : ~(y < x)
  BY <1>3 DEF OpToRel
<1>5. x # 0 /\ x - 1 \in Nat /\ x - 1 \notin U
  BY <1>4
<1> QED BY <1>5

\* Rounds is the function its recursion describes.
LEMMA RoundsRecursion ==
  ASSUME NEW S, NEW v \in Seq(S), NEW infos
  PROVE  /\ Rounds(v, infos)[0] = Nobody
         /\ \A n \in 1..Len(v) :
                Rounds(v, infos)[n] = Compare(Rounds(v, infos)[n - 1], v[n], infos[v[n]])
<1> DEFINE C(x, n) == Compare(x, v[n], infos[v[n]])
           Rec(g, m) == g = [n \in 0..m |-> IF n = 0 THEN Nobody ELSE C(g[n - 1], n)]
           T == {m \in Nat : \E g : Rec(g, m)}
<1> HIDE DEF C
<1>1. 0 \in T
  <2> DEFINE g == [n \in 0..0 |-> Nobody]
  <2>1. Rec(g, 0)
    OBVIOUS
  <2> QED BY <2>1
<1>2. ASSUME NEW m \in Nat, m \in T PROVE m + 1 \in T
  <2>1. PICK g : Rec(g, m)
    BY <1>2
  <2> DEFINE h == [n \in 0..(m + 1) |-> IF n <= m THEN g[n] ELSE C(g[m], m + 1)]
  <2>2. Rec(h, m + 1)
    BY <2>1
  <2> HIDE DEF h, Rec
  <2> QED BY <2>2
<1>3. Nat \subseteq T
  <2> HIDE DEF T
  <2> QED BY <1>1, <1>2, NatSetInduction
<1>4. \E g : Rec(g, Len(v))
  BY <1>3
<1>5. Rounds(v, infos) = CHOOSE g : Rec(g, Len(v))
  BY DEF Rounds, C
<1>6. Rec(Rounds(v, infos), Len(v))
  BY <1>4, <1>5
<1>7. Len(v) \in Nat
  OBVIOUS
<1> QED BY <1>6, <1>7 DEF C
\* After m rounds `selected' is peer i, the first of the best among the first m.
Leads(v, infos, m, i) ==
  /\ Rounds(v, infos)[m] = [peer |-> v[i], free_memory |-> infos[v[i]].free_memory,
                            free_storage |-> infos[v[i]].free_storage]
  /\ Beats(infos[v[i]], Nobody)
  /\ \A j \in 1..m : /\ ~Beats(infos[v[j]], infos[v[i]])
                     /\ j < i => Beats(infos[v[i]], infos[v[j]])

\* The loop's invariant: none of the first m peers has anything free, or one leads.
Best(v, infos, m) ==
  \/ Rounds(v, infos)[m] = Nobody /\ \A j \in 1..m : ~Beats(infos[v[j]], Nobody)
  \/ \E i \in 1..m : Leads(v, infos, m, i)

\* An answer has two natural numbers.
Answer(a) == a.free_memory \in Nat /\ a.free_storage \in Nat

\* Each peer of the vector has an answer.
LEMMA AnswersGiven ==
  ASSUME NEW v \in Seq(Peers), NEW infos \in [Range(v) -> Resources]
  PROVE  \A j \in 1..Len(v) : Answer(infos[v[j]])
<1>1. \A j \in 1..Len(v) : infos[v[j]] \in Resources
  BY DEF Range
<1>2. \A a \in Resources : Answer(a)
  BY LevelsAssumption DEF Resources, Answer
<1> QED BY <1>1, <1>2

\* Beats is the strict part of a total order on answers.
LEMMA BeatsIsOrder ==
  ASSUME NEW a, NEW b, NEW c, Answer(a), Answer(b), Answer(c)
  PROVE  /\ Beats(a, b) /\ ~Beats(c, b) => Beats(a, c)
         /\ Beats(a, b) => ~Beats(b, a)
BY DEF Answer, Beats

\* After each round `selected' is the first of the best peers looked at so far.
LEMMA RoundsKeepBest ==
  ASSUME NEW v \in Seq(Peers), NEW infos \in [Range(v) -> Resources]
  PROVE  \A m \in 0..Len(v) : Best(v, infos, m)
<1> DEFINE T == {m \in Nat : m <= Len(v) => Best(v, infos, m)}
<1>0. /\ Len(v) \in Nat
      /\ \A j \in 1..Len(v) : Answer(infos[v[j]])
      /\ Answer(Nobody)
  BY AnswersGiven DEF Answer, Nobody
<1>1. 0 \in T
  BY RoundsRecursion DEF Best
<1>2. ASSUME NEW m \in Nat, m \in T PROVE m + 1 \in T
  <2> SUFFICES ASSUME m + 1 <= Len(v) PROVE Best(v, infos, m + 1)
    BY <1>0
  <2> DEFINE s == Rounds(v, infos)[m]
             t == Rounds(v, infos)[m + 1]
             q == infos[v[m + 1]]
  <2>1. Best(v, infos, m) /\ m + 1 \in 1..Len(v)
    BY <1>0, <1>2
  <2>2. t = Compare(s, v[m + 1], q)
    BY <2>1, RoundsRecursion
  <2>3. CASE Beats(q, s)
    <3>1. t = [peer |-> v[m + 1], free_memory |-> q.free_memory,
               free_storage |-> q.free_storage]
      BY <2>2, <2>3 DEF Compare, Beats
    <3>2. /\ Beats(q, Nobody)
          /\ \A j \in 1..m : Beats(q, infos[v[j]])
      <4>1. Answer(q) /\ \A j \in 1..m : Answer(infos[v[j]])
        BY <1>0, <2>1
      <4>2. CASE s = Nobody /\ \A j \in 1..m : ~Beats(infos[v[j]], Nobody)
        BY <1>0, <2>3, <4>1, <4>2, BeatsIsOrder
      <4>3. ASSUME NEW i \in 1..m, Leads(v, infos, m, i) PROVE <3>2!:
        <5>1. Beats(q, infos[v[i]])
          BY <2>3, <4>3 DEF Leads, Beats
        <5>2. ~Beats(Nobody, infos[v[i]])
          BY <1>0, <4>1, <4>3, BeatsIsOrder DEF Leads
        <5> QED BY <1>0, <4>1, <4>3, <5>1, <5>2, BeatsIsOrder DEF Leads
      <4> QED BY <2>1, <4>2, <4>3 DEF Best
    <3>3. \A j \in 1..m : ~Beats(infos[v[j]], q)
      BY <1>0, <2>1, <3>2, BeatsIsOrder
    <3>4. ~Beats(q, q)
      BY <1>0, <2>1, BeatsIsOrder
    <3>5. \A j \in 1..(m + 1) : j \in 1..m \/ j = m + 1
      OBVIOUS
    <3>6. Leads(v, infos, m + 1, m + 1)
      BY <3>1, <3>2, <3>3, <3>4, <3>5 DEF Leads
    <3> QED BY <3>6 DEF Best
  <2>4. CASE ~Beats(q, s)
    <3>1. t = s
      BY <2>2, <2>4 DEF Compare, Beats
    <3>2. \A j \in 1..(m + 1) : j \in 1..m \/ j = m + 1
      OBVIOUS
    <3>3. CASE s = Nobody /\ \A j \in 1..m : ~Beats(infos[v[j]], Nobody)
      BY <2>4, <3>1, <3>2, <3>3 DEF Best
    <3>4. ASSUME NEW i \in 1..m, Leads(v, infos, m, i)
          PROVE  Best(v, infos, m + 1)
      <4>1. ~Beats(q, infos[v[i]])
        BY <2>4, <3>4 DEF Leads, Beats
      <4>2. i \in 1..(m + 1) /\ ~(m + 1 < i)
        OBVIOUS
      <4>3. Leads(v, infos, m + 1, i)
        BY <3>1, <3>2, <3>4, <4>1, <4>2 DEF Leads
      <4> QED BY <4>2, <4>3 DEF Best
    <3> QED BY <2>1, <3>3, <3>4 DEF Best
  <2> QED BY <2>3, <2>4
<1>3. Nat \subseteq T
  <2> HIDE DEF T
  <2> QED BY <1>1, <1>2, NatSetInduction
<1> QED BY <1>0, <1>3

\* The peer that is selected is one of the vector, the first of the best.
LEMMA SelectIsFirstOfBest ==
  ASSUME NEW v \in Seq(Peers), v # <<>>, NEW infos \in [Range(v) -> Resources]
  PROVE  FirstOfBest(v, infos)
<1> USE DEF FirstOfBest
<1> DEFINE s == Rounds(v, infos)[Len(v)]
<1>1. /\ Len(v) \in Nat /\ Len(v) # 0
      /\ DOMAIN v = 1..Len(v)
      /\ Head(v) = v[1]
  OBVIOUS
<1>2. Best(v, infos, Len(v))
  BY <1>1, RoundsKeepBest
<1>3. \A j \in DOMAIN v : /\ v[j] \in Peers /\ v[j] # NoPeer
                        /\ Answer(infos[v[j]])
  BY <1>1, AnswersGiven, PeersAssumption
<1>4. CASE s = Nobody /\ \A j \in 1..Len(v) : ~Beats(infos[v[j]], Nobody)
  <2>1. Select(v, infos) = v[1]
    BY <1>1, <1>4 DEF Select, Nobody
  <2>2. \A j \in 1..Len(v) : infos[v[j]].free_memory = 0 /\ infos[v[j]].free_storage = 0
    BY <1>1, <1>3, <1>4 DEF Answer, Beats, Nobody
  <2>3. 1 \in DOMAIN v /\ \A j \in DOMAIN v : ~(j < 1)
    BY <1>1
  <2>4. \A j \in DOMAIN v : ~Beats(infos[v[j]], infos[v[1]])
    BY <1>1, <2>2 DEF Beats
  <2> QED BY <2>1, <2>3, <2>4
<1>5. ASSUME NEW i \in 1..Len(v), Leads(v, infos, Len(v), i)
      PROVE  Select(v, infos) = v[i]
  BY <1>1, <1>3, <1>5 DEF Select, Leads
<1> QED BY <1>1, <1>2, <1>4, <1>5 DEF Best, Leads
----------------------------------------------------------------------------
(* The selected peer, the promised model and the pipelines.                *)

\* Whatever the peers answer, Prepare() selects the first of the best peers.
THEOREM SelectsFirstOfBestHolds == Spec => []SelectsFirstOfBest
<1>1. VectorOK => SelectsFirstOfBest
  BY SelectIsFirstOfBest DEF VectorOK, SelectsFirstOfBest
<1>2. QED
  BY <1>1, RegistrationsInvariant, PTL

\* The selected peer is a member and the only one with a pipeline, and a model that
\* was accepted is with the inference or with the selected peer.
SelectedInv == TypeOK /\ PipelineOnlyAtSelected /\ AcceptedModelIsKept

\* Every operation of the application, successful or not, keeps SelectedInv.  A new
\* peer is not the selected one because it is not registered; a peer that leaves
\* is deactivated; and the model moves only when the peer has accepted it.
THEOREM SelectedInvariant == Spec => []SelectedInv
<1> USE PeersAssumption, ModelsAssumption
<1>1. Init => SelectedInv
  BY DEF Init, PeersCreated, SelectedInv, TypeOK, PipelineOnlyAtSelected, SelectedIsMember,
         AcceptedModelIsKept
<1>2. /\ SelectedInv /\ [Next]_vars
      /\ VectorOK /\ HandlersAreMembers
      /\ VectorOK' /\ HandlersAreMembers'
      => SelectedInv'
  <2> SUFFICES ASSUME SelectedInv, [Next]_vars, VectorOK, HandlersAreMembers, VectorOK',
                      HandlersAreMembers'
               PROVE  SelectedInv'
    OBVIOUS
  <2> USE DEF SelectedInv, TypeOK, PipelineOnlyAtSelected, SelectedIsMember,
              AcceptedModelIsKept
  <2>0. /\ handlers = Range(peerVector) /\ handlers' = Range(peerVector')
        /\ peerVector' \in Seq(Peers) /\ handlers' \subseteq Peers
    BY DEF HandlersAreMembers, VectorOK
  <2>1. ASSUME NEW p \in Peers, AddPeer(p) PROVE SelectedInv'
    BY <2>0, <2>1 DEF AddPeer, Activate
  <2>2. ASSUME NEW p \in Peers, AddPeerFails(p) PROVE SelectedInv'
    BY <2>0, <2>2 DEF AddPeerFails
  <2>3. ASSUME NEW p \in Peers, RemovePeer(p) PROVE SelectedInv'
    BY <2>0, <2>3 DEF RemovePeer, Deactivate
  <2>4. ASSUME NEW m \in Models, KeepModel(m) PROVE SelectedInv'
    BY <2>0, <2>4 DEF KeepModel
  <2>5. ASSUME NEW m \in Models, LoadModel(m) PROVE SelectedInv'
    BY <2>0, <2>5 DEF LoadModel, LoadOutcomes
  <2>6. CASE PrepareAgain
    BY <2>0, <2>6 DEF PrepareAgain, PrepareOutcomes
  <2>7. ASSUME peerVector # <<>>, NEW infos \in [Range(peerVector) -> Resources]
        PROVE  Select(peerVector, infos) \in Range(peerVector)
    BY <2>7, SelectIsFirstOfBest DEF FirstOfBest, Range
  <2>8. CASE PrepareSelects
    <3>1. PICK infos \in [Range(peerVector) -> Resources] :
            LET p == Select(peerVector, infos) IN
            /\ \E o \in IF modelFile = NoModel THEN {[path |-> model[p], ok |-> TRUE]}
                                               ELSE LoadOutcomes(p, modelFile) :
                  /\ o.ok
                  /\ model' = [model EXCEPT ![p] = o.path]
                  /\ \E m \in PrepareOutcomes(p, o.path) :
                         pipeline' = [pipeline EXCEPT ![p] = m]
            /\ peer' = p
      BY <2>8 DEF PrepareSelects
    <3> DEFINE p == Select(peerVector, infos)
    <3>2. p \in Range(peerVector) /\ p \in Peers
      BY <2>0, <2>7, <2>8 DEF PrepareSelects, VectorOK
    <3> HIDE DEF p
    <3>3. PICK o \in IF modelFile = NoModel THEN {[path |-> model[p], ok |-> TRUE]}
                                            ELSE LoadOutcomes(p, modelFile) :
            /\ o.ok
            /\ model' = [model EXCEPT ![p] = o.path]
            /\ \E m \in PrepareOutcomes(p, o.path) : pipeline' = [pipeline EXCEPT ![p] = m]
      BY <3>1, Zenon DEF p
    <3>4. o.path \in Models \union {NoModel} /\ (modelFile # NoModel => o.path = modelFile)
      <4>1. CASE modelFile = NoModel
        BY <3>2, <3>3, <4>1
      <4>2. CASE modelFile # NoModel
        BY <3>2, <3>3, <4>2 DEF LoadOutcomes
      <4> QED BY <4>1, <4>2
    <3>5. PICK m \in PrepareOutcomes(p, o.path) : pipeline' = [pipeline EXCEPT ![p] = m]
      BY <3>3
    <3>6. m \in Models \union {NoModel}
      BY <3>2, <3>4 DEF PrepareOutcomes
    <3>7. peer' = p /\ model' = [model EXCEPT ![p] = o.path]
      BY <3>1, <3>3 DEF p
    <3> QED BY <2>0, <2>8, <3>2, <3>4, <3>5, <3>6, <3>7 DEF PrepareSelects, Cleared
  <2>9. CASE PrepareCannotLoad
    BY <2>0, <2>7, <2>9 DEF PrepareCannotLoad, LoadOutcomes
  <2>10. ASSUME NEW p \in Peers, AppActivate(p) PROVE SelectedInv'
    BY <2>0, <2>10 DEF AppActivate, Activate
  <2>11. ASSUME NEW p \in Peers, AppDeactivate(p) PROVE SelectedInv'
    BY <2>0, <2>11 DEF AppDeactivate, Deactivate
  <2>12. CASE UNCHANGED vars
    BY <2>0, <2>12 DEF vars
  <2> QED BY <2>1, <2>2, <2>3, <2>4, <2>5, <2>6, <2>8, <2>9, <2>10, <2>11, <2>12 DEF Next
<1>3. QED
  BY <1>1, <1>2, RegistrationsInvariant, PTL DEF Spec

\* Every operation keeps the types.
THEOREM RemoteTypeCorrect == Spec => []TypeOK
  BY SelectedInvariant, PTL DEF SelectedInv

\* A model that LoadModel() has accepted is not lost and not replaced by an older one.
THEOREM AcceptedModelIsKeptHolds == Spec => []AcceptedModelIsKept
  BY SelectedInvariant, PTL DEF SelectedInv

\* The selected peer is a member, and no other peer has a pipeline.
THEOREM PipelineOnlyAtSelectedHolds == Spec => []PipelineOnlyAtSelected
  BY SelectedInvariant, PTL DEF SelectedInv
=============================================================================
