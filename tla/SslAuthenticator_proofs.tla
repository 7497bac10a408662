----------------------- MODULE SslAuthenticator_proofs -----------------------
(***************************************************************************)
(* Proofs about SslAuthenticator, for any bounds, credentials, jobs and    *)
(* keys: what an application is answered is its own, no freed key is used, *)
(* and an application whose Prepare() is done is served.                   *)
(***************************************************************************)
EXTENDS SslAuthenticator, SequenceTheorems, TLAPS

CallSteps   == {"GETKEY", "GENERATE_SIGN", "VERIFY_SIGN"}
GenSteps    == {"GENERATE", "generate certificate", "load certificate", "secret"}
CryptoSteps == {"CRYPTO"}
GenEvents    == {"PREPARE_DONE", "PREPARE_ERROR"}
CryptoEvents == {"CRYPTO_DONE", "CRYPTO_ERROR"}

Secrets == [key : {"none", "given", "random"}, coded : Nat]
Works   == {w \in [at : {"idle"} \union CallSteps \union GenSteps \union CryptoSteps, number : Nat,
                   job : {NoJob, "key"} \union Jobs \union KeyIds, ok : BOOLEAN] : w.at = "GETKEY" => w.job \in KeyIds}
Configurations == [key : BOOLEAN, cert : BOOLEAN, base64 : BOOLEAN]
Sets    == [text : Secrets, base64 : BOOLEAN]
Answers == [number : Nat, ok : BOOLEAN]
Events  == GenEvents \union CryptoEvents \union {"DEACTIVATE_DONE"}

\* The types of the variables, by the parts of the system that they are of.
CfgTypes ==
    /\ sslConfig \in Configurations
    /\ zeroBits \in BOOLEAN /\ disturbed \in BOOLEAN /\ configs \in Nat
    /\ secretSet \in Sets

LifeTypes ==
    /\ async \in BOOLEAN /\ activated \in BOOLEAN /\ stopHandler \in BOOLEAN /\ hasty \in BOOLEAN
    /\ loop \in {"STOPPED", "STARTED", "STOP_REQUESTED", "DRAINED"}
    /\ leaving \in {"no", "keypair", "x509", "event"}
    /\ lives \in Nat
    /\ app \in {"idle", "inside", "join", "gone"}

KeyTypes ==
    /\ keypair \in Nat /\ x509 \in Nat /\ keys \in Nat
    /\ secretKey \in Secrets
    /\ mixed \in BOOLEAN /\ hidden \in BOOLEAN /\ crashed \in BOOLEAN
    /\ faults \in Nat

WorkTypes == commands \in Seq(Works) /\ work \in Works

AnswerTypes == replies \in Seq(Answers) /\ outputs \in Seq(Nat) /\ events \in Seq(Events)

CallerTypes ==
    /\ caller \in [Callers -> Nat] /\ calls \in Nat
    /\ astray \in BOOLEAN /\ wrongReply \in BOOLEAN /\ refused \in BOOLEAN

JobTypes ==
    /\ prepares \in Nat /\ requests \in Nat /\ answered \in Nat /\ heard \in Nat
    /\ careless \in BOOLEAN /\ wrongOutput \in BOOLEAN /\ prepared \in BOOLEAN

TypeOK ==
    CfgTypes /\ LifeTypes /\ KeyTypes /\ WorkTypes /\ AnswerTypes /\ CallerTypes /\ JobTypes

\* The application has not asked for the deletion of the authenticator.
Alive == app \notin {"join", "gone"}

\* How the life of the loop, the caller's thread and the handler that runs go together.
LifeOK ==
    /\ ~async => /\ loop = "STOPPED" /\ leaving = "no" /\ stopHandler = FALSE
                 /\ commands = <<>>
                 /\ \A t \in Callers : caller[t] = None
    /\ async => app # "inside"
    /\ (~async /\ app # "inside") => work = Idle
    /\ (async /\ activated /\ Alive) => loop = "STARTED"
    /\ app = "gone" => loop = "STOPPED"
    /\ ~Alive => caller["app"] = None

\* What the handlers and the stop handler leave each other as long as no loop is
\* started before the last one is through.
KeysLive ==
    ~hasty =>
        /\ ~crashed
        /\ leaving # "no" => loop = "STOPPED" /\ work = Idle
        /\ keypair = Freed => leaving = "x509"
        /\ x509 = Freed => leaving = "event"
        /\ app = "gone" => leaving = "no"

IsCall(c) == c.at \in CallSteps

Awaited(k) == k # None /\ \E t \in Callers : caller[t] = k

\* As long as nobody calls while another call is on its way, there is one call on
\* its way, as a command, in its handler or as a reply, and it is the waiting
\* thread's.  Behind a call of the application nothing else is sent.
OneCall ==
    ~astray =>
        /\ ~wrongReply
        /\ \A t, u \in Callers : caller[t] # None /\ caller[u] # None => t = u
        /\ \A i \in DOMAIN commands : IsCall(commands[i]) =>
               /\ Awaited(commands[i].number)
               /\ replies = <<>> /\ ~IsCall(work)
               /\ \A j \in DOMAIN commands : IsCall(commands[j]) => i = j
               /\ caller["app"] # None => i = Len(commands)
        /\ IsCall(work) =>
               /\ Awaited(work.number)
               /\ replies = <<>>
               /\ caller["app"] # None => commands = <<>>
        /\ \A i \in DOMAIN replies :
               /\ Awaited(replies[i].number)
               /\ i = Len(replies)
               /\ caller["app"] # None => commands = <<>> /\ work = Idle

\* The calls of a kind that are on their way, with the numbers n of the events ev: they
\* are those after lo, up to hi, in their order from the events over the work w back to
\* the commands cs.
Queue(E, A, n, lo, hi, ev, w, cs) ==
    /\ n \in [DOMAIN ev -> 0..hi]
    /\ \A i \in DOMAIN ev : ev[i] \in E => lo < n[i]
    /\ \A i, j \in DOMAIN ev : ev[i] \in E /\ ev[j] \in E /\ i < j => n[i] < n[j]
    /\ w.at \in A =>
           /\ lo < w.number /\ w.number <= hi
           /\ \A i \in DOMAIN ev : ev[i] \in E => n[i] < w.number
    /\ \A j \in DOMAIN cs : cs[j].at \in A =>
           /\ lo < cs[j].number /\ cs[j].number <= hi
           /\ \A i \in DOMAIN ev : ev[i] \in E => n[i] < cs[j].number
           /\ w.at \in A => w.number < cs[j].number
           /\ \A l \in DOMAIN cs : cs[l].at \in A /\ j < l => cs[j].number < cs[l].number
    /\ \A k \in (lo + 1)..hi :
           \/ \E i \in DOMAIN ev : ev[i] \in E /\ n[i] = k
           \/ w.at \in A /\ w.number = k
           \/ \E j \in DOMAIN cs : cs[j].at \in A /\ cs[j].number = k

\* The calls of Prepare() whose event the application has not had.
PreparesQueued ==
    heard <= prepares /\ \E n \in [DOMAIN events -> 0..prepares] :
        Queue(GenEvents, GenSteps, n, heard, prepares, events, work, commands)

\* The application can rely on its outputs: it has not given up requests, and the
\* authenticator has not lost its activation while its loop runs.
InStep == ~careless /\ Alive /\ (async => activated \/ loop # "STARTED")

\* The outputs out are those of the requests that are done, in their order.
OutputsOf(n, ev, out) ==
    /\ \A i \in DOMAIN ev : ev[i] = "CRYPTO_DONE" => \E k \in DOMAIN out : out[k] = n[i]
    /\ \A k \in DOMAIN out : \E i \in DOMAIN ev : ev[i] = "CRYPTO_DONE" /\ out[k] = n[i]
    /\ \A k, l \in DOMAIN out : k < l => out[k] < out[l]

\* The requests whose event the application has not had, and the outputs.
RequestsQueued ==
    /\ answered <= requests
    /\ wrongOutput => careless
    /\ InStep /\ ~activated => answered = requests
    /\ \E n \in [DOMAIN events -> 0..requests] :
           /\ Queue(CryptoEvents, CryptoSteps, n, answered, requests, events, work, commands)
           /\ InStep => OutputsOf(n, events, outputs)

\* Nothing that excuses a refusal has happened.
Fair == ~hidden /\ ~disturbed /\ ~hasty /\ ~careless /\ ~astray

\* A call of the application would be served, or a failed Prepare() excuses that it is not.
Keyed == mixed \/ (keypair # None /\ x509 = keypair)

\* What the steps of the handler of a Prepare() rely on.
HandlerKeyed ==
    /\ work.at = "generate certificate" => mixed /\ keypair # None
    /\ work.at = "load certificate" => IF work.job = "key" THEN mixed /\ keypair = Configured
                                                           ELSE sslConfig.cert
    /\ work.at = "secret" /\ work.ok => Keyed

\* The loop runs while an application is prepared, or waits for the event of a Prepare().
LoopRuns == async /\ Alive /\ (prepared \/ heard < prepares) => loop = "STARTED"

\* An application was told, or will be, that its Prepare() is done.
Promised == prepared \/ \E i \in DOMAIN events : events[i] = "PREPARE_DONE"

PromiseKept == Alive /\ Promised => Keyed /\ secretKey # NoText

\* A prepared application that waits for a reply finds no refusal.
RepliesServed ==
    caller["app"] # None /\ prepared /\ ~mixed => \A i \in DOMAIN replies : replies[i].ok

\* A command starts a handler.
CommandsStart == \A i \in DOMAIN commands : commands[i].at \in {"GENERATE", "CRYPTO"} \union CallSteps

\* An application whose Prepare() is done is served.
ServedOK ==
    /\ CommandsStart
    /\ zeroBits => disturbed
    /\ Fair => ~refused /\ HandlerKeyed /\ LoopRuns /\ PromiseKept /\ RepliesServed

\* The secret key is the one that was configured last, without its encoding.
SecretOK ==
    secretSet.text # NoText =>
        /\ secretSet.text \in Texts
        /\ secretSet.base64 => secretSet.text.coded = 1
        /\ secretKey = LoadSecretKey(secretSet.text, secretSet.base64)

----------------------------------------------------------------------------
(* The types.                                                              *)

\* A command, and the steps of a handler, are works.
LEMMA WorksOK ==
  /\ Idle \in Works
  /\ \A w \in Works : w.number \in Nat /\ w.ok \in BOOLEAN /\ (w.at = "GETKEY" => w.job \in KeyIds)
  /\ \A k \in Nat : [at |-> "GENERATE", number |-> k, job |-> NoJob, ok |-> TRUE] \in Works
  /\ \A k \in Nat, job \in Jobs :
         [at |-> "CRYPTO", number |-> k, job |-> job, ok |-> TRUE] \in Works
  /\ \A k \in Nat, id \in KeyIds :
         [at |-> "GETKEY", number |-> k, job |-> id, ok |-> TRUE] \in Works
  /\ \A k \in Nat, at \in {"GENERATE_SIGN", "VERIFY_SIGN"} :
         [at |-> at, number |-> k, job |-> NoJob, ok |-> TRUE] \in Works
  /\ \A w \in Works, at \in GenSteps, ok \in BOOLEAN :
         /\ [w EXCEPT !.at = at] \in Works
         /\ [w EXCEPT !.at = at, !.ok = ok] \in Works
  /\ \A w \in Works :
         /\ [w EXCEPT !.at = "load certificate", !.job = "key"] \in Works
         /\ [w EXCEPT !.at = "load certificate", !.job = NoJob] \in Works
<1>1. Idle \in Works
  BY DEF Works, Idle, None, NoJob
<1>2. \A w \in Works : w.number \in Nat /\ w.ok \in BOOLEAN /\ (w.at = "GETKEY" => w.job \in KeyIds)
  BY DEF Works
<1>3. \A k \in Nat : [at |-> "GENERATE", number |-> k, job |-> NoJob, ok |-> TRUE] \in Works
  BY DEF Works, NoJob, GenSteps
<1>4. \A k \in Nat, job \in Jobs :
          [at |-> "CRYPTO", number |-> k, job |-> job, ok |-> TRUE] \in Works
  BY JobsAssumption DEF Works, CryptoSteps
<1>5. \A k \in Nat, id \in KeyIds :
          [at |-> "GETKEY", number |-> k, job |-> id, ok |-> TRUE] \in Works
  BY JobsAssumption DEF Works, CallSteps
<1>6. \A k \in Nat, at \in {"GENERATE_SIGN", "VERIFY_SIGN"} :
          [at |-> at, number |-> k, job |-> NoJob, ok |-> TRUE] \in Works
  BY DEF Works, CallSteps, NoJob
<1>7. ASSUME NEW w \in Works, NEW at \in GenSteps, NEW ok \in BOOLEAN
      PROVE  /\ [w EXCEPT !.at = at] \in Works
             /\ [w EXCEPT !.at = at, !.ok = ok] \in Works
  BY <1>7 DEF Works, GenSteps
<1>8. ASSUME NEW w \in Works
      PROVE  /\ [w EXCEPT !.at = "load certificate", !.job = "key"] \in Works
             /\ [w EXCEPT !.at = "load certificate", !.job = NoJob] \in Works
  BY <1>8 DEF Works, GenSteps, NoJob
<1> QED BY <1>1, <1>2, <1>3, <1>4, <1>5, <1>6, <1>7, <1>8

\* The types of the keys that are configured.
LEMMA SecretsOK ==
  /\ NoText \in Secrets
  /\ Texts \subseteq Secrets
  /\ \A text \in Texts, base64 \in BOOLEAN :
         ~(base64 /\ Undecodable(text)) => LoadSecretKey(text, base64) \in Secrets
  /\ \A zero \in BOOLEAN : GenerateSecretKey(zero) \in Secrets
BY DEF NoText, Secrets, Texts, Undecodable, LoadSecretKey, DecodeBase64, GenerateSecretKey

\* A command sent, or a handler entered, is one of the works.
LEMMA SentTypes ==
  ASSUME LifeTypes, WorkTypes, NEW id, NEW k, NEW job, Command(id, k, job),
         [at |-> id, number |-> k, job |-> job, ok |-> TRUE] \in Works
  PROVE  WorkTypes' /\ app' \in {"idle", "inside", "join", "gone"}
<1>1. commands \in Seq(Works) /\ work \in Works /\ app \in {"idle", "inside", "join", "gone"}
  BY DEF LifeTypes, WorkTypes
<1> DEFINE c == [at |-> id, number |-> k, job |-> job, ok |-> TRUE]
<1>2. c \in Works
  OBVIOUS
<1>3. IF async THEN /\ commands' = Append(commands, c)
                    /\ UNCHANGED <<work, app>>
               ELSE /\ work' = c
                    /\ app' = "inside"
                    /\ UNCHANGED commands
  BY DEF Command
<1> HIDE DEF c
<1> QED BY <1>1, <1>2, <1>3 DEF WorkTypes

\* A new configuration is of its type.
LEMMA ConfigurationTypes ==
  \A given, base64 : base64 \in BOOLEAN => Configuration(given, base64) \in Configurations
BY DEF Configuration, Configurations

\* What ConfigureSecretKey() sets is of its type.
LEMMA SecretConfiguredTypes ==
  ASSUME CfgTypes, KeyTypes, NEW text \in Texts \union {NoText}, NEW zero \in BOOLEAN,
         SecretConfigured(text, zero)
  PROVE  (zeroBits \in BOOLEAN /\ secretKey \in Secrets /\ secretSet \in Sets)'
<1>1. sslConfig.base64 \in BOOLEAN /\ secretKey \in Secrets /\ secretSet \in Sets
  BY DEF CfgTypes, KeyTypes, Configurations
<1>2. \A t \in Secrets, b \in BOOLEAN : [text |-> t, base64 |-> b] \in Sets
  BY DEF Sets
<1>3. zeroBits' \in BOOLEAN
  BY DEF SecretConfigured
<1>4. CASE text = NoText
  <2>1. secretKey' = GenerateSecretKey(zero) /\ secretSet' = [text |-> NoText, base64 |-> TRUE]
    BY <1>4 DEF SecretConfigured
  <2> QED BY <1>2, <1>3, <2>1, SecretsOK
<1>5. CASE text # NoText
  <2>1. text \in Texts
    BY <1>5
  <2>2. CASE sslConfig.base64 /\ Undecodable(text)
    BY <1>1, <1>3, <1>5, <2>2 DEF SecretConfigured
  <2>3. CASE ~(sslConfig.base64 /\ Undecodable(text))
    <3>1. secretKey' = LoadSecretKey(text, sslConfig.base64)
          /\ secretSet' = [text |-> text, base64 |-> sslConfig.base64]
      BY <1>5, <2>3 DEF SecretConfigured
    <3> QED BY <1>1, <1>2, <1>3, <2>1, <2>3, <3>1, SecretsOK
  <2> QED BY <2>2, <2>3
<1> QED BY <1>4, <1>5

\* The answers of the calls are yes or no.
LEMMA AnswersOK ==
  /\ \A id \in KeyIds : GetKeyOf(id) \in BOOLEAN
  /\ GenerateSign \in BOOLEAN
  /\ VerifySign \in BOOLEAN
BY JobsAssumption DEF GetKeyOf, GenerateSign, VerifySign, GetPrivateKey, GetPublicKey, GetCertificate

\* The parts of the system that a step leaves as they are keep their types.
LEMMA Frames ==
  /\ CfgTypes /\ UNCHANGED cfgVars => CfgTypes'
  /\ LifeTypes /\ UNCHANGED <<async, lifeVars, leaving, hasty, app>> => LifeTypes'
  /\ KeyTypes /\ UNCHANGED <<ctxVars, keys, mixed, hidden, crashed, faults>> => KeyTypes'
  /\ WorkTypes /\ UNCHANGED <<commands, work>> => WorkTypes'
  /\ AnswerTypes /\ UNCHANGED <<replies, outputs, events>> => AnswerTypes'
  /\ CallerTypes /\ UNCHANGED callVars => CallerTypes'
  /\ JobTypes /\ UNCHANGED <<jobVars, prepares>> => JobTypes'
<1>1. CfgTypes /\ UNCHANGED cfgVars => CfgTypes'
  BY DEF CfgTypes, cfgVars
<1>2. LifeTypes /\ UNCHANGED <<async, lifeVars, leaving, hasty, app>> => LifeTypes'
  BY DEF LifeTypes, lifeVars
<1>3. KeyTypes /\ UNCHANGED <<ctxVars, keys, mixed, hidden, crashed, faults>> => KeyTypes'
  BY DEF KeyTypes, ctxVars
<1>4. WorkTypes /\ UNCHANGED <<commands, work>> => WorkTypes'
  BY DEF WorkTypes
<1>5. AnswerTypes /\ UNCHANGED <<replies, outputs, events>> => AnswerTypes'
  BY DEF AnswerTypes
<1>6. CallerTypes /\ UNCHANGED callVars => CallerTypes'
  BY DEF CallerTypes, callVars
<1>7. JobTypes /\ UNCHANGED <<jobVars, prepares>> => JobTypes'
  BY DEF JobTypes, jobVars
<1> QED BY <1>1, <1>2, <1>3, <1>4, <1>5, <1>6, <1>7

\* The reply to a call keeps the types.
LEMMA RepliesTypes ==
  ASSUME TypeOK, NEW ok \in BOOLEAN, NEW p, Replies(ok, p)
  PROVE  TypeOK'
<1>0. CfgTypes /\ LifeTypes /\ KeyTypes /\ WorkTypes /\ AnswerTypes /\ CallerTypes /\ JobTypes
  BY DEF TypeOK
<1>1. UNCHANGED <<cfgVars, async, lifeVars, leaving, hasty, app, callVars, jobVars, prepares>>
  BY DEF Replies, loopOnly, lifeVars
<1>2. [number |-> work.number, ok |-> ok] \in Answers
  BY <1>0, WorksOK DEF WorkTypes, Answers
<1>3. WorkTypes'
  BY <1>0, WorksOK DEF Replies, WorkTypes
<1>4. AnswerTypes'
  <2>1. replies' = Append(replies, [number |-> work.number, ok |-> ok])
        /\ UNCHANGED <<outputs, events>>
    BY DEF Replies, Reply
  <2> QED BY <1>0, <1>2, <2>1 DEF AnswerTypes
<1>5. KeyTypes'
  BY <1>0 DEF Replies, KeyTypes, ctxVars
<1> QED BY <1>0, <1>1, <1>3, <1>4, <1>5, Frames DEF TypeOK

\* A call keeps the types.
LEMMA CallTypes ==
  ASSUME TypeOK, NEW t \in Callers, NEW id, NEW job, NEW served \in BOOLEAN,
         Call(t, id, job, served),
         \A k \in Nat : [at |-> id, number |-> k, job |-> job, ok |-> TRUE] \in Works
  PROVE  TypeOK'
<1>0. CfgTypes /\ LifeTypes /\ KeyTypes /\ WorkTypes /\ AnswerTypes /\ CallerTypes /\ JobTypes
  BY DEF TypeOK
<1>1. UNCHANGED <<cfgVars, ctxVars, keys, mixed, hidden, crashed, faults, replies, outputs, events,
                  jobVars, prepares>>
  BY DEF Call
<1>2. calls' = calls + 1 /\ calls \in Nat /\ calls' \in Nat
  BY <1>0 DEF Call, CallerTypes
<1>3. CASE async
  <2>1. Command(id, calls + 1, job) /\ caller' = [caller EXCEPT ![t] = calls + 1]
        /\ astray' = (astray \/ \E u \in Callers : caller[u] # None) /\ refused' = refused
        /\ wrongReply' = wrongReply
    BY <1>3 DEF Call
  <2>2. WorkTypes' /\ app' \in {"idle", "inside", "join", "gone"}
    BY <1>0, <1>2, <2>1, SentTypes
  <2>3. LifeTypes'
    BY <1>0, <2>2 DEF LifeTypes, Call, lifeVars
  <2>4. CallerTypes'
    BY <1>0, <1>2, <2>1 DEF CallerTypes
  <2> QED BY <1>0, <1>1, <2>2, <2>3, <2>4, Frames DEF TypeOK
<1>4. CASE ~async
  <2>1. UNCHANGED <<commands, work, async, lifeVars, leaving, hasty, app>>
    BY <1>4 DEF Call, lifeVars
  <2>2. CallerTypes'
    BY <1>0, <1>2, <1>4 DEF CallerTypes, Call
  <2> QED BY <1>0, <1>1, <2>1, <2>2, Frames DEF TypeOK
<1> QED BY <1>3, <1>4

\* The initial state has the types.
LEMMA TypesInit == ASSUME Init PROVE TypeOK
<1>1. WorkTypes /\ AnswerTypes
  <2>1. WorkTypes
    <3>1. Idle \in Works
      BY WorksOK
    <3> QED BY <3>1 DEF Init, HandlerAdded, WorkTypes
  <2>2. AnswerTypes
    BY DEF Init, EventPipe, HandlerAdded, AnswerTypes
  <2> QED BY <2>1, <2>2
<1>2. CfgTypes
  BY SecretsOK DEF Init, Constructed, CfgTypes, Configurations, Sets
<1>3. KeyTypes
  BY SecretsOK DEF Init, Constructed, KeyTypes, None
<1>4. LifeTypes
  BY DEF Init, Constructed, Loaded, EnableAsync, LifeTypes
<1>5. CallerTypes /\ JobTypes
  BY DEF Init, Loaded, CallerTypes, JobTypes, None
<1> QED BY <1>1, <1>2, <1>3, <1>4, <1>5 DEF TypeOK

\* Every step keeps the types.
LEMMA TypesStep == ASSUME TypeOK, [Next]_vars PROVE TypeOK'
<1>0. CfgTypes /\ LifeTypes /\ KeyTypes /\ WorkTypes /\ AnswerTypes /\ CallerTypes /\ JobTypes
  BY DEF TypeOK
<1>1. ASSUME NEW text \in Texts \cup {NoText}, NEW zero \in BOOLEAN, ConfigureSecretKey(text, zero)
      PROVE  TypeOK'
  <2>1. UNCHANGED <<async, lifeVars, leaving, hasty, app, commands, work, replies, outputs,
                    events, callVars, jobVars, prepares>>
    BY <1>1 DEF ConfigureSecretKey, configOnly, ioVars
  <2>2. CfgTypes' /\ KeyTypes'
    <3>1. (zeroBits \in BOOLEAN /\ secretKey \in Secrets /\ secretSet \in Sets)'
      BY <1>0, <1>1, SecretConfiguredTypes DEF ConfigureSecretKey
    <3>2. sslConfig' \in Configurations
      BY <1>0, <1>1, ConfigurationTypes DEF CfgTypes, ConfigureSecretKey
    <3>3. CfgTypes'
      <4>1. configs' \in Nat
        <5>1. configs' = configs + 1
          BY <1>1 DEF ConfigureSecretKey, Configure
        <5> QED BY <1>0, <5>1 DEF CfgTypes
      <4>2. disturbed' \in BOOLEAN
        BY <1>0, <1>1 DEF CfgTypes, ConfigureSecretKey, Configure
      <4> QED BY <3>1, <3>2, <4>1, <4>2 DEF CfgTypes
    <3>4. KeyTypes'
      BY <1>0, <1>1, <3>1 DEF KeyTypes, ConfigureSecretKey, configOnly, ctxVars
    <3> QED BY <3>3, <3>4
  <2> QED BY <1>0, <2>1, <2>2, Frames DEF TypeOK
<1>2. ASSUME NEW given \in Credentials, NEW base64 \in BOOLEAN, ConfigureSSL(given, base64)
      PROVE  TypeOK'
  <2>1. UNCHANGED <<async, lifeVars, leaving, hasty, app, commands, work, replies, outputs,
                    events, callVars, jobVars, prepares>>
    BY <1>2 DEF ConfigureSSL, configOnly, ioVars
  <2>2. CfgTypes'
    <3>1. sslConfig' \in Configurations
      BY <1>2, ConfigurationTypes DEF ConfigureSSL
    <3>2. configs' \in Nat
      <4>1. configs' = configs + 1
        BY <1>2 DEF ConfigureSSL, Configure
      <4> QED BY <1>0, <4>1 DEF CfgTypes
    <3>3. disturbed' \in BOOLEAN
      BY <1>0, <1>2 DEF CfgTypes, ConfigureSSL, Configure
    <3> QED BY <1>0, <1>2, <3>1, <3>2, <3>3 DEF CfgTypes, ConfigureSSL
  <2>3. KeyTypes'
    BY <1>0, <1>2 DEF KeyTypes, ConfigureSSL, configOnly, ctxVars
  <2> QED BY <1>0, <2>1, <2>2, <2>3, Frames DEF TypeOK
<1>3. ASSUME NEW text \in Texts, NEW given \in Credentials, NEW base64 \in BOOLEAN,
             ConfigureJSON(text, given, base64)
      PROVE  TypeOK'
  <2>1. UNCHANGED <<async, lifeVars, leaving, hasty, app, commands, work, replies, outputs,
                    events, callVars, jobVars, prepares>>
    BY <1>3 DEF ConfigureJSON, configOnly, ioVars
  <2>2. CfgTypes' /\ KeyTypes'
    <3>1. (zeroBits \in BOOLEAN /\ secretKey \in Secrets /\ secretSet \in Sets)'
      BY <1>0, <1>3, SecretConfiguredTypes DEF ConfigureJSON
    <3>2. sslConfig' \in Configurations
      BY <1>0, <1>3, ConfigurationTypes DEF CfgTypes, ConfigureJSON
    <3>3. CfgTypes'
      <4>1. configs' \in Nat
        <5>1. configs' = configs + 1
          BY <1>3 DEF ConfigureJSON, Configure
        <5> QED BY <1>0, <5>1 DEF CfgTypes
      <4>2. disturbed' \in BOOLEAN
        BY <1>0, <1>3 DEF CfgTypes, ConfigureJSON, Configure
      <4> QED BY <3>1, <3>2, <4>1, <4>2 DEF CfgTypes
    <3>4. KeyTypes'
      BY <1>0, <1>3, <3>1 DEF KeyTypes, ConfigureJSON, configOnly, ctxVars
    <3> QED BY <3>3, <3>4
  <2> QED BY <1>0, <2>1, <2>2, Frames DEF TypeOK
<1>4. CASE Activate
  <2>1. UNCHANGED <<cfgVars, ctxVars, keys, mixed, hidden, crashed, faults, commands, work,
                    replies, outputs, events, callVars, jobVars, prepares>>
    BY <1>4 DEF Activate, ioVars
  <2>2. LifeTypes'
    <3>1. CASE async /\ loop # "STOPPED"
      <4>1. lives' \in Nat
        BY <1>0, <1>4 DEF LifeTypes, Activate
      <4>2. activated' = FALSE /\ UNCHANGED <<async, loop, stopHandler, leaving, hasty, app>>
        BY <1>4, <3>1 DEF Activate
      <4> QED BY <1>0, <4>1, <4>2 DEF LifeTypes
    <3>2. CASE ~(async /\ loop # "STOPPED")
      <4>1. hasty' \in BOOLEAN /\ activated' \in BOOLEAN
        BY <1>0, <1>4, <3>2 DEF LifeTypes, Activate
      <4>2. lives' \in Nat /\ loop' \in {"STOPPED", "STARTED", "STOP_REQUESTED", "DRAINED"}
        BY <1>0, <1>4, <3>2 DEF LifeTypes, Activate
      <4> QED BY <1>0, <1>4, <4>1, <4>2 DEF LifeTypes, Activate
    <3> QED BY <3>1, <3>2
  <2> QED BY <1>0, <2>1, <2>2, Frames DEF TypeOK
<1>5. CASE Prepare
  <2>1. UNCHANGED <<cfgVars, ctxVars, keys, mixed, hidden, crashed, faults, replies, outputs,
                    events, callVars>>
    BY <1>5 DEF Prepare
  <2>2. WorkTypes' /\ LifeTypes'
    <3>1. [at |-> "GENERATE", number |-> prepares + 1, job |-> NoJob, ok |-> TRUE] \in Works
      <4>1. prepares + 1 \in Nat
        BY <1>0 DEF JobTypes
      <4> QED BY <4>1, WorksOK
    <3>2. WorkTypes' /\ app' \in {"idle", "inside", "join", "gone"}
      BY <1>0, <1>5, <3>1, SentTypes DEF Prepare
    <3> QED BY <1>0, <1>5, <3>2 DEF LifeTypes, Prepare, lifeVars
  <2>3. JobTypes'
    BY <1>0, <1>5 DEF JobTypes, Prepare, jobVars
  <2> QED BY <1>0, <2>1, <2>2, <2>3, Frames DEF TypeOK
<1>6. ASSUME NEW job \in Jobs, Request(job) PROVE TypeOK'
  <2>1. UNCHANGED <<cfgVars, ctxVars, keys, mixed, hidden, crashed, faults, replies, outputs,
                    events, callVars>>
    BY <1>6 DEF Request
  <2>2. WorkTypes' /\ LifeTypes'
    <3>1. [at |-> "CRYPTO", number |-> requests + 1, job |-> job, ok |-> TRUE] \in Works
      <4>1. requests + 1 \in Nat
        BY <1>0 DEF JobTypes
      <4> QED BY <4>1, WorksOK
    <3>2. WorkTypes' /\ app' \in {"idle", "inside", "join", "gone"}
      BY <1>0, <1>6, <3>1, SentTypes DEF Request
    <3> QED BY <1>0, <1>6, <3>2 DEF LifeTypes, Request, lifeVars
  <2>3. JobTypes'
    BY <1>0, <1>6 DEF JobTypes, Request, jobVars
  <2> QED BY <1>0, <2>1, <2>2, <2>3, Frames DEF TypeOK
<1>7. ASSUME NEW t \in Callers, NEW id \in KeyIds, GetKey(t, id) PROVE TypeOK'
  <2>1. /\ Call(t, "GETKEY", id, GetKeyOf(id))
        /\ \A n \in Nat : [at |-> "GETKEY", number |-> n, job |-> id, ok |-> TRUE] \in Works
        /\ GetKeyOf(id) \in BOOLEAN
    BY <1>7, WorksOK, AnswersOK DEF GetKey
  <2> QED BY <2>1, CallTypes
<1>8. CASE GenerateSignature
  <2>1. /\ Call("app", "GENERATE_SIGN", NoJob, GenerateSign)
        /\ \A n \in Nat : [at |-> "GENERATE_SIGN", number |-> n, job |-> NoJob, ok |-> TRUE] \in Works
        /\ GenerateSign \in BOOLEAN /\ "app" \in Callers
    BY <1>8, WorksOK, AnswersOK DEF GenerateSignature, Callers
  <2> QED BY <2>1, CallTypes
<1>9. CASE VerifySignature
  <2>1. /\ Call("app", "VERIFY_SIGN", NoJob, VerifySign)
        /\ \A n \in Nat : [at |-> "VERIFY_SIGN", number |-> n, job |-> NoJob, ok |-> TRUE] \in Works
        /\ VerifySign \in BOOLEAN /\ "app" \in Callers
    BY <1>9, WorksOK, AnswersOK DEF VerifySignature, Callers
  <2> QED BY <2>1, CallTypes
<1>10. ASSUME NEW t \in Callers, CallReturns(t) PROVE TypeOK'
  <2>1. UNCHANGED <<cfgVars, async, lifeVars, leaving, hasty, app, commands, work, jobVars,
                    prepares>>
    BY <1>10 DEF CallReturns, returnOnly
  <2>2. AnswerTypes'
    BY <1>0, <1>10 DEF AnswerTypes, CallReturns, returnOnly
  <2>3. CallerTypes'
    BY <1>0, <1>10 DEF CallerTypes, CallReturns, returnOnly, None
  <2>4. KeyTypes'
    BY <1>0, <1>10 DEF KeyTypes, CallReturns, returnOnly, ctxVars
  <2> QED BY <1>0, <2>1, <2>2, <2>3, <2>4, Frames DEF TypeOK
<1>11. ASSUME NEW t \in Callers, CallInterrupted(t) PROVE TypeOK'
  <2>1. UNCHANGED <<cfgVars, async, lifeVars, leaving, hasty, app, commands, work, jobVars,
                    prepares>>
    BY <1>11 DEF CallInterrupted, returnOnly
  <2>2. AnswerTypes'
    BY <1>0, <1>11 DEF AnswerTypes, CallInterrupted, returnOnly
  <2>3. CallerTypes'
    BY <1>0, <1>11 DEF CallerTypes, CallInterrupted, returnOnly, None
  <2>4. KeyTypes'
    BY <1>0, <1>11 DEF KeyTypes, CallInterrupted, returnOnly, Fault, ctxVars
  <2> QED BY <1>0, <2>1, <2>2, <2>3, <2>4, Frames DEF TypeOK
<1>12. CASE Deactivate
  <2>1. UNCHANGED <<cfgVars, commands, work, replies, outputs, events, callVars>>
    BY <1>12 DEF Deactivate, ioVars
  <2>2. LifeTypes'
    BY <1>0, <1>12 DEF LifeTypes, Deactivate
  <2>3. KeyTypes'
    BY <1>0, <1>12 DEF KeyTypes, Deactivate, None
  <2>4. JobTypes'
    BY <1>0, <1>12 DEF JobTypes, Deactivate
  <2> QED BY <1>0, <2>1, <2>2, <2>3, <2>4, Frames DEF TypeOK
<1>13. CASE FetchEvent
  <2>1. UNCHANGED <<cfgVars, async, lifeVars, leaving, hasty, app, ctxVars, keys, mixed, hidden,
                    crashed, faults, commands, work, callVars>>
    BY <1>13 DEF FetchEvent
  <2>2. AnswerTypes'
    <3>1. events' \in Seq(Events) /\ replies' \in Seq(Answers)
      BY <1>0, <1>13 DEF AnswerTypes, FetchEvent
    <3>2. outputs' \in Seq(Nat)
      <4>1. outputs' = outputs \/ (outputs # <<>> /\ outputs' = Tail(outputs))
        BY <1>13 DEF FetchEvent, GetResult
      <4>2. outputs \in Seq(Nat)
        BY <1>0 DEF AnswerTypes
      <4> QED BY <4>1, <4>2
    <3> QED BY <3>1, <3>2 DEF AnswerTypes
  <2>3. JobTypes'
    <3>1. wrongOutput' \in BOOLEAN
      BY <1>0, <1>13 DEF JobTypes, FetchEvent, GetResult
    <3>2. prepared' \in BOOLEAN
      BY <1>0, <1>13 DEF JobTypes, LifeTypes, FetchEvent
    <3>3. answered' \in Nat /\ heard' \in Nat
      BY <1>0, <1>13 DEF JobTypes, FetchEvent
    <3> QED BY <1>0, <1>13, <3>1, <3>2, <3>3 DEF JobTypes, FetchEvent
  <2> QED BY <1>0, <2>1, <2>2, <2>3, Frames DEF TypeOK
<1>14. CASE Destroy
  <2>1. UNCHANGED <<cfgVars, ctxVars, keys, mixed, hidden, crashed, faults, commands, work,
                    replies, outputs, events, callVars, jobVars, prepares>>
    BY <1>14 DEF Destroy, ioVars
  <2>2. LifeTypes'
    BY <1>0, <1>14 DEF LifeTypes, Destroy
  <2> QED BY <1>0, <2>1, <2>2, Frames DEF TypeOK
<1>15. CASE DestroyJoined
  <2>1. UNCHANGED <<cfgVars, ctxVars, keys, mixed, hidden, crashed, faults, commands, work,
                    replies, outputs, events, callVars, jobVars, prepares>>
    BY <1>15 DEF DestroyJoined, ioVars
  <2>2. LifeTypes'
    BY <1>0, <1>15 DEF LifeTypes, DestroyJoined, lifeVars
  <2> QED BY <1>0, <2>1, <2>2, Frames DEF TypeOK
<1>16. CASE LoopTakes
  <2>1. UNCHANGED <<cfgVars, ctxVars, keys, mixed, hidden, crashed, faults, replies, outputs,
                    events, callVars, jobVars, prepares>>
    BY <1>16 DEF LoopTakes, loopOnly
  <2>2. WorkTypes'
    BY <1>0, <1>16 DEF WorkTypes, LoopTakes
  <2>3. LifeTypes'
    BY <1>0, <1>16 DEF LifeTypes, LoopTakes, loopOnly
  <2> QED BY <1>0, <2>1, <2>2, <2>3, Frames DEF TypeOK
<1>17. CASE GenerateKey
  <2>1. UNCHANGED <<cfgVars, async, lifeVars, leaving, hasty, app, replies, outputs, events,
                    callVars, jobVars, prepares>>
    BY <1>17 DEF GenerateKey, stepOnly, loopOnly, lifeVars
  <2>2. WorkTypes'
    BY <1>0, <1>17, WorksOK DEF WorkTypes, GenerateKey, stepOnly, GenSteps
  <2>3. KeyTypes'
    <3>1. (keypair \in Nat /\ x509 \in Nat)'
      <4>1. keypair \in Nat /\ x509 \in Nat /\ keys \in Nat
        BY <1>0 DEF KeyTypes
      <4>2. keypair' = Generated(keys') /\ keys' = keys + 1 /\ x509' = x509
        BY <1>17 DEF GenerateKey
      <4> QED BY <4>1, <4>2 DEF Generated, Freed
    <3>3. (keys \in Nat /\ faults \in Nat)'
      <4>1. keys \in Nat /\ faults \in Nat
        BY <1>0 DEF KeyTypes
      <4>2. keys' = keys + 1 /\ faults' = faults
        BY <1>17 DEF GenerateKey, Fault
      <4> QED BY <4>1, <4>2
    <3>2. (mixed \in BOOLEAN /\ crashed \in BOOLEAN)'
      BY <1>0, <1>17 DEF KeyTypes, GenerateKey, stepOnly
    <3> QED BY <1>0, <1>17, <3>1, <3>2, <3>3 DEF KeyTypes, GenerateKey, stepOnly
  <2> QED BY <1>0, <2>1, <2>2, <2>3, Frames DEF TypeOK
<1>18. CASE LoadPrivateKey
  <2>1. UNCHANGED <<cfgVars, async, lifeVars, leaving, hasty, app, replies, outputs, events,
                    callVars, jobVars, prepares>>
    BY <1>18 DEF LoadPrivateKey, stepOnly, loopOnly, lifeVars
  <2>2. WorkTypes'
    BY <1>0, <1>18, WorksOK DEF WorkTypes, LoadPrivateKey, stepOnly, GenSteps
  <2>3. KeyTypes'
    BY <1>0, <1>18 DEF KeyTypes, LoadPrivateKey, stepOnly, ctxVars, Configured
  <2> QED BY <1>0, <2>1, <2>2, <2>3, Frames DEF TypeOK
<1>19. CASE KeyFails
  <2>1. UNCHANGED <<cfgVars, async, lifeVars, leaving, hasty, app, replies, outputs, events,
                    callVars, jobVars, prepares>>
    BY <1>19 DEF KeyFails, stepOnly, loopOnly, lifeVars
  <2>2. WorkTypes'
    BY <1>0, <1>19, WorksOK DEF WorkTypes, KeyFails, stepOnly, ToSecret, GenSteps
  <2>3. KeyTypes'
    BY <1>0, <1>19 DEF KeyTypes, KeyFails, stepOnly, ctxVars, Fault
  <2> QED BY <1>0, <2>1, <2>2, <2>3, Frames DEF TypeOK
<1>20. CASE GenerateCertificate
  <2>1. UNCHANGED <<cfgVars, async, lifeVars, leaving, hasty, app, replies, outputs, events,
                    callVars, jobVars, prepares>>
    BY <1>20 DEF GenerateCertificate, stepOnly, loopOnly, lifeVars
  <2>2. WorkTypes'
    BY <1>0, <1>20, WorksOK DEF WorkTypes, GenerateCertificate, stepOnly, ToSecret, GenSteps
  <2>3. KeyTypes'
    BY <1>0, <1>20 DEF KeyTypes, GenerateCertificate, stepOnly, ctxVars
  <2> QED BY <1>0, <2>1, <2>2, <2>3, Frames DEF TypeOK
<1>21. CASE LoadCertificate
  <2>1. UNCHANGED <<cfgVars, async, lifeVars, leaving, hasty, app, replies, outputs, events,
                    callVars, jobVars, prepares>>
    BY <1>21 DEF LoadCertificate, stepOnly, loopOnly, lifeVars
  <2>2. WorkTypes'
    BY <1>0, <1>21, WorksOK DEF WorkTypes, LoadCertificate, stepOnly, ToSecret, GenSteps
  <2>3. KeyTypes'
    BY <1>0, <1>21 DEF KeyTypes, LoadCertificate, stepOnly, ctxVars, Configured
  <2> QED BY <1>0, <2>1, <2>2, <2>3, Frames DEF TypeOK
<1>22. CASE CertificateFails
  <2>1. UNCHANGED <<cfgVars, async, lifeVars, leaving, hasty, app, replies, outputs, events,
                    callVars, jobVars, prepares>>
    BY <1>22 DEF CertificateFails, stepOnly, loopOnly, lifeVars
  <2>2. WorkTypes'
    BY <1>0, <1>22, WorksOK DEF WorkTypes, CertificateFails, stepOnly, ToSecret, GenSteps
  <2>3. KeyTypes'
    <3>1. (keypair \in Nat /\ x509 \in Nat)'
      <4>1. keypair \in Nat /\ x509 \in Nat /\ keys \in Nat
        BY <1>0 DEF KeyTypes
      <4>2. keypair' = keypair /\ x509' = x509
        BY <1>22 DEF CertificateFails
      <4> QED BY <4>1, <4>2
    <3>3. (keys \in Nat /\ faults \in Nat)'
      <4>1. keys \in Nat /\ faults \in Nat
        BY <1>0 DEF KeyTypes
      <4>2. keys' = keys /\ faults' = faults + 1
        BY <1>22 DEF CertificateFails, Fault
      <4> QED BY <4>1, <4>2
    <3>2. (mixed \in BOOLEAN /\ crashed \in BOOLEAN)'
      BY <1>0, <1>22 DEF KeyTypes, CertificateFails, stepOnly
    <3> QED BY <1>0, <1>22, <3>1, <3>2, <3>3 DEF KeyTypes, CertificateFails, stepOnly
  <2> QED BY <1>0, <2>1, <2>2, <2>3, Frames DEF TypeOK
<1>23. CASE SecretFails
  <2>1. UNCHANGED <<cfgVars, callVars, jobVars, prepares>>
    BY <1>23 DEF SecretFails, loopOnly
  <2>2. WorkTypes'
    BY <1>0, <1>23, WorksOK DEF WorkTypes, SecretFails, Done
  <2>3. LifeTypes'
    BY <1>0, <1>23 DEF LifeTypes, SecretFails, Done, loopOnly, lifeVars
  <2>4. AnswerTypes'
    BY <1>0, <1>23 DEF AnswerTypes, SecretFails, Done, PublishEventData, Events, GenEvents
  <2>5. KeyTypes'
    BY <1>0, <1>23, SecretsOK DEF KeyTypes, CfgTypes, SecretFails, ctxVars, Fault
  <2> QED BY <1>0, <2>1, <2>2, <2>3, <2>4, <2>5, Frames DEF TypeOK
<1>24. CASE GenerateEnds
  <2>1. UNCHANGED <<cfgVars, callVars, jobVars, prepares>>
    BY <1>24 DEF GenerateEnds, loopOnly
  <2>2. WorkTypes'
    BY <1>0, <1>24, WorksOK DEF WorkTypes, GenerateEnds, Done
  <2>3. LifeTypes'
    BY <1>0, <1>24 DEF LifeTypes, GenerateEnds, Done, loopOnly, lifeVars
  <2>4. AnswerTypes'
    BY <1>0, <1>24 DEF AnswerTypes, GenerateEnds, Done, PublishEventData, Events, GenEvents
  <2>5. KeyTypes'
    BY <1>0, <1>24, SecretsOK DEF KeyTypes, CfgTypes, GenerateEnds, ctxVars
  <2> QED BY <1>0, <2>1, <2>2, <2>3, <2>4, <2>5, Frames DEF TypeOK
<1>25. CASE CommandCrypto
  <2>1. UNCHANGED <<cfgVars, callVars, jobVars, prepares>>
    BY <1>25 DEF CommandCrypto, loopOnly
  <2>2. WorkTypes'
    BY <1>0, <1>25, WorksOK DEF WorkTypes, CommandCrypto, Done
  <2>3. LifeTypes'
    BY <1>0, <1>25 DEF LifeTypes, CommandCrypto, Done, loopOnly, lifeVars
  <2>4. AnswerTypes'
    <3>1. work.number \in Nat
      BY <1>0, WorksOK DEF WorkTypes
    <3>2. outputs' \in Seq(Nat)
      BY <1>0, <1>25, <3>1 DEF AnswerTypes, CommandCrypto, CryptoOutput
    <3>3. events' \in Seq(Events)
      BY <1>0, <1>25 DEF AnswerTypes, CommandCrypto, Done, PublishEventData, Events, CryptoEvents
    <3> QED BY <1>0, <1>25, <3>2, <3>3 DEF AnswerTypes, CommandCrypto
  <2>5. KeyTypes'
    BY <1>0, <1>25, SecretsOK DEF KeyTypes, CfgTypes, CommandCrypto, ctxVars
  <2> QED BY <1>0, <2>1, <2>2, <2>3, <2>4, <2>5, Frames DEF TypeOK
<1>26. CASE CommandGetKey
  BY <1>26, <1>0, WorksOK, AnswersOK, RepliesTypes DEF CommandGetKey, WorkTypes
<1>27. CASE CommandGenerateSign
  BY <1>27, AnswersOK, RepliesTypes DEF CommandGenerateSign
<1>28. CASE CommandVerifySign
  BY <1>28, AnswersOK, RepliesTypes DEF CommandVerifySign
<1>29. CASE LoopStops
  <2>1. UNCHANGED <<cfgVars, ctxVars, keys, mixed, hidden, crashed, faults, commands, work,
                    replies, outputs, events, callVars, jobVars, prepares>>
    BY <1>29 DEF LoopStops, ioVars
  <2>2. LifeTypes'
    BY <1>0, <1>29 DEF LifeTypes, LoopStops
  <2> QED BY <1>0, <2>1, <2>2, Frames DEF TypeOK
<1>30. CASE Cleanup
  <2>1. UNCHANGED <<cfgVars, commands, work, callVars, jobVars, prepares>>
    BY <1>30 DEF Cleanup
  <2>2. LifeTypes'
    BY <1>0, <1>30 DEF LifeTypes, Cleanup, lifeVars
  <2>3. AnswerTypes'
    <3>1. events' = events \/ events' = Append(events, "DEACTIVATE_DONE")
      BY <1>0, <1>30 DEF LifeTypes, Cleanup, PublishEventData
    <3>2. UNCHANGED <<replies, outputs>>
      BY <1>30 DEF Cleanup
    <3>3. replies \in Seq(Answers) /\ outputs \in Seq(Nat) /\ events \in Seq(Events)
          /\ "DEACTIVATE_DONE" \in Events
      BY <1>0 DEF AnswerTypes, Events
    <3>4. events' \in Seq(Events)
      <4>1. Append(events, "DEACTIVATE_DONE") \in Seq(Events)
        BY <3>3, AppendProperties
      <4> QED BY <3>1, <3>3, <4>1
    <3> QED BY <3>2, <3>3, <3>4 DEF AnswerTypes
  <2>4. KeyTypes'
    <3>1. (keypair \in Nat /\ x509 \in Nat)'
      <4>1. keypair \in Nat /\ x509 \in Nat /\ leaving \in {"no", "keypair", "x509", "event"}
        BY <1>0 DEF KeyTypes, LifeTypes
      <4>2. keypair' \in {keypair, None, Freed} /\ x509' \in {x509, None, Freed}
        BY <1>30, <4>1 DEF Cleanup, AfterFree
      <4> QED BY <4>1, <4>2 DEF None, Freed
    <3>2. crashed' \in BOOLEAN
      BY <1>0, <1>30 DEF KeyTypes, Cleanup
    <3> QED BY <1>0, <1>30, <3>1, <3>2 DEF KeyTypes, Cleanup
  <2> QED BY <1>0, <2>1, <2>2, <2>3, <2>4, Frames DEF TypeOK
<1>31. CASE UNCHANGED vars
  BY <1>0, <1>31, Frames DEF TypeOK, vars, ioVars
<1> QED
  BY <1>1, <1>2, <1>3, <1>4, <1>5, <1>6, <1>7, <1>8, <1>9, <1>10, <1>11, <1>12, <1>13, <1>14,
     <1>15, <1>16, <1>17, <1>18, <1>19, <1>20, <1>21, <1>22, <1>23, <1>24, <1>25, <1>26, <1>27,
     <1>28, <1>29, <1>30, <1>31
     DEF Next, Encrypt, Decrypt

\* Types and ranges of all variables.
THEOREM AuthTypeCorrect == Spec => []TypeOK
<1>1. Init => TypeOK
  BY TypesInit
<1>2. TypeOK /\ [Next]_vars => TypeOK'
  BY TypesStep
<1> QED BY <1>1, <1>2, PTL DEF Spec

----------------------------------------------------------------------------
(* What groups of actions leave as it is.                                  *)

\* The calls that configure.
Configures ==
    \/ \E text \in Texts \cup {NoText}, zero \in BOOLEAN : ConfigureSecretKey(text, zero)
    \/ \E given \in Credentials, base64 \in BOOLEAN : ConfigureSSL(given, base64)
    \/ \E text \in Texts, given \in Credentials, base64 \in BOOLEAN :
           ConfigureJSON(text, given, base64)

\* The steps inside the handler of a Prepare().
MidGenerate ==
    \/ GenerateKey \/ LoadPrivateKey \/ KeyFails
    \/ GenerateCertificate \/ LoadCertificate \/ CertificateFails

\* Configuring changes the configuration and the secret key.
LEMMA ConfiguresFrame ==
  ASSUME Configures
  PROVE  /\ UNCHANGED <<async, activated, loop, stopHandler, lives, leaving, keypair, x509>>
         /\ UNCHANGED <<commands, replies, outputs, events, work>>
         /\ UNCHANGED <<caller, calls, astray, wrongReply, refused>>
         /\ UNCHANGED <<requests, answered, heard, careless, wrongOutput, prepared, prepares>>
         /\ UNCHANGED <<app, mixed, hidden, hasty, crashed>>
<1>1. CASE \E text \in Texts \cup {NoText}, zero \in BOOLEAN : ConfigureSecretKey(text, zero)
  BY <1>1 DEF ConfigureSecretKey, configOnly, lifeVars, ioVars, callVars, jobVars
<1>2. CASE \E given \in Credentials, base64 \in BOOLEAN : ConfigureSSL(given, base64)
  BY <1>2 DEF ConfigureSSL, configOnly, lifeVars, ioVars, callVars, jobVars
<1>3. CASE \E text \in Texts, given \in Credentials, base64 \in BOOLEAN :
               ConfigureJSON(text, given, base64)
  BY <1>3 DEF ConfigureJSON, configOnly, lifeVars, ioVars, callVars, jobVars
<1> QED BY <1>1, <1>2, <1>3 DEF Configures

\* The steps inside the handler of a Prepare() change keys, and go on in the handler.
LEMMA MidGenerateFrame ==
  ASSUME MidGenerate, WorkTypes
  PROVE  /\ UNCHANGED <<async, activated, loop, stopHandler, lives, leaving, secretKey>>
         /\ UNCHANGED <<commands, replies, outputs, events, sslConfig, zeroBits, secretSet, disturbed>>
         /\ UNCHANGED <<caller, calls, astray, wrongReply, refused>>
         /\ UNCHANGED <<requests, answered, heard, careless, wrongOutput, prepared, prepares>>
         /\ UNCHANGED <<app, hidden, hasty>>
         /\ work.at \in GenSteps /\ work # Idle
         /\ work'.at \in GenSteps /\ work'.number = work.number
<1> USE DEF stepOnly, loopOnly, cfgVars, lifeVars, callVars, jobVars
<1>1. /\ UNCHANGED <<async, activated, loop, stopHandler, lives, leaving, secretKey>>
      /\ UNCHANGED <<commands, replies, outputs, events, sslConfig, zeroBits, secretSet, disturbed>>
      /\ UNCHANGED <<caller, calls, astray, wrongReply, refused>>
      /\ UNCHANGED <<requests, answered, heard, careless, wrongOutput, prepared, prepares>>
      /\ UNCHANGED <<app, hidden, hasty>>
  <2>1. CASE GenerateKey
    BY <2>1 DEF GenerateKey
  <2>2. CASE LoadPrivateKey
    BY <2>2 DEF LoadPrivateKey
  <2>3. CASE KeyFails
    BY <2>3 DEF KeyFails
  <2>4. CASE GenerateCertificate
    BY <2>4 DEF GenerateCertificate
  <2>5. CASE LoadCertificate
    BY <2>5 DEF LoadCertificate
  <2>6. CASE CertificateFails
    BY <2>6 DEF CertificateFails
  <2> QED BY <2>1, <2>2, <2>3, <2>4, <2>5, <2>6 DEF MidGenerate
<1>2. /\ work.at \in {"GENERATE", "generate certificate", "load certificate"}
      /\ \/ \E ok : work' = [work EXCEPT !.at = "secret", !.ok = ok]
         \/ work' = [work EXCEPT !.at = "generate certificate"]
         \/ \E job : work' = [work EXCEPT !.at = "load certificate", !.job = job]
  <2>1. CASE GenerateKey
    BY <2>1 DEF GenerateKey
  <2>2. CASE LoadPrivateKey
    BY <2>2 DEF LoadPrivateKey
  <2>3. CASE KeyFails
    BY <2>3 DEF KeyFails, ToSecret
  <2>4. CASE GenerateCertificate
    BY <2>4 DEF GenerateCertificate, ToSecret
  <2>5. CASE LoadCertificate
    BY <2>5 DEF LoadCertificate, ToSecret
  <2>6. CASE CertificateFails
    BY <2>6 DEF CertificateFails, ToSecret
  <2> QED BY <2>1, <2>2, <2>3, <2>4, <2>5, <2>6 DEF MidGenerate
<1>3. work \in [at : {"idle"} \union CallSteps \union GenSteps \union CryptoSteps, number : Nat,
                job : {NoJob, "key"} \union Jobs \union KeyIds, ok : BOOLEAN]
  BY DEF WorkTypes, Works
<1>4. work.at \in GenSteps /\ work # Idle
  <2>1. Idle.at = "idle"
    BY DEF Idle
  <2> QED BY <1>2, <2>1 DEF GenSteps
<1>5. work'.at \in GenSteps /\ work'.number = work.number
  BY <1>2, <1>3 DEF GenSteps
<1> QED BY <1>1, <1>4, <1>5

----------------------------------------------------------------------------
(* The life of the loop, and the keys it frees.                            *)

\* Every step keeps the life of the loop in order.
LEMMA LifeStep ==
  ASSUME TypeOK, LifeOK, [Next]_vars
  PROVE  LifeOK'
<1>0. LifeTypes /\ WorkTypes /\ CallerTypes
  BY DEF TypeOK
<1>1. CASE Configures
  BY <1>0, <1>1, ConfiguresFrame DEF LifeOK, Alive
<1>2. CASE MidGenerate
  BY <1>0, <1>2, MidGenerateFrame DEF LifeOK, Alive
<1>3. CASE Activate
  BY <1>0, <1>3 DEF LifeOK, Alive, LifeTypes, CallerTypes, Callers, None, Activate, Free,
                    cfgVars, lifeVars, ctxVars, ioVars, callVars, jobVars
<1>4. CASE Prepare
  BY <1>0, <1>4 DEF LifeOK, Alive, LifeTypes, CallerTypes, Callers, None, Prepare, Free, Command,
                    cfgVars, lifeVars, ctxVars, ioVars, callVars, jobVars
<1>5. CASE \E job \in Jobs : Request(job)
  BY <1>0, <1>5 DEF LifeOK, Alive, LifeTypes, CallerTypes, Callers, None, Request, Free, Command,
                    cfgVars, lifeVars, ctxVars, ioVars, callVars, jobVars
<1>6. CASE \E t \in Callers, id \in KeyIds : GetKey(t, id)
  BY <1>0, <1>6 DEF LifeOK, Alive, LifeTypes, CallerTypes, Callers, None, GetKey, Call, Command,
                    cfgVars, lifeVars, ctxVars, ioVars, callVars, jobVars
<1>7. CASE GenerateSignature
  BY <1>0, <1>7 DEF LifeOK, Alive, LifeTypes, CallerTypes, Callers, None, GenerateSignature, Call, Command,
                    cfgVars, lifeVars, ctxVars, ioVars, callVars, jobVars
<1>8. CASE VerifySignature
  BY <1>0, <1>8 DEF LifeOK, Alive, LifeTypes, CallerTypes, Callers, None, VerifySignature, Call, Command,
                    cfgVars, lifeVars, ctxVars, ioVars, callVars, jobVars
<1>9. CASE \E t \in Callers : CallReturns(t)
  BY <1>0, <1>9 DEF LifeOK, Alive, LifeTypes, CallerTypes, Callers, None, CallReturns, returnOnly,
                    cfgVars, lifeVars, ctxVars, ioVars, callVars, jobVars
<1>10. CASE \E t \in Callers : CallInterrupted(t)
  BY <1>0, <1>10 DEF LifeOK, Alive, LifeTypes, CallerTypes, Callers, None, CallInterrupted, returnOnly,
                    cfgVars, lifeVars, ctxVars, ioVars, callVars, jobVars
<1>11. CASE Deactivate
  BY <1>0, <1>11 DEF LifeOK, Alive, LifeTypes, CallerTypes, Callers, None, Deactivate, Free,
                    cfgVars, lifeVars, ctxVars, ioVars, callVars, jobVars
<1>12. CASE FetchEvent
  BY <1>0, <1>12 DEF LifeOK, Alive, LifeTypes, CallerTypes, Callers, None, FetchEvent, Free,
                    cfgVars, lifeVars, ctxVars, ioVars, callVars, jobVars
<1>13. CASE Destroy
  BY <1>0, <1>13 DEF LifeOK, Alive, LifeTypes, CallerTypes, Callers, None, Destroy, Free,
                    cfgVars, lifeVars, ctxVars, ioVars, callVars, jobVars
<1>14. CASE DestroyJoined
  BY <1>0, <1>14 DEF LifeOK, Alive, LifeTypes, CallerTypes, Callers, None, DestroyJoined,
                    cfgVars, lifeVars, ctxVars, ioVars, callVars, jobVars
<1>15. CASE LoopTakes
  BY <1>0, <1>15 DEF LifeOK, Alive, LifeTypes, CallerTypes, Callers, None, LoopTakes, loopOnly,
                    cfgVars, lifeVars, ctxVars, ioVars, callVars, jobVars
<1>16. CASE SecretFails
  BY <1>0, <1>16 DEF LifeOK, Alive, LifeTypes, CallerTypes, Callers, None, SecretFails, loopOnly, Done,
                    cfgVars, lifeVars, ctxVars, ioVars, callVars, jobVars
<1>17. CASE GenerateEnds
  BY <1>0, <1>17 DEF LifeOK, Alive, LifeTypes, CallerTypes, Callers, None, GenerateEnds, loopOnly, Done,
                    cfgVars, lifeVars, ctxVars, ioVars, callVars, jobVars
<1>18. CASE CommandCrypto
  BY <1>0, <1>18 DEF LifeOK, Alive, LifeTypes, CallerTypes, Callers, None, CommandCrypto, loopOnly, Done,
                    cfgVars, lifeVars, ctxVars, ioVars, callVars, jobVars
<1>19. CASE CommandGetKey
  BY <1>0, <1>19 DEF LifeOK, Alive, LifeTypes, CallerTypes, Callers, None, CommandGetKey, loopOnly, Replies,
                    cfgVars, lifeVars, ctxVars, ioVars, callVars, jobVars
<1>20. CASE CommandGenerateSign
  BY <1>0, <1>20 DEF LifeOK, Alive, LifeTypes, CallerTypes, Callers, None, CommandGenerateSign, loopOnly, Replies,
                    cfgVars, lifeVars, ctxVars, ioVars, callVars, jobVars
<1>21. CASE CommandVerifySign
  BY <1>0, <1>21 DEF LifeOK, Alive, LifeTypes, CallerTypes, Callers, None, CommandVerifySign, loopOnly, Replies,
                    cfgVars, lifeVars, ctxVars, ioVars, callVars, jobVars
<1>22. CASE LoopStops
  BY <1>0, <1>22 DEF LifeOK, Alive, LifeTypes, CallerTypes, Callers, None, LoopStops,
                    cfgVars, lifeVars, ctxVars, ioVars, callVars, jobVars
<1>23. CASE Cleanup
  BY <1>0, <1>23 DEF LifeOK, Alive, LifeTypes, CallerTypes, Callers, None, Cleanup,
                    cfgVars, lifeVars, ctxVars, ioVars, callVars, jobVars
<1>24. CASE UNCHANGED vars
  BY <1>0, <1>24 DEF LifeOK, Alive, LifeTypes, CallerTypes, Callers, None, vars,
                    cfgVars, lifeVars, ctxVars, ioVars, callVars, jobVars
<1> QED
  BY <1>1, <1>2, <1>3, <1>4, <1>5, <1>6, <1>7, <1>8, <1>9, <1>10, <1>11, <1>12, <1>13, <1>14, <1>15, <1>16, <1>17, <1>18, <1>19, <1>20, <1>21, <1>22, <1>23, <1>24
     DEF Next, Encrypt, Decrypt, Configures, MidGenerate

\* Every step leaves the keys to the handlers, or to the stop handler, but not to both.
LEMMA KeysLiveStep ==
  ASSUME TypeOK, LifeOK, KeysLive, [Next]_vars
  PROVE  KeysLive'
<1>0. LifeTypes /\ KeyTypes /\ WorkTypes
  BY DEF TypeOK
<1>1. CASE Configures
  BY <1>0, <1>1, ConfiguresFrame DEF KeysLive
<1>2. CASE MidGenerate
  <2>1. /\ UNCHANGED <<leaving, hasty, loop, app>>
        /\ work # Idle
    BY <1>0, <1>2, MidGenerateFrame
  <2>2. ~hasty => leaving = "no" /\ keypair # Freed /\ x509 # Freed /\ ~crashed
    BY <1>0, <2>1 DEF KeysLive, LifeTypes
  <2>3. ~hasty => keypair' # Freed /\ x509' # Freed
    <3>1. keys \in Nat
      BY <1>0 DEF KeyTypes
    <3>2. /\ keypair' \in {keypair, Configured, Generated(keys + 1)}
          /\ x509' \in {x509, Configured, keypair}
      BY <1>2 DEF MidGenerate, GenerateKey, LoadPrivateKey, KeyFails, GenerateCertificate,
                 LoadCertificate, CertificateFails
    <3>3. Configured # Freed /\ Generated(keys + 1) # Freed
      BY <3>1 DEF Configured, Freed, Generated
    <3> QED BY <2>2, <3>2, <3>3
  <2>4. ~hasty => ~crashed'
    BY <1>2, <2>2 DEF MidGenerate, GenerateKey, LoadPrivateKey, KeyFails, GenerateCertificate,
                     LoadCertificate, CertificateFails
  <2> QED BY <2>1, <2>2, <2>3, <2>4 DEF KeysLive
<1>3. CASE Activate
  BY <1>0, <1>3 DEF KeysLive, LifeOK, Alive, LifeTypes, KeyTypes, AfterFree, None, Freed, Configured, Idle, Activate, Free,
                    cfgVars, lifeVars, ctxVars, ioVars, callVars, jobVars
<1>4. CASE Prepare
  BY <1>0, <1>4 DEF KeysLive, LifeOK, Alive, LifeTypes, KeyTypes, AfterFree, None, Freed, Configured, Idle, Prepare, Free, Command,
                    cfgVars, lifeVars, ctxVars, ioVars, callVars, jobVars
<1>5. CASE \E job \in Jobs : Request(job)
  BY <1>0, <1>5 DEF KeysLive, LifeOK, Alive, LifeTypes, KeyTypes, AfterFree, None, Freed, Configured, Idle, Request, Free, Command,
                    cfgVars, lifeVars, ctxVars, ioVars, callVars, jobVars
<1>6. CASE \E t \in Callers, id \in KeyIds : GetKey(t, id)
  BY <1>0, <1>6 DEF KeysLive, LifeOK, Alive, LifeTypes, KeyTypes, AfterFree, None, Freed, Configured, Idle, GetKey, Call, Command,
                    cfgVars, lifeVars, ctxVars, ioVars, callVars, jobVars
<1>7. CASE GenerateSignature
  BY <1>0, <1>7 DEF KeysLive, LifeOK, Alive, LifeTypes, KeyTypes, AfterFree, None, Freed, Configured, Idle, GenerateSignature, Call, Command,
                    cfgVars, lifeVars, ctxVars, ioVars, callVars, jobVars
<1>8. CASE VerifySignature
  BY <1>0, <1>8 DEF KeysLive, LifeOK, Alive, LifeTypes, KeyTypes, AfterFree, None, Freed, Configured, Idle, VerifySignature, Call, Command,
                    cfgVars, lifeVars, ctxVars, ioVars, callVars, jobVars
<1>9. CASE \E t \in Callers : CallReturns(t)
  BY <1>0, <1>9 DEF KeysLive, LifeOK, Alive, LifeTypes, KeyTypes, AfterFree, None, Freed, Configured, Idle, CallReturns, returnOnly,
                    cfgVars, lifeVars, ctxVars, ioVars, callVars, jobVars
<1>10. CASE \E t \in Callers : CallInterrupted(t)
  BY <1>0, <1>10 DEF KeysLive, LifeOK, Alive, LifeTypes, KeyTypes, AfterFree, None, Freed, Configured, Idle, CallInterrupted, returnOnly,
                    cfgVars, lifeVars, ctxVars, ioVars, callVars, jobVars
<1>11. CASE Deactivate
  BY <1>0, <1>11 DEF KeysLive, LifeOK, Alive, LifeTypes, KeyTypes, AfterFree, None, Freed, Configured, Idle, Deactivate, Free,
                    cfgVars, lifeVars, ctxVars, ioVars, callVars, jobVars
<1>12. CASE FetchEvent
  BY <1>0, <1>12 DEF KeysLive, LifeOK, Alive, LifeTypes, KeyTypes, AfterFree, None, Freed, Configured, Idle, FetchEvent, Free,
                    cfgVars, lifeVars, ctxVars, ioVars, callVars, jobVars
<1>13. CASE Destroy
  BY <1>0, <1>13 DEF KeysLive, LifeOK, Alive, LifeTypes, KeyTypes, AfterFree, None, Freed, Configured, Idle, Destroy, Free,
                    cfgVars, lifeVars, ctxVars, ioVars, callVars, jobVars
<1>14. CASE DestroyJoined
  BY <1>0, <1>14 DEF KeysLive, LifeOK, Alive, LifeTypes, KeyTypes, AfterFree, None, Freed, Configured, Idle, DestroyJoined,
                    cfgVars, lifeVars, ctxVars, ioVars, callVars, jobVars
<1>15. CASE LoopTakes
  BY <1>0, <1>15 DEF KeysLive, LifeOK, Alive, LifeTypes, KeyTypes, AfterFree, None, Freed, Configured, Idle, LoopTakes, loopOnly,
                    cfgVars, lifeVars, ctxVars, ioVars, callVars, jobVars
<1>16. CASE SecretFails
  BY <1>0, <1>16 DEF KeysLive, LifeOK, Alive, LifeTypes, KeyTypes, AfterFree, None, Freed, Configured, Idle, SecretFails, loopOnly, Done,
                    cfgVars, lifeVars, ctxVars, ioVars, callVars, jobVars
<1>17. CASE GenerateEnds
  BY <1>0, <1>17 DEF KeysLive, LifeOK, Alive, LifeTypes, KeyTypes, AfterFree, None, Freed, Configured, Idle, GenerateEnds, loopOnly, Done,
                    cfgVars, lifeVars, ctxVars, ioVars, callVars, jobVars
<1>18. CASE CommandCrypto
  <2>1. /\ work.at = "CRYPTO" /\ work # Idle
        /\ UNCHANGED <<leaving, hasty, loop, keypair, x509>>
        /\ work' = Idle
        /\ app' \in {app, "idle"}
        /\ crashed' = (crashed \/ KeyOf(work.job) = Freed)
    BY <1>18 DEF CommandCrypto, Done, loopOnly, ctxVars, Idle
  <2>2. ~hasty => leaving = "no" /\ keypair # Freed /\ x509 # Freed /\ ~crashed
    BY <1>0, <2>1 DEF KeysLive, LifeTypes
  <2>3. ~hasty => KeyOf(work.job) # Freed
    <3>1. KeyOf(work.job) \in {None, x509, keypair}
      BY DEF KeyOf, CryptoSymmetric, CryptoAsymmetric
    <3>2. None # Freed
      BY DEF None, Freed
    <3> QED BY <2>2, <3>1, <3>2
  <2> QED BY <2>1, <2>2, <2>3 DEF KeysLive
<1>19. CASE CommandGetKey
  BY <1>0, <1>19 DEF KeysLive, LifeOK, Alive, LifeTypes, KeyTypes, AfterFree, None, Freed, Configured, Idle, CommandGetKey, loopOnly, Replies,
                    cfgVars, lifeVars, ctxVars, ioVars, callVars, jobVars
<1>20. CASE CommandGenerateSign
  BY <1>0, <1>20 DEF KeysLive, LifeOK, Alive, LifeTypes, KeyTypes, AfterFree, None, Freed, Configured, Idle, CommandGenerateSign, loopOnly, Replies,
                    cfgVars, lifeVars, ctxVars, ioVars, callVars, jobVars
<1>21. CASE CommandVerifySign
  BY <1>0, <1>21 DEF KeysLive, LifeOK, Alive, LifeTypes, KeyTypes, AfterFree, None, Freed, Configured, Idle, CommandVerifySign, loopOnly, Replies,
                    cfgVars, lifeVars, ctxVars, ioVars, callVars, jobVars
<1>22. CASE LoopStops
  BY <1>0, <1>22 DEF KeysLive, LifeOK, Alive, LifeTypes, KeyTypes, AfterFree, None, Freed, Configured, Idle, LoopStops,
                    cfgVars, lifeVars, ctxVars, ioVars, callVars, jobVars
<1>23. CASE Cleanup
  <2>1. /\ UNCHANGED <<hasty, loop, work, app>>
        /\ crashed' = (crashed \/ app = "gone")
        /\ leaving # "no"
    BY <1>23 DEF Cleanup, lifeVars
  <2>2. \/ /\ leaving = "keypair" /\ leaving' = "x509"
           /\ keypair' = AfterFree(keypair) /\ x509' = x509
        \/ /\ leaving = "x509" /\ leaving' = "event"
           /\ keypair' = None /\ x509' = AfterFree(x509)
        \/ /\ leaving = "event" /\ leaving' = "no"
           /\ keypair' = keypair /\ x509' = None
    BY <1>0, <1>23 DEF Cleanup, LifeTypes
  <2>3. None # Freed
    BY DEF None, Freed
  <2> QED BY <2>1, <2>2, <2>3 DEF KeysLive
<1>24. CASE UNCHANGED vars
  BY <1>0, <1>24 DEF KeysLive, LifeOK, Alive, LifeTypes, KeyTypes, AfterFree, None, Freed, Configured, Idle, vars,
                    cfgVars, lifeVars, ctxVars, ioVars, callVars, jobVars
<1> QED
  BY <1>1, <1>2, <1>3, <1>4, <1>5, <1>6, <1>7, <1>8, <1>9, <1>10, <1>11, <1>12, <1>13, <1>14, <1>15, <1>16, <1>17, <1>18, <1>19, <1>20, <1>21, <1>22, <1>23, <1>24
     DEF Next, Encrypt, Decrypt, Configures, MidGenerate

\* The initial state is one with no loop, no call and no key.
LEMMA LifeInit == ASSUME Init PROVE LifeOK /\ KeysLive
BY DEF Init, EnableAsync, Constructed, HandlerAdded, Loaded, LifeOK, KeysLive, Alive, Idle, None, Freed,
       Callers

\* The life of the loop, and the keys.
THEOREM LifeInvariant == Spec => [](TypeOK /\ LifeOK /\ KeysLive)
<1>1. Init => TypeOK /\ LifeOK /\ KeysLive
  BY TypesInit, LifeInit
<1>2. TypeOK /\ LifeOK /\ KeysLive /\ [Next]_vars => (TypeOK /\ LifeOK /\ KeysLive)'
  BY TypesStep, LifeStep, KeysLiveStep
<1> QED BY <1>1, <1>2, PTL DEF Spec

\* The run's CrashNeedsHaste, for any bounds: the stop handler of a loop that has
\* ended frees keys that are in use, or runs on a deleted authenticator, only if
\* Activate() was called before DEACTIVATE_DONE (authenticator.cc, CommandCleanup()).
THEOREM CrashNeedsHasteHolds == Spec => []CrashNeedsHaste
<1>1. TypeOK /\ LifeOK /\ KeysLive => CrashNeedsHaste
  BY DEF KeysLive, CrashNeedsHaste, TypeOK, KeyTypes, LifeTypes
<1> QED BY <1>1, LifeInvariant, PTL

----------------------------------------------------------------------------
(* The calls that have a reply.                                            *)

\* What is where in a sequence that one element is appended to.
LEMMA AppendAt ==
  ASSUME NEW S, NEW s \in Seq(S), NEW e \in S
  PROVE  /\ Append(s, e) \in Seq(S)
         /\ Len(Append(s, e)) = Len(s) + 1
         /\ DOMAIN s = 1..Len(s) /\ Len(s) \in Nat
         /\ DOMAIN Append(s, e) = 1..(Len(s) + 1)
         /\ \A i \in DOMAIN s : i \in DOMAIN Append(s, e) /\ Append(s, e)[i] = s[i]
         /\ \A i \in DOMAIN Append(s, e) :
                i \in DOMAIN s \/ (i = Len(s) + 1 /\ Append(s, e)[i] = e)
         /\ Append(s, e)[Len(s) + 1] = e
BY AppendProperties

\* What is where in a sequence that loses its first element.
LEMMA TailAt ==
  ASSUME NEW S, NEW s \in Seq(S), s # <<>>
  PROVE  /\ Tail(s) \in Seq(S)
         /\ 1 \in DOMAIN s /\ s[1] = Head(s) /\ Head(s) \in S
         /\ Len(Tail(s)) = Len(s) - 1 /\ Len(s) \in Nat
         /\ DOMAIN s = 1..Len(s) /\ DOMAIN Tail(s) = 1..(Len(s) - 1)
         /\ \A i \in DOMAIN Tail(s) : i + 1 \in DOMAIN s /\ Tail(s)[i] = s[i + 1]
         /\ \A i \in DOMAIN s : i = 1 \/ (i - 1 \in DOMAIN Tail(s) /\ Tail(s)[i - 1] = s[i])
BY HeadTailProperties

\* A sequence with no index is empty.
LEMMA NoIndex == ASSUME NEW S, NEW s \in Seq(S) PROVE s = <<>> <=> DOMAIN s = {}
BY EmptySeq

\* The parts of the handlers of the calls, and of the ones that end with an event.
LEMMA RepliesFrame ==
  ASSUME CommandGetKey \/ CommandGenerateSign \/ CommandVerifySign
  PROVE  /\ IsCall(work) /\ work' = Idle
         /\ \E ok \in {GetKeyOf(work.job), GenerateSign, VerifySign} :
                /\ replies' = Append(replies, [number |-> work.number, ok |-> ok])
                /\ work.at = "GETKEY" => ok = GetKeyOf(work.job)
                /\ work.at = "GENERATE_SIGN" => ok = GenerateSign
                /\ work.at = "VERIFY_SIGN" => ok = VerifySign
         /\ UNCHANGED <<async, activated, loop, stopHandler, lives, leaving, keypair, x509, secretKey>>
         /\ UNCHANGED <<commands, outputs, events, sslConfig, zeroBits, secretSet, disturbed>>
         /\ UNCHANGED <<caller, calls, astray, wrongReply, refused>>
         /\ UNCHANGED <<requests, answered, heard, careless, wrongOutput, prepared, prepares>>
         /\ UNCHANGED <<app, mixed, hidden, hasty>>
<1> USE DEF Replies, Reply, loopOnly, cfgVars, lifeVars, ctxVars, callVars, jobVars, IsCall, CallSteps
<1>1. CASE CommandGetKey
  BY <1>1 DEF CommandGetKey
<1>2. CASE CommandGenerateSign
  BY <1>2 DEF CommandGenerateSign
<1>3. CASE CommandVerifySign
  BY <1>3 DEF CommandVerifySign
<1> QED BY <1>1, <1>2, <1>3

\* The handlers that end with an event.
EventHandler == SecretFails \/ GenerateEnds \/ CommandCrypto

\* They change nothing of the calls.
LEMMA EventHandlerFrame ==
  ASSUME EventHandler
  PROVE  /\ work' = Idle /\ ~IsCall(work)
         /\ UNCHANGED <<async, activated, loop, stopHandler, lives, leaving, keypair, x509>>
         /\ UNCHANGED <<commands, replies, sslConfig, zeroBits, secretSet, disturbed>>
         /\ UNCHANGED <<caller, calls, astray, wrongReply, refused>>
         /\ UNCHANGED <<requests, answered, heard, careless, wrongOutput, prepared, prepares>>
         /\ UNCHANGED <<mixed, hasty>>
         /\ app' \in {app, "idle"}
<1> USE DEF Done, loopOnly, cfgVars, lifeVars, ctxVars, callVars, jobVars, IsCall, CallSteps
<1>1. CASE SecretFails
  BY <1>1 DEF SecretFails
<1>2. CASE GenerateEnds
  BY <1>2 DEF GenerateEnds
<1>3. CASE CommandCrypto
  BY <1>3 DEF CommandCrypto
<1> QED BY <1>1, <1>2, <1>3 DEF EventHandler

\* A call that is not made while another is awaited is the only one on its way.
LEMMA OneCallCall ==
  ASSUME TypeOK, OneCall, NEW t \in Callers, NEW id \in CallSteps, NEW job, NEW served,
         async, Call(t, id, job, served), [at |-> id, number |-> calls + 1, job |-> job, ok |-> TRUE] \in Works
  PROVE  OneCall'
<1> DEFINE c == [at |-> id, number |-> calls + 1, job |-> job, ok |-> TRUE]
<1>1. /\ caller' = [caller EXCEPT ![t] = calls + 1]
      /\ commands' = Append(commands, c) /\ work' = work
      /\ astray' = (astray \/ \E u \in Callers : caller[u] # None)
      /\ UNCHANGED <<replies, wrongReply>>
  BY DEF Call, Command
<1>2. c \in Works /\ IsCall(c) /\ c.number = calls + 1
  BY DEF IsCall
<1>3. commands \in Seq(Works) /\ replies \in Seq(Answers) /\ caller \in [Callers -> Nat]
      /\ calls \in Nat /\ astray \in BOOLEAN
  BY DEF TypeOK, WorkTypes, AnswerTypes, CallerTypes
<1> HIDE DEF c
<1> SUFFICES ASSUME ~astray' PROVE OneCall'
  BY DEF OneCall
<1>4. ~astray /\ \A u \in Callers : caller[u] = None
  BY <1>1, <1>3
<1>5. /\ ~wrongReply /\ ~IsCall(work)
      /\ \A i \in DOMAIN commands : ~IsCall(commands[i])
      /\ DOMAIN replies = {}
  BY <1>4 DEF OneCall, Awaited
<1>6. replies' = <<>> /\ DOMAIN replies' = {}
  BY <1>1, <1>3, <1>5, NoIndex
<1>7. /\ Len(commands') = Len(commands) + 1
      /\ \A i \in DOMAIN commands' :
             (i \in DOMAIN commands /\ commands'[i] = commands[i]) \/ (i = Len(commands) + 1 /\ commands'[i] = c)
  BY <1>1, <1>2, <1>3, AppendAt
<1>8. \A i \in DOMAIN commands' : IsCall(commands'[i]) => i = Len(commands') /\ commands'[i] = c
  BY <1>5, <1>7
<1>9. /\ calls + 1 # None
      /\ caller'[t] = calls + 1
      /\ \A u \in Callers : u # t => caller'[u] = None
  BY <1>1, <1>3, <1>4 DEF None
<1>10. \A i \in DOMAIN commands' : IsCall(commands'[i]) => Awaited(commands[i].number)'
  <2>1. c.number = calls + 1
    BY <1>2
  <2>2. \E u \in Callers : caller'[u] = calls + 1
    BY <1>9
  <2> QED BY <1>8, <1>9, <2>1, <2>2 DEF Awaited
<1>11. /\ (~wrongReply)' /\ (~IsCall(work))'
       /\ (\A u, v \in Callers : caller[u] # None /\ caller[v] # None => u = v)'
  BY <1>1, <1>5, <1>9 DEF IsCall
<1> QED BY <1>6, <1>8, <1>10, <1>11 DEF OneCall, IsCall

\* Every step keeps at most one call on its way, and its reply the waiting thread's.
LEMMA OneCallStep ==
  ASSUME TypeOK, LifeOK, OneCall, [Next]_vars
  PROVE  OneCall'
<1>0. commands \in Seq(Works) /\ replies \in Seq(Answers) /\ caller \in [Callers -> Nat]
      /\ calls \in Nat /\ astray \in BOOLEAN /\ async \in BOOLEAN /\ WorkTypes
  BY DEF TypeOK, WorkTypes, AnswerTypes, CallerTypes, LifeTypes
<1>1. calls + 1 \in Nat
  BY <1>0
<1>2. ASSUME UNCHANGED <<astray, wrongReply, caller, commands, replies, work>> PROVE OneCall'
  BY <1>2 DEF OneCall, Awaited, IsCall
<1>3. CASE Configures
  BY <1>2, <1>3, ConfiguresFrame
<1>4. CASE MidGenerate
  <2>1. /\ UNCHANGED <<astray, wrongReply, caller, commands, replies>>
        /\ work # Idle /\ work'.at \in GenSteps
    BY <1>0, <1>4, MidGenerateFrame
  <2>2. ~IsCall(work')
    BY <2>1 DEF IsCall, CallSteps, GenSteps
  <2> QED BY <2>1, <2>2 DEF OneCall, Awaited, IsCall
<1>5. CASE Activate \/ Deactivate \/ FetchEvent \/ Destroy \/ DestroyJoined \/ LoopStops \/ Cleanup
           \/ UNCHANGED vars
  <2>1. UNCHANGED <<astray, wrongReply, caller, commands, replies, work>>
    BY <1>5 DEF Activate, Deactivate, FetchEvent, Destroy, DestroyJoined, LoopStops, Cleanup,
                vars, callVars, ioVars
  <2> QED BY <1>2, <2>1
<1>6. ASSUME NEW id \in {"GENERATE", "CRYPTO"}, NEW k \in Nat, NEW job, Free, Command(id, k, job),
             UNCHANGED <<astray, wrongReply, caller, replies>>,
             [at |-> id, number |-> k, job |-> job, ok |-> TRUE] \in Works
      PROVE  OneCall'
  <2> DEFINE c == [at |-> id, number |-> k, job |-> job, ok |-> TRUE]
  <2>1. IF async THEN commands' = Append(commands, c) /\ work' = work
                 ELSE commands' = commands /\ work' = c
    BY <1>6 DEF Command
  <2>2. c \in Works /\ ~IsCall(c) /\ caller["app"] = None
    BY <1>6 DEF IsCall, CallSteps, Free
  <2> HIDE DEF c
  <2>3. CASE async
    <3>1. work' = work
      BY <2>1, <2>3
    <3>2. \A i \in DOMAIN commands' :
              (i \in DOMAIN commands /\ commands'[i] = commands[i]) \/ commands'[i] = c
      BY <1>0, <2>1, <2>2, <2>3, AppendAt
    <3>3. \A i \in DOMAIN commands' : IsCall(commands'[i]) =>
              i \in DOMAIN commands /\ commands'[i] = commands[i]
      BY <2>2, <3>2
    <3> QED BY <1>6, <2>2, <3>1, <3>3 DEF OneCall, Awaited, IsCall
  <2>4. CASE ~async
    <3>1. commands' = commands /\ work' = c /\ commands = <<>>
          /\ \A t \in Callers : caller[t] = None
      BY <2>1, <2>4 DEF LifeOK
    <3>2. ~astray => ~wrongReply /\ DOMAIN replies = {}
      BY <3>1 DEF OneCall, Awaited
    <3>3. DOMAIN commands' = {} /\ ~IsCall(work')
      BY <1>0, <2>2, <3>1, NoIndex
    <3> QED BY <1>6, <3>1, <3>2, <3>3 DEF OneCall, IsCall
  <2> QED BY <1>0, <2>3, <2>4
<1>7. CASE Prepare
  <2>1. prepares + 1 \in Nat
    BY DEF TypeOK, JobTypes
  <2>2. [at |-> "GENERATE", number |-> prepares + 1, job |-> NoJob, ok |-> TRUE] \in Works
    BY <2>1, WorksOK
  <2>3. Free /\ Command("GENERATE", prepares + 1, NoJob)
        /\ UNCHANGED <<astray, wrongReply, caller, replies>>
    BY <1>7 DEF Prepare, callVars
  <2> QED BY <1>6, <2>1, <2>2, <2>3
<1>8. ASSUME NEW job \in Jobs, Request(job) PROVE OneCall'
  <2>1. requests + 1 \in Nat
    BY DEF TypeOK, JobTypes
  <2>2. [at |-> "CRYPTO", number |-> requests + 1, job |-> job, ok |-> TRUE] \in Works
    BY <2>1, WorksOK
  <2>3. Free /\ Command("CRYPTO", requests + 1, job)
        /\ UNCHANGED <<astray, wrongReply, caller, replies>>
    BY <1>8 DEF Request, callVars
  <2> QED BY <1>6, <2>1, <2>2, <2>3
<1>9. ASSUME NEW t \in Callers, NEW id \in CallSteps, NEW job, NEW served, Call(t, id, job, served),
             [at |-> id, number |-> calls + 1, job |-> job, ok |-> TRUE] \in Works
      PROVE  OneCall'
  <2>1. CASE async
    BY <1>9, <2>1, OneCallCall
  <2>2. CASE ~async
    <3>1. UNCHANGED <<astray, wrongReply, caller, commands, replies, work>>
      BY <1>9, <2>2 DEF Call
    <3> QED BY <1>2, <3>1
  <2> QED BY <1>0, <2>1, <2>2
<1>10. ASSUME NEW t \in Callers, NEW id \in KeyIds, GetKey(t, id) PROVE OneCall'
  <2>1. [at |-> "GETKEY", number |-> calls + 1, job |-> id, ok |-> TRUE] \in Works
    BY <1>1, <1>10, WorksOK
  <2>2. Call(t, "GETKEY", id, GetKeyOf(id)) /\ "GETKEY" \in CallSteps
    BY <1>10 DEF GetKey, CallSteps
  <2> QED BY <1>9, <1>10, <2>1, <2>2
<1>11. CASE GenerateSignature
  <2>1. [at |-> "GENERATE_SIGN", number |-> calls + 1, job |-> NoJob, ok |-> TRUE] \in Works
    BY <1>1, WorksOK
  <2>2. /\ Call("app", "GENERATE_SIGN", NoJob, GenerateSign)
        /\ "GENERATE_SIGN" \in CallSteps /\ "app" \in Callers
    BY <1>11 DEF GenerateSignature, CallSteps, Callers
  <2> QED BY <1>9, <2>1, <2>2
<1>12. CASE VerifySignature
  <2>1. [at |-> "VERIFY_SIGN", number |-> calls + 1, job |-> NoJob, ok |-> TRUE] \in Works
    BY <1>1, WorksOK
  <2>2. /\ Call("app", "VERIFY_SIGN", NoJob, VerifySign)
        /\ "VERIFY_SIGN" \in CallSteps /\ "app" \in Callers
    BY <1>12 DEF VerifySignature, CallSteps, Callers
  <2> QED BY <1>9, <2>1, <2>2
<1>13. ASSUME NEW t \in Callers, CallReturns(t) PROVE OneCall'
  <2>1. /\ caller[t] # None /\ replies # <<>>
        /\ replies' = Tail(replies)
        /\ wrongReply' = (wrongReply \/ Head(replies).number # caller[t])
        /\ caller' = [caller EXCEPT ![t] = None]
        /\ UNCHANGED <<astray, commands, work>>
    BY <1>13 DEF CallReturns, returnOnly
  <2>2. /\ 1 \in DOMAIN replies /\ replies[1] = Head(replies)
        /\ DOMAIN replies' = 1..(Len(replies) - 1)
    BY <1>0, <2>1, TailAt
  <2> SUFFICES ASSUME ~astray PROVE OneCall'
    BY <1>0, <2>1 DEF OneCall
  <2>3. PICK u \in Callers : caller[u] = replies[1].number /\ caller[u] # None
    BY <2>2 DEF OneCall, Awaited
  <2>4. u = t
    BY <2>1, <2>3 DEF OneCall
  <2>5. Len(replies) = 1 /\ ~wrongReply
    BY <2>2 DEF OneCall
  <2>6. ~wrongReply' /\ DOMAIN replies' = {}
    <3>1. Head(replies).number = caller[t]
      BY <2>2, <2>3, <2>4
    <3>2. DOMAIN replies' = {}
      BY <2>2, <2>5
    <3> QED BY <2>1, <2>5, <3>1, <3>2
  <2>7. ~IsCall(work) /\ \A i \in DOMAIN commands : ~IsCall(commands[i])
    BY <2>1 DEF OneCall
  <2>8. \A v, w \in Callers : caller'[v] # None /\ caller'[w] # None => v = w
    BY <1>0, <2>1 DEF OneCall
  <2> QED BY <2>1, <2>6, <2>7, <2>8 DEF OneCall, IsCall
<1>14. ASSUME NEW t \in Callers, CallInterrupted(t) PROVE OneCall'
  BY <1>14 DEF CallInterrupted, OneCall
<1>15. CASE LoopTakes
  <2>1. /\ work = Idle /\ commands # <<>>
        /\ work' = Head(commands) /\ commands' = Tail(commands)
        /\ UNCHANGED <<astray, wrongReply, caller, replies>>
    BY <1>15 DEF LoopTakes, loopOnly, callVars
  <2>2. /\ 1 \in DOMAIN commands /\ commands[1] = work'
        /\ Len(commands') = Len(commands) - 1 /\ Len(commands) \in Nat
        /\ commands' \in Seq(Works)
        /\ DOMAIN commands' = 1..(Len(commands) - 1)
        /\ \A i \in DOMAIN commands' : i \in Nat /\ i + 1 \in DOMAIN commands
                                          /\ commands'[i] = commands[i + 1]
    BY <1>0, <2>1, TailAt
  <2> SUFFICES ASSUME ~astray PROVE OneCall'
    BY <1>0, <2>1 DEF OneCall
  <2>3. IsCall(work') =>
            /\ Awaited(work'.number) /\ replies = <<>>
            /\ caller["app"] # None => commands' = <<>>
            /\ \A i \in DOMAIN commands' : ~IsCall(commands'[i])
    <3> SUFFICES ASSUME IsCall(work')
                 PROVE  /\ Awaited(work'.number) /\ replies = <<>>
                        /\ caller["app"] # None => commands' = <<>>
                        /\ \A i \in DOMAIN commands' : ~IsCall(commands'[i])
      OBVIOUS
    <3>1. /\ Awaited(work'.number) /\ replies = <<>>
          /\ caller["app"] # None => 1 = Len(commands)
          /\ \A j \in DOMAIN commands : IsCall(commands[j]) => j = 1
      BY <2>2 DEF OneCall
    <3>2. \A i \in DOMAIN commands' : i + 1 # 1
      BY <2>2
    <3>3. caller["app"] # None => commands' = <<>>
      BY <2>2, <3>1, EmptySeq
    <3> QED BY <2>2, <3>1, <3>2, <3>3
  <2>4. \A i \in DOMAIN commands' : IsCall(commands'[i]) =>
            /\ Awaited(commands'[i].number) /\ replies = <<>>
            /\ \A j \in DOMAIN commands' : IsCall(commands'[j]) => i = j
            /\ caller["app"] # None => i = Len(commands')
    <3> SUFFICES ASSUME NEW i \in DOMAIN commands', IsCall(commands'[i])
                 PROVE  /\ Awaited(commands'[i].number) /\ replies = <<>>
                        /\ \A j \in DOMAIN commands' : IsCall(commands'[j]) => i = j
                        /\ caller["app"] # None => i = Len(commands')
      OBVIOUS
    <3>1. i + 1 \in DOMAIN commands /\ IsCall(commands[i + 1]) /\ commands'[i] = commands[i + 1]
      BY <2>2
    <3>2. /\ Awaited(commands[i + 1].number) /\ replies = <<>>
          /\ \A j \in DOMAIN commands : IsCall(commands[j]) => i + 1 = j
          /\ caller["app"] # None => i + 1 = Len(commands)
      BY <3>1 DEF OneCall
    <3>3. ASSUME NEW j \in DOMAIN commands', IsCall(commands'[j]) PROVE i = j
      <4>1. j + 1 \in DOMAIN commands /\ IsCall(commands[j + 1])
        BY <2>2, <3>3
      <4>2. i + 1 = j + 1
        BY <3>2, <4>1
      <4> QED BY <2>2, <4>2
    <3>4. caller["app"] # None => i = Len(commands')
      BY <2>2, <3>2
    <3> QED BY <3>1, <3>2, <3>3, <3>4
  <2>5. \A i \in DOMAIN replies : Awaited(replies[i].number) /\ i = Len(replies) /\ caller["app"] = None
    BY <2>1 DEF OneCall
  <2>6. \A v, w \in Callers : caller[v] # None /\ caller[w] # None => v = w
    BY DEF OneCall
  <2>7. ~wrongReply
    BY DEF OneCall
  <2> QED BY <2>1, <2>3, <2>4, <2>5, <2>6, <2>7 DEF OneCall, Awaited, IsCall
<1>16. CASE EventHandler
  <2>1. /\ UNCHANGED <<astray, wrongReply, caller, commands, replies>>
        /\ work' = Idle /\ ~IsCall(work) /\ ~IsCall(Idle)
    BY <1>16, EventHandlerFrame DEF IsCall, Idle, CallSteps
  <2> QED BY <2>1 DEF OneCall, Awaited, IsCall
<1>17. CASE CommandGetKey \/ CommandGenerateSign \/ CommandVerifySign
  <2>1. PICK ok \in BOOLEAN : replies' = Append(replies, [number |-> work.number, ok |-> ok])
    <3>1. work \in Works
      BY <1>0 DEF WorkTypes
    <3>2. PICK ok : /\ replies' = Append(replies, [number |-> work.number, ok |-> ok])
                    /\ work.at = "GETKEY" => ok = GetKeyOf(work.job)
                    /\ work.at = "GENERATE_SIGN" => ok = GenerateSign
                    /\ work.at = "VERIFY_SIGN" => ok = VerifySign
      BY <1>17, RepliesFrame
    <3>3. work.at \in CallSteps
      BY <1>17, RepliesFrame DEF IsCall
    <3>4. ok \in BOOLEAN
      BY <3>1, <3>2, <3>3, AnswersOK, WorksOK DEF CallSteps
    <3> QED BY <3>2, <3>4
  <2> DEFINE r == [number |-> work.number, ok |-> ok]
  <2>2. r \in Answers /\ r.number = work.number
    BY <1>0, WorksOK DEF Answers, WorkTypes
  <2>3. /\ UNCHANGED <<astray, wrongReply, caller, commands>>
        /\ work' = Idle /\ IsCall(work) /\ ~IsCall(Idle)
    BY <1>17, RepliesFrame DEF IsCall, Idle, CallSteps
  <2> SUFFICES ASSUME ~astray PROVE OneCall'
    BY <1>0, <2>3 DEF OneCall
  <2>4. /\ Awaited(work.number) /\ replies = <<>>
        /\ caller["app"] # None => commands = <<>>
        /\ \A i \in DOMAIN commands : ~IsCall(commands[i])
        /\ ~wrongReply
        /\ \A v, w \in Callers : caller[v] # None /\ caller[w] # None => v = w
    BY <2>3 DEF OneCall
  <2> HIDE DEF r
  <2>5. /\ Len(replies') = 1
        /\ \A i \in DOMAIN replies' : i = 1 /\ replies'[i] = r
    BY <2>1, <2>4 DEF r
  <2>6. \A i \in DOMAIN replies' : Awaited(replies'[i].number) /\ i = Len(replies')
    BY <2>2, <2>4, <2>5
  <2> QED BY <2>3, <2>4, <2>6 DEF OneCall, Awaited, IsCall
<1> QED
  BY <1>3, <1>4, <1>5, <1>7, <1>8, <1>10, <1>11, <1>12, <1>13, <1>14, <1>15, <1>16, <1>17
     DEF Next, Encrypt, Decrypt, Configures, MidGenerate, EventHandler

\* No call is on its way at first.
LEMMA OneCallInit == ASSUME Init PROVE OneCall
<1>1. /\ ~wrongReply /\ commands = <<>> /\ replies = <<>> /\ work = Idle
      /\ \A t \in Callers : caller[t] = None
  BY DEF Init, HandlerAdded, Loaded
<1>2. DOMAIN commands = {} /\ DOMAIN replies = {} /\ ~IsCall(work)
  BY <1>1 DEF IsCall, Idle, CallSteps
<1> QED BY <1>1, <1>2 DEF OneCall

\* The invariants so far.
THEOREM CallsInvariant == Spec => [](TypeOK /\ LifeOK /\ KeysLive /\ OneCall)
<1>1. Init => OneCall
  BY OneCallInit
<1>2. (TypeOK /\ LifeOK /\ KeysLive) /\ OneCall /\ [Next]_vars => OneCall'
  BY OneCallStep
<1> QED BY <1>1, <1>2, LifeInvariant, PTL DEF Spec

----------------------------------------------------------------------------
(* The calls whose answer is an event: what each of the things that happen *)
(* to a queue of events, of the work and of the commands does to it.       *)

Longer(n, ev, k) == [i \in 1..(Len(ev) + 1) |-> IF i = Len(ev) + 1 THEN k ELSE n[i]]
Shorter(n, ev)   == [i \in 1..(Len(ev) - 1) |-> n[i + 1]]

\* The numbers of works are numbers.
LEMMA NumbersOK ==
  /\ \A w \in Works : w.number \in Nat
  /\ \A cs \in Seq(Works) : \A j \in DOMAIN cs : cs[j].number \in Nat
<1>1. \A w \in Works : w.number \in Nat
  BY WorksOK
<1>2. \A cs \in Seq(Works) : \A j \in DOMAIN cs : cs[j] \in Works
  OBVIOUS
<1> QED BY <1>1, <1>2

\* A command of the kind is sent.
LEMMA QueueSend ==
  ASSUME NEW E, NEW A, NEW n, NEW lo \in Nat, NEW hi \in Nat, NEW ev, NEW w \in Works,
         NEW cs \in Seq(Works), NEW c \in Works, lo <= hi,
         Queue(E, A, n, lo, hi, ev, w, cs), c.at \in A, c.number = hi + 1
  PROVE  Queue(E, A, n, lo, hi + 1, ev, w, Append(cs, c))
<1> DEFINE ds == Append(cs, c)
<1>1. /\ \A j \in DOMAIN cs : j \in DOMAIN ds /\ ds[j] = cs[j] /\ j \in Nat /\ j < Len(cs) + 1
      /\ \A j \in DOMAIN ds : j \in DOMAIN cs \/ (j = Len(cs) + 1 /\ ds[j] = c)
      /\ Len(cs) + 1 \in DOMAIN ds /\ ds[Len(cs) + 1] = c /\ Len(cs) \in Nat
  BY AppendAt
<1>2. w.number \in Nat /\ c.number \in Nat /\ \A j \in DOMAIN cs : cs[j].number \in Nat
  BY NumbersOK
<1> HIDE DEF ds
<1>3. n \in [DOMAIN ev -> 0..(hi + 1)] /\ \A i \in DOMAIN ev : n[i] \in 0..hi
  BY DEF Queue
<1>4. ASSUME NEW j \in DOMAIN ds, ds[j].at \in A
      PROVE  /\ lo < ds[j].number /\ ds[j].number <= hi + 1
             /\ \A i \in DOMAIN ev : ev[i] \in E => n[i] < ds[j].number
             /\ w.at \in A => w.number < ds[j].number
             /\ \A l \in DOMAIN ds : ds[l].at \in A /\ j < l => ds[j].number < ds[l].number
  <2>1. CASE j \in DOMAIN cs
    <3>1. ds[j] = cs[j] /\ cs[j].number <= hi /\ cs[j].number \in Nat
      BY <1>1, <1>2, <1>4, <2>1 DEF Queue
    <3>2. ASSUME NEW l \in DOMAIN ds, ds[l].at \in A, j < l PROVE ds[j].number < ds[l].number
      <4>1. CASE l \in DOMAIN cs
        BY <1>1, <1>4, <2>1, <3>2, <4>1 DEF Queue
      <4>2. CASE ds[l] = c
        BY <3>1, <4>2
      <4> QED BY <1>1, <4>1, <4>2
    <3> QED BY <1>1, <1>2, <1>4, <2>1, <3>1, <3>2 DEF Queue
  <2>2. CASE j = Len(cs) + 1 /\ ds[j] = c
    <3>1. \A l \in DOMAIN ds : ~(j < l)
      BY <1>1, <2>2
    <3> QED BY <1>2, <1>3, <2>2, <3>1 DEF Queue
  <2> QED BY <1>1, <2>1, <2>2
<1>5. ASSUME NEW k \in (lo + 1)..(hi + 1)
      PROVE  \/ \E i \in DOMAIN ev : ev[i] \in E /\ n[i] = k
             \/ w.at \in A /\ w.number = k
             \/ \E j \in DOMAIN ds : ds[j].at \in A /\ ds[j].number = k
  <2>1. CASE k = hi + 1
    BY <1>1, <2>1
  <2>2. CASE k \in (lo + 1)..hi
    BY <1>1, <2>2 DEF Queue
  <2> QED BY <2>1, <2>2
<1>6. w.at \in A => /\ lo < w.number /\ w.number <= hi + 1
                    /\ \A i \in DOMAIN ev : ev[i] \in E => n[i] < w.number
  BY <1>2 DEF Queue
<1>7. /\ \A i \in DOMAIN ev : ev[i] \in E => lo < n[i]
      /\ \A i, j \in DOMAIN ev : ev[i] \in E /\ ev[j] \in E /\ i < j => n[i] < n[j]
  BY DEF Queue
<1>8. Queue(E, A, n, lo, hi + 1, ev, w, ds)
  BY <1>3, <1>4, <1>5, <1>6, <1>7 DEF Queue
<1> QED BY <1>8 DEF ds

\* A command of another kind is sent.
LEMMA QueueSendOther ==
  ASSUME NEW E, NEW A, NEW n, NEW lo \in Nat, NEW hi \in Nat, NEW ev, NEW w \in Works,
         NEW cs \in Seq(Works), NEW c \in Works,
         Queue(E, A, n, lo, hi, ev, w, cs), c.at \notin A
  PROVE  Queue(E, A, n, lo, hi, ev, w, Append(cs, c))
<1> DEFINE ds == Append(cs, c)
<1>1. /\ \A j \in DOMAIN cs : j \in DOMAIN ds /\ ds[j] = cs[j]
      /\ \A j \in DOMAIN ds : j \in DOMAIN cs \/ ds[j] = c
  BY AppendAt
<1> HIDE DEF ds
<1>2. \A j \in DOMAIN ds : ds[j].at \in A => j \in DOMAIN cs /\ ds[j] = cs[j]
  BY <1>1
<1>3. Queue(E, A, n, lo, hi, ev, w, ds)
  BY <1>1, <1>2 DEF Queue
<1> QED BY <1>3 DEF ds

\* The handler of the kind is entered inside the call.
LEMMA QueueEnter ==
  ASSUME NEW E, NEW A, NEW n, NEW lo \in Nat, NEW hi \in Nat, NEW ev, NEW w,
         NEW cs, NEW c, lo <= hi, DOMAIN cs = {},
         Queue(E, A, n, lo, hi, ev, w, cs), w.at \notin A, c.at \in A, c.number = hi + 1
  PROVE  Queue(E, A, n, lo, hi + 1, ev, c, cs)
<1>1. n \in [DOMAIN ev -> 0..(hi + 1)] /\ \A i \in DOMAIN ev : n[i] \in 0..hi
  BY DEF Queue
<1>2. ASSUME NEW k \in (lo + 1)..(hi + 1)
      PROVE  \/ \E i \in DOMAIN ev : ev[i] \in E /\ n[i] = k
             \/ c.number = k
  <2>1. CASE k = hi + 1
    BY <2>1
  <2>2. CASE k \in (lo + 1)..hi
    BY <2>2 DEF Queue
  <2> QED BY <2>1, <2>2
<1>3. lo < c.number /\ c.number <= hi + 1 /\ \A i \in DOMAIN ev : n[i] < c.number
  BY <1>1
<1> QED BY <1>1, <1>2, <1>3 DEF Queue

\* The work changes from one that is not of the kind to another one that is not.
LEMMA QueueOther ==
  ASSUME NEW E, NEW A, NEW n, NEW lo, NEW hi, NEW ev, NEW w, NEW cs, NEW v,
         Queue(E, A, n, lo, hi, ev, w, cs), w.at \notin A, v.at \notin A
  PROVE  Queue(E, A, n, lo, hi, ev, v, cs)
BY DEF Queue

\* The handler of the kind goes on.
LEMMA QueueGoesOn ==
  ASSUME NEW E, NEW A, NEW n, NEW lo, NEW hi, NEW ev, NEW w, NEW cs, NEW v,
         Queue(E, A, n, lo, hi, ev, w, cs), w.at \in A, v.at \in A, v.number = w.number
  PROVE  Queue(E, A, n, lo, hi, ev, v, cs)
BY DEF Queue

\* The loop takes the next command.
LEMMA QueueTake ==
  ASSUME NEW E, NEW A, NEW n, NEW lo \in Nat, NEW hi \in Nat, NEW ev, NEW w,
         NEW cs \in Seq(Works), cs # <<>>,
         Queue(E, A, n, lo, hi, ev, w, cs), w.at \notin A
  PROVE  Queue(E, A, n, lo, hi, ev, Head(cs), Tail(cs))
<1> DEFINE ds == Tail(cs)
           v  == Head(cs)
<1>1. /\ 1 \in DOMAIN cs /\ cs[1] = v
      /\ \A j \in DOMAIN ds : j \in Nat /\ 1 < j + 1 /\ j + 1 \in DOMAIN cs /\ ds[j] = cs[j + 1]
      /\ \A j \in DOMAIN cs : j = 1 \/ (j - 1 \in DOMAIN ds /\ ds[j - 1] = cs[j])
  BY TailAt
<1> HIDE DEF ds, v
<1>2. v.at \in A => /\ lo < v.number /\ v.number <= hi
                    /\ \A i \in DOMAIN ev : ev[i] \in E => n[i] < v.number
  BY <1>1 DEF Queue
<1>3. ASSUME NEW j \in DOMAIN ds, ds[j].at \in A
      PROVE  /\ lo < ds[j].number /\ ds[j].number <= hi
             /\ \A i \in DOMAIN ev : ev[i] \in E => n[i] < ds[j].number
             /\ v.at \in A => v.number < ds[j].number
             /\ \A l \in DOMAIN ds : ds[l].at \in A /\ j < l => ds[j].number < ds[l].number
  <2>1. j + 1 \in DOMAIN cs /\ ds[j] = cs[j + 1] /\ cs[j + 1].at \in A /\ j \in Nat /\ 1 < j + 1
    BY <1>1, <1>3
  <2>2. /\ lo < ds[j].number /\ ds[j].number <= hi
        /\ \A i \in DOMAIN ev : ev[i] \in E => n[i] < ds[j].number
    BY <2>1 DEF Queue
  <2>3. v.at \in A => v.number < ds[j].number
    BY <1>1, <2>1 DEF Queue
  <2>4. ASSUME NEW l \in DOMAIN ds, ds[l].at \in A, j < l PROVE ds[j].number < ds[l].number
    <3>1. l + 1 \in DOMAIN cs /\ ds[l] = cs[l + 1] /\ cs[l + 1].at \in A /\ j + 1 < l + 1
      BY <1>1, <2>1, <2>4
    <3> QED BY <2>1, <3>1 DEF Queue
  <2> QED BY <2>2, <2>3, <2>4
<1>4. ASSUME NEW k \in (lo + 1)..hi
      PROVE  \/ \E i \in DOMAIN ev : ev[i] \in E /\ n[i] = k
             \/ v.at \in A /\ v.number = k
             \/ \E j \in DOMAIN ds : ds[j].at \in A /\ ds[j].number = k
  <2>1. CASE \E i \in DOMAIN ev : ev[i] \in E /\ n[i] = k
    BY <2>1
  <2>2. CASE \E j \in DOMAIN cs : cs[j].at \in A /\ cs[j].number = k
    BY <1>1, <2>2
  <2> QED BY <2>1, <2>2 DEF Queue
<1>5. /\ n \in [DOMAIN ev -> 0..hi]
      /\ \A i \in DOMAIN ev : ev[i] \in E => lo < n[i]
      /\ \A i, j \in DOMAIN ev : ev[i] \in E /\ ev[j] \in E /\ i < j => n[i] < n[j]
  BY DEF Queue
<1>6. Queue(E, A, n, lo, hi, ev, v, ds)
  BY <1>2, <1>3, <1>4, <1>5 DEF Queue
<1> QED BY <1>6 DEF ds, v

\* What is where in the longer numbering.
LEMMA LongerAt ==
  ASSUME NEW hi \in Nat, NEW ev \in Seq(Events), NEW e \in Events, NEW k \in 0..hi,
         NEW n \in [DOMAIN ev -> 0..hi]
  PROVE  LET m == Longer(n, ev, k)
             fv == Append(ev, e)
         IN  /\ m \in [DOMAIN fv -> 0..hi]
             /\ \A i \in DOMAIN ev : i \in DOMAIN fv /\ fv[i] = ev[i] /\ m[i] = n[i]
                                        /\ i \in Nat /\ i < Len(ev) + 1
             /\ \A i \in DOMAIN fv : i \in DOMAIN ev \/ i = Len(ev) + 1
             /\ Len(ev) + 1 \in DOMAIN fv /\ Len(ev) \in Nat
             /\ fv[Len(ev) + 1] = e /\ m[Len(ev) + 1] = k
<1>1. /\ DOMAIN ev = 1..Len(ev) /\ Len(ev) \in Nat
      /\ DOMAIN Append(ev, e) = 1..(Len(ev) + 1)
      /\ \A i \in DOMAIN ev : Append(ev, e)[i] = ev[i]
      /\ Append(ev, e)[Len(ev) + 1] = e
  BY AppendAt
<1> QED BY <1>1 DEF Longer

\* The handler of the kind ends with its event.
LEMMA QueueEnd ==
  ASSUME NEW E, NEW A, NEW n, NEW lo \in Nat, NEW hi \in Nat, NEW ev \in Seq(Events),
         NEW w \in Works, NEW cs, NEW v, NEW e \in Events,
         Queue(E, A, n, lo, hi, ev, w, cs), w.at \in A, v.at \notin A, e \in E
  PROVE  /\ w.number \in 0..hi
         /\ Queue(E, A, Longer(n, ev, w.number), lo, hi, Append(ev, e), v, cs)
<1> DEFINE m == Longer(n, ev, w.number)
           fv == Append(ev, e)
           t == Len(ev) + 1
<1>1. w.number \in 0..hi /\ lo < w.number /\ n \in [DOMAIN ev -> 0..hi]
  <2>1. w.number \in Nat
    BY NumbersOK
  <2> QED BY <2>1 DEF Queue
<1>2. /\ m \in [DOMAIN fv -> 0..hi]
      /\ \A i \in DOMAIN ev : i \in DOMAIN fv /\ fv[i] = ev[i] /\ m[i] = n[i] /\ i \in Nat /\ i < t
      /\ \A i \in DOMAIN fv : i \in DOMAIN ev \/ i = t
      /\ t \in DOMAIN fv /\ t \in Nat /\ fv[t] = e /\ m[t] = w.number
  BY <1>1, LongerAt
<1> HIDE DEF m, fv, t
<1>3. \A i \in DOMAIN fv : fv[i] \in E => lo < m[i]
  BY <1>1, <1>2 DEF Queue
<1>4. ASSUME NEW i \in DOMAIN fv, NEW j \in DOMAIN fv, fv[i] \in E, fv[j] \in E, i < j
      PROVE  m[i] < m[j]
  <2>1. i \in DOMAIN ev
    BY <1>2, <1>4
  <2>2. CASE j \in DOMAIN ev
    BY <1>2, <1>4, <2>1, <2>2 DEF Queue
  <2>3. CASE j = t
    BY <1>2, <1>4, <2>1, <2>3 DEF Queue
  <2> QED BY <1>2, <2>2, <2>3
<1>5. ASSUME NEW j \in DOMAIN cs, cs[j].at \in A
      PROVE  /\ lo < cs[j].number /\ cs[j].number <= hi
             /\ \A i \in DOMAIN fv : fv[i] \in E => m[i] < cs[j].number
             /\ \A l \in DOMAIN cs : cs[l].at \in A /\ j < l => cs[j].number < cs[l].number
  BY <1>2, <1>5 DEF Queue
<1>6. ASSUME NEW k \in (lo + 1)..hi
      PROVE  \/ \E i \in DOMAIN fv : fv[i] \in E /\ m[i] = k
             \/ \E j \in DOMAIN cs : cs[j].at \in A /\ cs[j].number = k
  <2>1. CASE \E i \in DOMAIN ev : ev[i] \in E /\ n[i] = k
    BY <1>2, <2>1
  <2>2. CASE w.number = k
    BY <1>2, <2>2
  <2> QED BY <2>1, <2>2 DEF Queue
<1>7. Queue(E, A, m, lo, hi, fv, v, cs)
  BY <1>2, <1>3, <1>4, <1>5, <1>6 DEF Queue
<1> QED BY <1>1, <1>7 DEF m, fv

\* An event of another kind is added.
LEMMA QueueEventOther ==
  ASSUME NEW E, NEW A, NEW n, NEW lo \in Nat, NEW hi \in Nat, NEW ev \in Seq(Events),
         NEW w, NEW cs, NEW e \in Events,
         Queue(E, A, n, lo, hi, ev, w, cs), e \notin E
  PROVE  Queue(E, A, Longer(n, ev, 0), lo, hi, Append(ev, e), w, cs)
<1> DEFINE m == Longer(n, ev, 0)
           fv == Append(ev, e)
           t == Len(ev) + 1
<1>1. 0 \in 0..hi /\ n \in [DOMAIN ev -> 0..hi]
  BY DEF Queue
<1>2. /\ m \in [DOMAIN fv -> 0..hi]
      /\ \A i \in DOMAIN ev : i \in DOMAIN fv /\ fv[i] = ev[i] /\ m[i] = n[i]
      /\ \A i \in DOMAIN fv : i \in DOMAIN ev \/ i = t
      /\ fv[t] = e
  BY <1>1, LongerAt
<1> HIDE DEF m, fv, t
<1>3. \A i \in DOMAIN fv : fv[i] \in E => i \in DOMAIN ev /\ ev[i] \in E /\ m[i] = n[i]
  BY <1>2
<1>4. Queue(E, A, m, lo, hi, fv, w, cs)
  BY <1>2, <1>3 DEF Queue
<1> QED BY <1>4 DEF m, fv

\* What is where in the shorter numbering.
LEMMA ShorterAt ==
  ASSUME NEW hi \in Nat, NEW ev \in Seq(Events), ev # <<>>, NEW n \in [DOMAIN ev -> 0..hi]
  PROVE  LET m == Shorter(n, ev)
             fv == Tail(ev)
         IN  /\ m \in [DOMAIN fv -> 0..hi]
             /\ 1 \in DOMAIN ev /\ ev[1] = Head(ev)
             /\ \A i \in DOMAIN fv : i + 1 \in DOMAIN ev /\ fv[i] = ev[i + 1] /\ m[i] = n[i + 1]
                                        /\ i \in Nat /\ 1 < i + 1
             /\ \A i \in DOMAIN ev : /\ i \in Nat
                                     /\ \/ i = 1
                                        \/ /\ 1 < i /\ i - 1 \in DOMAIN fv
                                           /\ fv[i - 1] = ev[i] /\ m[i - 1] = n[i]
<1>1. /\ 1 \in DOMAIN ev /\ ev[1] = Head(ev) /\ Len(ev) \in Nat
      /\ DOMAIN ev = 1..Len(ev) /\ DOMAIN Tail(ev) = 1..(Len(ev) - 1)
      /\ \A i \in DOMAIN Tail(ev) : Tail(ev)[i] = ev[i + 1]
      /\ \A i \in DOMAIN ev : i = 1 \/ (i - 1 \in DOMAIN Tail(ev) /\ Tail(ev)[i - 1] = ev[i])
  BY TailAt
<1>2. /\ Shorter(n, ev) \in [DOMAIN Tail(ev) -> 0..hi]
      /\ \A i \in DOMAIN Tail(ev) : Shorter(n, ev)[i] = n[i + 1]
  BY <1>1 DEF Shorter
<1>3. \A i \in DOMAIN Tail(ev) : i + 1 \in DOMAIN ev /\ i \in Nat /\ 1 < i + 1
  BY <1>1
<1>4. ASSUME NEW i \in DOMAIN ev, i # 1
      PROVE  /\ 1 < i /\ i - 1 \in DOMAIN Tail(ev)
             /\ Tail(ev)[i - 1] = ev[i] /\ Shorter(n, ev)[i - 1] = n[i]
  BY <1>1, <1>2, <1>4
<1>5. \A i \in DOMAIN ev : i \in Nat
  BY <1>1
<1> QED BY <1>1, <1>2, <1>3, <1>4, <1>5

\* The application takes an event of the kind: it is that of the first call.
LEMMA QueueFetch ==
  ASSUME NEW E, NEW A, NEW n, NEW lo \in Nat, NEW hi \in Nat, NEW ev \in Seq(Events), ev # <<>>,
         NEW w \in Works, NEW cs \in Seq(Works),
         Queue(E, A, n, lo, hi, ev, w, cs), Head(ev) \in E
  PROVE  /\ n[1] = lo + 1 /\ lo + 1 <= hi
         /\ Queue(E, A, Shorter(n, ev), lo + 1, hi, Tail(ev), w, cs)
<1> DEFINE m == Shorter(n, ev)
           fv == Tail(ev)
<1>1. n \in [DOMAIN ev -> 0..hi]
  BY DEF Queue
<1>2. /\ m \in [DOMAIN fv -> 0..hi]
      /\ 1 \in DOMAIN ev /\ ev[1] \in E
      /\ \A i \in DOMAIN fv : i + 1 \in DOMAIN ev /\ fv[i] = ev[i + 1] /\ m[i] = n[i + 1]
                                 /\ i \in Nat /\ 1 < i + 1
      /\ \A i \in DOMAIN ev : /\ i \in Nat
                              /\ \/ i = 1
                                 \/ /\ 1 < i /\ i - 1 \in DOMAIN fv
                                    /\ fv[i - 1] = ev[i] /\ m[i - 1] = n[i]
  BY <1>1, ShorterAt
<1> HIDE DEF m, fv
<1>3. w.number \in Nat /\ \A j \in DOMAIN cs : cs[j].number \in Nat
  BY NumbersOK
<1>4. \A i \in DOMAIN ev : n[i] \in Nat
  BY <1>1
<1>5. n[1] = lo + 1 /\ lo + 1 <= hi
  <2>1. lo < n[1] /\ n[1] \in 0..hi
    BY <1>1, <1>2 DEF Queue
  <2>2. lo + 1 \in (lo + 1)..hi
    BY <2>1
  <2>3. CASE \E i \in DOMAIN ev : ev[i] \in E /\ n[i] = lo + 1
    <3>1. PICK i \in DOMAIN ev : ev[i] \in E /\ n[i] = lo + 1
      BY <2>3
    <3>2. i = 1 \/ n[1] < n[i]
      BY <1>2, <3>1 DEF Queue
    <3> QED BY <2>1, <3>1, <3>2
  <2>4. CASE w.at \in A /\ w.number = lo + 1
    <3>1. n[1] < lo + 1
      BY <1>2, <2>4 DEF Queue
    <3> QED BY <2>1, <3>1
  <2>5. CASE \E j \in DOMAIN cs : cs[j].at \in A /\ cs[j].number = lo + 1
    <3>1. n[1] < lo + 1
      BY <1>2, <2>5 DEF Queue
    <3> QED BY <2>1, <3>1
  <2> QED BY <2>2, <2>3, <2>4, <2>5 DEF Queue
<1>6. \A i \in DOMAIN fv : fv[i] \in E => lo + 1 < m[i]
  BY <1>2, <1>5 DEF Queue
<1>7. ASSUME NEW i \in DOMAIN fv, NEW j \in DOMAIN fv, fv[i] \in E, fv[j] \in E, i < j
      PROVE  m[i] < m[j]
  <2>1. i + 1 < j + 1 /\ i + 1 \in DOMAIN ev /\ j + 1 \in DOMAIN ev
    BY <1>2, <1>7
  <2> QED BY <1>2, <1>7, <2>1 DEF Queue
<1>8. w.at \in A => /\ lo + 1 < w.number /\ w.number <= hi
                    /\ \A i \in DOMAIN fv : fv[i] \in E => m[i] < w.number
  <2>1. w.at \in A => n[1] < w.number /\ w.number <= hi
    BY <1>2 DEF Queue
  <2>2. w.at \in A => \A i \in DOMAIN fv : fv[i] \in E => m[i] < w.number
    BY <1>2 DEF Queue
  <2> QED BY <1>5, <2>1, <2>2
<1>9. ASSUME NEW j \in DOMAIN cs, cs[j].at \in A
      PROVE  /\ lo + 1 < cs[j].number /\ cs[j].number <= hi
             /\ \A i \in DOMAIN fv : fv[i] \in E => m[i] < cs[j].number
             /\ w.at \in A => w.number < cs[j].number
             /\ \A l \in DOMAIN cs : cs[l].at \in A /\ j < l => cs[j].number < cs[l].number
  <2>1. n[1] < cs[j].number /\ cs[j].number <= hi
    BY <1>2, <1>9 DEF Queue
  <2>2. \A i \in DOMAIN fv : fv[i] \in E => m[i] < cs[j].number
    BY <1>2, <1>9 DEF Queue
  <2>3. /\ w.at \in A => w.number < cs[j].number
        /\ \A l \in DOMAIN cs : cs[l].at \in A /\ j < l => cs[j].number < cs[l].number
    BY <1>9 DEF Queue
  <2> QED BY <1>5, <2>1, <2>2, <2>3
<1>10. ASSUME NEW k \in (lo + 1 + 1)..hi
       PROVE  \/ \E i \in DOMAIN fv : fv[i] \in E /\ m[i] = k
              \/ w.at \in A /\ w.number = k
              \/ \E j \in DOMAIN cs : cs[j].at \in A /\ cs[j].number = k
  <2>1. k \in (lo + 1)..hi /\ k # n[1]
    BY <1>5
  <2>2. CASE \E i \in DOMAIN ev : ev[i] \in E /\ n[i] = k
    <3>1. PICK i \in DOMAIN ev : ev[i] \in E /\ n[i] = k
      BY <2>2
    <3>2. i # 1
      BY <2>1, <3>1
    <3>3. i - 1 \in DOMAIN fv /\ fv[i - 1] \in E /\ m[i - 1] = k
      BY <1>2, <3>1, <3>2
    <3> QED BY <3>3
  <2> QED BY <2>1, <2>2 DEF Queue
<1>11. Queue(E, A, m, lo + 1, hi, fv, w, cs)
  BY <1>2, <1>6, <1>7, <1>8, <1>9, <1>10 DEF Queue
<1> QED BY <1>5, <1>11 DEF m, fv

\* The application takes an event of another kind.
LEMMA QueueFetchOther ==
  ASSUME NEW E, NEW A, NEW n, NEW lo \in Nat, NEW hi \in Nat, NEW ev \in Seq(Events), ev # <<>>,
         NEW w, NEW cs, Queue(E, A, n, lo, hi, ev, w, cs), Head(ev) \notin E
  PROVE  Queue(E, A, Shorter(n, ev), lo, hi, Tail(ev), w, cs)
<1> DEFINE m == Shorter(n, ev)
           fv == Tail(ev)
<1>1. n \in [DOMAIN ev -> 0..hi]
  BY DEF Queue
<1>2. /\ m \in [DOMAIN fv -> 0..hi]
      /\ ev[1] \notin E
      /\ \A i \in DOMAIN fv : i + 1 \in DOMAIN ev /\ fv[i] = ev[i + 1] /\ m[i] = n[i + 1]
                                 /\ i \in Nat
      /\ \A i \in DOMAIN ev :
             i = 1 \/ (i - 1 \in DOMAIN fv /\ fv[i - 1] = ev[i] /\ m[i - 1] = n[i])
  <2> HIDE DEF m, fv
  <2>1. LET m2 == Shorter(n, ev)
            fv2 == Tail(ev)
        IN  /\ m2 \in [DOMAIN fv2 -> 0..hi]
            /\ 1 \in DOMAIN ev /\ ev[1] = Head(ev)
            /\ \A i \in DOMAIN fv2 : i + 1 \in DOMAIN ev /\ fv2[i] = ev[i + 1] /\ m2[i] = n[i + 1]
                                        /\ i \in Nat /\ 1 < i + 1
            /\ \A i \in DOMAIN ev : /\ i \in Nat
                                     /\ \/ i = 1
                                        \/ /\ 1 < i /\ i - 1 \in DOMAIN fv2
                                           /\ fv2[i - 1] = ev[i] /\ m2[i - 1] = n[i]
    BY <1>1, ShorterAt
  <2> QED BY <2>1 DEF m, fv
<1> HIDE DEF m, fv
<1>3. \A i \in DOMAIN fv : fv[i] \in E => lo < m[i]
  BY <1>2 DEF Queue
<1>4. ASSUME NEW i \in DOMAIN fv, NEW j \in DOMAIN fv, fv[i] \in E, fv[j] \in E, i < j
      PROVE  m[i] < m[j]
  <2>1. i + 1 < j + 1 /\ i + 1 \in DOMAIN ev /\ j + 1 \in DOMAIN ev
    BY <1>2, <1>4
  <2> QED BY <1>2, <1>4, <2>1 DEF Queue
<1>5. w.at \in A => /\ lo < w.number /\ w.number <= hi
                    /\ \A i \in DOMAIN fv : fv[i] \in E => m[i] < w.number
  BY <1>2 DEF Queue
<1>6. ASSUME NEW j \in DOMAIN cs, cs[j].at \in A
      PROVE  /\ lo < cs[j].number /\ cs[j].number <= hi
             /\ \A i \in DOMAIN fv : fv[i] \in E => m[i] < cs[j].number
             /\ w.at \in A => w.number < cs[j].number
             /\ \A l \in DOMAIN cs : cs[l].at \in A /\ j < l => cs[j].number < cs[l].number
  BY <1>2, <1>6 DEF Queue
<1>7. ASSUME NEW k \in (lo + 1)..hi
      PROVE  \/ \E i \in DOMAIN fv : fv[i] \in E /\ m[i] = k
             \/ w.at \in A /\ w.number = k
             \/ \E j \in DOMAIN cs : cs[j].at \in A /\ cs[j].number = k
  <2>1. CASE \E i \in DOMAIN ev : ev[i] \in E /\ n[i] = k
    BY <1>2, <2>1
  <2> QED BY <2>1 DEF Queue
<1>8. Queue(E, A, m, lo, hi, fv, w, cs)
  BY <1>2, <1>3, <1>4, <1>5, <1>6, <1>7 DEF Queue
<1> QED BY <1>8 DEF m, fv

\* A command that is sent, or whose handler is entered inside the call, joins the queue
\* of its kind and no other.
LEMMA QueueSent ==
  ASSUME NEW E, NEW A, NEW n, NEW lo \in Nat, NEW hi \in Nat, lo <= hi, "idle" \notin A,
         NEW id, NEW k, NEW job, Command(id, k, job),
         [at |-> id, number |-> k, job |-> job, ok |-> TRUE] \in Works,
         WorkTypes, LifeOK, async \in BOOLEAN, ~async => work = Idle,
         Queue(E, A, n, lo, hi, events, work, commands)
  PROVE  /\ id \in A /\ k = hi + 1 => Queue(E, A, n, lo, hi + 1, events, work', commands')
         /\ id \notin A => Queue(E, A, n, lo, hi, events, work', commands')
<1> DEFINE c == [at |-> id, number |-> k, job |-> job, ok |-> TRUE]
<1>1. IF async THEN commands' = Append(commands, c) /\ work' = work
               ELSE commands' = commands /\ work' = c
  BY DEF Command
<1>2. c \in Works /\ c.at = id /\ c.number = k /\ work \in Works /\ commands \in Seq(Works)
  BY DEF WorkTypes
<1> HIDE DEF c
<1>3. CASE async
  <2>1. commands' = Append(commands, c) /\ work' = work
    BY <1>1, <1>3
  <2>2. id \in A /\ k = hi + 1 => Queue(E, A, n, lo, hi + 1, events, work, Append(commands, c))
    BY <1>2, QueueSend
  <2>3. id \notin A => Queue(E, A, n, lo, hi, events, work, Append(commands, c))
    BY <1>2, QueueSendOther
  <2> QED BY <2>1, <2>2, <2>3
<1>4. CASE ~async
  <2>1. commands' = commands /\ work' = c /\ commands = <<>> /\ work.at \notin A
    BY <1>1, <1>4 DEF LifeOK, Idle
  <2>2. DOMAIN commands = {}
    BY <1>2, <2>1, NoIndex
  <2>3. id \in A /\ k = hi + 1 => Queue(E, A, n, lo, hi + 1, events, c, commands)
    BY <1>2, <2>1, <2>2, QueueEnter
  <2>4. id \notin A => Queue(E, A, n, lo, hi, events, c, commands)
    BY <1>2, <2>1, QueueOther
  <2> QED BY <2>1, <2>3, <2>4
<1> QED BY <1>3, <1>4

\* The same for a call: what it is for is of no kind that has an event.
LEMMA QueueCalled ==
  ASSUME NEW E, NEW A, NEW n, NEW lo \in Nat, NEW hi \in Nat, A \cap CallSteps = {},
         NEW t, NEW id \in CallSteps, NEW job, NEW served, Call(t, id, job, served),
         [at |-> id, number |-> calls + 1, job |-> job, ok |-> TRUE] \in Works,
         WorkTypes, async \in BOOLEAN,
         Queue(E, A, n, lo, hi, events, work, commands)
  PROVE  Queue(E, A, n, lo, hi, events, work', commands')
<1> DEFINE c == [at |-> id, number |-> calls + 1, job |-> job, ok |-> TRUE]
<1>1. IF async THEN commands' = Append(commands, c) /\ work' = work
               ELSE commands' = commands /\ work' = work
  BY DEF Call, Command
<1>2. c \in Works /\ c.at \notin A /\ work \in Works /\ commands \in Seq(Works)
  BY DEF WorkTypes
<1> HIDE DEF c
<1>3. Queue(E, A, n, lo, hi, events, work, Append(commands, c))
  BY <1>2, QueueSendOther
<1> QED BY <1>1, <1>3

\* A call, whichever it is.
ACall(t) ==
    \/ \E id \in KeyIds : GetKey(t, id)
    \/ t = "app" /\ GenerateSignature
    \/ t = "app" /\ VerifySignature

\* What the calls have in common.
LEMMA ACallIs ==
  ASSUME TypeOK, NEW t \in Callers, ACall(t)
  PROVE  \E id \in CallSteps, job \in KeyIds \union {NoJob}, served \in BOOLEAN :
             /\ Call(t, id, job, served)
             /\ [at |-> id, number |-> calls + 1, job |-> job, ok |-> TRUE] \in Works
             /\ id = "GETKEY" => job \in KeyIds /\ served = GetKeyOf(job)
             /\ id = "GENERATE_SIGN" => served = GenerateSign
             /\ id = "VERIFY_SIGN" => served = VerifySign
<1>1. calls + 1 \in Nat
  BY DEF TypeOK, CallerTypes
<1>2. ASSUME NEW id \in KeyIds, GetKey(t, id)
      PROVE  /\ Call(t, "GETKEY", id, GetKeyOf(id)) /\ GetKeyOf(id) \in BOOLEAN
             /\ [at |-> "GETKEY", number |-> calls + 1, job |-> id, ok |-> TRUE] \in Works
  BY <1>1, <1>2, WorksOK, AnswersOK DEF GetKey
<1>3. ASSUME GenerateSignature, t = "app"
      PROVE  /\ Call(t, "GENERATE_SIGN", NoJob, GenerateSign) /\ GenerateSign \in BOOLEAN
             /\ [at |-> "GENERATE_SIGN", number |-> calls + 1, job |-> NoJob, ok |-> TRUE] \in Works
  BY <1>1, <1>3, WorksOK, AnswersOK DEF GenerateSignature
<1>4. ASSUME VerifySignature, t = "app"
      PROVE  /\ Call(t, "VERIFY_SIGN", NoJob, VerifySign) /\ VerifySign \in BOOLEAN
             /\ [at |-> "VERIFY_SIGN", number |-> calls + 1, job |-> NoJob, ok |-> TRUE] \in Works
  BY <1>1, <1>4, WorksOK, AnswersOK DEF VerifySignature
<1>5. {"GETKEY", "GENERATE_SIGN", "VERIFY_SIGN"} = CallSteps
  BY DEF CallSteps
<1>6. CASE \E id \in KeyIds : GetKey(t, id)
  <2>1. PICK id \in KeyIds : GetKey(t, id)
    BY <1>6
  <2>2. "GETKEY" \in CallSteps
    BY <1>5
  <2> QED BY <1>2, <2>1, <2>2
<1>7. CASE t = "app" /\ GenerateSignature
  <2>1. "GENERATE_SIGN" \in CallSteps
    BY <1>5
  <2> QED BY <1>3, <1>7, <2>1
<1>8. CASE t = "app" /\ VerifySignature
  <2>1. "VERIFY_SIGN" \in CallSteps
    BY <1>5
  <2> QED BY <1>4, <1>8, <2>1
<1> QED BY <1>6, <1>7, <1>8 DEF ACall

\* What the application's thread finds when it is free, without a loop.
LEMMA FreeIdle == ASSUME LifeOK, Free PROVE ~async => work = Idle
BY DEF LifeOK, Free

\* Every step keeps the calls of Prepare() in their order.
LEMMA PreparesQueuedStep ==
  ASSUME TypeOK, LifeOK, PreparesQueued, [Next]_vars
  PROVE  PreparesQueued'
<1>0. /\ WorkTypes /\ LifeTypes /\ async \in BOOLEAN /\ events \in Seq(Events)
      /\ prepares \in Nat /\ heard \in Nat
      /\ work \in Works /\ commands \in Seq(Works)
  BY DEF TypeOK, WorkTypes, AnswerTypes, LifeTypes, JobTypes
<1>1. heard <= prepares
  BY DEF PreparesQueued
<1>2. PICK n \in [DOMAIN events -> 0..prepares] :
          Queue(GenEvents, GenSteps, n, heard, prepares, events, work, commands)
  BY DEF PreparesQueued
<1>3. "idle" \notin GenSteps /\ GenSteps \cap CallSteps = {} /\ "CRYPTO" \notin GenSteps
      /\ "GENERATE" \in GenSteps /\ Idle.at = "idle" /\ 0 \in 0..prepares
  BY <1>0 DEF GenSteps, CallSteps, Idle
\* It is enough to name the numbers of the events after the step.
<1>4. ASSUME NEW m, Queue(GenEvents, GenSteps, m, heard', prepares', events', work', commands'),
             heard' <= prepares'
      PROVE  PreparesQueued'
  <2>1. m \in [DOMAIN events' -> 0..prepares']
    BY <1>4 DEF Queue
  <2> QED BY <1>4, <2>1 DEF PreparesQueued
<1>5. ASSUME UNCHANGED <<events, work, commands, heard, prepares>> PROVE PreparesQueued'
  BY <1>1, <1>2, <1>4, <1>5
<1>6. CASE Configures
  BY <1>5, <1>6, ConfiguresFrame
<1>7. CASE \/ Activate \/ Deactivate \/ Destroy \/ DestroyJoined \/ LoopStops \/ UNCHANGED vars
           \/ \E t \in Callers : CallReturns(t) \/ CallInterrupted(t)
  <2>1. UNCHANGED <<events, work, commands, heard, prepares>>
    BY <1>7 DEF Activate, Deactivate, Destroy, DestroyJoined, LoopStops, vars, CallReturns,
                CallInterrupted, returnOnly, ioVars, jobVars
  <2> QED BY <1>5, <2>1
<1>8. CASE MidGenerate
  <2>1. /\ work.at \in GenSteps /\ work'.at \in GenSteps /\ work'.number = work.number
        /\ UNCHANGED <<events, commands, heard, prepares>>
    BY <1>0, <1>8, MidGenerateFrame
  <2>2. Queue(GenEvents, GenSteps, n, heard, prepares, events, work', commands)
    BY <1>2, <2>1, QueueGoesOn
  <2> QED BY <1>1, <1>4, <2>1, <2>2
<1>9. CASE Prepare
  <2>1. /\ Command("GENERATE", prepares + 1, NoJob) /\ Free
        /\ prepares' = prepares + 1 /\ UNCHANGED <<events, heard>>
    BY <1>9 DEF Prepare, jobVars
  <2>2. prepares + 1 \in Nat /\ heard <= prepares + 1
    BY <1>0, <1>1
  <2>3. [at |-> "GENERATE", number |-> prepares + 1, job |-> NoJob, ok |-> TRUE] \in Works
    BY <2>2, WorksOK
  <2>4. Queue(GenEvents, GenSteps, n, heard, prepares + 1, events, work', commands')
    BY <1>0, <1>1, <1>2, <1>3, <2>1, <2>3, FreeIdle, QueueSent
  <2> QED BY <1>4, <2>1, <2>2, <2>4
<1>10. ASSUME NEW job \in Jobs, Request(job) PROVE PreparesQueued'
  <2>1. /\ Command("CRYPTO", requests + 1, job) /\ Free
        /\ UNCHANGED <<events, heard, prepares>>
    BY <1>10 DEF Request
  <2>2. requests + 1 \in Nat
    BY DEF TypeOK, JobTypes
  <2>3. [at |-> "CRYPTO", number |-> requests + 1, job |-> job, ok |-> TRUE] \in Works
    BY <2>2, WorksOK
  <2>4. Queue(GenEvents, GenSteps, n, heard, prepares, events, work', commands')
    BY <1>0, <1>1, <1>2, <1>3, <2>1, <2>3, FreeIdle, QueueSent
  <2> QED BY <1>1, <1>4, <2>1, <2>4
<1>11. ASSUME NEW t \in Callers, ACall(t) PROVE PreparesQueued'
  <2>1. PICK id \in CallSteps, job \in KeyIds \union {NoJob}, served \in BOOLEAN :
            /\ Call(t, id, job, served)
            /\ [at |-> id, number |-> calls + 1, job |-> job, ok |-> TRUE] \in Works
    BY <1>11, ACallIs
  <2>2. UNCHANGED <<events, heard, prepares>>
    BY <2>1 DEF Call, jobVars
  <2>3. Queue(GenEvents, GenSteps, n, heard, prepares, events, work', commands')
    BY <1>0, <1>2, <1>3, <2>1, QueueCalled
  <2> QED BY <1>1, <1>4, <2>2, <2>3
<1>12. CASE FetchEvent
  <2>1. /\ events # <<>> /\ events' = Tail(events)
        /\ heard' = IF Head(events) \in GenEvents THEN heard + 1 ELSE heard
        /\ UNCHANGED <<work, commands, prepares>>
    BY <1>12 DEF FetchEvent, GenEvents
  <2>2. CASE Head(events) \in GenEvents
    <3>1. heard + 1 <= prepares
          /\ Queue(GenEvents, GenSteps, Shorter(n, events), heard + 1, prepares, Tail(events), work, commands)
      BY <1>0, <1>2, <2>1, <2>2, QueueFetch
    <3> QED BY <1>4, <2>1, <2>2, <3>1
  <2>3. CASE Head(events) \notin GenEvents
    <3>1. Queue(GenEvents, GenSteps, Shorter(n, events), heard, prepares, Tail(events), work, commands)
      BY <1>0, <1>2, <2>1, <2>3, QueueFetchOther
    <3> QED BY <1>1, <1>4, <2>1, <2>3, <3>1
  <2> QED BY <2>2, <2>3
<1>13. CASE LoopTakes
  <2>1. /\ commands # <<>> /\ work = Idle
        /\ work' = Head(commands) /\ commands' = Tail(commands)
        /\ UNCHANGED <<events, heard, prepares>>
    BY <1>13 DEF LoopTakes, loopOnly, jobVars
  <2>2. Queue(GenEvents, GenSteps, n, heard, prepares, events, Head(commands), Tail(commands))
    BY <1>0, <1>2, <1>3, <2>1, QueueTake
  <2> QED BY <1>1, <1>4, <2>1, <2>2
<1>14. CASE SecretFails \/ GenerateEnds
  <2>1. /\ work.at \in GenSteps /\ work' = Idle
        /\ \E e \in GenEvents : events' = Append(events, e)
        /\ UNCHANGED <<commands, heard, prepares>>
    BY <1>14 DEF SecretFails, GenerateEnds, Done, PublishEventData, loopOnly, jobVars, GenSteps, GenEvents
  <2>2. PICK e \in GenEvents : events' = Append(events, e)
    BY <2>1
  <2>3. e \in Events
    BY DEF Events
  <2>4. Queue(GenEvents, GenSteps, Longer(n, events, work.number), heard, prepares,
              Append(events, e), Idle, commands)
    BY <1>0, <1>2, <1>3, <2>1, <2>3, QueueEnd
  <2> QED BY <1>1, <1>4, <2>1, <2>2, <2>4
<1>15. ASSUME NEW e \in Events \ GenEvents, events' = Append(events, e),
              work' = work \/ (work.at \notin GenSteps /\ work' = Idle),
              UNCHANGED <<commands, heard, prepares>>
       PROVE  PreparesQueued'
  <2>1. Queue(GenEvents, GenSteps, Longer(n, events, 0), heard, prepares, Append(events, e), work, commands)
    BY <1>0, <1>2, <1>15, QueueEventOther
  <2>2. Queue(GenEvents, GenSteps, Longer(n, events, 0), heard, prepares, Append(events, e), work', commands)
    BY <1>3, <1>15, <2>1, QueueOther
  <2> QED BY <1>1, <1>4, <1>15, <2>2
<1>16. CASE CommandCrypto
  <2>1. /\ \E e \in {"CRYPTO_ERROR", "CRYPTO_DONE"} : events' = Append(events, e)
        /\ work.at \notin GenSteps /\ work' = Idle
        /\ UNCHANGED <<commands, heard, prepares>>
    BY <1>3, <1>16 DEF CommandCrypto, Done, PublishEventData, loopOnly, jobVars
  <2>2. {"CRYPTO_ERROR", "CRYPTO_DONE"} \subseteq Events \ GenEvents
    BY DEF Events, GenEvents, CryptoEvents
  <2> QED BY <1>15, <2>1, <2>2
<1>17. CASE CommandGetKey \/ CommandGenerateSign \/ CommandVerifySign
  <2>1. /\ work.at \notin GenSteps /\ work' = Idle
        /\ UNCHANGED <<events, commands, heard, prepares>>
    BY <1>3, <1>17, RepliesFrame DEF IsCall
  <2>2. Queue(GenEvents, GenSteps, n, heard, prepares, events, Idle, commands)
    BY <1>2, <1>3, <2>1, QueueOther
  <2> QED BY <1>1, <1>4, <2>1, <2>2
<1>18. CASE Cleanup
  <2>1. /\ events' = events \/ events' = Append(events, "DEACTIVATE_DONE")
        /\ UNCHANGED <<work, commands, heard, prepares>>
    BY <1>0, <1>18 DEF Cleanup, PublishEventData, jobVars, LifeTypes
  <2>2. "DEACTIVATE_DONE" \in Events \ GenEvents
    BY DEF Events, GenEvents
  <2> QED BY <1>5, <1>15, <2>1, <2>2
<1> QED
  BY <1>6, <1>7, <1>8, <1>9, <1>10, <1>11, <1>12, <1>13, <1>14, <1>16, <1>17, <1>18
     DEF Next, Encrypt, Decrypt, Configures, MidGenerate, ACall, Callers

\* A request that is done adds its event and its output.
LEMMA OutputsDone ==
  ASSUME NEW n, NEW lo \in Nat, NEW hi \in Nat, NEW ev \in Seq(Events), NEW out \in Seq(Nat),
         NEW w \in Works, NEW cs, OutputsOf(n, ev, out),
         Queue(CryptoEvents, CryptoSteps, n, lo, hi, ev, w, cs), w.at \in CryptoSteps
  PROVE  OutputsOf(Longer(n, ev, w.number), Append(ev, "CRYPTO_DONE"), Append(out, w.number))
<1> DEFINE m == Longer(n, ev, w.number)
           fv == Append(ev, "CRYPTO_DONE")
           t == Len(ev) + 1
           ot == Append(out, w.number)
           q == Len(out) + 1
<1>1. w.number \in 0..hi /\ n \in [DOMAIN ev -> 0..hi]
  <2>1. w.number \in Nat
    BY NumbersOK
  <2> QED BY <2>1 DEF Queue
<1>2. "CRYPTO_DONE" \in Events /\ "CRYPTO_DONE" \in CryptoEvents
  BY DEF Events, CryptoEvents
<1>3. /\ \A i \in DOMAIN ev : i \in DOMAIN fv /\ fv[i] = ev[i] /\ m[i] = n[i]
      /\ \A i \in DOMAIN fv : i \in DOMAIN ev \/ i = t
      /\ t \in DOMAIN fv /\ fv[t] = "CRYPTO_DONE" /\ m[t] = w.number
  BY <1>1, <1>2, LongerAt
<1>4. /\ \A k \in DOMAIN out : k \in DOMAIN ot /\ ot[k] = out[k] /\ k \in Nat /\ k < q
      /\ \A k \in DOMAIN ot : k \in DOMAIN out \/ k = q
      /\ q \in DOMAIN ot /\ ot[q] = w.number /\ q \in Nat
  BY <1>1, AppendAt
<1> HIDE DEF m, fv, t, ot, q
<1>5. ASSUME NEW i \in DOMAIN fv, fv[i] = "CRYPTO_DONE" PROVE \E k \in DOMAIN ot : ot[k] = m[i]
  <2>1. CASE i \in DOMAIN ev
    <3>1. PICK k \in DOMAIN out : out[k] = n[i]
      BY <1>3, <1>5, <2>1 DEF OutputsOf
    <3> QED BY <1>3, <1>4, <2>1, <3>1
  <2>2. CASE i = t
    BY <1>3, <1>4, <2>2
  <2> QED BY <1>3, <2>1, <2>2
<1>6. ASSUME NEW k \in DOMAIN ot
      PROVE  \E i \in DOMAIN fv : fv[i] = "CRYPTO_DONE" /\ ot[k] = m[i]
  <2>1. CASE k \in DOMAIN out
    <3>1. PICK i \in DOMAIN ev : ev[i] = "CRYPTO_DONE" /\ out[k] = n[i]
      BY <2>1 DEF OutputsOf
    <3> QED BY <1>3, <1>4, <2>1, <3>1
  <2>2. CASE k = q
    BY <1>3, <1>4, <2>2
  <2> QED BY <1>4, <2>1, <2>2
<1>7. \A k \in DOMAIN out : out[k] < w.number
  <2> SUFFICES ASSUME NEW k \in DOMAIN out PROVE out[k] < w.number
    OBVIOUS
  <2>1. PICK i \in DOMAIN ev : ev[i] = "CRYPTO_DONE" /\ out[k] = n[i]
    BY DEF OutputsOf
  <2> QED BY <1>2, <2>1 DEF Queue
<1>8. ASSUME NEW k \in DOMAIN ot, NEW l \in DOMAIN ot, k < l PROVE ot[k] < ot[l]
  <2>1. k \in DOMAIN out
    BY <1>4, <1>8
  <2>2. CASE l \in DOMAIN out
    BY <1>4, <1>8, <2>1, <2>2 DEF OutputsOf
  <2>3. CASE l = q
    BY <1>4, <1>7, <2>1, <2>3
  <2> QED BY <1>4, <2>2, <2>3
<1>9. OutputsOf(m, fv, ot)
  BY <1>5, <1>6, <1>8 DEF OutputsOf
<1> QED BY <1>9 DEF m, fv, ot

\* An event that brings no output.
LEMMA OutputsOther ==
  ASSUME NEW n, NEW hi \in Nat, NEW ev \in Seq(Events), NEW out, NEW k \in 0..hi,
         n \in [DOMAIN ev -> 0..hi], OutputsOf(n, ev, out),
         NEW e \in Events, e # "CRYPTO_DONE"
  PROVE  OutputsOf(Longer(n, ev, k), Append(ev, e), out)
<1> DEFINE m == Longer(n, ev, k)
           fv == Append(ev, e)
           t == Len(ev) + 1
<1>1. /\ \A i \in DOMAIN ev : i \in DOMAIN fv /\ fv[i] = ev[i] /\ m[i] = n[i]
      /\ \A i \in DOMAIN fv : i \in DOMAIN ev \/ i = t
      /\ fv[t] = e
  BY LongerAt
<1> HIDE DEF m, fv, t
<1>2. \A i \in DOMAIN fv : fv[i] = "CRYPTO_DONE" => i \in DOMAIN ev /\ ev[i] = fv[i] /\ m[i] = n[i]
  BY <1>1
<1>3. OutputsOf(m, fv, out)
  BY <1>1, <1>2 DEF OutputsOf
<1> QED BY <1>3 DEF m, fv

\* The application takes the event of a request that is done, and the first output: it
\* is that of the request.
LEMMA OutputsFetch ==
  ASSUME NEW n, NEW lo \in Nat, NEW hi \in Nat, NEW ev \in Seq(Events), NEW out \in Seq(Nat),
         NEW w, NEW cs, OutputsOf(n, ev, out), ev # <<>>, Head(ev) = "CRYPTO_DONE",
         Queue(CryptoEvents, CryptoSteps, n, lo, hi, ev, w, cs)
  PROVE  /\ out # <<>> /\ Head(out) = n[1]
         /\ OutputsOf(Shorter(n, ev), Tail(ev), Tail(out))
<1> DEFINE m == Shorter(n, ev)
           fv == Tail(ev)
           ot == Tail(out)
<1>1. n \in [DOMAIN ev -> 0..hi]
  BY DEF Queue
<1>2. "CRYPTO_DONE" \in CryptoEvents
  BY DEF CryptoEvents
<1>3. LET m2 == Shorter(n, ev)
          fv2 == Tail(ev)
      IN  /\ 1 \in DOMAIN ev /\ ev[1] = Head(ev)
          /\ \A i \in DOMAIN fv2 : i + 1 \in DOMAIN ev /\ fv2[i] = ev[i + 1] /\ m2[i] = n[i + 1]
                                      /\ i \in Nat /\ 1 < i + 1
          /\ \A i \in DOMAIN ev : /\ i \in Nat
                                  /\ \/ i = 1
                                     \/ /\ 1 < i /\ i - 1 \in DOMAIN fv2
                                        /\ fv2[i - 1] = ev[i] /\ m2[i - 1] = n[i]
  BY <1>1, ShorterAt
<1>4. /\ 1 \in DOMAIN ev /\ ev[1] = "CRYPTO_DONE"
      /\ \A i \in DOMAIN fv : i + 1 \in DOMAIN ev /\ fv[i] = ev[i + 1] /\ m[i] = n[i + 1]
                                 /\ i \in Nat /\ 1 < i + 1
      /\ \A i \in DOMAIN ev : /\ i \in Nat
                              /\ \/ i = 1
                                 \/ /\ 1 < i /\ i - 1 \in DOMAIN fv
                                    /\ fv[i - 1] = ev[i] /\ m[i - 1] = n[i]
  BY <1>3
<1>5. PICK a \in DOMAIN out : out[a] = n[1]
  BY <1>4 DEF OutputsOf
<1>6. out # <<>>
  BY <1>5, NoIndex
<1>7. /\ 1 \in DOMAIN out /\ out[1] = Head(out)
      /\ \A k \in DOMAIN ot : k + 1 \in DOMAIN out /\ ot[k] = out[k + 1] /\ k \in Nat /\ 1 < k + 1
      /\ \A k \in DOMAIN out : k \in Nat /\ out[k] \in Nat
                                  /\ (k = 1 \/ (1 < k /\ k - 1 \in DOMAIN ot /\ ot[k - 1] = out[k]))
  <2>1. /\ 1 \in DOMAIN out /\ out[1] = Head(out) /\ Len(out) \in Nat
        /\ DOMAIN out = 1..Len(out) /\ DOMAIN ot = 1..(Len(out) - 1)
        /\ \A k \in DOMAIN ot : k + 1 \in DOMAIN out /\ ot[k] = out[k + 1]
        /\ \A k \in DOMAIN out : k = 1 \/ (k - 1 \in DOMAIN ot /\ ot[k - 1] = out[k])
    BY <1>6, TailAt
  <2>2. \A k \in DOMAIN out : out[k] \in Nat
    OBVIOUS
  <2> HIDE DEF ot
  <2>3. \A k \in DOMAIN ot : k \in Nat /\ 1 < k + 1
    BY <2>1
  <2>4. \A k \in DOMAIN out : k \in Nat /\ (k = 1 \/ 1 < k)
    BY <2>1
  <2> QED BY <2>1, <2>2, <2>3, <2>4
<1> HIDE DEF m, fv, ot
<1>8. ASSUME NEW i \in DOMAIN ev, ev[i] = "CRYPTO_DONE", i # 1 PROVE n[1] < n[i]
  BY <1>2, <1>4, <1>8 DEF Queue
<1>9. out[1] = n[1]
  <2>1. PICK i \in DOMAIN ev : ev[i] = "CRYPTO_DONE" /\ out[1] = n[i]
    BY <1>7 DEF OutputsOf
  <2>2. a = 1 \/ out[1] < out[a]
    BY <1>5, <1>7 DEF OutputsOf
  <2>3. i = 1 \/ n[1] < n[i]
    BY <1>8, <2>1
  <2>4. out[1] \in Nat /\ out[a] \in Nat
    BY <1>5, <1>7
  <2> QED BY <1>5, <2>1, <2>2, <2>3, <2>4
<1>10. \A k \in DOMAIN out : k # 1 => out[1] < out[k]
  BY <1>7 DEF OutputsOf
<1>11. ASSUME NEW i \in DOMAIN fv, fv[i] = "CRYPTO_DONE" PROVE \E k \in DOMAIN ot : ot[k] = m[i]
  <2>1. i + 1 \in DOMAIN ev /\ ev[i + 1] = "CRYPTO_DONE" /\ m[i] = n[i + 1] /\ i + 1 # 1
    BY <1>4, <1>11
  <2>2. PICK k \in DOMAIN out : out[k] = n[i + 1]
    BY <2>1 DEF OutputsOf
  <2>3. n[1] < n[i + 1]
    BY <1>8, <2>1
  <2>4. k # 1
    BY <1>7, <1>9, <2>2, <2>3
  <2>5. k - 1 \in DOMAIN ot /\ ot[k - 1] = out[k]
    BY <1>7, <2>4
  <2> QED BY <2>1, <2>2, <2>5
<1>12. ASSUME NEW k \in DOMAIN ot
       PROVE  \E i \in DOMAIN fv : fv[i] = "CRYPTO_DONE" /\ ot[k] = m[i]
  <2>1. k + 1 \in DOMAIN out /\ ot[k] = out[k + 1] /\ k + 1 # 1
    BY <1>7
  <2>2. PICK i \in DOMAIN ev : ev[i] = "CRYPTO_DONE" /\ out[k + 1] = n[i]
    BY <2>1 DEF OutputsOf
  <2>3. i # 1
    <3>1. out[1] < out[k + 1] /\ out[1] \in Nat
      BY <1>7, <1>10, <2>1
    <3> QED BY <1>9, <2>2, <3>1
  <2>4. i - 1 \in DOMAIN fv /\ fv[i - 1] = ev[i] /\ m[i - 1] = n[i]
    BY <1>4, <2>3
  <2> QED BY <2>1, <2>2, <2>4
<1>13. ASSUME NEW k \in DOMAIN ot, NEW l \in DOMAIN ot, k < l PROVE ot[k] < ot[l]
  <2>1. k + 1 \in DOMAIN out /\ l + 1 \in DOMAIN out /\ k + 1 < l + 1
        /\ ot[k] = out[k + 1] /\ ot[l] = out[l + 1]
    BY <1>7, <1>13
  <2> QED BY <2>1 DEF OutputsOf
<1>14. OutputsOf(m, fv, ot)
  BY <1>11, <1>12, <1>13 DEF OutputsOf
<1> QED BY <1>6, <1>7, <1>9, <1>14 DEF m, fv, ot

\* The application takes an event that brings no output.
LEMMA OutputsFetchOther ==
  ASSUME NEW n, NEW hi \in Nat, NEW ev \in Seq(Events), NEW out, ev # <<>>,
         n \in [DOMAIN ev -> 0..hi], OutputsOf(n, ev, out), Head(ev) # "CRYPTO_DONE"
  PROVE  OutputsOf(Shorter(n, ev), Tail(ev), out)
<1> DEFINE m == Shorter(n, ev)
           fv == Tail(ev)
<1>1. LET m2 == Shorter(n, ev)
          fv2 == Tail(ev)
      IN  /\ ev[1] = Head(ev)
          /\ \A i \in DOMAIN fv2 : i + 1 \in DOMAIN ev /\ fv2[i] = ev[i + 1] /\ m2[i] = n[i + 1]
                                      /\ i \in Nat /\ 1 < i + 1
          /\ \A i \in DOMAIN ev : /\ i \in Nat
                                  /\ \/ i = 1
                                     \/ /\ 1 < i /\ i - 1 \in DOMAIN fv2
                                        /\ fv2[i - 1] = ev[i] /\ m2[i - 1] = n[i]
  BY ShorterAt
<1>2. /\ ev[1] # "CRYPTO_DONE"
      /\ \A i \in DOMAIN fv : i + 1 \in DOMAIN ev /\ fv[i] = ev[i + 1] /\ m[i] = n[i + 1]
      /\ \A i \in DOMAIN ev : i = 1 \/ (i - 1 \in DOMAIN fv /\ fv[i - 1] = ev[i] /\ m[i - 1] = n[i])
  BY <1>1
<1> HIDE DEF m, fv
<1>3. ASSUME NEW i \in DOMAIN fv, fv[i] = "CRYPTO_DONE" PROVE \E k \in DOMAIN out : out[k] = m[i]
  BY <1>2, <1>3 DEF OutputsOf
<1>4. ASSUME NEW k \in DOMAIN out
      PROVE  \E i \in DOMAIN fv : fv[i] = "CRYPTO_DONE" /\ out[k] = m[i]
  <2>1. PICK i \in DOMAIN ev : ev[i] = "CRYPTO_DONE" /\ out[k] = n[i]
    BY DEF OutputsOf
  <2>2. i # 1
    BY <1>2, <2>1
  <2>3. i - 1 \in DOMAIN fv /\ fv[i - 1] = ev[i] /\ m[i - 1] = n[i]
    BY <1>2, <2>2
  <2> QED BY <2>1, <2>3
<1>5. OutputsOf(m, fv, out)
  BY <1>3, <1>4 DEF OutputsOf
<1> QED BY <1>5 DEF m, fv

\* What an application that can rely on its outputs has relied on before; it gives
\* up its activation with every request answered.
LEMMA InStepKept ==
  ASSUME TypeOK, LifeOK, [Next]_vars
  PROVE  /\ careless => careless'
         /\ InStep' => InStep
         /\ answered <= requests /\ InStep' /\ ~activated' => ~activated \/ answered = requests
<1>0. async \in BOOLEAN /\ activated \in BOOLEAN /\ answered \in Nat /\ requests \in Nat
  BY DEF TypeOK, LifeTypes, JobTypes
<1>1. ASSUME UNCHANGED <<async, activated, careless, app, loop>>
      PROVE  /\ careless => careless'
             /\ InStep' => InStep
             /\ InStep' /\ ~activated' => ~activated
  BY <1>1 DEF InStep, Alive
<1>2. CASE Configures
  BY <1>1, <1>2, ConfiguresFrame
<1>3. CASE MidGenerate
  BY <1>1, <1>3, MidGenerateFrame DEF TypeOK
<1>4. CASE CommandGetKey \/ CommandGenerateSign \/ CommandVerifySign
  BY <1>1, <1>4, RepliesFrame
<1>5. CASE \/ FetchEvent \/ Cleanup \/ UNCHANGED vars
           \/ \E t \in Callers : CallReturns(t) \/ CallInterrupted(t)
  <2>1. UNCHANGED <<async, activated, careless, app, loop>>
    BY <1>5 DEF FetchEvent, Cleanup, vars, CallReturns, CallInterrupted, returnOnly, lifeVars, jobVars
  <2> QED BY <1>1, <2>1
<1>6. CASE EventHandler \/ Prepare \/ (\E job \in Jobs : Request(job)) \/ (\E t \in Callers : ACall(t))
  <2>1. UNCHANGED <<async, activated, careless, loop>> /\ (Alive' => Alive)
    <3>1. CASE EventHandler
      <4>1. app' = IF async THEN app ELSE "idle"
        BY <3>1 DEF EventHandler, SecretFails, GenerateEnds, CommandCrypto, Done
      <4>2. work.at # "idle"
        BY <3>1 DEF EventHandler, SecretFails, GenerateEnds, CommandCrypto
      <4>3. ~async => app = "inside"
        BY <4>2 DEF LifeOK, Idle
      <4>4. UNCHANGED <<async, activated, careless, loop>>
        BY <3>1 DEF EventHandler, SecretFails, GenerateEnds, CommandCrypto, loopOnly, jobVars
      <4> QED BY <4>1, <4>3, <4>4 DEF Alive
    <3>2. CASE Prepare \/ (\E job \in Jobs : Request(job))
      <4>1. Free /\ UNCHANGED <<async, activated, careless, loop>>
        BY <3>2 DEF Prepare, Request, lifeVars, jobVars
      <4> QED BY <4>1 DEF Free, Alive
    <3>3. ASSUME NEW t \in Callers, ACall(t) PROVE UNCHANGED <<async, activated, careless, app, loop>>
      <4>1. PICK id \in CallSteps, job \in KeyIds \union {NoJob}, served \in BOOLEAN :
                Call(t, id, job, served)
        BY <3>3, ACallIs
      <4>2. UNCHANGED <<async, activated, careless, loop>>
        BY <4>1 DEF Call, lifeVars, jobVars
      <4>3. app' = app
        BY <1>0, <4>1 DEF Call, Command
      <4> QED BY <4>2, <4>3
    <3> QED BY <1>6, <3>1, <3>2, <3>3 DEF Alive
  <2> QED BY <2>1 DEF InStep
<1>7. CASE Activate
  <2>1. /\ Free /\ UNCHANGED <<async, careless, app>>
        /\ activated' \in BOOLEAN
        /\ ~activated' => async /\ loop # "STOPPED" /\ loop' = loop
    BY <1>7 DEF Activate, jobVars
  <2>2. Alive
    BY <2>1 DEF Free, Alive
  <2>3. ASSUME InStep' PROVE InStep /\ (~activated' => ~activated)
    <3>1. ~careless /\ (activated' \/ loop' # "STARTED" \/ ~async)
      BY <2>1, <2>3 DEF InStep
    <3>2. ASSUME ~activated' PROVE loop # "STARTED" /\ ~activated
      <4>1. async /\ loop # "STARTED"
        BY <2>1, <3>1, <3>2
      <4> QED BY <2>2, <4>1 DEF LifeOK
    <3>3. ASSUME activated', async, ~activated PROVE loop # "STARTED"
      BY <1>7, <3>3 DEF Activate
    <3> QED BY <2>2, <3>1, <3>2, <3>3 DEF InStep
  <2> QED BY <2>1, <2>3
<1>8. CASE Deactivate
  <2>1. /\ Free /\ activated /\ ~activated' /\ UNCHANGED <<async, app>>
        /\ careless' = (careless \/ answered < requests \/ heard < prepares)
    BY <1>8 DEF Deactivate
  <2>2. InStep' => ~careless /\ ~(answered < requests)
    BY <2>1 DEF InStep
  <2>3. ~careless => InStep
    BY <2>1 DEF InStep, Free, Alive
  <2>4. answered <= requests /\ ~(answered < requests) => answered = requests
    BY <1>0
  <2> QED BY <2>1, <2>2, <2>3, <2>4
<1>9. CASE Destroy \/ DestroyJoined
  <2>1. app' \in {"join", "gone"} /\ careless' = careless
    BY <1>9 DEF Destroy, DestroyJoined, jobVars
  <2>2. ~InStep'
    BY <2>1 DEF InStep, Alive
  <2> QED BY <2>1, <2>2
<1>10. CASE LoopTakes \/ LoopStops
  <2>1. UNCHANGED <<async, activated, careless, app>> /\ (loop = "STARTED" => loop' = "STARTED")
    BY <1>10 DEF LoopTakes, LoopStops, loopOnly, jobVars
  <2> QED BY <2>1 DEF InStep, Alive
<1> QED
  BY <1>2, <1>3, <1>4, <1>5, <1>6, <1>7, <1>8, <1>9, <1>10
     DEF Next, Encrypt, Decrypt, Configures, MidGenerate, EventHandler, ACall, Callers

\* Every step keeps the requests in their order, and an output for each that is done.
LEMMA RequestsQueuedStep ==
  ASSUME TypeOK, LifeOK, RequestsQueued, [Next]_vars
  PROVE  RequestsQueued'
<1>0. /\ WorkTypes /\ LifeTypes /\ async \in BOOLEAN /\ events \in Seq(Events)
      /\ requests \in Nat /\ answered \in Nat /\ outputs \in Seq(Nat)
      /\ work \in Works /\ commands \in Seq(Works)
  BY DEF TypeOK, WorkTypes, AnswerTypes, LifeTypes, JobTypes
<1>1. answered <= requests /\ (wrongOutput => careless) /\ (InStep /\ ~activated => answered = requests)
  BY DEF RequestsQueued
<1>2. PICK n \in [DOMAIN events -> 0..requests] :
          /\ Queue(CryptoEvents, CryptoSteps, n, answered, requests, events, work, commands)
          /\ InStep => OutputsOf(n, events, outputs)
  BY DEF RequestsQueued
<1>3. "idle" \notin CryptoSteps /\ CryptoSteps \cap CallSteps = {} /\ "GENERATE" \notin CryptoSteps
      /\ "CRYPTO" \in CryptoSteps /\ Idle.at = "idle" /\ 0 \in 0..requests
      /\ CryptoSteps \cap GenSteps = {}
  BY <1>0 DEF CryptoSteps, GenSteps, CallSteps, Idle
<1>4. /\ careless => careless'
      /\ InStep' => InStep
      /\ InStep' /\ ~activated' => ~activated \/ answered = requests
  BY <1>1, InStepKept
\* It is enough to name the numbers of the events after the step.
<1>5. ASSUME NEW m, Queue(CryptoEvents, CryptoSteps, m, answered', requests', events', work', commands'),
             answered' <= requests', wrongOutput' => careless',
             InStep' /\ ~activated' => answered' = requests',
             InStep' => OutputsOf(m, events', outputs')
      PROVE  RequestsQueued'
  <2>1. m \in [DOMAIN events' -> 0..requests']
    BY <1>5 DEF Queue
  <2> QED BY <1>5, <2>1 DEF RequestsQueued
\* The same, when no request is made or answered.
<1>6. ASSUME NEW m, UNCHANGED <<answered, requests, wrongOutput>>,
             Queue(CryptoEvents, CryptoSteps, m, answered, requests, events', work', commands'),
             OutputsOf(n, events, outputs) => OutputsOf(m, events', outputs')
      PROVE  RequestsQueued'
  <2>1. answered' = answered /\ requests' = requests /\ (wrongOutput' => careless')
    BY <1>1, <1>4, <1>6
  <2>2. InStep' /\ ~activated' => answered' = requests'
    BY <1>1, <1>4, <2>1
  <2>3. InStep' => OutputsOf(m, events', outputs')
    BY <1>2, <1>4, <1>6
  <2> QED BY <1>1, <1>5, <1>6, <2>1, <2>2, <2>3
<1>7. ASSUME UNCHANGED <<events, outputs, answered, requests, wrongOutput>>,
             Queue(CryptoEvents, CryptoSteps, n, answered, requests, events, work', commands')
      PROVE  RequestsQueued'
  <2>1. OutputsOf(n, events, outputs) => OutputsOf(n, events', outputs')
    BY <1>7
  <2>2. Queue(CryptoEvents, CryptoSteps, n, answered, requests, events', work', commands')
    BY <1>7
  <2> QED BY <1>6, <1>7, <2>1, <2>2
<1>8. ASSUME UNCHANGED <<events, outputs, work, commands, answered, requests, wrongOutput>>
      PROVE  RequestsQueued'
  <2>1. Queue(CryptoEvents, CryptoSteps, n, answered, requests, events, work', commands')
    BY <1>2, <1>8
  <2> QED BY <1>7, <1>8, <2>1
<1>9. CASE Configures
  BY <1>8, <1>9, ConfiguresFrame
<1>10. CASE \/ Activate \/ Deactivate \/ Destroy \/ DestroyJoined \/ LoopStops \/ UNCHANGED vars
            \/ \E t \in Callers : CallReturns(t) \/ CallInterrupted(t)
  <2>1. UNCHANGED <<events, outputs, work, commands, answered, requests, wrongOutput>>
    BY <1>10 DEF Activate, Deactivate, Destroy, DestroyJoined, LoopStops, vars, CallReturns,
                 CallInterrupted, returnOnly, ioVars, jobVars
  <2> QED BY <1>8, <2>1
<1>11. CASE MidGenerate
  <2>1. /\ work.at \notin CryptoSteps /\ work'.at \notin CryptoSteps
        /\ UNCHANGED <<events, outputs, commands, answered, requests, wrongOutput>>
    BY <1>0, <1>3, <1>11, MidGenerateFrame
  <2>2. Queue(CryptoEvents, CryptoSteps, n, answered, requests, events, work', commands)
    BY <1>2, <2>1, QueueOther
  <2> QED BY <1>7, <2>1, <2>2
<1>12. CASE Prepare
  <2>1. /\ Command("GENERATE", prepares + 1, NoJob) /\ Free
        /\ UNCHANGED <<events, outputs, answered, requests, wrongOutput>>
    BY <1>12 DEF Prepare, jobVars
  <2>2. prepares + 1 \in Nat
    BY DEF TypeOK, JobTypes
  <2>3. [at |-> "GENERATE", number |-> prepares + 1, job |-> NoJob, ok |-> TRUE] \in Works
    BY <2>2, WorksOK
  <2>4. Queue(CryptoEvents, CryptoSteps, n, answered, requests, events, work', commands')
    BY <1>0, <1>1, <1>2, <1>3, <2>1, <2>3, FreeIdle, QueueSent
  <2> QED BY <1>7, <2>1, <2>4
<1>13. ASSUME NEW job \in Jobs, Request(job) PROVE RequestsQueued'
  <2>1. /\ Command("CRYPTO", requests + 1, job) /\ Free /\ activated
        /\ requests' = requests + 1
        /\ UNCHANGED <<activated, events, outputs, answered, wrongOutput>>
    BY <1>13 DEF Request, lifeVars
  <2>2. requests + 1 \in Nat /\ answered <= requests + 1
    BY <1>0, <1>1
  <2>3. [at |-> "CRYPTO", number |-> requests + 1, job |-> job, ok |-> TRUE] \in Works
    BY <2>2, WorksOK
  <2>4. Queue(CryptoEvents, CryptoSteps, n, answered, requests + 1, events, work', commands')
    BY <1>0, <1>1, <1>2, <1>3, <2>1, <2>3, FreeIdle, QueueSent
  <2>5. Queue(CryptoEvents, CryptoSteps, n, answered', requests', events', work', commands')
        /\ answered' <= requests'
    BY <2>1, <2>2, <2>4
  <2>6. (wrongOutput' => careless') /\ activated'
    BY <1>1, <1>4, <2>1
  <2>7. InStep' => OutputsOf(n, events', outputs')
    BY <1>2, <1>4, <2>1
  <2> QED BY <1>5, <2>5, <2>6, <2>7
<1>14. ASSUME NEW t \in Callers, ACall(t) PROVE RequestsQueued'
  <2>1. PICK id \in CallSteps, job \in KeyIds \union {NoJob}, served \in BOOLEAN :
            /\ Call(t, id, job, served)
            /\ [at |-> id, number |-> calls + 1, job |-> job, ok |-> TRUE] \in Works
    BY <1>14, ACallIs
  <2>2. UNCHANGED <<events, outputs, answered, requests, wrongOutput>>
    BY <2>1 DEF Call, jobVars
  <2>3. Queue(CryptoEvents, CryptoSteps, n, answered, requests, events, work', commands')
    BY <1>0, <1>2, <1>3, <2>1, QueueCalled
  <2> QED BY <1>7, <2>2, <2>3
<1>15. CASE FetchEvent
  <2>1. /\ Free /\ events # <<>> /\ events' = Tail(events)
        /\ answered' = IF Head(events) \in CryptoEvents THEN answered + 1 ELSE answered
        /\ IF Head(events) = "CRYPTO_DONE" THEN GetResult ELSE UNCHANGED <<outputs, wrongOutput>>
        /\ UNCHANGED <<activated, careless, work, commands, requests>>
    BY <1>15 DEF FetchEvent, CryptoEvents, lifeVars
  <2>2. CASE Head(events) \in CryptoEvents
    <3>1. /\ n[1] = answered + 1 /\ answered + 1 <= requests
          /\ Queue(CryptoEvents, CryptoSteps, Shorter(n, events), answered + 1, requests,
                   Tail(events), work, commands)
      BY <1>0, <1>2, <2>1, <2>2, QueueFetch
    <3>2. answered # requests
      BY <1>0, <3>1
    <3>3. /\ Queue(CryptoEvents, CryptoSteps, Shorter(n, events), answered', requests', events', work', commands')
          /\ answered' <= requests'
      BY <2>1, <2>2, <3>1
    <3>4. ASSUME ~careless, activated PROVE InStep
      BY <2>1, <3>4 DEF InStep, Free, Alive
    <3>5. CASE Head(events) = "CRYPTO_DONE"
      <4>1. ASSUME InStep
            PROVE  /\ outputs # <<>> /\ Head(outputs) = answered + 1
                   /\ OutputsOf(Shorter(n, events), Tail(events), Tail(outputs))
        <5>1. OutputsOf(n, events, outputs)
          BY <1>2, <4>1
        <5> QED BY <1>0, <1>2, <2>1, <3>1, <3>5, <5>1, OutputsFetch
      <4>2. wrongOutput' => careless'
        <5>1. SUFFICES ASSUME ~careless, wrongOutput' PROVE FALSE
          BY <2>1
        <5>2. ~wrongOutput
          BY <1>1, <5>1
        <5>3. activated
          BY <2>1, <3>5, <5>1, <5>2 DEF GetResult
        <5>4. outputs # <<>> /\ Head(outputs) = answered + 1
          BY <3>4, <4>1, <5>1, <5>3
        <5> QED BY <2>1, <3>5, <5>1, <5>2, <5>3, <5>4 DEF GetResult
      <4>3. ASSUME InStep' PROVE activated' /\ OutputsOf(Shorter(n, events), events', outputs')
        <5>1. InStep /\ activated
          BY <1>1, <1>4, <2>1, <3>2, <4>3
        <5>2. outputs # <<>> /\ OutputsOf(Shorter(n, events), Tail(events), Tail(outputs))
          BY <4>1, <5>1
        <5>3. outputs' = Tail(outputs)
          BY <2>1, <3>5, <5>1, <5>2 DEF GetResult
        <5> QED BY <2>1, <5>1, <5>2, <5>3
      <4> QED BY <1>5, <3>3, <4>2, <4>3
    <3>6. CASE Head(events) # "CRYPTO_DONE"
      <4>1. UNCHANGED <<outputs, wrongOutput>>
        BY <2>1, <3>6
      <4>2. ASSUME InStep' PROVE activated' /\ OutputsOf(Shorter(n, events), events', outputs')
        <5>1. InStep /\ activated
          BY <1>1, <1>4, <2>1, <3>2, <4>2
        <5>2. OutputsOf(n, events, outputs)
          BY <1>2, <5>1
        <5>3. OutputsOf(Shorter(n, events), Tail(events), outputs)
          BY <1>0, <2>1, <3>6, <5>2, OutputsFetchOther
        <5> QED BY <2>1, <4>1, <5>1, <5>3
      <4>3. wrongOutput' => careless'
        BY <1>1, <2>1, <4>1
      <4> QED BY <1>5, <3>3, <4>2, <4>3
    <3> QED BY <3>5, <3>6
  <2>3. CASE Head(events) \notin CryptoEvents
    <3>1. Queue(CryptoEvents, CryptoSteps, Shorter(n, events), answered, requests, Tail(events), work, commands)
      BY <1>0, <1>2, <2>1, <2>3, QueueFetchOther
    <3>2. Head(events) # "CRYPTO_DONE"
      BY <2>3 DEF CryptoEvents
    <3>3. UNCHANGED <<answered, requests, outputs, wrongOutput, work, commands>>
      BY <2>1, <2>3, <3>2
    <3>4. OutputsOf(n, events, outputs) => OutputsOf(Shorter(n, events), Tail(events), outputs)
      BY <1>0, <2>1, <3>2, OutputsFetchOther
    <3>5. OutputsOf(n, events, outputs) => OutputsOf(Shorter(n, events), events', outputs')
      BY <2>1, <3>3, <3>4
    <3>6. Queue(CryptoEvents, CryptoSteps, Shorter(n, events), answered, requests, events', work', commands')
      BY <2>1, <3>1, <3>3
    <3> QED BY <1>6, <3>3, <3>5, <3>6
  <2> QED BY <2>2, <2>3
<1>16. CASE LoopTakes
  <2>1. /\ commands # <<>> /\ work = Idle
        /\ work' = Head(commands) /\ commands' = Tail(commands)
        /\ UNCHANGED <<events, outputs, answered, requests, wrongOutput>>
    BY <1>16 DEF LoopTakes, loopOnly, jobVars
  <2>2. Queue(CryptoEvents, CryptoSteps, n, answered, requests, events, Head(commands), Tail(commands))
    BY <1>0, <1>2, <1>3, <2>1, QueueTake
  <2> QED BY <1>7, <2>1, <2>2
\* An event of another kind is added.
<1>17. ASSUME NEW e \in Events \ CryptoEvents, events' = Append(events, e),
              work' = work \/ (work.at \notin CryptoSteps /\ work' = Idle),
              UNCHANGED <<commands, outputs, answered, requests, wrongOutput>>
       PROVE  RequestsQueued'
  <2>1. Queue(CryptoEvents, CryptoSteps, Longer(n, events, 0), answered, requests, Append(events, e), work, commands)
    BY <1>0, <1>2, <1>17, QueueEventOther
  <2>2. Queue(CryptoEvents, CryptoSteps, Longer(n, events, 0), answered, requests, Append(events, e), work', commands)
    BY <1>3, <1>17, <2>1, QueueOther
  <2>3. Queue(CryptoEvents, CryptoSteps, Longer(n, events, 0), answered, requests, events', work', commands')
    BY <1>17, <2>2
  <2>4. e # "CRYPTO_DONE"
    BY DEF CryptoEvents
  <2>5. OutputsOf(n, events, outputs) => OutputsOf(Longer(n, events, 0), Append(events, e), outputs)
    BY <1>0, <1>3, <2>4, OutputsOther
  <2>6. OutputsOf(n, events, outputs) => OutputsOf(Longer(n, events, 0), events', outputs')
    BY <1>17, <2>5
  <2> QED BY <1>6, <1>17, <2>3, <2>6
<1>18. CASE SecretFails \/ GenerateEnds
  <2>1. /\ work.at \notin CryptoSteps /\ work' = Idle
        /\ \E e \in GenEvents : events' = Append(events, e)
        /\ UNCHANGED <<commands, outputs, answered, requests, wrongOutput>>
    BY <1>18 DEF SecretFails, GenerateEnds, Done, PublishEventData, loopOnly, jobVars, CryptoSteps, GenEvents
  <2>2. GenEvents \subseteq Events \ CryptoEvents
    BY DEF Events, CryptoEvents, GenEvents
  <2> QED BY <1>17, <2>1, <2>2
<1>19. CASE CommandCrypto
  <2> DEFINE k == work.number
  <2>1. /\ work.at \in CryptoSteps /\ work' = Idle
        /\ outputs' = IF Refuses(work.job) THEN outputs ELSE Append(outputs, k)
        /\ events' = Append(events, IF Refuses(work.job) THEN "CRYPTO_ERROR" ELSE "CRYPTO_DONE")
        /\ UNCHANGED <<commands, answered, requests, wrongOutput>>
    BY <1>19 DEF CommandCrypto, CryptoOutput, Done, PublishEventData, loopOnly, jobVars, CryptoSteps
  <2>2. "CRYPTO_ERROR" \in CryptoEvents /\ "CRYPTO_DONE" \in CryptoEvents /\ CryptoEvents \subseteq Events
    BY DEF Events, CryptoEvents
  <2>3. \A e \in CryptoEvents : Queue(CryptoEvents, CryptoSteps, Longer(n, events, k), answered, requests,
                                      Append(events, e), Idle, commands)
    BY <1>0, <1>2, <1>3, <2>1, <2>2, QueueEnd
  <2>4. k \in 0..requests
    <3>1. k \in Nat
      BY <1>0, WorksOK
    <3>2. k <= requests
      BY <1>2, <2>1 DEF Queue
    <3> HIDE DEF k
    <3> QED BY <1>0, <3>1, <3>2
  <2> HIDE DEF k
  <2>5. CASE Refuses(work.job)
    <3>1. events' = Append(events, "CRYPTO_ERROR") /\ outputs' = outputs
      BY <2>1, <2>5
    <3>2. OutputsOf(n, events, outputs) => OutputsOf(Longer(n, events, k), Append(events, "CRYPTO_ERROR"), outputs)
      BY <1>0, <2>2, <2>4, OutputsOther
    <3>3. OutputsOf(n, events, outputs) => OutputsOf(Longer(n, events, k), events', outputs')
      BY <3>1, <3>2
    <3>4. Queue(CryptoEvents, CryptoSteps, Longer(n, events, k), answered, requests, events', work', commands')
      BY <2>1, <2>2, <2>3, <3>1
    <3> QED BY <1>6, <2>1, <3>3, <3>4
  <2>6. CASE ~Refuses(work.job)
    <3>1. events' = Append(events, "CRYPTO_DONE") /\ outputs' = Append(outputs, k)
      BY <2>1, <2>6
    <3>2. OutputsOf(n, events, outputs) =>
              OutputsOf(Longer(n, events, k), Append(events, "CRYPTO_DONE"), Append(outputs, k))
      BY <1>0, <1>2, <2>1, OutputsDone DEF k
    <3>3. OutputsOf(n, events, outputs) => OutputsOf(Longer(n, events, k), events', outputs')
      BY <3>1, <3>2
    <3>4. Queue(CryptoEvents, CryptoSteps, Longer(n, events, k), answered, requests, events', work', commands')
      BY <2>1, <2>2, <2>3, <3>1
    <3> QED BY <1>6, <2>1, <3>3, <3>4
  <2> QED BY <2>5, <2>6
<1>20. CASE CommandGetKey \/ CommandGenerateSign \/ CommandVerifySign
  <2>1. /\ work.at \notin CryptoSteps /\ work' = Idle
        /\ UNCHANGED <<events, outputs, commands, answered, requests, wrongOutput>>
    BY <1>3, <1>20, RepliesFrame DEF IsCall
  <2>2. Queue(CryptoEvents, CryptoSteps, n, answered, requests, events, Idle, commands)
    BY <1>2, <1>3, <2>1, QueueOther
  <2> QED BY <1>7, <2>1, <2>2
<1>21. CASE Cleanup
  <2>1. /\ events' = events \/ events' = Append(events, "DEACTIVATE_DONE")
        /\ UNCHANGED <<work, commands, outputs, answered, requests, wrongOutput>>
    BY <1>0, <1>21 DEF Cleanup, PublishEventData, jobVars, LifeTypes
  <2>2. "DEACTIVATE_DONE" \in Events \ CryptoEvents
    BY DEF Events, CryptoEvents
  <2> QED BY <1>8, <1>17, <2>1, <2>2
<1> QED
  BY <1>9, <1>10, <1>11, <1>12, <1>13, <1>14, <1>15, <1>16, <1>18, <1>19, <1>20, <1>21
     DEF Next, Encrypt, Decrypt, Configures, MidGenerate, ACall, Callers

\* No request and no Prepare() to begin with.
LEMMA QueuesInit == ASSUME Init PROVE PreparesQueued /\ RequestsQueued
<1>1. /\ heard = 0 /\ prepares = 0 /\ answered = 0 /\ requests = 0 /\ ~wrongOutput
      /\ events = <<>> /\ outputs = <<>> /\ commands = <<>> /\ work.at = "idle"
  BY DEF Init, EventPipe, HandlerAdded, Idle
<1>2. DOMAIN events = {} /\ DOMAIN outputs = {} /\ DOMAIN commands = {}
  BY <1>1
<1>3. 1..0 = {}
  OBVIOUS
<1>4. ASSUME NEW E, NEW A, "idle" \notin A PROVE Queue(E, A, events, 0, 0, events, work, commands)
  <2>1. events \in [DOMAIN events -> 0..0]
    BY <1>1, <1>2
  <2>2. \A k \in (0 + 1)..0 : FALSE
    OBVIOUS
  <2> QED BY <1>1, <1>2, <1>4, <2>1, <2>2 DEF Queue
<1>5. "idle" \notin GenSteps /\ "idle" \notin CryptoSteps
  BY DEF GenSteps, CryptoSteps
<1>6. events \in [DOMAIN events -> 0..0] /\ OutputsOf(events, events, outputs)
  BY <1>1, <1>2 DEF OutputsOf
<1>7. Queue(GenEvents, GenSteps, events, heard, prepares, events, work, commands)
      /\ Queue(CryptoEvents, CryptoSteps, events, answered, requests, events, work, commands)
  BY <1>1, <1>4, <1>5
<1>8. events \in [DOMAIN events -> 0..prepares] /\ events \in [DOMAIN events -> 0..requests]
  BY <1>1, <1>6
<1>9. heard <= prepares /\ answered <= requests /\ answered = requests
  BY <1>1
<1>10. OutputsOf(events, events, outputs)
  BY <1>6
<1>11. PreparesQueued
  <2>1. \E n \in [DOMAIN events -> 0..prepares] :
            Queue(GenEvents, GenSteps, n, heard, prepares, events, work, commands)
    BY <1>7, <1>8
  <2> QED BY <1>9, <2>1 DEF PreparesQueued
<1>12. RequestsQueued
  <2>1. \E n \in [DOMAIN events -> 0..requests] :
            /\ Queue(CryptoEvents, CryptoSteps, n, answered, requests, events, work, commands)
            /\ InStep => OutputsOf(n, events, outputs)
    BY <1>7, <1>8, <1>10
  <2> QED BY <1>1, <1>9, <2>1 DEF RequestsQueued
<1> QED BY <1>11, <1>12

\* The calls, the requests and the Prepare() calls are in their order.
THEOREM QueuesInvariant == Spec => [](TypeOK /\ LifeOK /\ KeysLive /\ OneCall /\ PreparesQueued /\ RequestsQueued)
<1>1. Init => PreparesQueued /\ RequestsQueued
  BY QueuesInit
<1>2. (TypeOK /\ LifeOK /\ KeysLive /\ OneCall) /\ (PreparesQueued /\ RequestsQueued) /\ [Next]_vars
          => (PreparesQueued /\ RequestsQueued)'
  BY PreparesQueuedStep, RequestsQueuedStep
<1>3. Spec => [](TypeOK /\ LifeOK /\ KeysLive /\ OneCall)
  BY CallsInvariant
<1> QED BY <1>1, <1>2, <1>3, PTL DEF Spec

\* What an application is answered is its own: the output it reads is of the request
\* it asks for unless it has deactivated the authenticator with requests unanswered,
\* and the reply it takes is to its own call unless two threads have called at once or a
\* call was interrupted.
THEOREM AnswerIsOwnHolds == Spec => []AnswerIsOwn
<1>1. OneCall /\ RequestsQueued => AnswerIsOwn
  BY DEF OneCall, RequestsQueued, AnswerIsOwn
<1> QED BY <1>1, QueuesInvariant, PTL

----------------------------------------------------------------------------
(* What a prepared application can rely on.                                *)

\* The secret key changes when it is configured, and at the end of a Prepare() when there
\* is none.
LEMMA SecretStep ==
  ASSUME TypeOK, SecretOK, [Next]_vars
  PROVE  SecretOK'
<1>1. ASSUME UNCHANGED <<secretKey, secretSet>> PROVE SecretOK'
  BY <1>1 DEF SecretOK
<1>2. ASSUME NEW text \in Texts \union {NoText}, NEW zero \in BOOLEAN, SecretConfigured(text, zero)
      PROVE  SecretOK'
  <2>1. sslConfig.base64 \in BOOLEAN
    BY DEF TypeOK, CfgTypes, Configurations
  <2>2. CASE text = NoText
    <3>1. secretSet'.text = NoText
      BY <1>2, <2>2 DEF SecretConfigured
    <3> QED BY <3>1 DEF SecretOK
  <2>3. CASE text # NoText /\ sslConfig.base64 /\ Undecodable(text)
    <3>1. UNCHANGED <<secretKey, secretSet>>
      BY <1>2, <2>3 DEF SecretConfigured
    <3> QED BY <1>1, <3>1
  <2>4. CASE text # NoText /\ ~(sslConfig.base64 /\ Undecodable(text))
    <3>1. /\ secretKey' = LoadSecretKey(text, sslConfig.base64)
          /\ secretSet' = [text |-> text, base64 |-> sslConfig.base64]
      BY <1>2, <2>4 DEF SecretConfigured
    <3>2. text \in Texts
      BY <2>4
    <3>3. sslConfig.base64 => text.coded = 1
      BY <2>4, <3>2 DEF Undecodable, Texts
    <3>4. secretSet'.text = text /\ secretSet'.base64 = sslConfig.base64
      BY <3>1
    <3> QED BY <3>1, <3>2, <3>3, <3>4 DEF SecretOK
  <2> QED BY <2>2, <2>3, <2>4
<1>3. CASE Configures
  <2>1. CASE \E text \in Texts \cup {NoText}, zero \in BOOLEAN : ConfigureSecretKey(text, zero)
    BY <1>2, <2>1 DEF ConfigureSecretKey
  <2>2. CASE \E given \in Credentials, base64 \in BOOLEAN : ConfigureSSL(given, base64)
    BY <1>1, <2>2 DEF ConfigureSSL
  <2>3. CASE \E text \in Texts, given \in Credentials, base64 \in BOOLEAN :
                 ConfigureJSON(text, given, base64)
    BY <1>2, <2>3 DEF ConfigureJSON
  <2> QED BY <1>3, <2>1, <2>2, <2>3 DEF Configures
<1>4. CASE GenerateEnds
  <2>1. /\ secretKey' = IF secretKey = NoText THEN GenerateSecretKey(zeroBits) ELSE secretKey
        /\ secretSet' = secretSet
    BY <1>4 DEF GenerateEnds, loopOnly, cfgVars
  <2>2. CASE secretSet.text = NoText
    BY <2>1, <2>2 DEF SecretOK
  <2>3. CASE secretSet.text # NoText
    <3>1. secretSet.text \in Texts /\ secretKey = LoadSecretKey(secretSet.text, secretSet.base64)
      BY <2>3 DEF SecretOK
    <3>2. secretKey.key = "given"
      BY <3>1 DEF Texts, LoadSecretKey, DecodeBase64
    <3>3. secretKey # NoText
      BY <3>2 DEF NoText
    <3> QED BY <1>1, <2>1, <3>3
  <2> QED BY <2>2, <2>3
<1>5. CASE MidGenerate
  BY <1>1, <1>5, MidGenerateFrame DEF TypeOK
<1>6. CASE CommandGetKey \/ CommandGenerateSign \/ CommandVerifySign
  BY <1>1, <1>6, RepliesFrame
<1>7. CASE \/ Activate \/ Prepare \/ (\E job \in Jobs : Request(job)) \/ Deactivate \/ FetchEvent
           \/ Destroy \/ DestroyJoined \/ LoopTakes \/ SecretFails \/ CommandCrypto \/ LoopStops
           \/ Cleanup \/ UNCHANGED vars
           \/ \E t \in Callers : CallReturns(t) \/ CallInterrupted(t)
  BY <1>1, <1>7
     DEF Activate, Prepare, Request, Deactivate, FetchEvent, Destroy, DestroyJoined, LoopTakes, SecretFails,
         CommandCrypto, LoopStops, Cleanup, vars, CallReturns, CallInterrupted, returnOnly,
         loopOnly, cfgVars, ctxVars
<1>8. ASSUME NEW t \in Callers, ACall(t) PROVE SecretOK'
  BY <1>1, <1>8, ACallIs DEF Call, cfgVars, ctxVars
<1> QED
  BY <1>3, <1>4, <1>5, <1>6, <1>7, <1>8 DEF Next, Encrypt, Decrypt, Configures, MidGenerate, ACall, Callers

\* GetKey() gives a configured secret key as it was.
LEMMA SecretGiven ==
  ASSUME TypeOK, SecretOK, secretSet.text # NoText, secretSet.base64 = sslConfig.base64
  PROVE  GetSecretKey = secretSet.text
<1>1. /\ secretSet.text \in Texts /\ (secretSet.base64 => secretSet.text.coded = 1)
      /\ secretKey = LoadSecretKey(secretSet.text, sslConfig.base64)
  BY DEF SecretOK
<1>2. CASE sslConfig.base64
  <2>1. /\ secretSet.text = [key |-> "given", coded |-> 1]
        /\ secretKey = [secretSet.text EXCEPT !.coded = @ - 1]
    BY <1>1, <1>2 DEF Texts, LoadSecretKey, DecodeBase64
  <2>2. secretKey = [key |-> "given", coded |-> 0]
    BY <2>1
  <2>3. GetSecretKey = [secretKey EXCEPT !.coded = @ + 1]
    BY <1>2 DEF GetSecretKey, EncodeBase64
  <2> QED BY <2>1, <2>2, <2>3
<1>3. CASE ~sslConfig.base64
  BY <1>1, <1>3 DEF GetSecretKey, LoadSecretKey
<1> QED BY <1>2, <1>3

\* The steps that change none of the keys, and nothing that is configured.
Quiet ==
    \/ Activate \/ Prepare \/ FetchEvent \/ Destroy \/ DestroyJoined \/ LoopTakes \/ LoopStops
    \/ \E job \in Jobs : Request(job)
    \/ \E t \in Callers : ACall(t) \/ CallReturns(t) \/ CallInterrupted(t)
    \/ UNCHANGED vars

LEMMA QuietFrame ==
  ASSUME TypeOK, Quiet
  PROVE  UNCHANGED <<async, keypair, x509, secretKey, mixed, sslConfig, zeroBits, disturbed, hidden>>
<1> USE DEF cfgVars, ctxVars, loopOnly, returnOnly
<1>1. CASE Activate \/ Prepare \/ (\E job \in Jobs : Request(job)) \/ FetchEvent \/ Destroy
  BY <1>1 DEF Activate, Prepare, Request, FetchEvent, Destroy
<1>2. CASE DestroyJoined \/ LoopTakes \/ LoopStops \/ UNCHANGED vars
  BY <1>2 DEF DestroyJoined, LoopTakes, LoopStops, vars
<1>3. CASE \E t \in Callers : CallReturns(t) \/ CallInterrupted(t)
  BY <1>3 DEF CallReturns, CallInterrupted
<1>4. ASSUME NEW t \in Callers, ACall(t)
      PROVE  UNCHANGED <<async, keypair, x509, secretKey, mixed, sslConfig, zeroBits, disturbed, hidden>>
  <2>1. PICK id \in CallSteps, job \in KeyIds \union {NoJob}, served \in BOOLEAN : Call(t, id, job, served)
    BY <1>4, ACallIs
  <2> QED BY <2>1 DEF Call
<1> QED BY <1>1, <1>2, <1>3, <1>4 DEF Quiet

\* Every step, by what it changes of the keys.
LEMMA StepIs ==
  ASSUME [Next]_vars
  PROVE  \/ Configures \/ MidGenerate \/ EventHandler \/ Deactivate \/ Cleanup \/ Quiet
         \/ CommandGetKey \/ CommandGenerateSign \/ CommandVerifySign
BY DEF Next, Encrypt, Decrypt, Configures, MidGenerate, EventHandler, Quiet, ACall, Callers

\* What excuses a refusal stays.
LEMMA FairBefore ==
  ASSUME TypeOK, LifeOK, [Next]_vars
  PROVE  /\ disturbed => disturbed'
         /\ Fair' => Fair
<1>1. careless => careless'
  BY InStepKept
<1>2. disturbed => disturbed'
  <2>1. CASE Configures
    BY <2>1 DEF Configures, ConfigureSecretKey, ConfigureSSL, ConfigureJSON, Configure
  <2>2. CASE Quiet
    BY <2>2, QuietFrame
  <2>3. CASE Deactivate \/ Cleanup
    BY <2>3 DEF Deactivate, Cleanup, cfgVars
  <2> QED BY <2>1, <2>2, <2>3, StepIs, MidGenerateFrame, EventHandlerFrame, RepliesFrame DEF TypeOK
<1>3. hidden => hidden'
  <2>1. CASE EventHandler
    BY <2>1 DEF EventHandler, SecretFails, GenerateEnds, CommandCrypto
  <2>2. CASE Quiet
    BY <2>2, QuietFrame
  <2>3. CASE Deactivate \/ Cleanup
    BY <2>3 DEF Deactivate, Cleanup
  <2> QED BY <2>1, <2>2, <2>3, StepIs, ConfiguresFrame, MidGenerateFrame, RepliesFrame DEF TypeOK
<1>4. (hasty => hasty') /\ (astray => astray')
  <2>1. CASE \/ Prepare \/ FetchEvent \/ Destroy \/ DestroyJoined \/ LoopTakes \/ LoopStops
             \/ Deactivate \/ Cleanup \/ UNCHANGED vars
    <3>1. UNCHANGED <<hasty, astray>>
      BY <2>1 DEF Prepare, FetchEvent, Destroy, DestroyJoined, LoopTakes, LoopStops, Deactivate,
                  Cleanup, vars, callVars, loopOnly
    <3> QED BY <3>1
  <2>5. CASE Activate
    <3>1. hasty => hasty'
      BY <2>5 DEF Activate
    <3>2. astray' = astray
      BY <2>5 DEF Activate, callVars
    <3> QED BY <3>1, <3>2
  <2>2. CASE \E job \in Jobs : Request(job)
    BY <2>2 DEF Request, callVars
  <2>3. CASE \E t \in Callers : CallReturns(t) \/ CallInterrupted(t)
    BY <2>3 DEF CallReturns, CallInterrupted, returnOnly
  <2>4. ASSUME NEW t \in Callers, ACall(t) PROVE (hasty => hasty') /\ (astray => astray')
    <3>1. PICK id \in CallSteps, job \in KeyIds \union {NoJob}, served \in BOOLEAN : Call(t, id, job, served)
      BY <2>4, ACallIs
    <3> QED BY <3>1 DEF Call
  <2> QED
    BY <2>1, <2>2, <2>3, <2>4, <2>5, StepIs, ConfiguresFrame, MidGenerateFrame, EventHandlerFrame, RepliesFrame
       DEF TypeOK, Quiet
<1> QED BY <1>1, <1>2, <1>3, <1>4 DEF Fair

\* A secret key of no bytes is configured by the application.
LEMMA ZeroBitsStep ==
  ASSUME TypeOK, LifeOK, zeroBits => disturbed, [Next]_vars
  PROVE  zeroBits' => disturbed'
<1>1. disturbed => disturbed'
  BY FairBefore
<1>2. ASSUME NEW text \in Texts \union {NoText}, NEW zero \in BOOLEAN, ConfigureSecretKey(text, zero)
      PROVE  zeroBits' => disturbed'
  BY <1>2 DEF ConfigureSecretKey, Configure, SecretConfigured
<1>3. ASSUME NEW given \in Credentials, NEW base64 \in BOOLEAN, ConfigureSSL(given, base64)
      PROVE  zeroBits' = zeroBits
  BY <1>3 DEF ConfigureSSL
<1>4. ASSUME NEW text \in Texts, NEW given \in Credentials, NEW base64 \in BOOLEAN,
             ConfigureJSON(text, given, base64)
      PROVE  ~zeroBits'
  BY <1>4 DEF ConfigureJSON, SecretConfigured
<1>5. CASE Configures
  BY <1>1, <1>2, <1>3, <1>4, <1>5 DEF Configures
<1>6. CASE Quiet
  BY <1>6, QuietFrame
<1>7. CASE Deactivate \/ Cleanup
  BY <1>7 DEF Deactivate, Cleanup, cfgVars
<1> QED BY <1>5, <1>6, <1>7, StepIs, MidGenerateFrame, EventHandlerFrame, RepliesFrame DEF TypeOK

\* A command that is sent starts a handler.
LEMMA StartSent ==
  ASSUME WorkTypes, CommandsStart, NEW id \in {"GENERATE", "CRYPTO"} \union CallSteps,
         NEW k, NEW job, Command(id, k, job),
         [at |-> id, number |-> k, job |-> job, ok |-> TRUE] \in Works
  PROVE  CommandsStart'
<1> DEFINE c == [at |-> id, number |-> k, job |-> job, ok |-> TRUE]
<1>1. commands \in Seq(Works) /\ c \in Works /\ c.at = id
  BY DEF WorkTypes
<1>2. commands' = commands \/ commands' = Append(commands, c)
  BY DEF Command
<1> HIDE DEF c
<1>3. \A i \in DOMAIN Append(commands, c) :
          Append(commands, c)[i].at \in {"GENERATE", "CRYPTO"} \union CallSteps
  BY <1>1, AppendAt DEF CommandsStart
<1> QED BY <1>2, <1>3 DEF CommandsStart

LEMMA CommandsStartStep ==
  ASSUME TypeOK, CommandsStart, [Next]_vars
  PROVE  CommandsStart'
<1>0. WorkTypes /\ commands \in Seq(Works) /\ prepares + 1 \in Nat /\ requests + 1 \in Nat
  BY DEF TypeOK, WorkTypes, JobTypes
<1>1. ASSUME commands' = commands PROVE CommandsStart'
  BY <1>1 DEF CommandsStart
<1>2. CASE Prepare
  <2>1. Command("GENERATE", prepares + 1, NoJob)
    BY <1>2 DEF Prepare
  <2> QED BY <1>0, <2>1, StartSent, WorksOK
<1>3. ASSUME NEW job \in Jobs, Request(job) PROVE CommandsStart'
  <2>1. Command("CRYPTO", requests + 1, job)
    BY <1>3 DEF Request
  <2> QED BY <1>0, <2>1, StartSent, WorksOK
<1>4. ASSUME NEW t \in Callers, ACall(t) PROVE CommandsStart'
  <2>1. PICK id \in CallSteps, job \in KeyIds \union {NoJob}, served \in BOOLEAN :
            /\ Call(t, id, job, served)
            /\ [at |-> id, number |-> calls + 1, job |-> job, ok |-> TRUE] \in Works
    BY <1>4, ACallIs
  <2>2. Command(id, calls + 1, job) \/ commands' = commands
    BY <2>1 DEF Call
  <2> QED BY <1>0, <1>1, <2>1, <2>2, StartSent
<1>5. CASE LoopTakes
  <2>1. commands # <<>> /\ commands' = Tail(commands)
    BY <1>5 DEF LoopTakes
  <2>2. \A i \in DOMAIN Tail(commands) : i + 1 \in DOMAIN commands /\ Tail(commands)[i] = commands[i + 1]
    BY <1>0, <2>1, TailAt
  <2>3. \A i \in DOMAIN commands' : i + 1 \in DOMAIN commands /\ commands'[i] = commands[i + 1]
    BY <2>1, <2>2
  <2> QED BY <2>3 DEF CommandsStart
<1>6. CASE \/ Activate \/ FetchEvent \/ Destroy \/ DestroyJoined \/ LoopStops \/ Deactivate \/ Cleanup
           \/ UNCHANGED vars \/ \E t \in Callers : CallReturns(t) \/ CallInterrupted(t)
  BY <1>1, <1>6
     DEF Activate, FetchEvent, Destroy, DestroyJoined, LoopStops, Deactivate, Cleanup, vars, ioVars,
         CallReturns, CallInterrupted, returnOnly
<1> QED
  BY <1>0, <1>1, <1>2, <1>3, <1>4, <1>5, <1>6, StepIs, ConfiguresFrame, MidGenerateFrame, EventHandlerFrame,
     RepliesFrame DEF Quiet

\* The steps inside the handler of a Prepare(), by where they lead.
LEMMA MidGenerateIs ==
  ASSUME MidGenerate, WorkTypes, keys \in Nat
  PROVE  \/ /\ work'.at = "generate certificate" /\ keypair' # None /\ mixed' /\ x509' = x509
         \/ /\ work'.at = "load certificate" /\ x509' = x509
            /\ IF sslConfig.key
               THEN work'.job = "key" /\ keypair' = Configured /\ mixed'
               ELSE work'.job # "key" /\ sslConfig.cert /\ keypair' = keypair /\ (mixed => mixed')
         \/ work'.at = "secret" /\ ~work'.ok /\ UNCHANGED <<keypair, x509, mixed>>
         \/ /\ work.at = "generate certificate" /\ keypair # None
            /\ work'.at = "secret" /\ x509' = keypair /\ keypair' = keypair /\ mixed' = FALSE
         \/ /\ work.at = "load certificate"
            /\ work'.at = "secret" /\ keypair' = keypair
            /\ x509' = IF sslConfig.cert THEN Configured ELSE x509
            /\ mixed' = ((mixed \/ sslConfig.cert) /\ ~(work.job = "key" /\ sslConfig.cert))
<1>0. work \in [at : {"idle"} \union CallSteps \union GenSteps \union CryptoSteps, number : Nat,
                job : {NoJob, "key"} \union Jobs \union KeyIds, ok : BOOLEAN]
  BY DEF WorkTypes, Works
<1>1. ASSUME NEW at, NEW ok, NEW job
      PROVE  /\ [work EXCEPT !.at = at].at = at
             /\ [work EXCEPT !.at = at, !.ok = ok].at = at
             /\ [work EXCEPT !.at = at, !.ok = ok].ok = ok
             /\ [work EXCEPT !.at = at, !.job = job].at = at
             /\ [work EXCEPT !.at = at, !.job = job].job = job
  BY <1>0
<1>2. CASE GenerateKey
  <2>1. work' = [work EXCEPT !.at = "generate certificate"] /\ mixed' /\ x509' = x509
    BY <1>2 DEF GenerateKey
  <2>2. keys' = keys + 1 /\ keypair' = 2 + keys'
    BY <1>2 DEF GenerateKey, Generated, Freed
  <2>3. keypair' # None
    BY <2>2 DEF None
  <2> QED BY <1>1, <2>1, <2>3
<1>3. CASE LoadPrivateKey
  <2> DEFINE job == IF sslConfig.key THEN "key" ELSE NoJob
  <2>1. work' = [work EXCEPT !.at = "load certificate", !.job = job]
    BY <1>3 DEF LoadPrivateKey
  <2>2. work'.at = "load certificate" /\ work'.job = job
    BY <1>1, <2>1
  <2>3. job = "key" <=> sslConfig.key
    BY DEF NoJob
  <2>4. x509' = x509 /\ keypair' = (IF sslConfig.key THEN Configured ELSE keypair)
    BY <1>3 DEF LoadPrivateKey
  <2>5. (mixed \/ sslConfig.key => mixed') /\ (sslConfig.key \/ sslConfig.cert)
    BY <1>3 DEF LoadPrivateKey
  <2> HIDE DEF job
  <2> QED BY <2>2, <2>3, <2>4, <2>5
<1>4. CASE KeyFails \/ CertificateFails
  <2>1. work' = [work EXCEPT !.at = "secret", !.ok = FALSE] /\ UNCHANGED <<keypair, x509, mixed>>
    BY <1>4 DEF KeyFails, CertificateFails, ToSecret
  <2>2. work'.at = "secret" /\ work'.ok = FALSE
    BY <1>1, <2>1
  <2> QED BY <2>1, <2>2
<1>5. CASE GenerateCertificate
  <2>1. CASE keypair = None
    <3>1. work' = [work EXCEPT !.at = "secret", !.ok = FALSE] /\ UNCHANGED <<keypair, x509, mixed>>
      BY <1>5, <2>1 DEF GenerateCertificate, ToSecret
    <3>2. work'.at = "secret" /\ work'.ok = FALSE
      BY <1>1, <3>1
    <3> QED BY <3>1, <3>2
  <2>2. CASE keypair # None
    <3>1. work' = [work EXCEPT !.at = "secret", !.ok = TRUE] /\ work.at = "generate certificate"
      BY <1>5, <2>2 DEF GenerateCertificate, ToSecret
    <3>2. x509' = keypair /\ keypair' = keypair /\ mixed' = FALSE
      BY <1>5, <2>2 DEF GenerateCertificate
    <3>3. work'.at = "secret"
      BY <1>1, <3>1
    <3> QED BY <2>2, <3>1, <3>2, <3>3
  <2> QED BY <2>1, <2>2
<1>6. CASE LoadCertificate
  <2>1. work' = [work EXCEPT !.at = "secret", !.ok = TRUE] /\ work.at = "load certificate"
    BY <1>6 DEF LoadCertificate, ToSecret
  <2>2. /\ keypair' = keypair
        /\ x509' = IF sslConfig.cert THEN Configured ELSE x509
        /\ mixed' = ((mixed \/ sslConfig.cert) /\ ~(work.job = "key" /\ sslConfig.cert))
    BY <1>6 DEF LoadCertificate
  <2>3. work'.at = "secret"
    BY <1>1, <2>1
  <2> QED BY <2>1, <2>2, <2>3
<1> QED BY <1>2, <1>3, <1>4, <1>5, <1>6 DEF MidGenerate

\* A Prepare() that goes on leaves a key that is served with its certificate, or says
\* that it has replaced only one of them.
LEMMA MidGenerateKeeps ==
  ASSUME TypeOK, MidGenerate, HandlerKeyed
  PROVE  HandlerKeyed' /\ (Keyed => Keyed')
<1>1. sslConfig' = sslConfig
  BY MidGenerateFrame DEF TypeOK
<1>0. WorkTypes /\ keys \in Nat
  BY DEF TypeOK, KeyTypes
<1>4. Configured # None
  BY DEF Configured, None
<1> USE <1>0, <1>1, MidGenerateIs DEF HandlerKeyed, Keyed
<1>2. work.at = "load certificate" /\ work.job = "key" => mixed /\ keypair = Configured
  OBVIOUS
<1>3. work.at = "load certificate" /\ work.job # "key" => sslConfig.cert
  OBVIOUS
<1> QED BY <1>2, <1>3, <1>4

\* The stop handler, and Deactivate() without a loop, run while no handler runs.
LEMMA FreedWhileIdle ==
  ASSUME TypeOK, LifeOK, KeysLive, ~hasty
  PROVE  /\ Cleanup => work = Idle /\ loop = "STOPPED" /\ async
         /\ Deactivate /\ ~async => work = Idle
<1>1. async \in BOOLEAN
  BY DEF TypeOK, LifeTypes
<1> QED BY <1>1 DEF Cleanup, Deactivate, Free, LifeOK, KeysLive

\* The keys the handler of a Prepare() relies on are there in every step of it.
LEMMA HandlerKeyedStep ==
  ASSUME TypeOK, LifeOK, KeysLive, CommandsStart, HandlerKeyed, [Next]_vars, Fair'
  PROVE  HandlerKeyed'
<1>0. /\ WorkTypes /\ work \in Works /\ commands \in Seq(Works) /\ ~hasty
      /\ Idle.at = "idle" /\ async \in BOOLEAN
  BY FairBefore DEF TypeOK, LifeTypes, WorkTypes, Idle, Fair
<1>1. ASSUME work'.at \in {"idle", "GENERATE", "CRYPTO"} \union CallSteps PROVE HandlerKeyed'
  BY <1>1 DEF HandlerKeyed, CallSteps
<1>2. ASSUME UNCHANGED <<work, keypair, x509, mixed, sslConfig>> PROVE HandlerKeyed'
  BY <1>2 DEF HandlerKeyed, Keyed
<1>3. CASE Configures
  <2>1. UNCHANGED <<work, keypair, x509, mixed>>
    BY <1>3, ConfiguresFrame
  <2>2. work.at = "load certificate" => disturbed'
    BY <1>3 DEF Configures, ConfigureSecretKey, ConfigureSSL, ConfigureJSON, Configure
  <2>3. work.at # "load certificate"
    BY <2>2 DEF Fair
  <2> QED BY <2>1, <2>3 DEF HandlerKeyed, Keyed
<1>4. CASE MidGenerate
  BY <1>4, MidGenerateKeeps
<1>5. CASE EventHandler
  BY <1>0, <1>1, <1>5, EventHandlerFrame
<1>6. CASE CommandGetKey \/ CommandGenerateSign \/ CommandVerifySign
  BY <1>0, <1>1, <1>6, RepliesFrame
<1>7. CASE Cleanup
  <2>1. work' = work /\ work = Idle
    BY <1>0, <1>7, FreedWhileIdle DEF Cleanup
  <2> QED BY <1>0, <1>1, <2>1
<1>8. CASE Deactivate
  <2>1. /\ UNCHANGED <<work, mixed, sslConfig>>
        /\ async => UNCHANGED <<keypair, x509>>
    BY <1>8 DEF Deactivate, cfgVars
  <2>2. ~async => work = Idle
    BY <1>0, <1>8, FreedWhileIdle
  <2> QED BY <1>0, <1>1, <1>2, <2>1, <2>2
<1>9. CASE Quiet
  <2>1. UNCHANGED <<keypair, x509, mixed, sslConfig>>
    BY <1>9, QuietFrame
  <2>2. \/ work' = work
        \/ work'.at \in {"GENERATE", "CRYPTO"} \union CallSteps
    <3>1. CASE Activate \/ FetchEvent \/ Destroy \/ DestroyJoined \/ LoopStops \/ UNCHANGED vars
      BY <3>1 DEF Activate, FetchEvent, Destroy, DestroyJoined, LoopStops, vars
    <3>2. CASE \E t \in Callers : CallReturns(t) \/ CallInterrupted(t)
      BY <3>2 DEF CallReturns, CallInterrupted, returnOnly
    <3>3. CASE Prepare
      BY <3>3 DEF Prepare, Command
    <3>4. CASE \E job \in Jobs : Request(job)
      BY <3>4 DEF Request, Command
    <3>5. ASSUME NEW t \in Callers, ACall(t) PROVE work' = work
      <4>1. PICK id \in CallSteps, job \in KeyIds \union {NoJob}, served \in BOOLEAN : Call(t, id, job, served)
        BY <3>5, ACallIs
      <4> QED BY <4>1 DEF Call, Command
    <3>6. CASE LoopTakes
      <4>1. commands # <<>> /\ work' = Head(commands)
        BY <3>6 DEF LoopTakes
      <4>2. 1 \in DOMAIN commands /\ commands[1] = Head(commands)
        BY <1>0, <4>1, TailAt
      <4> QED BY <4>1, <4>2 DEF CommandsStart
    <3> QED BY <1>9, <3>1, <3>2, <3>3, <3>4, <3>5, <3>6 DEF Quiet
  <2> QED BY <1>1, <1>2, <2>1, <2>2
<1> QED BY <1>3, <1>4, <1>5, <1>6, <1>7, <1>8, <1>9, StepIs

\* A deletion that was asked for is not taken back.
LEMMA AliveBefore == ASSUME TypeOK, LifeOK, [Next]_vars, Alive' PROVE Alive
<1>0. async \in BOOLEAN
  BY DEF TypeOK, LifeTypes
<1>1. CASE EventHandler
  <2>1. app' \in {app, "idle"} /\ work # Idle
    <3>1. work.at # Idle.at
      BY <1>1 DEF EventHandler, SecretFails, GenerateEnds, CommandCrypto, Idle
    <3> QED BY <1>1, <3>1, EventHandlerFrame
  <2>2. app' = IF async THEN app ELSE "idle"
    BY <1>1 DEF EventHandler, SecretFails, GenerateEnds, CommandCrypto, Done
  <2>3. ~async => app = "inside"
    BY <2>1 DEF LifeOK
  <2> QED BY <2>2, <2>3 DEF Alive
<1>2. CASE Quiet
  <2>1. CASE Activate \/ FetchEvent \/ LoopTakes \/ LoopStops \/ UNCHANGED vars \/ Destroy \/ DestroyJoined
    BY <2>1 DEF Activate, FetchEvent, LoopTakes, LoopStops, vars, Destroy, DestroyJoined, Alive
  <2>2. CASE \E t \in Callers : CallReturns(t) \/ CallInterrupted(t)
    BY <2>2 DEF CallReturns, CallInterrupted, returnOnly, Alive
  <2>3. CASE Prepare \/ \E job \in Jobs : Request(job)
    BY <2>3 DEF Prepare, Request, Free, Alive
  <2>4. ASSUME NEW t \in Callers, ACall(t) PROVE app' = app
    <3>1. PICK id \in CallSteps, job \in KeyIds \union {NoJob}, served \in BOOLEAN : Call(t, id, job, served)
      BY <2>4, ACallIs
    <3> QED BY <1>0, <3>1 DEF Call, Command
  <2> QED BY <1>2, <2>1, <2>2, <2>3, <2>4 DEF Quiet, Alive
<1>3. CASE Deactivate \/ Cleanup
  BY <1>3 DEF Deactivate, Cleanup, Alive
<1> QED
  BY <1>1, <1>2, <1>3, StepIs, ConfiguresFrame, MidGenerateFrame, RepliesFrame DEF TypeOK, Alive

\* The loop is not stopped while an application is prepared or waits for a Prepare().
LEMMA LoopRunsStep ==
  ASSUME TypeOK, LifeOK, PreparesQueued, LoopRuns, [Next]_vars, Fair'
  PROVE  LoopRuns'
<1>0. async \in BOOLEAN /\ heard \in Nat /\ prepares \in Nat
  BY DEF TypeOK, LifeTypes, JobTypes
<1>1. ASSUME UNCHANGED <<async, prepared, heard, prepares>>, Alive' => Alive,
             loop = "STARTED" => loop' = "STARTED"
      PROVE  LoopRuns'
  BY <1>1 DEF LoopRuns
<1>2. Alive' => Alive
  BY AliveBefore
<1>3. CASE \/ Configures \/ MidGenerate \/ EventHandler
           \/ CommandGetKey \/ CommandGenerateSign \/ CommandVerifySign
  BY <1>1, <1>2, <1>3, ConfiguresFrame, MidGenerateFrame, EventHandlerFrame, RepliesFrame DEF TypeOK
<1>4. CASE Cleanup \/ DestroyJoined \/ UNCHANGED vars
  <2>1. UNCHANGED <<async, prepared, heard, prepares, loop>>
    BY <1>4 DEF Cleanup, DestroyJoined, vars, lifeVars, jobVars
  <2> QED BY <1>1, <1>2, <2>1
<1>5. CASE Activate
  <2>1. UNCHANGED <<async, prepared, heard, prepares>> /\ (loop = "STARTED" => loop' = "STARTED")
    BY <1>5 DEF Activate, jobVars
  <2> QED BY <1>1, <1>2, <2>1
<1>6. CASE Prepare
  <2>1. Free /\ activated /\ UNCHANGED <<async, loop>>
    BY <1>6 DEF Prepare, lifeVars
  <2> QED BY <2>1 DEF LifeOK, LoopRuns, Free, Alive
<1>7. CASE \E job \in Jobs : Request(job)
  <2>1. UNCHANGED <<async, prepared, heard, prepares, loop>>
    BY <1>7 DEF Request, lifeVars
  <2> QED BY <1>1, <1>2, <2>1
<1>8. ASSUME NEW t \in Callers, ACall(t) PROVE LoopRuns'
  <2>1. PICK id \in CallSteps, job \in KeyIds \union {NoJob}, served \in BOOLEAN : Call(t, id, job, served)
    BY <1>8, ACallIs
  <2>2. UNCHANGED <<async, prepared, heard, prepares, loop>>
    BY <2>1 DEF Call, lifeVars, jobVars
  <2> QED BY <1>1, <1>2, <2>2
<1>9. CASE \E t \in Callers : CallReturns(t) \/ CallInterrupted(t)
  <2>1. UNCHANGED <<async, prepared, heard, prepares, loop>>
    BY <1>9 DEF CallReturns, CallInterrupted, returnOnly, lifeVars, jobVars
  <2> QED BY <1>1, <1>2, <2>1
<1>10. CASE Deactivate
  <2>1. ~prepared' /\ heard' = heard /\ prepares' = prepares /\ (heard < prepares => careless')
    BY <1>10 DEF Deactivate
  <2>2. ~careless'
    BY DEF Fair
  <2> QED BY <2>1, <2>2 DEF LoopRuns
<1>11. CASE FetchEvent
  <2>1. /\ Free /\ UNCHANGED <<async, loop, prepares>>
        /\ prepared' => prepared \/ activated
        /\ heard' = heard \/ heard' = heard + 1
    BY <1>11 DEF FetchEvent, lifeVars
  <2>2. heard' < prepares' => heard < prepares
    BY <1>0, <2>1
  <2>3. async /\ activated => loop = "STARTED"
    BY <2>1 DEF LifeOK, Free, Alive
  <2> QED BY <1>2, <2>1, <2>2, <2>3 DEF LoopRuns
<1>12. CASE Destroy
  BY <1>12 DEF Destroy, LoopRuns, Alive
<1>13. CASE LoopTakes
  <2>1. UNCHANGED <<async, prepared, heard, prepares>> /\ (loop = "STARTED" => loop' = "STARTED")
    BY <1>13 DEF LoopTakes, loopOnly, jobVars
  <2> QED BY <1>1, <1>2, <2>1
<1>14. CASE LoopStops
  <2>1. UNCHANGED <<async, prepared, heard, prepares>> /\ loop # "STARTED"
    BY <1>14 DEF LoopStops, jobVars
  <2> QED BY <1>1, <1>2, <2>1
<1> QED
  BY <1>3, <1>4, <1>5, <1>6, <1>7, <1>8, <1>9, <1>10, <1>11, <1>12, <1>13, <1>14, StepIs DEF Quiet

\* No event says done that the application has not still to hear.
LEMMA DoneIsAwaited ==
  ASSUME TypeOK, PreparesQueued, NEW i \in DOMAIN events, events[i] = "PREPARE_DONE"
  PROVE  heard < prepares
<1>0. heard \in Nat /\ prepares \in Nat
  BY DEF TypeOK, JobTypes
<1>1. PICK n \in [DOMAIN events -> 0..prepares] :
          Queue(GenEvents, GenSteps, n, heard, prepares, events, work, commands)
  BY DEF PreparesQueued
<1>2. heard < n[i] /\ n[i] \in 0..prepares
  BY <1>1 DEF Queue, GenEvents
<1> QED BY <1>0, <1>2

\* The keys of a prepared application are served until it deactivates the authenticator.
LEMMA PromiseKeptStep ==
  ASSUME TypeOK, LifeOK, KeysLive, PreparesQueued, ~zeroBits, HandlerKeyed, LoopRuns, PromiseKept,
         [Next]_vars, Fair'
  PROVE  PromiseKept'
<1>0. /\ events \in Seq(Events) /\ ~hasty /\ async \in BOOLEAN /\ (Alive' => Alive)
      /\ heard \in Nat /\ prepares \in Nat
  BY FairBefore, AliveBefore DEF TypeOK, AnswerTypes, LifeTypes, JobTypes, Fair
<1>1. ASSUME Alive' /\ Promised' => Promised, Alive' /\ Keyed => Keyed', Alive' /\ secretKey # NoText => secretKey' # NoText
      PROVE  PromiseKept'
  BY <1>0, <1>1 DEF PromiseKept
<1>2. ASSUME UNCHANGED <<keypair, x509, mixed, secretKey>> PROVE (Keyed => Keyed') /\ (secretKey # NoText => secretKey' # NoText)
  BY <1>2 DEF Keyed
<1>3. UNCHANGED <<prepared, events>> => (Promised' => Promised)
  BY DEF Promised
<1>4. CASE Configures
  <2>1. UNCHANGED <<keypair, x509, mixed, prepared, events>>
    BY <1>4, ConfiguresFrame
  <2>2. secretKey # NoText => secretKey' # NoText
    <3>1. ASSUME NEW text \in Texts \union {NoText}, NEW zero \in BOOLEAN,
                 SecretConfigured(text, zero), zero /\ text = NoText => disturbed'
          PROVE  secretKey # NoText => secretKey' # NoText
      <4>1. CASE text = NoText
        <5>1. secretKey' = GenerateSecretKey(FALSE)
          BY <3>1, <4>1 DEF SecretConfigured, Fair
        <5> QED BY <5>1 DEF GenerateSecretKey, NoText
      <4>2. CASE text # NoText
        <5>1. secretKey' = secretKey \/ secretKey' = LoadSecretKey(text, sslConfig.base64)
          BY <3>1, <4>2 DEF SecretConfigured
        <5>2. LoadSecretKey(text, sslConfig.base64).key = "given"
          BY <4>2 DEF LoadSecretKey, DecodeBase64, Texts
        <5>3. NoText.key = "none"
          BY DEF NoText
        <5> QED BY <5>1, <5>2, <5>3
      <4> QED BY <4>1, <4>2
    <3>2. CASE \E text \in Texts \cup {NoText}, zero \in BOOLEAN : ConfigureSecretKey(text, zero)
      BY <3>1, <3>2 DEF ConfigureSecretKey, Configure
    <3>3. CASE \E given \in Credentials, base64 \in BOOLEAN : ConfigureSSL(given, base64)
      BY <3>3 DEF ConfigureSSL
    <3>4. CASE \E text \in Texts, given \in Credentials, base64 \in BOOLEAN :
                   ConfigureJSON(text, given, base64)
      BY <3>1, <3>4 DEF ConfigureJSON
    <3> QED BY <1>4, <3>2, <3>3, <3>4 DEF Configures
  <2>3. Keyed => Keyed'
    BY <2>1 DEF Keyed
  <2> QED BY <1>1, <1>3, <2>1, <2>2, <2>3
<1>5. CASE MidGenerate
  <2>1. UNCHANGED <<prepared, events, secretKey>> /\ (Keyed => Keyed')
    BY <1>5, MidGenerateFrame, MidGenerateKeeps DEF TypeOK
  <2> QED BY <1>1, <1>3, <2>1
<1>6. CASE CommandGetKey \/ CommandGenerateSign \/ CommandVerifySign
  <2>1. UNCHANGED <<prepared, events, keypair, x509, mixed, secretKey>>
    BY <1>6, RepliesFrame
  <2> QED BY <1>1, <1>2, <1>3, <2>1
\* An event that is no PREPARE_DONE promises nothing.
<1>7. ASSUME NEW e \in Events, events' = Append(events, e), prepared' = prepared, e # "PREPARE_DONE"
      PROVE  Promised' => Promised
  <2>1. \A i \in DOMAIN Append(events, e) :
            (i \in DOMAIN events /\ Append(events, e)[i] = events[i]) \/ Append(events, e)[i] = e
    BY <1>0, AppendAt
  <2>2. \A i \in DOMAIN events' : (i \in DOMAIN events /\ events'[i] = events[i]) \/ events'[i] = e
    BY <1>7, <2>1
  <2> QED BY <1>7, <2>2 DEF Promised
<1>8. {"PREPARE_DONE", "PREPARE_ERROR", "CRYPTO_DONE", "CRYPTO_ERROR", "DEACTIVATE_DONE"} = Events
  BY DEF Events, GenEvents, CryptoEvents
<1>9. CASE SecretFails
  <2>1. events' = Append(events, "PREPARE_ERROR") /\ UNCHANGED <<prepared, keypair, x509, mixed, secretKey>>
    BY <1>9 DEF SecretFails, Done, PublishEventData, loopOnly, ctxVars, jobVars
  <2> QED BY <1>1, <1>2, <1>7, <1>8, <2>1
<1>10. CASE CommandCrypto
  <2>1. /\ \E e \in {"CRYPTO_ERROR", "CRYPTO_DONE"} : events' = Append(events, e)
        /\ UNCHANGED <<prepared, keypair, x509, mixed, secretKey>>
    BY <1>10 DEF CommandCrypto, Done, PublishEventData, loopOnly, ctxVars, jobVars
  <2> QED BY <1>1, <1>2, <1>7, <1>8, <2>1
<1>11. CASE GenerateEnds
  <2>1. /\ UNCHANGED <<prepared, keypair, x509, mixed>>
        /\ work.at = "secret"
        /\ secretKey' = IF secretKey = NoText THEN GenerateSecretKey(zeroBits) ELSE secretKey
        /\ events' = Append(events, IF PreparedRet(work.ok) THEN "PREPARE_DONE" ELSE "PREPARE_ERROR")
        /\ PreparedRet(work.ok) /\ ~work.ok => hidden'
    BY <1>11 DEF GenerateEnds, Done, PublishEventData, loopOnly, jobVars
  <2>2. secretKey' # NoText
    BY <2>1 DEF GenerateSecretKey, NoText
  <2>3. Keyed => Keyed'
    BY <2>1 DEF Keyed
  <2>4. CASE PreparedRet(work.ok)
    <3>1. work.ok
      BY <2>1, <2>4 DEF Fair
    <3>2. Keyed
      BY <2>1, <3>1 DEF HandlerKeyed
    <3> QED BY <2>2, <2>3, <3>2 DEF PromiseKept
  <2>5. CASE ~PreparedRet(work.ok)
    <3>1. events' = Append(events, "PREPARE_ERROR")
      BY <2>1, <2>5
    <3> QED BY <1>1, <1>7, <1>8, <2>1, <2>2, <2>3, <3>1
  <2> QED BY <2>4, <2>5
<1>12. CASE Deactivate
  <2>1. ~prepared' /\ events' = events /\ (heard < prepares => careless')
    BY <1>12 DEF Deactivate, ioVars
  <2>2. ~(heard < prepares)
    BY <2>1 DEF Fair
  <2>3. ~Promised'
    BY <2>1, <2>2, DoneIsAwaited DEF Promised
  <2> QED BY <2>3 DEF PromiseKept
<1>13. CASE Cleanup
  <2>1. loop = "STOPPED" /\ async
    BY <1>0, <1>13, FreedWhileIdle
  <2>2. Alive' => ~Promised
    <3>1. Alive' => ~(prepared \/ heard < prepares)
      BY <1>0, <2>1 DEF LoopRuns
    <3> QED BY <3>1, DoneIsAwaited DEF Promised
  <2>3. prepared' = prepared /\ (events' = events \/ events' = Append(events, "DEACTIVATE_DONE"))
    BY <1>13 DEF Cleanup, PublishEventData, jobVars, TypeOK, LifeTypes
  <2>4. Promised' => Promised
    BY <1>3, <1>7, <1>8, <2>3
  <2> QED BY <2>2, <2>4 DEF PromiseKept
<1>14. CASE Quiet
  <2>1. UNCHANGED <<keypair, x509, mixed, secretKey>>
    BY <1>14, QuietFrame
  <2>2. Alive' /\ Promised' => Promised
    <3>1. CASE \/ Activate \/ Prepare \/ (\E job \in Jobs : Request(job)) \/ Destroy \/ DestroyJoined
               \/ LoopTakes \/ LoopStops \/ UNCHANGED vars
               \/ \E t \in Callers : CallReturns(t) \/ CallInterrupted(t)
      <4>1. UNCHANGED <<prepared, events>>
        BY <3>1 DEF Activate, Prepare, Request, Destroy, DestroyJoined, LoopTakes, LoopStops, vars,
                    CallReturns, CallInterrupted, returnOnly, ioVars, jobVars, loopOnly
      <4> QED BY <1>3, <4>1
    <3>2. ASSUME NEW t \in Callers, ACall(t) PROVE UNCHANGED <<prepared, events>>
      <4>1. PICK id \in CallSteps, job \in KeyIds \union {NoJob}, served \in BOOLEAN : Call(t, id, job, served)
        BY <3>2, ACallIs
      <4> QED BY <4>1 DEF Call, jobVars
    <3>3. CASE FetchEvent
      <4>1. /\ events # <<>> /\ events' = Tail(events)
            /\ prepared' => prepared \/ Head(events) = "PREPARE_DONE"
        BY <3>3 DEF FetchEvent
      <4>2. /\ 1 \in DOMAIN events /\ events[1] = Head(events)
            /\ \A i \in DOMAIN Tail(events) : i + 1 \in DOMAIN events /\ Tail(events)[i] = events[i + 1]
        BY <1>0, <4>1, TailAt
      <4>3. \A i \in DOMAIN events' : i + 1 \in DOMAIN events /\ events'[i] = events[i + 1]
        BY <4>1, <4>2
      <4> QED BY <4>1, <4>2, <4>3 DEF Promised
    <3> QED BY <1>3, <1>14, <3>1, <3>2, <3>3 DEF Quiet
  <2> QED BY <1>1, <1>2, <2>1, <2>2
<1> QED BY <1>4, <1>5, <1>6, <1>9, <1>10, <1>11, <1>12, <1>13, <1>14, StepIs DEF EventHandler

\* An application whose keys are there is served, whatever it asks for.
LEMMA KeyedServes ==
  ASSUME Keyed, ~mixed, secretKey # NoText
  PROVE  GenerateSign /\ VerifySign /\ \A id \in KeyIds : GetKeyOf(id)
BY JobsAssumption DEF Keyed, GenerateSign, VerifySign, GetKeyOf, GetPrivateKey, GetPublicKey, GetCertificate

\* The replies that wait for a prepared application are no refusals.
LEMMA RepliesServedStep ==
  ASSUME TypeOK, LifeOK, OneCall, PromiseKept, RepliesServed, [Next]_vars, Fair'
  PROVE  RepliesServed'
<1>0. /\ replies \in Seq(Answers) /\ ~astray /\ async \in BOOLEAN /\ work \in Works
      /\ caller \in [Callers -> Nat] /\ calls \in Nat /\ "app" \in Callers
  BY FairBefore DEF TypeOK, AnswerTypes, LifeTypes, WorkTypes, CallerTypes, Callers, Fair
<1>1. ASSUME UNCHANGED <<caller, prepared, replies>>, mixed => mixed' PROVE RepliesServed'
  BY <1>1 DEF RepliesServed
<1>2. CASE \/ Configures \/ EventHandler \/ Cleanup \/ Activate \/ Prepare \/ (\E job \in Jobs : Request(job))
           \/ Destroy \/ DestroyJoined \/ LoopTakes \/ LoopStops \/ UNCHANGED vars
  <2>1. CASE Configures \/ EventHandler
    BY <1>1, <2>1, ConfiguresFrame, EventHandlerFrame
  <2>2. CASE \/ Cleanup \/ Activate \/ Prepare \/ (\E job \in Jobs : Request(job))
             \/ Destroy \/ DestroyJoined \/ LoopTakes \/ LoopStops \/ UNCHANGED vars
    <3>1. UNCHANGED <<caller, prepared, replies, mixed>>
      BY <2>2 DEF Cleanup, Activate, Prepare, Request, Destroy, DestroyJoined, LoopTakes, LoopStops, vars,
                  callVars, jobVars, ioVars, loopOnly
    <3> QED BY <1>1, <3>1
  <2> QED BY <1>2, <2>1, <2>2
<1>3. CASE MidGenerate
  <2>1. UNCHANGED <<caller, prepared, replies>> /\ work # Idle
    BY <1>3, MidGenerateFrame DEF TypeOK
  <2>2. caller["app"] # None => DOMAIN replies = {}
    BY <1>0, <2>1 DEF OneCall
  <2> QED BY <2>1, <2>2 DEF RepliesServed
<1>4. CASE CommandGetKey \/ CommandGenerateSign \/ CommandVerifySign
  <2>1. PICK ok \in {GetKeyOf(work.job), GenerateSign, VerifySign} :
            /\ replies' = Append(replies, [number |-> work.number, ok |-> ok])
            /\ work.at = "GETKEY" => ok = GetKeyOf(work.job)
            /\ work.at = "GENERATE_SIGN" => ok = GenerateSign
            /\ work.at = "VERIFY_SIGN" => ok = VerifySign
    BY <1>4, RepliesFrame
  <2>2. IsCall(work) /\ UNCHANGED <<caller, prepared, mixed>>
    BY <1>4, RepliesFrame
  <2> SUFFICES ASSUME caller["app"] # None, prepared, ~mixed PROVE \A i \in DOMAIN replies' : replies'[i].ok
    BY <2>2 DEF RepliesServed
  <2>3. Keyed /\ secretKey # NoText
    BY DEF LifeOK, PromiseKept, Promised
  <2>4. work.at = "GETKEY" => work.job \in KeyIds
    BY <1>0, WorksOK
  <2>5. ok = TRUE
    <3>1. GenerateSign /\ VerifySign /\ \A id \in KeyIds : GetKeyOf(id)
      BY <2>3, KeyedServes
    <3>2. GenerateSign = TRUE /\ VerifySign = TRUE /\ \A id \in KeyIds : GetKeyOf(id) = TRUE
      BY <3>1, AnswersOK
    <3>3. work.at \in {"GETKEY", "GENERATE_SIGN", "VERIFY_SIGN"}
      BY <2>2 DEF IsCall, CallSteps
    <3> QED BY <2>1, <2>4, <3>2, <3>3
  <2> DEFINE r == [number |-> work.number, ok |-> TRUE]
  <2>6. r \in Answers /\ r.ok = TRUE /\ replies' = Append(replies, r)
    BY <1>0, <2>1, <2>5, WorksOK DEF Answers
  <2> HIDE DEF r
  <2>7. \A i \in DOMAIN Append(replies, r) :
            (i \in DOMAIN replies /\ Append(replies, r)[i] = replies[i]) \/ Append(replies, r)[i] = r
    BY <1>0, <2>6, AppendAt
  <2>8. \A i \in DOMAIN replies : replies[i].ok
    BY DEF RepliesServed
  <2>9. \A i \in DOMAIN Append(replies, r) : Append(replies, r)[i].ok
    BY <2>6, <2>7, <2>8
  <2> QED BY <2>6, <2>9
<1>5. ASSUME NEW t \in Callers, ACall(t) PROVE RepliesServed'
  <2>1. PICK id \in CallSteps, job \in KeyIds \union {NoJob}, served \in BOOLEAN : Call(t, id, job, served)
    BY <1>5, ACallIs
  <2>2. UNCHANGED <<prepared, replies, mixed>>
    BY <2>1 DEF Call, jobVars
  <2>3. CASE ~async
    <3>1. caller' = caller
      BY <2>1, <2>3 DEF Call
    <3> QED BY <1>1, <2>2, <3>1
  <2>4. CASE async
    <3>1. astray' = (astray \/ \E u \in Callers : caller[u] # None)
      BY <2>1, <2>4 DEF Call
    <3>2. \A u \in Callers : caller[u] = None
      BY <3>1 DEF Fair
    <3>3. \A k : ~Awaited(k)
      BY <3>2 DEF Awaited
    <3>4. DOMAIN replies = {}
      BY <1>0, <3>3 DEF OneCall
    <3> QED BY <2>2, <3>4 DEF RepliesServed
  <2> QED BY <1>0, <2>3, <2>4
<1>6. ASSUME NEW t \in Callers, CallReturns(t) PROVE RepliesServed'
  <2>1. /\ replies # <<>> /\ replies' = Tail(replies)
        /\ caller' = [caller EXCEPT ![t] = None]
        /\ UNCHANGED <<prepared, mixed>>
    BY <1>6 DEF CallReturns, returnOnly, jobVars
  <2>2. caller'["app"] # None => caller["app"] # None
    BY <1>0, <2>1
  <2>3. \A i \in DOMAIN Tail(replies) : i + 1 \in DOMAIN replies /\ Tail(replies)[i] = replies[i + 1]
    BY <1>0, <2>1, TailAt
  <2>4. \A i \in DOMAIN replies' : i + 1 \in DOMAIN replies /\ replies'[i] = replies[i + 1]
    BY <2>1, <2>3
  <2> QED BY <2>1, <2>2, <2>4 DEF RepliesServed
<1>7. ASSUME NEW t \in Callers, CallInterrupted(t) PROVE RepliesServed'
  BY <1>7 DEF CallInterrupted, Fair
<1>8. CASE Deactivate
  BY <1>8 DEF Deactivate, RepliesServed
<1>9. CASE FetchEvent
  <2>1. caller["app"] = None /\ caller' = caller
    BY <1>9 DEF FetchEvent, Free, callVars
  <2> QED BY <2>1 DEF RepliesServed
<1> QED
  BY <1>2, <1>3, <1>4, <1>5, <1>6, <1>7, <1>8, <1>9, StepIs DEF Quiet

\* A prepared application is not refused.
LEMMA RefusedStep ==
  ASSUME TypeOK, LifeOK, PromiseKept, RepliesServed, ~refused, [Next]_vars
  PROVE  ~refused'
<1>0. replies \in Seq(Answers) /\ async \in BOOLEAN
  BY DEF TypeOK, AnswerTypes, LifeTypes
<1>1. CASE \/ Cleanup \/ Activate \/ Prepare \/ (\E job \in Jobs : Request(job)) \/ FetchEvent \/ Deactivate
           \/ Destroy \/ DestroyJoined \/ LoopTakes \/ LoopStops \/ UNCHANGED vars
  BY <1>1 DEF Cleanup, Activate, Prepare, Request, FetchEvent, Deactivate, Destroy, DestroyJoined, LoopTakes,
              LoopStops, vars, callVars, loopOnly
<1>2. ASSUME NEW t \in Callers, ACall(t) PROVE ~refused'
  <2>1. PICK id \in CallSteps, job \in KeyIds \union {NoJob}, served \in BOOLEAN :
            /\ Call(t, id, job, served)
            /\ id = "GETKEY" => job \in KeyIds /\ served = GetKeyOf(job)
            /\ id = "GENERATE_SIGN" => served = GenerateSign
            /\ id = "VERIFY_SIGN" => served = VerifySign
    BY <1>2, ACallIs
  <2>2. CASE async
    BY <2>1, <2>2 DEF Call
  <2>3. CASE ~async
    <3>1. refused' = (refused \/ (prepared /\ ~mixed /\ ~served)) /\ t = "app"
      BY <2>1, <2>3 DEF Call
    <3>2. app = "idle"
      BY <1>2, <3>1 DEF ACall, GetKey, GenerateSignature, VerifySignature
    <3>3. prepared => Keyed /\ secretKey # NoText
      BY <3>2 DEF PromiseKept, Promised, Alive
    <3>4. prepared /\ ~mixed => served
      <4>1. prepared /\ ~mixed => GenerateSign /\ VerifySign /\ \A id2 \in KeyIds : GetKeyOf(id2)
        BY <3>3, KeyedServes
      <4>2. id \in {"GETKEY", "GENERATE_SIGN", "VERIFY_SIGN"}
        BY DEF CallSteps
      <4>3. prepared /\ ~mixed => GenerateSign = TRUE /\ VerifySign = TRUE /\ \A id2 \in KeyIds : GetKeyOf(id2) = TRUE
        BY <4>1, AnswersOK
      <4>4. prepared /\ ~mixed => served = TRUE
        BY <2>1, <4>2, <4>3
      <4> QED BY <4>4
    <3> QED BY <3>1, <3>4
  <2> QED BY <1>0, <2>2, <2>3
<1>3. ASSUME NEW t \in Callers, CallReturns(t) PROVE ~refused'
  <2>1. /\ caller[t] # None /\ replies # <<>>
        /\ refused' = (refused \/ (prepared /\ ~mixed /\ t = "app" /\ ~Head(replies).ok))
    BY <1>3 DEF CallReturns
  <2>2. 1 \in DOMAIN replies /\ replies[1] = Head(replies)
    BY <1>0, <2>1, TailAt
  <2>3. prepared /\ ~mixed /\ t = "app" => Head(replies).ok
    BY <2>1, <2>2 DEF RepliesServed
  <2> QED BY <2>1, <2>3
<1>4. ASSUME NEW t \in Callers, CallInterrupted(t) PROVE ~refused'
  BY <1>4 DEF CallInterrupted
<1> QED
  BY <1>1, <1>2, <1>3, <1>4, StepIs, ConfiguresFrame, MidGenerateFrame, EventHandlerFrame, RepliesFrame
     DEF Quiet, TypeOK

\* Every step keeps what a prepared application relies on.
LEMMA ServedStep ==
  ASSUME TypeOK, LifeOK, KeysLive, OneCall, PreparesQueued, ServedOK, [Next]_vars
  PROVE  ServedOK'
<1>1. CommandsStart'
  BY CommandsStartStep DEF ServedOK
<1>2. zeroBits' => disturbed'
  BY ZeroBitsStep DEF ServedOK
<1>3. ASSUME Fair' PROVE (~refused /\ HandlerKeyed /\ LoopRuns /\ PromiseKept /\ RepliesServed)'
  <2>1. Fair
    BY <1>3, FairBefore
  <2>2. ~refused /\ HandlerKeyed /\ LoopRuns /\ PromiseKept /\ RepliesServed /\ CommandsStart /\ ~zeroBits
    BY <2>1 DEF ServedOK, Fair
  <2>3. (~refused)'
    BY <2>2, RefusedStep
  <2>4. HandlerKeyed'
    BY <1>3, <2>2, HandlerKeyedStep
  <2>5. LoopRuns'
    BY <1>3, <2>2, LoopRunsStep
  <2>6. PromiseKept'
    BY <1>3, <2>2, PromiseKeptStep
  <2>7. RepliesServed'
    BY <1>3, <2>2, RepliesServedStep
  <2> QED BY <2>3, <2>4, <2>5, <2>6, <2>7
<1> QED BY <1>1, <1>2, <1>3 DEF ServedOK

\* Nothing is prepared or configured to begin with.
LEMMA ServedInit == ASSUME Init PROVE ServedOK /\ SecretOK
<1>1. /\ commands = <<>> /\ events = <<>> /\ work.at = "idle" /\ zeroBits = FALSE /\ refused = FALSE
      /\ prepared = FALSE /\ heard = 0 /\ prepares = 0
      /\ secretSet.text = NoText
  BY DEF Init, HandlerAdded, EventPipe, Idle
<1>2. DOMAIN commands = {} /\ DOMAIN events = {}
  BY <1>1
<1>3. ~(heard < prepares)
  BY <1>1
<1>4. CommandsStart /\ HandlerKeyed
  BY <1>1, <1>2 DEF CommandsStart, HandlerKeyed
<1>5. LoopRuns /\ PromiseKept /\ RepliesServed
  BY <1>1, <1>2, <1>3 DEF LoopRuns, PromiseKept, Promised, RepliesServed
<1>6. SecretOK
  BY <1>1 DEF SecretOK
<1> QED BY <1>1, <1>4, <1>5, <1>6 DEF ServedOK

\* An application that was told that its Prepare() is done is not refused its keys and its
\* signatures, unless the failure of that Prepare() was hidden or one of the named
\* misuses happened; and GetKey() gives a configured secret key back as it was.
THEOREM PreparedIsServedHolds == Spec => []PreparedIsServed
<1>1. Init => ServedOK /\ SecretOK
  BY ServedInit
<1>2. TypeOK /\ LifeOK /\ KeysLive /\ OneCall /\ PreparesQueued /\ RequestsQueued /\ ServedOK /\ SecretOK
          /\ [Next]_vars => (ServedOK /\ SecretOK)'
  BY ServedStep, SecretStep
<1>3. TypeOK /\ ServedOK /\ SecretOK => PreparedIsServed
  <2> SUFFICES ASSUME TypeOK, ServedOK, SecretOK PROVE PreparedIsServed
    OBVIOUS
  <2>1. refused => hidden \/ disturbed \/ hasty \/ careless \/ astray
    BY DEF ServedOK, Fair
  <2>2. (secretSet.text # NoText /\ secretSet.base64 = sslConfig.base64)
            => GetSecretKey = secretSet.text
    BY SecretGiven
  <2> QED BY <2>1, <2>2 DEF PreparedIsServed
<1> QED BY <1>1, <1>2, <1>3, QueuesInvariant, PTL DEF Spec

=============================================================================
