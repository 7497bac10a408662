-------------------------- MODULE SslAuthenticator -------------------------
(***************************************************************************)
(* The authenticator_ssl module (authenticator.cc, its event object, and   *)
(* the loader libbeyond/src/authenticator_impl.cc).  In the asynchronous   *)
(* mode an event loop of its own runs the commands: GENERATE and CRYPTO    *)
(* answer with an event (and CRYPTO with an output in a pipe), GETKEY and  *)
(* the signatures with a message on the socket pair the caller reads.      *)
(* In the synchronous mode the caller runs the same handlers itself.       *)
(*                                                                         *)
(* OpenSSL is external: a key is a number, a certificate the number of the *)
(* key it certifies, a text is known by its key and by how many times it   *)
(* is encoded in base64.  Making or loading a key or a certificate may     *)
(* fail, an encryption or a decryption too.  Without a loop one thread     *)
(* uses the authenticator.                                                 *)
(***************************************************************************)
EXTENDS Naturals, Sequences

CONSTANTS
    MaxConfigs,     \* bound: calls of Configure()
    MaxLives,       \* bound: calls of Activate() that start the loop
    MaxWork,        \* bound: calls of Prepare(), Encrypt(), Decrypt(), GetKey() and of
                    \* the signatures, taken together
    MaxFaults       \* bound: failures

CONSTANTS
    Credentials,    \* what ConfigureSSL() may be given: a key, a certificate
    Jobs,           \* what Encrypt() and Decrypt() are asked for
    KeyIds          \* what GetKey() is asked for

ASSUME JobsAssumption ==
    /\ Credentials \subseteq {"key", "certificate", "both", "neither"}
    /\ Jobs \subseteq {"encrypt public", "encrypt secret", "decrypt private", "decrypt raw text"}
    /\ KeyIds \subseteq {"PRIVATE_KEY", "PUBLIC_KEY", "CERTIFICATE", "SECRET_KEY"}

ASSUME BoundsAssumption ==
    /\ MaxConfigs \in Nat /\ MaxLives \in Nat /\ MaxWork \in Nat /\ MaxFaults \in Nat

VARIABLES
    async,          \* the module was loaded with --async
    sslConfig,      \* which of key and certificate are configured; enableBase64
    zeroBits,       \* the secret key is configured to have less than a byte
    activated,
    loop,           \* the state of the event loop
    stopHandler,    \* the stop handler of the loop is still set
    leaving,        \* the step of the stop handler on a loop thread that has ended
    keypair, x509,  \* None, Freed or the key
    secretKey,      \* None or a text
    commands,       \* to the loop
    replies,        \* from the loop: the calls they are for
    work,           \* the handler that is running, and its step
    outputs,        \* the output pipe
    events,         \* the event pipe; without a loop, what the calls return
    caller,         \* caller[t]: the call thread t awaits the reply to, or None
    app,            \* "idle", "inside" a handler, "join" or "gone"
    configs, lives, prepares, requests, calls, faults,
    keys,           \* how many keys were generated
    answered,       \* how many events of requests the application has had
    heard,          \* how many events of Prepare() the application has had
    secretSet,      \* history: the secret key configured last, and enableBase64 then
    disturbed,      \* history: configured between the two steps in which a Prepare() loads
                    \* the key and the certificate, or with a secret key of no bytes
    prepared,       \* history: the last event of a Prepare() said done, no Deactivate() since
    refused,        \* history: a call of a prepared application failed
    mixed,          \* history: a Prepare() has replaced only one of key and certificate
    hidden,         \* history: a failed Prepare() was reported as done
    hasty,          \* history: Activate() before the last loop thread was through
    careless,       \* history: Deactivate() with requests or a Prepare() unanswered
    astray,         \* history: two callers at once, or an interrupted call
    wrongReply,     \* history: a caller took the reply to another call
    wrongOutput,    \* history: an output was read for another request
    crashed         \* a freed key or a deleted authenticator was used

ctxVars  == <<keypair, x509, secretKey>>
cfgVars  == <<sslConfig, zeroBits, configs, secretSet, disturbed>>
lifeVars == <<activated, loop, stopHandler, lives>>
ioVars   == <<commands, replies, outputs, events>>
callVars == <<caller, calls, astray, wrongReply, refused>>
jobVars  == <<requests, answered, heard, careless, wrongOutput, prepared>>
vars == <<async, cfgVars, lifeVars, leaving, ctxVars, ioVars, work, callVars, jobVars, app,
          prepares, faults, keys, mixed, hidden, hasty, crashed>>

None       == 0
Configured == 1                     \* the key of the configured PEM texts
Freed      == 2                     \* a pointer to a key that was freed
Generated(n) == Freed + n           \* the n-th key that is generated
Callers    == {"app", "child"}          \* child: an authenticator this one is the CA of

NoText  == [key |-> "none", coded |-> 0]
NoJob   == "none"
Idle    == [at |-> "idle", number |-> None, job |-> NoJob, ok |-> TRUE]
Fault   == faults < MaxFaults /\ faults' = faults + 1

\* _main(): the module is loaded with the option --async or without.
EnableAsync == BOOLEAN

\* The constructor: no texts, no keys, and base64.
Constructed ==
    /\ sslConfig = [key |-> FALSE, cert |-> FALSE, base64 |-> TRUE]
    /\ keypair = None /\ x509 = None /\ secretKey = NoText
    /\ activated = FALSE

\* EventObject::Create(): the pipe of the events.
EventPipe == events = <<>>

\* The end of Create(): the command handler is added to the loop, and the command
\* sockets and the output pipe get their objects.
HandlerAdded == commands = <<>> /\ replies = <<>> /\ outputs = <<>> /\ work = Idle

\* Authenticator::impl::Create(): the module is loaded, and its type is right.
Loaded == app = "idle" /\ caller = [t \in Callers |-> None]

\* Create(): the loop, its stop handler, and what the other parts make.
Init ==
    /\ async \in EnableAsync
    /\ Constructed
    /\ EventPipe
    /\ HandlerAdded
    /\ Loaded
    /\ zeroBits = FALSE
    /\ loop = "STOPPED"
    /\ stopHandler = async
    /\ leaving = "no"
    /\ configs = 0 /\ lives = 0 /\ prepares = 0 /\ requests = 0 /\ calls = 0 /\ faults = 0
    /\ keys = 0 /\ answered = 0 /\ heard = 0
    /\ secretSet = [text |-> NoText, base64 |-> TRUE]
    /\ mixed = FALSE /\ hidden = FALSE /\ disturbed = FALSE
    /\ hasty = FALSE /\ careless = FALSE /\ astray = FALSE
    /\ wrongReply = FALSE /\ wrongOutput = FALSE /\ prepared = FALSE /\ refused = FALSE /\ crashed = FALSE

MoreWork == prepares + requests + calls < MaxWork

\* The application's thread is free to make a call.
Free == app = "idle" /\ caller["app"] = None

----------------------------------------------------------------------------
(* Base64, and the secret key.                                             *)

\* EncodeBase64()
EncodeBase64(text) == [text EXCEPT !.coded = @ + 1]

\* DecodeBase64(), of a text that is encoded.
DecodeBase64(text) == [text EXCEPT !.coded = @ - 1]

\* DecodeBase64() finds nothing it can decode.
Undecodable(text) == text.coded = 0

\* LoadSecretKey(): the configured key, without its encoding.
LoadSecretKey(text, base64) == IF base64 THEN DecodeBase64(text) ELSE text

\* GetSecretKey(): the secret key as GetKey() gives it out.
GetSecretKey == IF sslConfig.base64 THEN EncodeBase64(secretKey) ELSE secretKey

\* GenerateSecretKey(): a key of no bytes is no key.
GenerateSecretKey(zero) == IF zero THEN NoText ELSE [key |-> "random", coded |-> 0]

\* What ConfigureSSL() keeps: what is not given is cleared.
Configuration(given, base64) ==
    [key |-> given \in {"key", "both"}, cert |-> given \in {"certificate", "both"}, base64 |-> base64]

\* What ConfigureSecretKey() does when it is given a key, or none, and its size.
SecretConfigured(text, zero) ==
    /\ zeroBits' = (zero /\ text = NoText)
    /\ IF text = NoText
       THEN /\ secretKey' = GenerateSecretKey(zero)
            /\ secretSet' = [text |-> NoText, base64 |-> TRUE]
       ELSE IF sslConfig.base64 /\ Undecodable(text)
       THEN UNCHANGED <<secretKey, secretSet>>
       ELSE /\ secretKey' = LoadSecretKey(text, sslConfig.base64)
            /\ secretSet' = [text |-> text, base64 |-> sslConfig.base64]

\* The keys an application may give: as they are, or encoded.
Texts == {[key |-> "given", coded |-> n] : n \in 0..1}

configOnly == <<async, lifeVars, leaving, keypair, x509, ioVars, work, callVars, jobVars,
                app, prepares, faults, keys, mixed, hidden, hasty, crashed>>

\* Configure() looks at the type of the configuration and calls one of those below.
Configure(noBytes) ==
    /\ Free /\ configs < MaxConfigs
    /\ configs' = configs + 1
    /\ disturbed' = (disturbed \/ noBytes \/ work.at = "load certificate")

\* ConfigureSecretKey()
ConfigureSecretKey(text, zero) ==
    /\ Configure(zero /\ text = NoText)
    /\ SecretConfigured(text, zero)
    /\ UNCHANGED <<configOnly, sslConfig>>

\* ConfigureSSL()
ConfigureSSL(given, base64) ==
    /\ Configure(FALSE)
    /\ sslConfig' = Configuration(given, base64)
    /\ UNCHANGED <<configOnly, zeroBits, secretKey, secretSet>>

\* ConfigureJSON() of a text with both parts: the secret key first, under the
\* enableBase64 of before; when that fails the other part is not configured.
ConfigureJSON(text, given, base64) ==
    /\ Configure(FALSE)
    /\ SecretConfigured(text, FALSE)
    /\ sslConfig' = IF sslConfig.base64 /\ Undecodable(text) THEN sslConfig
                    ELSE Configuration(given, base64)
    /\ UNCHANGED configOnly

----------------------------------------------------------------------------
(* The application's calls.                                                *)

\* Activate(): the loop runs, unless its state is other than STOPPED, and then the
\* authenticator counts as not activated.
Activate ==
    /\ Free
    /\ lives < MaxLives
    /\ IF async /\ loop # "STOPPED"
       THEN /\ activated' = FALSE
            /\ UNCHANGED <<loop, hasty>>
       ELSE /\ activated' = TRUE
            /\ loop' = IF async THEN "STARTED" ELSE loop
            /\ hasty' = (hasty \/ leaving # "no")
    /\ lives' = lives + 1
    /\ UNCHANGED <<async, cfgVars, stopHandler, leaving, ctxVars, ioVars, work, callVars, jobVars,
                   app, prepares, faults, keys, mixed, hidden, crashed>>

\* A command goes to the loop, with the number of the call of its kind, or the caller runs its handler.
Command(id, number, job) ==
    LET c == [at |-> id, number |-> number, job |-> job, ok |-> TRUE] IN
    IF async THEN /\ commands' = Append(commands, c)
                  /\ UNCHANGED <<work, app>>
             ELSE /\ work' = c
                  /\ app' = "inside"
                  /\ UNCHANGED commands

\* Prepare()
Prepare ==
    /\ Free /\ activated
    /\ MoreWork
    /\ prepares' = prepares + 1
    /\ Command("GENERATE", prepares + 1, NoJob)
    /\ UNCHANGED <<async, cfgVars, lifeVars, leaving, ctxVars, replies, outputs, events, callVars,
                   jobVars, faults, keys, mixed, hidden, hasty, crashed>>

\* A request is sent, or its handler run inside the call.
Request(job) ==
    /\ Free /\ activated
    /\ MoreWork
    /\ requests' = requests + 1
    /\ Command("CRYPTO", requests + 1, job)
    /\ UNCHANGED <<async, cfgVars, lifeVars, leaving, ctxVars, replies, outputs, events, callVars,
                   answered, heard, careless, wrongOutput, prepared, prepares, faults, keys, mixed, hidden,
                   hasty, crashed>>

\* Encrypt(), with the key of the certificate or the secret key.
Encrypt(job) == job \in {"encrypt public", "encrypt secret"} /\ Request(job)

\* Decrypt(), with the private key or the secret key.
Decrypt(job) == job \in {"decrypt private", "decrypt raw text"} /\ Request(job)

\* Whether a call can be served, by what it asks for.  VerifySign() is of what
\* GenerateSign() has signed: the certificate is of that key.
GetPrivateKey  == keypair # None
GetPublicKey   == x509 # None
GetCertificate == x509 # None
GenerateSign   == keypair # None
VerifySign     == x509 # None /\ x509 = keypair

\* What the switch over the identifiers of the keys calls.
GetKeyOf(id) ==
    CASE id = "PRIVATE_KEY" -> GetPrivateKey
      [] id = "PUBLIC_KEY"  -> GetPublicKey
      [] id = "CERTIFICATE" -> GetCertificate
      [] id = "SECRET_KEY"  -> secretKey # NoText

\* A call that has a reply: in the asynchronous mode the command is sent whether the
\* loop runs or not, and the thread waits; otherwise the answer is served.
Call(t, id, job, served) ==
    /\ caller[t] = None
    /\ app # "gone"
    /\ MoreWork
    /\ calls' = calls + 1
    /\ IF async
       THEN /\ caller' = [caller EXCEPT ![t] = calls + 1]
            /\ Command(id, calls + 1, job)
            /\ astray' = (astray \/ \E u \in Callers : caller[u] # None)
            /\ UNCHANGED refused
       ELSE /\ t = "app"
            /\ refused' = (refused \/ (prepared /\ ~mixed /\ ~served))
            /\ UNCHANGED <<caller, commands, work, app, astray>>
    /\ UNCHANGED <<async, cfgVars, lifeVars, leaving, ctxVars, replies, outputs, events,
                   wrongReply, jobVars, prepares, faults, keys, mixed, hidden, hasty, crashed>>

\* GetKey(), also by an authenticator this one is the CA of.
GetKey(t, id) ==
    /\ t = "app" => app = "idle"
    /\ Call(t, "GETKEY", id, GetKeyOf(id))

\* GenerateSignature()
GenerateSignature == app = "idle" /\ Call("app", "GENERATE_SIGN", NoJob, GenerateSign)

\* VerifySignature()
VerifySignature == app = "idle" /\ Call("app", "VERIFY_SIGN", NoJob, VerifySign)

returnOnly == <<async, cfgVars, lifeVars, leaving, ctxVars, commands, outputs, events, work,
                calls, jobVars, app, prepares, keys, mixed, hidden, hasty, crashed>>

\* The caller takes the next reply; it looks at nothing that says whose it is.
CallReturns(t) ==
    /\ caller[t] # None
    /\ replies # <<>>
    /\ replies' = Tail(replies)
    /\ wrongReply' = (wrongReply \/ Head(replies).number # caller[t])
    /\ refused' = (refused \/ (prepared /\ ~mixed /\ t = "app" /\ ~Head(replies).ok))
    /\ caller' = [caller EXCEPT ![t] = None]
    /\ UNCHANGED <<returnOnly, astray, faults>>

\* The read fails, and the reply stays on its way.
CallInterrupted(t) ==
    /\ caller[t] # None
    /\ Fault
    /\ caller' = [caller EXCEPT ![t] = None]
    /\ astray' = TRUE
    /\ UNCHANGED <<returnOnly, replies, wrongReply, refused>>

\* Deactivate(): the loop is asked to stop, or the keys are freed at once.
Deactivate ==
    /\ Free /\ activated
    /\ activated' = FALSE
    /\ prepared' = FALSE
    /\ careless' = (careless \/ answered < requests \/ heard < prepares)
    /\ IF async THEN /\ loop' = "STOP_REQUESTED"
                     /\ UNCHANGED <<keypair, x509>>
                ELSE /\ keypair' = None /\ x509' = None
                     /\ UNCHANGED loop
    /\ UNCHANGED <<async, cfgVars, stopHandler, lives, leaving, secretKey, ioVars, work, callVars,
                   requests, answered, heard, wrongOutput, app, prepares, faults, keys, mixed, hidden,
                   hasty, crashed>>

\* GetResult() takes the next output, and is refused while the authenticator is not
\* activated; when there is none, it waits for one of a later request.
GetResult ==
    IF activated /\ outputs = <<>>
    THEN wrongOutput' = TRUE /\ UNCHANGED outputs
    ELSE IF activated
    THEN /\ outputs' = Tail(outputs)
         /\ wrongOutput' = (wrongOutput \/ Head(outputs) # answered + 1)
    ELSE UNCHANGED <<outputs, wrongOutput>>

\* The application takes an event.  For one of a request that is done it calls
\* GetResult().
FetchEvent ==
    /\ Free
    /\ events # <<>>
    /\ events' = Tail(events)
    /\ prepared' = CASE Head(events) = "PREPARE_DONE" -> activated
                     [] Head(events) = "PREPARE_ERROR" -> FALSE
                     [] OTHER -> prepared
    /\ answered' = IF Head(events) \in {"CRYPTO_DONE", "CRYPTO_ERROR"} THEN answered + 1 ELSE answered
    /\ heard' = IF Head(events) \in {"PREPARE_DONE", "PREPARE_ERROR"} THEN heard + 1 ELSE heard
    /\ IF Head(events) = "CRYPTO_DONE" THEN GetResult ELSE UNCHANGED <<outputs, wrongOutput>>
    /\ UNCHANGED <<async, cfgVars, lifeVars, leaving, ctxVars, commands, replies, work, callVars,
                   requests, careless, app, prepares, faults, keys, mixed, hidden, hasty,
                   crashed>>

\* Destroy(): the loop is asked to stop, and the thread of its last life is joined.
Destroy ==
    /\ Free
    /\ app' = "join"
    /\ loop' = IF loop = "STARTED" THEN "STOP_REQUESTED" ELSE loop
    /\ UNCHANGED <<async, cfgVars, activated, stopHandler, lives, leaving, ctxVars, ioVars, work,
                   callVars, jobVars, prepares, faults, keys, mixed, hidden, hasty, crashed>>

\* Mutant: the thread of the loop is not joined.
DestroyUnjoined ==
    /\ app = "join"
    /\ app' = "gone"
    /\ UNCHANGED <<async, cfgVars, lifeVars, leaving, ctxVars, ioVars, work, callVars, jobVars,
                   prepares, faults, keys, mixed, hidden, hasty, crashed>>

\* The handles are closed and the object is deleted.  A loop thread of an earlier
\* life may still be in the stop handler.
DestroyJoined ==
    /\ app = "join"
    /\ loop = "STOPPED"
    /\ leaving = "no" \/ hasty
    /\ app' = "gone"
    /\ UNCHANGED <<async, cfgVars, lifeVars, leaving, ctxVars, ioVars, work, callVars, jobVars,
                   prepares, faults, keys, mixed, hidden, hasty, crashed>>

----------------------------------------------------------------------------
(* The handlers: commandTable, on the loop's thread or inside the call.    *)

loopOnly == <<async, cfgVars, activated, stopHandler, lives, leaving, callVars, jobVars, prepares,
              hasty>>

\* The loop takes a command.  After Stop() it ends the events it has fetched, of
\* which at most one is a command.
LoopTakes ==
    /\ loop \in {"STARTED", "STOP_REQUESTED"}
    /\ work = Idle
    /\ commands # <<>>
    /\ work' = Head(commands)
    /\ commands' = Tail(commands)
    /\ loop' = IF loop = "STARTED" THEN loop ELSE "DRAINED"
    /\ UNCHANGED <<loopOnly, ctxVars, replies, outputs, events, app, faults, keys, mixed, hidden,
                   crashed>>

\* PublishEventData()
PublishEventData(ev) == events' = Append(events, ev)

\* The handler ends with the event ev.
Done(ev) ==
    /\ work' = Idle
    /\ PublishEventData(ev)
    /\ app' = IF async THEN app ELSE "idle"

stepOnly == <<loopOnly, loop, secretKey, commands, replies, outputs, events, app, hidden>>

\* Mutant: the failure is forgotten.
ToSecretForgets(ok) == work' = [work EXCEPT !.at = "secret"]

\* CommandGenerate() goes on with the secret key, whatever has failed.
ToSecret(ok) == work' = [work EXCEPT !.at = "secret", !.ok = ok]

\* GenerateKey(): a new pair of keys takes the place of the old one.
GenerateKey ==
    /\ work.at = "GENERATE"
    /\ ~sslConfig.key /\ ~sslConfig.cert
    /\ keys' = keys + 1
    /\ keypair' = Generated(keys')
    /\ mixed' = TRUE
    /\ crashed' = (crashed \/ keypair = Freed)
    /\ work' = [work EXCEPT !.at = "generate certificate"]
    /\ UNCHANGED <<stepOnly, x509, faults>>

\* LoadPrivateKey(), of the configured text, if there is one.
LoadPrivateKey ==
    /\ work.at = "GENERATE"
    /\ sslConfig.key \/ sslConfig.cert
    /\ keypair' = IF sslConfig.key THEN Configured ELSE keypair
    /\ mixed' = (mixed \/ sslConfig.key)
    /\ crashed' = (crashed \/ (sslConfig.key /\ keypair = Freed))
    /\ work' = [work EXCEPT !.at = "load certificate", !.job = IF sslConfig.key THEN "key" ELSE NoJob]
    /\ UNCHANGED <<stepOnly, x509, faults, keys>>

\* Either of them fails, and the keys are as before.
KeyFails ==
    /\ work.at = "GENERATE"
    /\ sslConfig.key \/ ~sslConfig.cert    \* else there is no key to load
    /\ Fault
    /\ ToSecret(FALSE)
    /\ UNCHANGED <<stepOnly, keypair, x509, keys, mixed, crashed>>

\* GenerateCertificate(): the key is certified, with its own signature or the CA's.
GenerateCertificate ==
    /\ work.at = "generate certificate"
    /\ crashed' = (crashed \/ keypair = Freed \/ x509 = Freed)
    /\ IF keypair = None
       THEN /\ ToSecret(FALSE)
            /\ UNCHANGED <<x509, mixed>>
       ELSE /\ ToSecret(TRUE)
            /\ x509' = keypair
            /\ mixed' = FALSE
    /\ UNCHANGED <<stepOnly, keypair, faults, keys>>

\* LoadCertificate(), of the configured text, if there is one.
LoadCertificate ==
    /\ work.at = "load certificate"
    /\ x509' = IF sslConfig.cert THEN Configured ELSE x509
    /\ mixed' = ((mixed \/ sslConfig.cert) /\ ~(work.job = "key" /\ sslConfig.cert))
    /\ crashed' = (crashed \/ (sslConfig.cert /\ x509 = Freed))
    /\ ToSecret(TRUE)
    /\ UNCHANGED <<stepOnly, keypair, faults, keys>>

\* Either of them fails: the key has a certificate of another key, or none.
CertificateFails ==
    /\ work.at = "generate certificate" \/ (work.at = "load certificate" /\ sslConfig.cert)
    /\ Fault
    /\ ToSecret(FALSE)
    /\ UNCHANGED <<stepOnly, keypair, x509, keys, mixed, crashed>>

\* GenerateSecretKey() fails.
SecretFails ==
    /\ work.at = "secret"
    /\ secretKey = NoText
    /\ Fault
    /\ Done("PREPARE_ERROR")
    /\ UNCHANGED <<loopOnly, loop, ctxVars, commands, replies, outputs, keys, mixed, hidden, crashed>>

\* CommandGenerate() returns what its last step did.
PreparedRet(ok) == ok \/ secretKey = NoText

\* CommandGenerate(): the secret key, if there is none, and the event.
GenerateEnds ==
    /\ work.at = "secret"
    /\ secretKey' = IF secretKey = NoText THEN GenerateSecretKey(zeroBits) ELSE secretKey
    /\ hidden' = (hidden \/ (PreparedRet(work.ok) /\ ~work.ok))
    /\ Done(IF PreparedRet(work.ok) THEN "PREPARE_DONE" ELSE "PREPARE_ERROR")
    /\ UNCHANGED <<loopOnly, loop, keypair, x509, commands, replies, outputs, faults, keys, mixed,
                   crashed>>

\* CryptoAsymmetric(): the key it uses, of the certificate or the private one.
CryptoAsymmetric(job) == IF job = "encrypt public" THEN x509 ELSE keypair

\* CryptoSymmetric() uses neither.
CryptoSymmetric == None

\* The key Crypto() uses.
KeyOf(job) == IF job = "encrypt secret" THEN CryptoSymmetric ELSE CryptoAsymmetric(job)

\* Crypto() refuses a text it cannot decode before it sends an output.
Refuses(job) == job = "decrypt raw text" /\ sslConfig.base64

\* Mutant: a failed operation has no output.
CryptoOutputIfAny(x, job) ==
    IF Refuses(job) \/ (job = "encrypt public" /\ x509 = None) THEN outputs ELSE Append(outputs, x)

\* Crypto() sends an output, an empty one when the operation has failed.
CryptoOutput(x, job) == IF Refuses(job) THEN outputs ELSE Append(outputs, x)

\* CommandCrypto()
CommandCrypto ==
    /\ work.at = "CRYPTO"
    /\ outputs' = CryptoOutput(work.number, work.job)
    /\ Done(IF Refuses(work.job) THEN "CRYPTO_ERROR" ELSE "CRYPTO_DONE")
    /\ crashed' = (crashed \/ KeyOf(work.job) = Freed)
    /\ UNCHANGED <<loopOnly, loop, ctxVars, commands, replies, faults, keys, mixed, hidden>>

\* Mutant: a call that cannot be served has no reply.
ReplyIfServed(ok) == IF ok THEN Append(replies, [number |-> work.number, ok |-> ok]) ELSE replies

\* The reply to a call, to whoever reads it first.
Reply(ok) == Append(replies, [number |-> work.number, ok |-> ok])

\* The handler of a call ends with its reply; it has used the key p.
Replies(ok, p) ==
    /\ replies' = Reply(ok)
    /\ crashed' = (crashed \/ p = Freed)
    /\ work' = Idle
    /\ UNCHANGED <<loopOnly, loop, ctxVars, commands, outputs, events, app, faults, keys, mixed,
                   hidden>>

\* CommandGetKey()
CommandGetKey ==
    /\ work.at = "GETKEY"
    /\ Replies(GetKeyOf(work.job),
               CASE work.job = "PRIVATE_KEY" -> keypair
                 [] work.job = "SECRET_KEY"  -> None
                 [] OTHER                    -> x509)

\* CommandGenerateSign()
CommandGenerateSign == work.at = "GENERATE_SIGN" /\ Replies(GenerateSign, keypair)

\* CommandVerifySign()
CommandVerifySign == work.at = "VERIFY_SIGN" /\ Replies(VerifySign, x509)

\* The loop ends: it is STOPPED, and then its thread takes the stop handler, which
\* the loop has only once.
LoopStops ==
    /\ loop \in {"STOP_REQUESTED", "DRAINED"}
    /\ work = Idle
    /\ loop' = "STOPPED"
    /\ leaving' = IF stopHandler THEN "keypair" ELSE leaving
    /\ stopHandler' = FALSE
    /\ UNCHANGED <<async, cfgVars, activated, lives, ctxVars, ioVars, work, callVars, jobVars, app,
                   prepares, faults, keys, mixed, hidden, hasty, crashed>>

\* A pointer after the free() of what it points to.
AfterFree(p) == IF p = None THEN None ELSE Freed

\* CommandCleanup(), the stop handler: free, and then clear, one after the other.
Cleanup ==
    /\ leaving # "no"
    /\ crashed' = (crashed \/ app = "gone")
    /\ CASE leaving = "keypair" ->
              /\ keypair' = AfterFree(keypair)
              /\ leaving' = "x509"
              /\ UNCHANGED <<x509, events>>
         [] leaving = "x509" ->
              /\ keypair' = None
              /\ x509' = AfterFree(x509)
              /\ leaving' = "event"
              /\ UNCHANGED events
         [] leaving = "event" ->
              /\ x509' = None
              /\ PublishEventData("DEACTIVATE_DONE")
              /\ leaving' = "no"
              /\ UNCHANGED keypair
    /\ UNCHANGED <<async, cfgVars, lifeVars, secretKey, commands, replies, outputs, work, callVars,
                   jobVars, app, prepares, faults, keys, mixed, hidden, hasty>>

Next ==
    \/ \E text \in Texts \cup {NoText}, zero \in BOOLEAN : ConfigureSecretKey(text, zero)
    \/ \E given \in Credentials, base64 \in BOOLEAN : ConfigureSSL(given, base64)
    \/ \E text \in Texts, given \in Credentials, base64 \in BOOLEAN : ConfigureJSON(text, given, base64)
    \/ Activate
    \/ Prepare
    \/ \E job \in Jobs : Encrypt(job)
    \/ \E job \in Jobs : Decrypt(job)
    \/ \E t \in Callers, id \in KeyIds : GetKey(t, id)
    \/ GenerateSignature
    \/ VerifySignature
    \/ \E t \in Callers : CallReturns(t)
    \/ \E t \in Callers : CallInterrupted(t)
    \/ Deactivate
    \/ FetchEvent
    \/ Destroy
    \/ DestroyJoined
    \/ LoopTakes
    \/ GenerateKey
    \/ LoadPrivateKey
    \/ KeyFails
    \/ GenerateCertificate
    \/ LoadCertificate
    \/ CertificateFails
    \/ SecretFails
    \/ GenerateEnds
    \/ CommandCrypto
    \/ CommandGetKey
    \/ CommandGenerateSign
    \/ CommandVerifySign
    \/ LoopStops
    \/ Cleanup

\* The loop's thread goes on in its handlers and takes the commands that are there; a
\* caller that finds a reply takes it.
Fairness ==
    /\ WF_vars(LoopTakes)
    /\ WF_vars(GenerateKey \/ LoadPrivateKey \/ GenerateCertificate \/ LoadCertificate \/ GenerateEnds)
    /\ WF_vars(CommandCrypto \/ CommandGetKey \/ CommandGenerateSign \/ CommandVerifySign)
    /\ WF_vars(LoopStops)
    /\ WF_vars(Cleanup)
    /\ \A t \in Callers : WF_vars(CallReturns(t))

Spec == Init /\ [][Next]_vars /\ Fairness

----------------------------------------------------------------------------
(* Properties.                                                             *)

\* What an application is answered is its own.  The outputs come in the order of
\* the requests and one for each CRYPTO_DONE, also for a request that failed, so
\* that an application that counts its events reads the output of the request it
\* asks for; only a Deactivate() with requests unanswered leaves an output that is
\* taken for a later one.  The reply to a GetKey() or a signature is the caller's,
\* unless two threads have called at once (the thread of an authenticator this one
\* is the CA of, and the application) or a call was interrupted: then it can be
\* any one's, of any type.
AnswerIsOwn ==
    /\ wrongOutput => careless
    /\ wrongReply => astray

\* The stop handler of a loop that has ended frees the keys while a new loop thread
\* uses them, and after the deletion of the authenticator, only if Activate() was
\* called before the event DEACTIVATE_DONE.
CrashNeedsHaste == crashed => hasty

\* An application that was told that its Prepare() is done gets its keys, and
\* signatures that it can verify, until it deactivates the authenticator: unless
\* the failure of that Prepare() was hidden by the secret key it made after it, the
\* application has configured a secret key of less than a byte, or has configured
\* another SSL context between the two steps in which the loop's thread loads the key
\* and the certificate, so that neither was loaded.
\* GetKey() gives a configured secret key back as it was, as long as enableBase64 is
\* what it was when ConfigureSecretKey() ran (which, in one JSON text, is
\* before that text's own enableBase64 is).
PreparedIsServed ==
    /\ refused => hidden \/ disturbed \/ hasty \/ careless \/ astray
    /\ (secretSet.text # NoText /\ secretSet.base64 = sslConfig.base64)
           => GetSecretKey = secretSet.text

\* A GetKey() of the application returns if it was made while the loop runs.
CallReturnsWhileRunning ==
    (caller["app"] # None /\ loop = "STARTED") ~> (caller["app"] = None \/ crashed)

=============================================================================
