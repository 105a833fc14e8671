------------------------------- MODULE Server -------------------------------
(***************************************************************************)
(* The process: start from an environment, two servers, requests that wait *)
(* for their client, the platform and the store, and the way out.          *)
(*                                                                         *)
(* main runs on while the servers answer; it waits for a signal, then for  *)
(* HTTP requests (5 s at most), then for gRPC calls, and closes the store. *)
(* logging.Fatal ends the process at once.  The store is the MySQL one:    *)
(* what is stored outlives the process, and a closed store answers with an *)
(* error.  Requests that log in are taken apart into what they wait for;   *)
(* all other handlers are of the kind "plain".                             *)
(***************************************************************************)
EXTENDS AuthConfig, FiniteSets

CONSTANTS
    Environments,       \* what the process may be started with
    Right,              \* Right[key]: the secret the platform knows for a game
    Codes,              \* codes players have got, from the platform or "mock:..."
    Templates,          \* the requests of HTTP clients
    Web, Calls,         \* HTTP requests and gRPC calls in flight
    MaxStarts, MaxRequests, MaxCalls, MaxFaults     \* bounds

NoCode == [mock |-> FALSE, key |-> Unset, person |-> Unset, n |-> 0]
Budget == [start |-> MaxStarts, request |-> MaxRequests, call |-> MaxCalls, fault |-> MaxFaults]
Kinds == {"login", "register", "profile", "sync", "plain"}

\* code is NoCode where a sync brings an access token instead; key is the
\* client_key of a profile request.
ASSUME CodesAssumption == NoCode \notin Codes
ASSUME TemplatesAssumption ==
    \A t \in Templates : /\ t.kind \in Kinds
                         /\ t.code \in Codes \union {NoCode}
                         /\ t.kind \in {"login", "register", "profile"} => t.code \in Codes
                         /\ t.token \in BOOLEAN
\* A registered game has a key and a secret.
ASSUME RightAssumption == \A key \in DOMAIN Right : Complete(Pair(key, Right[key]))
ASSUME ServerBounds == Budget \in [DOMAIN Budget -> Nat]

VARIABLES
    main,       \* where the main goroutine is
    http, grpc, \* the two listeners
    store,      \* whether the store is open
    cfg, pair,  \* the configuration and the provider chosen at the start
    web,        \* web[r]: an HTTP request
    call,       \* call[g]: a gRPC call
    accounts,   \* registered accounts
    spent,      \* codes the platform has exchanged, each of them once
    timedOut,   \* auxiliary: Shutdown has given up on HTTP requests
    used        \* how much of each bound has been used

life == <<main, http, grpc, store, cfg, pair, timedOut>>
vars == <<life, web, call, accounts, spent, used>>

Spend(kind) == /\ used[kind] < Budget[kind]
               /\ used' = [used EXCEPT ![kind] = @ + 1]

-----------------------------------------------------------------------------
(* Requests *)

Finished == {"idle", "ok", "need_register", "refused", "failed", "closed", "cut"}
WebPC == Finished \union {"body", "lookup", "exchange", "userinfo", "store"}
CallPC == {"idle", "ok", "closed", "cut", "receive", "store"}

\* Whom a code stands for: from says who was asked.
NoId == [from |-> "nobody", key |-> Unset, person |-> Unset, n |-> 0]
PlatformId(code) == [from |-> "platform", key |-> code.key, person |-> code.person, n |-> 0]
MockId(code) ==
    IF code.mock THEN [from |-> "mock", key |-> Unset, person |-> code.person, n |-> 0]
    ELSE [from |-> "code", key |-> code.key, person |-> code.person, n |-> code.n]

IdleWeb == [pc |-> "idle", kind |-> "plain", channel |-> Unset, code |-> NoCode,
            token |-> FALSE, key |-> Unset, id |-> NoId]

Busy(pc) == pc \notin Finished
NoWebBusy == \A r \in Web : ~Busy(web[r].pc)
NoCallBusy == \A g \in Calls : ~Busy(call[g])

GoAs(r, pc, id) == web' = [web EXCEPT ![r] = [@ EXCEPT !.pc = pc, !.id = id]]
Go(r, pc) == GoAs(r, pc, web[r].id)

Account(req) == [channel |-> req.channel, id |-> req.id]

\* A client sends a request; only an account with a session can be synced.
Accept(r, t, id) ==
    /\ http = "listening"
    /\ ~Busy(web[r].pc)
    /\ IF t.kind = "sync" THEN [channel |-> t.channel, id |-> id] \in accounts ELSE id = NoId
    /\ Spend("request")
    /\ web' = [web EXCEPT ![r] =
                [pc |-> "body", kind |-> t.kind, channel |-> t.channel, code |-> t.code,
                 token |-> t.token, key |-> t.key, id |-> id]]
    /\ UNCHANGED <<life, call, accounts, spent>>

\* A profile is asked for by the platform whenever the channel is one of its
\* own; login, register and sync need the pair chosen at the start, and login
\* and register take a mock code at its word on every channel.
ByPlatform(req) ==
    /\ ModeForChannel(cfg, req.channel) = "tiktok"
    /\ req.kind # "profile" => pair # NoPair
    /\ req.kind \in {"login", "register"} => ~req.code.mock

\* Fault: profiles are asked for with the pair of logins.
StackPair(req) == pair

\* A profile request names its game, all others share one pair.
PairFor(req) ==
    IF req.kind = "profile" THEN Pair(req.key, SecretForClientKey(cfg, req.key)) ELSE pair

\* Who is it?  The mock answers at once.
AskForId(r, req) ==
    \/ /\ ByPlatform(req)
       /\ Go(r, IF ~Complete(PairFor(req)) THEN "refused"
                ELSE IF req.code # NoCode THEN "exchange"
                ELSE IF req.token THEN "userinfo" ELSE "failed")
    \/ /\ ~ByPlatform(req)
       /\ \/ req.kind = "sync" /\ Go(r, "store")
          \/ req.kind = "profile" /\ GoAs(r, "ok", MockId(req.code))
          \/ req.kind \in {"login", "register"} /\ GoAs(r, "store", MockId(req.code))

\* The body has arrived, which may take a client any time.
ReadBody(r) ==
    LET req == web[r]
    IN  /\ req.pc = "body"
        /\ \/ req.kind = "plain" /\ Go(r, "store")
           \/ req.kind = "sync" /\ Go(r, "lookup")
           \/ req.kind \in {"login", "register", "profile"} /\ AskForId(r, req)
        /\ UNCHANGED <<life, call, accounts, spent, used>>

\* The body is longer than maxReadBody or breaks off: no valid JSON any more.
\* Only sync does not look, and goes on without code and token.
ReadCutBody(r) ==
    /\ web[r].pc = "body"
    /\ Spend("fault")
    /\ IF web[r].kind = "sync"
       THEN web' = [web EXCEPT ![r] = [@ EXCEPT !.pc = "lookup", !.code = NoCode, !.token = FALSE]]
       ELSE Go(r, "failed")
    /\ UNCHANGED <<life, call, accounts, spent>>

\* A sync looks its account up before it asks.
LookUp(r) ==
    /\ web[r].pc = "lookup"
    /\ IF store = "closed" THEN Go(r, "closed")
       ELSE IF Account(web[r]) \in accounts THEN AskForId(r, web[r]) ELSE Go(r, "failed")
    /\ UNCHANGED <<life, call, accounts, spent, used>>

\* The platform exchanges a code of the game once.
Redeems(p, code) ==
    /\ ~code.mock /\ code.key = p.key
    /\ p.key \in DOMAIN Right /\ p.secret = Right[p.key]
    /\ code \notin spent

\* Fault: the code is taken for the open id.
CodeForId(req) == [PlatformId(req.code) EXCEPT !.n = req.code.n]

\* A sync keeps the id of its session, whatever the code says.
IdAfterExchange(req) == IF req.kind = "sync" THEN req.id ELSE PlatformId(req.code)

ExchangeCode(r) ==
    LET req == web[r]
    IN  /\ req.pc = "exchange"
        /\ IF Redeems(PairFor(req), req.code)
           THEN /\ GoAs(r, "userinfo", IdAfterExchange(req))
                /\ spent' = spent \union {req.code}
           ELSE Go(r, "refused") /\ UNCHANGED spent
        /\ UNCHANGED <<life, call, accounts, used>>

\* The answer of the platform does not come within 8 s.
ExchangeFails(r) ==
    LET req == web[r]
    IN  /\ req.pc = "exchange"
        /\ Spend("fault")
        /\ Go(r, "refused")
        /\ \/ UNCHANGED spent
           \/ Redeems(PairFor(req), req.code) /\ spent' = spent \union {req.code}
        /\ UNCHANGED <<life, call, accounts>>

FetchProfile(r) ==
    /\ web[r].pc = "userinfo"
    /\ Go(r, IF web[r].kind = "profile" THEN "ok" ELSE "store")
    /\ UNCHANGED <<life, call, accounts, spent, used>>

\* Fault: an error of the platform is passed on whatever it has told before.
PassOn(req) == "refused"

\* login and register have what they need; a profile or a sync has not.
WithoutProfile(req) == IF req.kind \in {"login", "register"} THEN "store" ELSE "refused"

FetchFails(r) ==
    /\ web[r].pc = "userinfo"
    /\ Spend("fault")
    /\ Go(r, WithoutProfile(web[r]))
    /\ UNCHANGED <<life, call, accounts, spent>>

\* What the request wants of the store; a closed one answers with an error.
UseStore(r) ==
    LET req == web[r]
    IN  /\ req.pc = "store"
        /\ \/ store = "closed" /\ Go(r, "closed") /\ UNCHANGED accounts
           \/ /\ store = "open" /\ req.kind = "login"
              /\ Go(r, IF Account(req) \in accounts THEN "ok" ELSE "need_register")
              /\ UNCHANGED accounts
           \/ /\ store = "open" /\ req.kind = "register"
              /\ Go(r, "ok")
              /\ accounts' = accounts \union {Account(req)}
           \/ /\ store = "open" /\ req.kind \in {"sync", "plain"}
              /\ Go(r, "ok")
              /\ UNCHANGED accounts
        /\ UNCHANGED <<life, call, spent, used>>

\* gRPC calls of the games' servers only need the store.
AcceptCall(g) ==
    /\ grpc = "serving"
    /\ ~Busy(call[g])
    /\ Spend("call")
    /\ call' = [call EXCEPT ![g] = "receive"]
    /\ UNCHANGED <<life, web, accounts, spent>>

ReceiveCall(g) ==
    /\ call[g] = "receive"
    /\ call' = [call EXCEPT ![g] = "store"]
    /\ UNCHANGED <<life, web, accounts, spent, used>>

CallUsesStore(g) ==
    /\ call[g] = "store"
    /\ call' = [call EXCEPT ![g] = IF store = "closed" THEN "closed" ELSE "ok"]
    /\ UNCHANGED <<life, web, accounts, spent, used>>

-----------------------------------------------------------------------------
(* The life of the process *)

\* Load, openStore, BuildAuthStack; the listeners start as goroutines.
Start(env) ==
    /\ main = "down"
    /\ Spend("start")
    /\ main' = "serving" /\ http' = "starting" /\ grpc' = "starting"
    /\ store' = "open" /\ timedOut' = FALSE
    /\ cfg' = Load(env)
    /\ pair' \in BuildAuthStack(Load(env))
    /\ web' = [r \in Web |-> IdleWeb]
    /\ call' = [g \in Calls |-> "idle"]
    /\ UNCHANGED <<accounts, spent>>

\* The process is gone, and with it every request; clients see a broken
\* connection.  Only the way through main closes the store before.
Gone ==
    /\ main' = "down" /\ http' = "off" /\ grpc' = "off"
    /\ web' = [r \in Web |-> IF Busy(web[r].pc) THEN [web[r] EXCEPT !.pc = "cut"] ELSE web[r]]
    /\ call' = [g \in Calls |-> IF Busy(call[g]) THEN "cut" ELSE call[g]]
    /\ UNCHANGED <<store, cfg, pair, accounts, spent, timedOut>>

\* ListenAndServe after Shutdown returns at once.
HttpListens ==
    /\ http = "starting"
    /\ http' = IF main = "serving" THEN "listening" ELSE "off"
    /\ UNCHANGED <<main, grpc, store, cfg, pair, timedOut, web, call, accounts, spent, used>>

\* Serve after GracefulStop is an error, and the error is fatal.
GrpcServes ==
    /\ grpc = "starting"
    /\ IF main \in {"serving", "stopping_http"}
       THEN grpc' = "serving" /\ UNCHANGED <<main, http, store, cfg, pair, timedOut, web, call, accounts, spent>>
       ELSE Gone
    /\ UNCHANGED used

\* A listener fails (the port is taken, accept returns an error), or the
\* process is killed: the end without Close.
Fatal ==
    /\ main # "down"
    /\ Spend("fault")
    /\ Gone

\* SIGINT or SIGTERM: Shutdown closes the HTTP listener.
Signal ==
    /\ main = "serving"
    /\ main' = "stopping_http"
    /\ http' = IF http = "listening" THEN "off" ELSE http
    /\ UNCHANGED <<grpc, store, cfg, pair, timedOut, web, call, accounts, spent, used>>

\* Fault: Close instead of Shutdown.
HttpClosed == TRUE

\* All HTTP requests are answered: GracefulStop closes the gRPC listener.
HttpDrained == NoWebBusy

StopGrpc ==
    /\ main = "stopping_http"
    /\ HttpDrained
    /\ main' = "stopping_grpc"
    /\ grpc' = IF grpc = "serving" THEN "off" ELSE grpc
    /\ UNCHANGED <<http, store, cfg, pair, timedOut, web, call, accounts, spent, used>>

\* Fault: Shutdown gets a context without a deadline.
NeverGivesUp == FALSE

\* 5 s are over.
GivesUp == ~NoWebBusy

StopGrpcAnyway ==
    /\ main = "stopping_http"
    /\ GivesUp
    /\ timedOut' = TRUE
    /\ main' = "stopping_grpc"
    /\ grpc' = IF grpc = "serving" THEN "off" ELSE grpc
    /\ UNCHANGED <<http, store, cfg, pair, web, call, accounts, spent, used>>

\* Fault: Stop instead of GracefulStop.
GrpcStopped == TRUE

GrpcDrained == NoCallBusy

\* The deferred Close, after every gRPC call is answered.
CloseStore ==
    /\ main = "stopping_grpc"
    /\ GrpcDrained
    /\ main' = "leaving"
    /\ store' = "closed"
    /\ UNCHANGED <<http, grpc, cfg, pair, timedOut, web, call, accounts, spent, used>>

Exit == main = "leaving" /\ Gone /\ UNCHANGED used

-----------------------------------------------------------------------------

NoConfig == Load([modes |-> {}, map |-> <<>>, key |-> Unset, secret |-> Unset, secrets |-> <<>>])

Init ==
    /\ main = "down" /\ http = "off" /\ grpc = "off"
    /\ store = "closed" /\ timedOut = FALSE
    /\ cfg = NoConfig /\ pair = NoPair
    /\ web = [r \in Web |-> IdleWeb]
    /\ call = [g \in Calls |-> "idle"]
    /\ accounts = {} /\ spent = {}
    /\ used = [kind \in DOMAIN Budget |-> 0]

\* What the process does by itself once a request has arrived.
WebStep(r) == LookUp(r) \/ ExchangeCode(r) \/ FetchProfile(r) \/ UseStore(r)
CallStep(g) == ReceiveCall(g) \/ CallUsesStore(g)
MainStep == StopGrpc \/ StopGrpcAnyway \/ CloseStore \/ Exit

Next ==
    \/ \E env \in Environments : Start(env)
    \/ HttpListens \/ GrpcServes \/ Fatal \/ Signal
    \/ MainStep
    \/ \E r \in Web :
          \/ \E t \in Templates, id \in {acc.id : acc \in accounts} \union {NoId} : Accept(r, t, id)
          \/ ReadBody(r) \/ ReadCutBody(r)
          \/ ExchangeFails(r) \/ FetchFails(r)
          \/ WebStep(r)
    \/ \E g \in Calls : AcceptCall(g) \/ CallStep(g)

Spec == Init /\ [][Next]_vars

\* Goroutines that can run do run, and the 5 s pass.  Nothing is assumed of
\* clients: neither the body of a request nor the message of a call has to come.
Fairness == /\ WF_vars(MainStep)
            /\ WF_vars(HttpListens) /\ WF_vars(GrpcServes)
            /\ \A r \in Web : WF_vars(WebStep(r))
            /\ \A g \in Calls : WF_vars(CallUsesStore(g))

FairSpec == Spec /\ Fairness
=============================================================================
