----------------------------- MODULE ServerProofs -----------------------------
(***************************************************************************)
(* Proofs about Server, for every set of environments, codes and requests. *)
(*                                                                         *)
(* ServerInv, the inductive invariant, adds to the properties what is true *)
(* of a request before it gets where the property looks.                   *)
(***************************************************************************)
EXTENDS ServerProps, TLAPS

Up == {"serving", "stopping_http", "stopping_grpc"}

\* The store is open until main has left GracefulStop, and with it every call
\* and the listener that takes calls.
Life ==
    /\ main \in Up => store = "open"
    /\ grpc = "serving" => main \in {"serving", "stopping_http"}
    /\ \A g \in Calls : Busy(call[g]) => main \in Up

\* Requests that outlast Shutdown.
Late ==
    /\ http = "listening" => main = "serving"
    /\ \A r \in Web : /\ Busy(web[r].pc) => main # "down"
                      /\ Busy(web[r].pc) /\ main \in {"stopping_grpc", "leaving"} => timedOut
                      /\ web[r].pc = "closed" => timedOut

\* Each kind of request goes its way.
Ways ==
    \A r \in Web : /\ web[r].pc = "lookup" => web[r].kind = "sync"
                   /\ web[r].pc = "exchange" => web[r].code # NoCode
                   /\ web[r].kind \in {"login", "register", "profile"} => web[r].code # NoCode

\* Where the mode is tiktok, there is a pair for it.
PairIsThere == AuthModeEnabled(cfg, "tiktok") /\ TikTokReady(cfg) => pair # NoPair

\* Whom login and register have been told of.
Told ==
    \A r \in Web : web[r].kind \in {"login", "register"} =>
        /\ web[r].pc \in {"body", "exchange", "refused"} => web[r].id = NoId
        /\ /\ web[r].pc \in {"userinfo", "store", "ok", "need_register"}
           /\ ~web[r].code.mock
           /\ ModeForChannel(cfg, web[r].channel) = "tiktok"
           => web[r].id = PlatformId(web[r].code)

ServerInv == TypeOK /\ Life /\ Late /\ Ways /\ PairIsThere /\ Told

-----------------------------------------------------------------------------
(* Types *)

\* The fields of a request and their values.
LEMMA RequestFields ==
    ASSUME NEW req \in Requests
    PROVE  /\ req.pc \in WebPC /\ req.kind \in Kinds /\ req.token \in BOOLEAN
           /\ req.code \in Codes \union {NoCode} /\ req.id \in Ids
           /\ req.channel \in {t.channel : t \in Templates} \union {Unset}
           /\ req.key \in {t.key : t \in Templates} \union {Unset}
  BY DEF Requests

\* Another place, and another id, leave it a request.
LEMMA RequestMoves ==
    ASSUME NEW req \in Requests, NEW pc \in WebPC, NEW id \in Ids
    PROVE  /\ [req EXCEPT !.pc = pc] \in Requests
           /\ [req EXCEPT !.pc = pc, !.id = id] \in Requests
  BY DEF Requests

LEMMA IdTypes ==
    /\ NoId \in Ids
    /\ \A code \in Codes \union {NoCode} : PlatformId(code) \in Ids /\ MockId(code) \in Ids
  BY DEF Ids

LEMMA GoTypes ==
    ASSUME TypeOK, NEW r \in Web, NEW pc \in WebPC, NEW id \in Ids, GoAs(r, pc, id)
    PROVE  web' \in [Web -> Requests]
<1>1. web[r] \in Requests /\ web \in [Web -> Requests]
  BY DEF TypeOK
<1>2. [web[r] EXCEPT !.pc = pc, !.id = id] \in Requests
  BY <1>1, RequestMoves
<1> QED
  BY <1>1, <1>2 DEF GoAs

LEMMA SpendTypes ==
    ASSUME TypeOK, NEW kind \in DOMAIN Budget, Spend(kind)
    PROVE  used' \in [DOMAIN Budget -> Nat]
  BY DEF TypeOK, Spend

LEMMA AskTypes ==
    ASSUME TypeOK, NEW r \in Web, AskForId(r, web[r])
    PROVE  web' \in [Web -> Requests]
<1>1. web[r] \in Requests
  BY DEF TypeOK
<1>2. MockId(web[r].code) \in Ids /\ web[r].id \in Ids
  BY <1>1, IdTypes, RequestFields
<1>3. {"refused", "exchange", "userinfo", "failed", "store", "ok"} \subseteq WebPC
  BY DEF WebPC, Finished
<1>4. \E pc \in {"refused", "exchange", "userinfo", "failed", "store", "ok"},
         id \in {MockId(web[r].code), web[r].id} : GoAs(r, pc, id)
  BY DEF AskForId, Go
<1> QED
  BY <1>2, <1>3, <1>4, GoTypes

-----------------------------------------------------------------------------
(* The steps of a request *)

\* Whom a login or register is told of, from its next place on.
ToldNext(r) ==
    web[r].kind \in {"login", "register"} =>
        /\ web'[r].pc \in {"body", "exchange", "refused"} => web'[r].id = NoId
        /\ /\ web'[r].pc \in {"userinfo", "store", "ok", "need_register"}
           /\ ~web[r].code.mock
           /\ ModeForChannel(cfg, web[r].channel) = "tiktok"
           => web'[r].id = PlatformId(web[r].code)

\* What every step of the request r does to the requests.
Moves(r) ==
    /\ \A s \in Web \ {r} : web'[s] = web[s]
    /\ Busy(web[r].pc)
    /\ web'[r].kind = web[r].kind /\ web'[r].channel = web[r].channel
    /\ web[r].kind # "sync" => web'[r].code = web[r].code
    /\ web'[r].pc = "closed" => store = "closed"
    /\ web'[r].pc = "lookup" => web[r].kind = "sync"
    /\ web'[r].pc = "exchange" => web'[r].code # NoCode
    /\ ToldNext(r)

RequestStep(r) ==
    \/ ReadBody(r) \/ ReadCutBody(r) \/ LookUp(r) \/ ExchangeCode(r) \/ ExchangeFails(r)
    \/ FetchProfile(r) \/ FetchFails(r) \/ UseStore(r)

\* A request that goes on keeps what it has asked for.
LEMMA GoKeeps ==
    ASSUME TypeOK, NEW r \in Web, NEW pc, NEW id, GoAs(r, pc, id)
    PROVE  /\ \A s \in Web \ {r} : web'[s] = web[s]
           /\ web'[r].pc = pc /\ web'[r].id = id
           /\ web'[r].kind = web[r].kind /\ web'[r].channel = web[r].channel
           /\ web'[r].code = web[r].code
<1>1. web \in [Web -> Requests] /\ web[r] \in Requests
  BY DEF TypeOK
<1>2. web' = [web EXCEPT ![r] = [web[r] EXCEPT !.pc = pc, !.id = id]]
  BY DEF GoAs
<1>3. web'[r] = [web[r] EXCEPT !.pc = pc, !.id = id] /\ \A s \in Web \ {r} : web'[s] = web[s]
  BY <1>1, <1>2
<1> QED
  BY <1>1, <1>3 DEF Requests

\* Where the mode of a channel is tiktok, the platform is asked.
LEMMA PlatformIsAsked ==
    ASSUME ServerInv, NEW r \in Web, web[r].kind \in {"login", "register"},
           ~web[r].code.mock, ModeForChannel(cfg, web[r].channel) = "tiktok"
    PROVE  ByPlatform(web[r])
<1>1. AuthModeEnabled(cfg, "tiktok") /\ TikTokReady(cfg)
  BY DEF ModeForChannel
<1>2. pair # NoPair
  BY <1>1 DEF ServerInv, PairIsThere
<1> QED
  BY <1>2 DEF ByPlatform

LEMMA AskMoves ==
    ASSUME ServerInv, NEW r \in Web, AskForId(r, web[r]), Busy(web[r].pc),
           web[r].pc = "body" \/ web[r].kind = "sync", web[r].kind \in Kinds \ {"plain"}
    PROVE  Moves(r)
<1>1. TypeOK /\ Ways /\ Told
  BY DEF ServerInv
<1>2. CASE ByPlatform(web[r])
  <2>1. PICK pc : /\ GoAs(r, pc, web[r].id)
                  /\ pc \in {"refused", "exchange", "userinfo", "failed"}
                  /\ pc = "exchange" => web[r].code # NoCode
                  /\ web[r].code # NoCode => pc \in {"refused", "exchange"}
    BY <1>2 DEF AskForId, Go
  <2>2. web[r].kind \in {"login", "register"} => pc \in {"refused", "exchange"}
    BY <1>1, <2>1 DEF Ways
  <2> QED
    BY <1>1, <2>1, <2>2, GoKeeps DEF Moves, ToldNext, Told
<1>3. CASE ~ByPlatform(web[r])
  <2>1. PICK pc, id : pc \in {"store", "ok"} /\ GoAs(r, pc, id)
    BY <1>3 DEF AskForId, Go
  <2>2. web[r].kind \in {"login", "register"} =>
          web[r].code.mock \/ ModeForChannel(cfg, web[r].channel) # "tiktok"
    BY <1>3, PlatformIsAsked
  <2> QED
    BY <1>1, <2>1, <2>2, GoKeeps DEF Moves, ToldNext
<1> QED
  BY <1>2, <1>3

LEMMA BodyMoves ==
    ASSUME ServerInv, NEW r \in Web, ReadBody(r) \/ ReadCutBody(r)
    PROVE  Moves(r)
<1>1. TypeOK /\ Ways /\ Told /\ web[r].pc = "body" /\ Busy(web[r].pc)
  BY DEF ServerInv, ReadBody, ReadCutBody, Busy, Finished
<1>2. CASE ReadBody(r) /\ web[r].kind \in {"plain", "sync"}
  <2>1. PICK pc \in {"store", "lookup"} : /\ GoAs(r, pc, web[r].id)
                                          /\ pc = "lookup" => web[r].kind = "sync"
    BY <1>2 DEF ReadBody, Go
  <2> QED
    BY <1>1, <1>2, <2>1, GoKeeps DEF Moves, ToldNext
<1>3. CASE ReadBody(r) /\ web[r].kind \in {"login", "register", "profile"}
  <2>1. AskForId(r, web[r])
    BY <1>3 DEF ReadBody
  <2> QED
    BY <1>1, <1>3, <2>1, AskMoves DEF Kinds
<1>4. CASE ReadCutBody(r) /\ web[r].kind = "sync"
  <2>1. web' = [web EXCEPT ![r] = [web[r] EXCEPT !.pc = "lookup", !.code = NoCode, !.token = FALSE]]
    BY <1>4 DEF ReadCutBody
  <2>2. web \in [Web -> Requests] /\ web[r] \in Requests
    BY <1>1 DEF TypeOK
  <2>3. /\ web'[r] = [web[r] EXCEPT !.pc = "lookup", !.code = NoCode, !.token = FALSE]
        /\ \A s \in Web \ {r} : web'[s] = web[s]
    BY <2>1, <2>2
  <2>4. web'[r].pc = "lookup" /\ web'[r].kind = web[r].kind /\ web'[r].channel = web[r].channel
    BY <2>2, <2>3 DEF Requests
  <2> QED
    BY <1>1, <1>4, <2>3, <2>4 DEF Moves, ToldNext
<1>5. CASE ReadCutBody(r) /\ web[r].kind # "sync"
  <2>1. GoAs(r, "failed", web[r].id)
    BY <1>5 DEF ReadCutBody, Go
  <2> QED
    BY <1>1, <2>1, GoKeeps DEF Moves, ToldNext
<1>6. web[r].kind \in Kinds
  BY <1>1, RequestFields DEF TypeOK
<1> QED
  BY <1>2, <1>3, <1>4, <1>5, <1>6 DEF Kinds

LEMMA PlatformMoves ==
    ASSUME ServerInv, NEW r \in Web,
           ExchangeCode(r) \/ ExchangeFails(r) \/ FetchProfile(r) \/ FetchFails(r)
    PROVE  Moves(r)
<1>1. TypeOK /\ Ways /\ Told
  BY DEF ServerInv
<1>2. web[r].pc \in {"exchange", "userinfo"} /\ Busy(web[r].pc)
  BY DEF ExchangeCode, ExchangeFails, FetchProfile, FetchFails, Busy, Finished
<1>3. CASE ExchangeCode(r) \/ ExchangeFails(r)
  <2>1. \/ GoAs(r, "userinfo", IdAfterExchange(web[r]))
        \/ GoAs(r, "refused", web[r].id)
    BY <1>3 DEF ExchangeCode, ExchangeFails, Go
  <2>2. web[r].kind \in {"login", "register"} =>
          /\ IdAfterExchange(web[r]) = PlatformId(web[r].code)
          /\ web[r].id = NoId
    BY <1>1, <1>3 DEF IdAfterExchange, Told, ExchangeCode, ExchangeFails
  <2> QED
    BY <1>1, <1>2, <2>1, <2>2, GoKeeps DEF Moves, ToldNext
<1>4. CASE FetchProfile(r) \/ FetchFails(r)
  <2>1. PICK pc \in {"ok", "store", "refused"} :
            /\ GoAs(r, pc, web[r].id)
            /\ web[r].kind \in {"login", "register"} => pc = "store"
    BY <1>4 DEF FetchProfile, FetchFails, WithoutProfile, Go
  <2>2. web[r].pc = "userinfo"
    BY <1>4 DEF FetchProfile, FetchFails
  <2> QED
    BY <1>1, <1>2, <2>1, <2>2, GoKeeps DEF Moves, ToldNext, Told
<1> QED
  BY <1>3, <1>4

LEMMA StoreMoves ==
    ASSUME ServerInv, NEW r \in Web, LookUp(r) \/ UseStore(r)
    PROVE  Moves(r)
<1>1. TypeOK /\ Ways /\ Told
  BY DEF ServerInv
<1>2. web[r].pc \in {"lookup", "store"} /\ Busy(web[r].pc)
  BY DEF LookUp, UseStore, Busy, Finished
<1>3. CASE LookUp(r) /\ ~AskForId(r, web[r])
  <2>1. web[r].kind = "sync"
    BY <1>1, <1>3 DEF Ways, LookUp
  <2>2. PICK pc \in {"closed", "failed"} : GoAs(r, pc, web[r].id) /\ (pc = "closed" => store = "closed")
    BY <1>3 DEF LookUp, Go
  <2> QED
    BY <1>1, <1>2, <2>1, <2>2, GoKeeps DEF Moves, ToldNext
<1>4. CASE LookUp(r) /\ AskForId(r, web[r])
  <2>1. web[r].kind = "sync"
    BY <1>1, <1>4 DEF Ways, LookUp
  <2> QED
    BY <1>2, <1>4, <2>1, AskMoves DEF Kinds
<1>5. CASE UseStore(r)
  <2>1. PICK pc \in {"closed", "ok", "need_register"} :
            GoAs(r, pc, web[r].id) /\ (pc = "closed" => store = "closed")
    BY <1>5 DEF UseStore, Go
  <2>2. web[r].pc = "store"
    BY <1>5 DEF UseStore
  <2> QED
    BY <1>1, <1>2, <2>1, <2>2, GoKeeps DEF Moves, ToldNext, Told
<1> QED
  BY <1>3, <1>4, <1>5

LEMMA RequestMovesOn ==
    ASSUME ServerInv, NEW r \in Web, RequestStep(r)
    PROVE  Moves(r)
  BY BodyMoves, PlatformMoves, StoreMoves DEF RequestStep

LEMMA RequestTypes ==
    ASSUME ServerInv, NEW r \in Web, RequestStep(r)
    PROVE  TypeOK'
<1>1. TypeOK /\ Ways /\ web[r] \in Requests /\ web \in [Web -> Requests]
  BY DEF ServerInv, TypeOK
<1>2. UNCHANGED <<life, call>>
  BY DEF RequestStep, ReadBody, ReadCutBody, LookUp, ExchangeCode, ExchangeFails, FetchProfile,
         FetchFails, UseStore
<1>3. UNCHANGED used \/ Spend("fault")
  BY DEF RequestStep, ReadBody, ReadCutBody, LookUp, ExchangeCode, ExchangeFails, FetchProfile,
         FetchFails, UseStore
<1>4. used' \in [DOMAIN Budget -> Nat]
  BY <1>1, <1>3, SpendTypes DEF TypeOK, Budget
<1>5. spent' \in SUBSET Codes
  <2>1. spent' = spent \/ (web[r].pc = "exchange" /\ spent' = spent \union {web[r].code})
    BY DEF RequestStep, ReadBody, ReadCutBody, LookUp, ExchangeCode, ExchangeFails, FetchProfile,
           FetchFails, UseStore
  <2>2. web[r].pc = "exchange" => web[r].code \in Codes
    BY <1>1, RequestFields DEF Ways
  <2> QED
    BY <1>1, <2>1, <2>2 DEF TypeOK
<1>6. accounts' \subseteq [channel : {t.channel : t \in Templates} \union {Unset}, id : Ids]
  <2>1. accounts' = accounts \/ accounts' = accounts \union {Account(web[r])}
    BY DEF RequestStep, ReadBody, ReadCutBody, LookUp, ExchangeCode, ExchangeFails, FetchProfile,
           FetchFails, UseStore
  <2>2. Account(web[r]) \in [channel : {t.channel : t \in Templates} \union {Unset}, id : Ids]
    BY <1>1, RequestFields DEF Account
  <2> QED
    BY <1>1, <2>1, <2>2 DEF TypeOK
<1>7. web' \in [Web -> Requests]
  <2>1. CASE ReadCutBody(r) /\ web[r].kind = "sync"
    <3>1. web' = [web EXCEPT ![r] = [web[r] EXCEPT !.pc = "lookup", !.code = NoCode, !.token = FALSE]]
      BY <2>1 DEF ReadCutBody
    <3>2. [web[r] EXCEPT !.pc = "lookup", !.code = NoCode, !.token = FALSE] \in Requests
      BY <1>1 DEF Requests, WebPC
    <3> QED
      BY <1>1, <3>1, <3>2
  <2>2. CASE AskForId(r, web[r])
    BY <1>1, <2>2, AskTypes
  <2>3. CASE ~(ReadCutBody(r) /\ web[r].kind = "sync") /\ ~AskForId(r, web[r])
    <3>1. IdAfterExchange(web[r]) \in Ids /\ web[r].id \in Ids
      BY <1>1, IdTypes, RequestFields DEF IdAfterExchange
    <3>2. PICK pc \in {"store", "lookup", "failed", "closed", "userinfo", "refused", "ok", "need_register"},
               id \in {web[r].id, IdAfterExchange(web[r])} : GoAs(r, pc, id)
      <4>1. CASE ReadBody(r) \/ ReadCutBody(r) \/ LookUp(r)
        BY <2>3, <4>1 DEF ReadBody, ReadCutBody, LookUp, Go
      <4>2. CASE ExchangeCode(r) \/ ExchangeFails(r)
        BY <4>2 DEF ExchangeCode, ExchangeFails, Go
      <4>3. CASE FetchProfile(r) \/ FetchFails(r)
        BY <4>3 DEF FetchProfile, FetchFails, WithoutProfile, Go
      <4>4. CASE UseStore(r)
        BY <4>4 DEF UseStore, Go
      <4> QED
        BY <4>1, <4>2, <4>3, <4>4 DEF RequestStep
    <3>3. pc \in WebPC
      BY <3>2 DEF WebPC, Finished
    <3> QED
      BY <1>1, <3>1, <3>2, <3>3, GoTypes
  <2> QED
    BY <2>1, <2>2, <2>3
<1> QED
  BY <1>1, <1>2, <1>4, <1>5, <1>6, <1>7 DEF TypeOK, life

LEMMA RequestKeeps ==
    ASSUME ServerInv, NEW r \in Web, RequestStep(r)
    PROVE  ServerInv'
<1>1. TypeOK /\ Life /\ Late /\ Ways /\ PairIsThere /\ Told
  BY DEF ServerInv
<1>2. UNCHANGED <<life, call>>
  BY DEF RequestStep, ReadBody, ReadCutBody, LookUp, ExchangeCode, ExchangeFails, FetchProfile,
         FetchFails, UseStore
<1>3. UNCHANGED <<main, http, grpc, store, cfg, pair, timedOut, call>>
  BY <1>2 DEF life
<1>4. Moves(r)
  BY RequestMovesOn
<1>5. Life' /\ PairIsThere'
  BY <1>1, <1>3 DEF Life, PairIsThere, Up
<1>6. Late'
  <2>1. store = "closed" => main \notin Up
    BY <1>1 DEF Life
  <2>2. main \in Up \union {"down", "leaving"}
    BY <1>1 DEF TypeOK, Up
  <2>3. web'[r].pc = "closed" => timedOut
    BY <1>1, <1>4, <2>1, <2>2 DEF Late, Moves
  <2> QED
    BY <1>1, <1>3, <1>4, <2>3 DEF Late, Moves
<1>7. Ways'
  BY <1>1, <1>4 DEF Ways, Moves
<1>8. Told'
  BY <1>1, <1>3, <1>4 DEF Told, Moves, ToldNext
<1> QED
  BY <1>5, <1>6, <1>7, <1>8, RequestTypes DEF ServerInv

LEMMA AcceptKeeps ==
    ASSUME ServerInv, NEW r \in Web, NEW t \in Templates,
           NEW id \in {acc.id : acc \in accounts} \union {NoId}, Accept(r, t, id)
    PROVE  ServerInv'
<1>1. TypeOK /\ Life /\ Late /\ Ways /\ PairIsThere /\ Told /\ web \in [Web -> Requests]
  BY DEF ServerInv, TypeOK
<1>2. UNCHANGED <<main, http, grpc, store, cfg, pair, timedOut, call, accounts, spent>>
  BY DEF Accept, life
<1> DEFINE req == [pc |-> "body", kind |-> t.kind, channel |-> t.channel, code |-> t.code,
                   token |-> t.token, key |-> t.key, id |-> id]
<1>3. web' = [web EXCEPT ![r] = req]
  BY DEF Accept
<1>4. t.kind # "sync" => id = NoId
  BY DEF Accept
<1>5. id \in Ids
  BY <1>1, IdTypes DEF TypeOK
<1>6. req \in Requests
  BY <1>5, TemplatesAssumption DEF Requests, WebPC
<1>7. web'[r] = req /\ \A s \in Web \ {r} : web'[s] = web[s]
  BY <1>1, <1>3
<1>8. used' \in [DOMAIN Budget -> Nat]
  BY <1>1, SpendTypes DEF Accept, Budget
<1>9. TypeOK'
  BY <1>1, <1>2, <1>3, <1>6, <1>8 DEF TypeOK
<1>10. Life' /\ PairIsThere'
  BY <1>1, <1>2 DEF Life, PairIsThere, Up
<1>11. Late'
  <2>1. main = "serving"
    BY <1>1 DEF Accept, Late
  <2> QED
    BY <1>1, <1>2, <1>7, <2>1 DEF Late
<1>12. Ways'
  BY <1>1, <1>7, TemplatesAssumption, CodesAssumption DEF Ways
<1>13. Told'
  BY <1>1, <1>2, <1>4, <1>7 DEF Told
<1> QED
  BY <1>9, <1>10, <1>11, <1>12, <1>13 DEF ServerInv

-----------------------------------------------------------------------------
(* The steps of calls and of the process *)

LEMMA CallKeeps ==
    ASSUME ServerInv, NEW g \in Calls, AcceptCall(g) \/ CallStep(g)
    PROVE  ServerInv'
<1>1. TypeOK /\ Life /\ Late /\ Ways /\ PairIsThere /\ Told /\ call \in [Calls -> CallPC]
  BY DEF ServerInv, TypeOK
<1>2. UNCHANGED <<main, http, grpc, store, cfg, pair, timedOut, web, accounts, spent>>
  BY DEF AcceptCall, CallStep, ReceiveCall, CallUsesStore, life
<1>3. used' \in [DOMAIN Budget -> Nat]
  BY <1>1, SpendTypes DEF AcceptCall, CallStep, ReceiveCall, CallUsesStore, Budget, TypeOK
<1>4. PICK pc \in CallPC : call' = [call EXCEPT ![g] = pc]
  BY DEF AcceptCall, CallStep, ReceiveCall, CallUsesStore, CallPC
<1>5. TypeOK'
  BY <1>1, <1>2, <1>3, <1>4 DEF TypeOK
<1>6. Life'
  <2>1. main \in Up
    BY <1>1 DEF AcceptCall, CallStep, ReceiveCall, CallUsesStore, Life, Up, Busy, Finished
  <2> QED
    BY <1>1, <1>2, <2>1 DEF Life, Up
<1>7. Late' /\ Ways' /\ PairIsThere' /\ Told'
  BY <1>1, <1>2 DEF Late, Ways, PairIsThere, Told
<1> QED
  BY <1>5, <1>6, <1>7 DEF ServerInv

\* An environment that enables the platform and has credentials leads to a pair.
LEMMA StackHasPair ==
    ASSUME NEW env, NEW p \in BuildAuthStack(Load(env)),
           AuthModeEnabled(Load(env), "tiktok"), TikTokReady(Load(env))
    PROVE  p # NoPair
<1> DEFINE given == ParseClientSecrets(env.secrets)
           legacy == Pair(env.key, env.secret)
<1>1. Load(env).legacy = legacy
  BY DEF Load
<1>2. CASE Complete(legacy)
  BY <1>1, <1>2 DEF BuildAuthStack, Complete, NoPair, Pair
<1>3. CASE ~Complete(legacy)
  <2>1. Load(env).secrets = given
    BY <1>3 DEF Load
  <2>2. PICK key \in DOMAIN given : p = Pair(key, given[key])
    BY <1>1, <1>3, <2>1 DEF BuildAuthStack
  <2>3. key # Unset
    BY <2>2 DEF ParseClientSecrets, LastOf
  <2> QED
    BY <2>2, <2>3 DEF Pair, NoPair
<1> QED
  BY <1>2, <1>3

LEMMA StartKeeps ==
    ASSUME ServerInv, NEW env \in Environments, Start(env)
    PROVE  ServerInv'
<1>1. TypeOK
  BY DEF ServerInv
<1>2. web' \in [Web -> Requests]
  BY IdTypes DEF Start, IdleWeb, Requests, WebPC, Finished, Kinds
<1>3. used' \in [DOMAIN Budget -> Nat]
  BY <1>1, SpendTypes DEF Start, Budget
<1>4. TypeOK'
  BY <1>1, <1>2, <1>3 DEF TypeOK, Start, CallPC
<1>5. \A r \in Web : web'[r].pc = "idle" /\ web'[r].kind = "plain"
  BY DEF Start, IdleWeb
<1>6. Life' /\ Late' /\ Ways' /\ Told'
  BY <1>5 DEF Start, Life, Late, Ways, Told, Busy, Finished, Up
<1>7. PairIsThere'
  BY StackHasPair DEF Start, PairIsThere
<1> QED
  BY <1>4, <1>6, <1>7 DEF ServerInv

LEMMA GoneKeeps ==
    ASSUME ServerInv, Gone, used' \in [DOMAIN Budget -> Nat]
    PROVE  ServerInv'
<1>1. TypeOK /\ Life /\ Late /\ Ways /\ PairIsThere /\ Told /\ web \in [Web -> Requests]
  BY DEF ServerInv, TypeOK
<1>2. \A r \in Web : web'[r] = IF Busy(web[r].pc) THEN [web[r] EXCEPT !.pc = "cut"] ELSE web[r]
  BY DEF Gone
<1>3. \A r \in Web : /\ ~Busy(web'[r].pc)
                     /\ web'[r].pc \in {web[r].pc, "cut"}
                     /\ web'[r].kind = web[r].kind /\ web'[r].code = web[r].code
                     /\ web'[r].channel = web[r].channel /\ web'[r].id = web[r].id
                     /\ web'[r] \in Requests
  <2> TAKE r \in Web
  <2>1. web[r] \in Requests /\ ~Busy("cut") /\ "cut" \in WebPC
    BY <1>1 DEF Busy, Finished, WebPC
  <2>2. CASE Busy(web[r].pc)
    <3>1. web'[r] = [web[r] EXCEPT !.pc = "cut"]
      BY <1>2, <2>2
    <3>2. web'[r] \in Requests
      BY <2>1, <3>1 DEF Requests
    <3>3. web'[r].pc = "cut"
      BY <2>1, <3>1 DEF Requests
    <3> QED
      BY <2>1, <3>1, <3>2, <3>3 DEF Requests
  <2>3. CASE ~Busy(web[r].pc)
    BY <1>2, <2>1, <2>3
  <2> QED
    BY <2>2, <2>3
<1>4. \A g \in Calls : ~Busy(call'[g])
  BY DEF Gone, Busy, Finished
<1>5. TypeOK'
  BY <1>1, <1>3 DEF Gone, TypeOK, CallPC
<1>6. Life' /\ Late'
  BY <1>1, <1>3, <1>4 DEF Gone, Life, Late, Up
<1>7. Ways' /\ PairIsThere' /\ Told'
  BY <1>1, <1>3 DEF Gone, Ways, PairIsThere, Told
<1> QED
  BY <1>5, <1>6, <1>7 DEF ServerInv

\* A step of main or of a listener that loses nothing.
LEMMA ProcessKeeps ==
    ASSUME ServerInv, UNCHANGED <<cfg, pair, web, call, accounts, spent, used>>,
           HttpListens \/ GrpcServes \/ Signal \/ StopGrpc \/ StopGrpcAnyway \/ CloseStore
    PROVE  ServerInv'
<1>1. TypeOK /\ Life /\ Late /\ Ways /\ PairIsThere /\ Told
  BY DEF ServerInv
<1>2. CASE GrpcServes /\ ~Gone
  BY <1>1, <1>2 DEF ServerInv, GrpcServes, TypeOK, Life, Late, Ways, PairIsThere, Told, Up
<1>3. CASE GrpcServes /\ Gone
  BY <1>1, <1>3, GoneKeeps DEF TypeOK
<1>4. CASE HttpListens \/ Signal
  BY <1>1, <1>4 DEF ServerInv, HttpListens, Signal, TypeOK, Life, Late, Ways, PairIsThere, Told, Up
<1>5. CASE StopGrpc \/ StopGrpcAnyway
  BY <1>1, <1>5 DEF ServerInv, StopGrpc, StopGrpcAnyway, HttpDrained, NoWebBusy, TypeOK, Life, Late,
                    Ways, PairIsThere, Told, Up
<1>6. CASE CloseStore
  BY <1>1, <1>6 DEF ServerInv, CloseStore, GrpcDrained, NoCallBusy, TypeOK, Life, Late, Ways,
                    PairIsThere, Told, Up
<1> QED
  BY <1>2, <1>3, <1>4, <1>5, <1>6

-----------------------------------------------------------------------------
(* The invariant and what follows from it *)

LEMMA ServerInit == Init => ServerInv
<1> SUFFICES ASSUME Init PROVE ServerInv
  OBVIOUS
<1>1. \A r \in Web : web[r] = IdleWeb /\ web[r].pc = "idle" /\ web[r].kind = "plain"
  BY DEF Init, IdleWeb
<1>2. web \in [Web -> Requests]
  BY IdTypes DEF Init, IdleWeb, Requests, WebPC, Finished, Kinds
<1>3. TypeOK
  BY <1>2 DEF Init, TypeOK, CallPC
<1>4. Life /\ Late /\ Ways /\ Told
  BY <1>1 DEF Init, Life, Late, Ways, Told, Busy, Finished, Up
<1>5. PairIsThere
  <2>1. cfg.modes = {"mock"}
    BY DEF Init, NoConfig, Load, ParseAuthModes
  <2> QED
    BY <2>1 DEF PairIsThere, AuthModeEnabled
<1> QED
  BY <1>3, <1>4, <1>5 DEF ServerInv

LEMMA ServerStep == ServerInv /\ [Next]_vars => ServerInv'
<1> SUFFICES ASSUME ServerInv, [Next]_vars PROVE ServerInv'
  OBVIOUS
<1>1. TypeOK
  BY DEF ServerInv
<1>2. ASSUME NEW env \in Environments, Start(env) PROVE ServerInv'
  BY <1>2, StartKeeps
<1>3. CASE GrpcServes
  <2>1. CASE Gone
    BY <1>1, <1>3, <2>1, GoneKeeps DEF GrpcServes, TypeOK
  <2>2. CASE ~Gone
    BY <1>3, <2>2, ProcessKeeps DEF GrpcServes
  <2> QED
    BY <2>1, <2>2
<1>4. CASE HttpListens \/ Signal
  BY <1>4, ProcessKeeps DEF HttpListens, Signal
<1>5. CASE Fatal
  BY <1>1, <1>5, GoneKeeps, SpendTypes DEF Fatal, Budget
<1>6. CASE MainStep
  <2>1. CASE Exit
    BY <1>1, <2>1, GoneKeeps DEF Exit, TypeOK
  <2>2. CASE StopGrpc \/ StopGrpcAnyway \/ CloseStore
    BY <2>2, ProcessKeeps DEF StopGrpc, StopGrpcAnyway, CloseStore
  <2> QED
    BY <1>6, <2>1, <2>2 DEF MainStep
<1>7. ASSUME NEW r \in Web, NEW t \in Templates,
             NEW id \in {acc.id : acc \in accounts} \union {NoId}, Accept(r, t, id)
      PROVE  ServerInv'
  BY <1>7, AcceptKeeps
<1>8. ASSUME NEW r \in Web, RequestStep(r) PROVE ServerInv'
  BY <1>8, RequestKeeps
<1>9. ASSUME NEW g \in Calls, AcceptCall(g) \/ CallStep(g) PROVE ServerInv'
  BY <1>9, CallKeeps
<1>10. CASE UNCHANGED vars
  BY <1>10 DEF vars, life, ServerInv, TypeOK, Life, Late, Ways, PairIsThere, Told
<1> QED
  BY <1>2, <1>3, <1>4, <1>5, <1>6, <1>7, <1>8, <1>9, <1>10 DEF Next, WebStep, RequestStep

LEMMA ServerInvariant == Spec => []ServerInv
<1> QED
  BY ServerInit, ServerStep, PTL DEF Spec

\* Every variable holds values of its kind, with any environments and requests.
THEOREM ServerTypes == Spec => []TypeOK
<1>1. ServerInv => TypeOK
  BY DEF ServerInv
<1> QED
  BY <1>1, ServerInvariant, PTL

\* No gRPC call meets a closed store (main.go:33, 80-81), with any number of
\* calls, requests, signals and restarts.
THEOREM CallsAreServed == Spec => []CallsFindStoreOpen
<1>1. ServerInv => CallsFindStoreOpen
  BY DEF ServerInv, Life, CallsFindStoreOpen
<1> QED
  BY <1>1, ServerInvariant, PTL

\* HTTP requests are lost to the regular way out only once Shutdown has used up
\* its time (main.go:78-80).
THEOREM RequestsAreWaitedFor == Spec => []HttpLostOnlyAfterTimeout
<1>1. ServerInv => HttpLostOnlyAfterTimeout
  BY DEF ServerInv, Late, HttpLostOnlyAfterTimeout
<1> QED
  BY <1>1, ServerInvariant, PTL

\* With any environment, a channel in the mode tiktok has its codes answered by
\* the platform (config.go ModeForChannel, router.go BuildAuthStack).
THEOREM PlatformNamesPlayers == Spec => []TikTokIdsComeFromPlatform
<1>1. ServerInv => TikTokIdsComeFromPlatform
  BY DEF ServerInv, Told, TikTokIdsComeFromPlatform
<1> QED
  BY <1>1, ServerInvariant, PTL

\* A failing profile request never costs a login its code (profile.go:210-214).
THEOREM LoginsOutlive == Spec => []LoginOutlivesProfileFailure
<1>1. ServerInv => LoginOutlivesProfileFailure
  BY DEF ServerInv, Told, LoginOutlivesProfileFailure
<1> QED
  BY <1>1, ServerInvariant, PTL

\* A request that is refused in the step of another one does not exist.
LEMMA OthersStay ==
    ASSUME ServerInv, NEW r \in Web, NEW s \in Web \ {r}, RequestStep(s)
    PROVE  web'[r] = web[r]
  BY RequestMovesOn DEF Moves

\* The pair of a profile request is the one that the platform knows.
LEMMA OwnPairIsRight ==
    ASSUME NEW req, req.kind = "profile", OwnFreshCode(req)
    PROVE  /\ PairFor(req) = Pair(req.key, Right[req.key])
           /\ Complete(PairFor(req)) /\ Redeems(PairFor(req), req.code)
<1>1. PairFor(req) = Pair(req.key, Right[req.key])
  BY DEF PairFor, SecretForClientKey, OwnFreshCode
<1>2. Complete(PairFor(req))
  BY <1>1, RightAssumption DEF OwnFreshCode
<1> QED
  BY <1>1, <1>2 DEF Redeems, OwnFreshCode, Pair

LEMMA FaultIsSpent ==
    ASSUME TypeOK, Spend("fault")
    PROVE  used'.fault > used.fault
<1>1. used \in [DOMAIN Budget -> Nat] /\ "fault" \in DOMAIN Budget
  BY DEF TypeOK, Budget
<1>2. used' = [used EXCEPT !["fault"] = used["fault"] + 1]
  BY DEF Spend
<1> QED
  BY <1>1, <1>2

LEMMA OwnKeyStep ==
    ASSUME ServerInv, [Next]_vars, NEW r \in Web
    PROVE  KeyAccepted(r)
<1> SUFFICES ASSUME web[r].kind = "profile", web[r].pc \in {"body", "exchange"},
                    ModeForChannel(cfg, web[r].channel) = "tiktok", OwnFreshCode(web[r]),
                    web'[r].pc = "refused"
             PROVE  used'.fault > used.fault
  BY DEF KeyAccepted
<1>1. TypeOK /\ web \in [Web -> Requests] /\ Ways
  BY DEF ServerInv, TypeOK
<1>2. web'[r] # web[r]
  OBVIOUS
<1>3. Complete(PairFor(web[r])) /\ Redeems(PairFor(web[r]), web[r].code)
  BY OwnPairIsRight
<1>4. CASE ExchangeFails(r) \/ ReadCutBody(r)
  BY <1>1, <1>4, FaultIsSpent DEF ExchangeFails, ReadCutBody
<1>5. CASE ReadBody(r)
  <2>1. ByPlatform(web[r]) /\ AskForId(r, web[r])
    BY <1>5 DEF ReadBody, ByPlatform
  <2>2. web[r].code # NoCode
    BY <1>1 DEF Ways
  <2>3. GoAs(r, "exchange", web[r].id)
    BY <1>3, <2>1, <2>2 DEF AskForId, Go
  <2> QED
    BY <1>1, <2>3, GoKeeps
<1>6. CASE ExchangeCode(r)
  BY <1>1, <1>3, <1>6, GoKeeps DEF ExchangeCode
<1>7. CASE LookUp(r) \/ FetchProfile(r) \/ FetchFails(r) \/ UseStore(r)
  BY <1>7 DEF LookUp, FetchProfile, FetchFails, UseStore
<1>8. CASE \E s \in Web \ {r} : RequestStep(s)
  BY <1>2, <1>8, OthersStay
<1>9. CASE \E s \in Web, t \in Templates, id \in {acc.id : acc \in accounts} \union {NoId} :
             Accept(s, t, id)
  <2>1. PICK s \in Web, t \in Templates, id \in {acc.id : acc \in accounts} \union {NoId} :
               Accept(s, t, id)
    BY <1>9
  <2>2. web'[s].pc = "body" /\ (s # r => web'[r] = web[r])
    BY <1>1, <2>1 DEF Accept
  <2> QED
    BY <1>2, <2>2
<1>10. CASE Gone
  <2>1. web'[r] = [web[r] EXCEPT !.pc = "cut"] \/ web'[r] = web[r]
    BY <1>10 DEF Gone
  <2> QED
    BY <1>1, <1>2, <2>1 DEF Requests
<1>11. CASE UNCHANGED web
  BY <1>2, <1>11
<1>12. CASE \E env \in Environments : Start(env)
  <2>1. web'[r].pc = "idle"
    BY <1>12 DEF Start, IdleWeb
  <2> QED
    BY <2>1
<1>13. \/ UNCHANGED web \/ Gone
       \/ \E env \in Environments : Start(env)
       \/ \E s \in Web : RequestStep(s)
       \/ \E s \in Web, t \in Templates, id \in {acc.id : acc \in accounts} \union {NoId} :
             Accept(s, t, id)
  <2>1. HttpListens \/ Signal \/ StopGrpc \/ StopGrpcAnyway \/ CloseStore => UNCHANGED web
    BY DEF HttpListens, Signal, StopGrpc, StopGrpcAnyway, CloseStore
  <2>2. GrpcServes \/ Fatal \/ Exit => UNCHANGED web \/ Gone
    BY DEF GrpcServes, Fatal, Exit
  <2>3. \A g \in Calls : AcceptCall(g) \/ CallStep(g) => UNCHANGED web
    BY DEF AcceptCall, CallStep, ReceiveCall, CallUsesStore
  <2>4. UNCHANGED vars => UNCHANGED web
    BY DEF vars
  <2> QED
    BY <2>1, <2>2, <2>3, <2>4 DEF Next, MainStep, WebStep, RequestStep
<1>14. (\E s \in Web : RequestStep(s)) => RequestStep(r) \/ \E s \in Web \ {r} : RequestStep(s)
  OBVIOUS
<1> QED
  BY <1>4, <1>5, <1>6, <1>7, <1>8, <1>9, <1>10, <1>11, <1>12, <1>13, <1>14 DEF RequestStep

\* With any environment, a game's own fresh code is good for a profile request
\* wherever the game is registered with its right secret.
THEOREM OwnKeys == Spec => OwnKeyIsAccepted
<1>1. ServerInv /\ [Next]_vars => [\A r \in Web : KeyAccepted(r)]_vars
  BY OwnKeyStep
<1> QED
  BY <1>1, ServerInvariant, PTL DEF Spec, OwnKeyIsAccepted
=============================================================================
