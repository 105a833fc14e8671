----------------------------- MODULE ServerProps -----------------------------
(***************************************************************************)
(* The correctness properties of Server.                                   *)
(***************************************************************************)
EXTENDS Server

Ids == {NoId} \union UNION {{PlatformId(code), MockId(code)} : code \in Codes \union {NoCode}}

Requests == [pc : WebPC, kind : Kinds, channel : {t.channel : t \in Templates} \union {Unset},
             code : Codes \union {NoCode}, token : BOOLEAN,
             key : {t.key : t \in Templates} \union {Unset}, id : Ids]

\* Every variable holds values of its kind; an open id is one that the platform
\* or the mock has made of a code.
TypeOK ==
    /\ main \in {"down", "serving", "stopping_http", "stopping_grpc", "leaving"}
    /\ http \in {"off", "starting", "listening"}
    /\ grpc \in {"off", "starting", "serving"}
    /\ store \in {"open", "closed"}
    /\ timedOut \in BOOLEAN
    /\ web \in [Web -> Requests]
    /\ call \in [Calls -> CallPC]
    /\ accounts \subseteq [channel : {t.channel : t \in Templates} \union {Unset}, id : Ids]
    /\ spent \subseteq Codes
    /\ used \in [DOMAIN Budget -> Nat]

-----------------------------------------------------------------------------
(* The way out *)

\* As long as a game's server waits for an answer of a gRPC call the store is
\* open: whatever the order of signal, listeners and calls, the deferred Close
\* comes after the last answer (main.go:33, 80-81).
CallsFindStoreOpen == \A g \in Calls : Busy(call[g]) => store = "open"

\* An HTTP request meets a closed store, or is cut off by the regular exit,
\* only where Shutdown has used up its 5 s (main.go:78-80).
HttpLostOnlyAfterTimeout ==
    (\E r \in Web : web[r].pc = "closed" \/ (main = "leaving" /\ Busy(web[r].pc)))
    => timedOut

\* GracefulStop waits for a call whose message has not come.
HeldByCall == main = "stopping_grpc" /\ \E g \in Calls : call[g] = "receive"

\* After a signal the process ends, unless GracefulStop, which has no deadline,
\* waits for the message of a call for ever (main.go:81).  Nothing else holds
\* it: not an HTTP client that never sends its body (main.go:78-80), not calls
\* that come in while HTTP requests are waited for, not a listener that starts
\* late.
OnlyCallsHoldTheEnd == (main = "stopping_http") ~> (main = "down" \/ []HeldByCall)

-----------------------------------------------------------------------------
(* Who answers a code *)

\* Where the configuration has the platform answer for a channel, nobody gets
\* the account of an open id the platform has not named, mock codes aside: the
\* two places that read the credentials (config.go ModeForChannel, router.go
\* BuildAuthStack) agree, with any mixture of pairs.
TikTokIdsComeFromPlatform ==
    \A r \in Web :
        /\ web[r].kind \in {"login", "register"}
        /\ web[r].pc \in {"store", "ok", "need_register"}
        /\ ~web[r].code.mock
        /\ ModeForChannel(cfg, web[r].channel) = "tiktok"
        => web[r].id = PlatformId(web[r].code)

\* A login or register whose code the platform has exchanged is not refused
\* for want of a profile (profile.go:210-214, router.go:100): the code is spent
\* and the player could not try again.
LoginOutlivesProfileFailure ==
    \A r \in Web :
        web[r].kind \in {"login", "register"} /\ web[r].pc = "refused" => web[r].id = NoId

\* The fresh code of a game that is registered with its right secret.
OwnFreshCode(req) ==
    /\ req.key \in DOMAIN cfg.secrets \intersect DOMAIN Right
    /\ cfg.secrets[req.key] = Right[req.key]
    /\ ~req.code.mock /\ req.code.key = req.key /\ req.code \notin spent

KeyAccepted(r) ==
    /\ web[r].kind = "profile" /\ web[r].pc \in {"body", "exchange"}
    /\ ModeForChannel(cfg, web[r].channel) = "tiktok"
    /\ OwnFreshCode(web[r])
    /\ web'[r].pc = "refused"
    => used'.fault > used.fault

\* Such a code is not refused to a profile request unless the platform fails,
\* whichever pair the process uses for logins (service.go:965-977, config.go
\* SecretForClientKey).
OwnKeyIsAccepted == [][\A r \in Web : KeyAccepted(r)]_vars
=============================================================================
