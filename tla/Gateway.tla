------------------------------- MODULE Gateway -------------------------------
(***************************************************************************)
(* Whose score a request is about: how the HTTP and gRPC handlers turn the *)
(* fields of a request and its session into an app, a channel, a player id *)
(* and rank windows.                                                       *)
(*                                                                         *)
(* An id is a sequence of segments, the parts between its underscores, and *)
(* NoId is the empty string; joining with an underscore is concatenation.  *)
(* What a request does to the store is one step here: Leaderboard and      *)
(* Accounts take it apart.  Windows stand for their current bucket.        *)
(***************************************************************************)
EXTENDS Integers, Sequences

CONSTANTS
    Devices,
    Homes,          \* Homes[d]: the accounts of the person at device d
    Forms,          \* Forms[d]: which of its fields a request of d carries
    Specs,          \* lists of windows a write may name, <<>> for none
    Asked,          \* windows reads ask for, "unnamed" for none
    DefaultApp, DefaultChannel,     \* RANK_DEFAULT_APP_ID, ChannelTikTokMinis
    TTL,            \* life of a session
    MaxNow, MaxRequests             \* bounds

NoId == <<>>
Windows == {"day", "week", "month", "all"}
Unnamed == "unnamed"
Refused == {"failed", "unauthorized", "forbidden", "need_register"}

Form == [app : BOOLEAN, channel : BOOLEAN, id : {"none", "open_id", "player_id"}]
Accounts == UNION {Homes[d] : d \in Devices}

ASSUME FormsAssumption == Forms \in [Devices -> SUBSET Form]
ASSUME DefaultsAssumption == DefaultApp # NoId /\ DefaultChannel # NoId
ASSUME HomesAssumption == \A h \in Accounts : h.app # NoId /\ h.channel # NoId /\ h.open # NoId
ASSUME AskedAssumption == Asked \subseteq Windows \union {Unnamed}
ASSUME GatewayBounds == MaxNow \in Nat /\ MaxRequests \in Nat /\ TTL \in Nat \ {0}

VARIABLES
    now,        \* the wall clock
    accounts,   \* registered accounts
    session,    \* session[d]: the token d holds
    rows,       \* what has been written; meant and unnamed are auxiliary
    reply,      \* reply[d]: the last answer d got
    requests    \* number of requests so far

vars == <<now, accounts, session, rows, reply, requests>>

-----------------------------------------------------------------------------
(* Ids *)

AccountID(channel, openID) == channel \o openID

\* Split at the first underscore: both parts have to be there.
IsAccountID(id) == Len(id) >= 2
ParseAccountID(id) == [channel |-> <<Head(id)>>, open |-> Tail(id)]

FirstNonEmpty(a, b) == IF a # NoId THEN a ELSE b

Sent(named, value) == IF named THEN value ELSE NoId

\* The open id of a player_id field: that of an account id, or the field itself.
OpenIDOf(hint) == IF IsAccountID(hint) THEN ParseAccountID(hint).open ELSE hint

-----------------------------------------------------------------------------
(* Windows *)

Expand(token) ==
    IF token = "full" THEN Windows ELSE IF token = "both" THEN {"week", "month"} ELSE {token}

\* An unknown window is an error unless "full" comes before it.
BadSpec(spec) ==
    \E i \in DOMAIN spec : /\ Expand(spec[i]) \ Windows # {}
                           /\ \A j \in 1..(i - 1) : spec[j] # "full"

ParseWriteRankTypes(spec) ==
    IF spec = <<>> THEN Windows ELSE (UNION {Expand(spec[i]) : i \in DOMAIN spec}) \intersect Windows

\* Fault: the windows of the former default.
DayAndMonth(spec) == IF spec = <<>> THEN <<"day", "month">> ELSE spec

\* HTTP writes and gRPC UpsertMaxScore that name no window: week and month.
WriteSpec(spec) == IF spec = <<>> THEN <<"both">> ELSE spec

\* Reads that name none: the week.
ParseRankType(window) == IF window = Unnamed THEN "week" ELSE window

-----------------------------------------------------------------------------
(* Sessions, and who a request speaks for *)

NoSession == [app |-> NoId, channel |-> NoId, open |-> NoId, player |-> NoId, exp |-> 0]

\* Fault: the player of a token is the open id, as before account ids.
IssueForOpenID(h, t) ==
    [app |-> h.app, channel |-> h.channel, open |-> h.open, player |-> h.open, exp |-> t + TTL]

Issue(h, t) ==
    [app |-> h.app, channel |-> h.channel, open |-> h.open,
     player |-> AccountID(h.channel, h.open), exp |-> t + TTL]

Valid(s) == s.exp > now

Refuse(status) == [status |-> status, app |-> NoId, channel |-> NoId, player |-> NoId]

\* Fault: a session speaks for every app and channel.
AnyAppAndChannel(s, app, channel) ==
    [status |-> "ok", player |-> s.player, app |-> FirstNonEmpty(app, s.app),
     channel |-> FirstNonEmpty(channel, s.channel)]

\* A valid session decides; app and channel of the request must agree with it.
FromSession(s, app, channel) ==
    IF FirstNonEmpty(app, s.app) = s.app /\ FirstNonEmpty(channel, s.channel) = s.channel
    THEN [status |-> "ok", app |-> s.app, channel |-> s.channel, player |-> s.player]
    ELSE Refuse("forbidden")

\* handleScore, handleLeaderboard: nobody without a session.
RequireSession(d, h, f) ==
    IF Valid(session[d])
    THEN FromSession(session[d], Sent(f.app, h.app), Sent(f.channel, h.channel))
    ELSE Refuse("unauthorized")

PlayerID(channel, open) == IF open = NoId THEN NoId ELSE AccountID(channel, open)

\* The imrank handlers: without a session, the ids of the request.
ResolveImRankPlayer(d, h, f) ==
    LET hint    == Sent(f.id = "player_id", AccountID(h.channel, h.open))
        open    == FirstNonEmpty(Sent(f.id = "open_id", h.open), OpenIDOf(hint))
        channel == FirstNonEmpty(Sent(f.channel, h.channel), DefaultChannel)
    IN  IF Valid(session[d])
        THEN FromSession(session[d], Sent(f.app, h.app), Sent(f.channel, h.channel))
        ELSE [status  |-> "ok",
              app     |-> FirstNonEmpty(Sent(f.app, h.app), DefaultApp),
              channel |-> channel,
              player  |-> PlayerID(channel, open)]

-----------------------------------------------------------------------------
(* Answers *)

NoReply == [kind |-> "none", status |-> "none", meant |-> NoId, player |-> NoId,
            unnamed |-> FALSE, found |-> FALSE]

Request == requests < MaxRequests /\ requests' = requests + 1

Answer(d, kind, status) ==
    reply' = [reply EXCEPT ![d] = [NoReply EXCEPT !.kind = kind, !.status = status]]

\* A write for `who` of the windows spec names, meant for the account h.
WriteFor(d, h, who, spec, unnamed) ==
    LET accepted == who.status = "ok" /\ who.player # NoId /\ ~BadSpec(spec)
        written  == {[app |-> who.app, channel |-> who.channel, window |-> w, player |-> who.player,
                      meant |-> h, unnamed |-> unnamed] : w \in ParseWriteRankTypes(spec)}
    IN  /\ rows' = IF accepted THEN rows \union written ELSE rows
        /\ Answer(d, "write", IF accepted THEN "ok"
                              ELSE IF who.status # "ok" THEN who.status
                              ELSE IF who.player = NoId THEN "unauthorized" ELSE "failed")
        /\ Request
        /\ UNCHANGED <<now, accounts, session>>

Stored(who, window) ==
    \E r \in rows : /\ r.app = who.app
                    /\ r.channel = who.channel
                    /\ r.player = who.player
                    /\ r.window = window

\* A read of one window, with the own rank of `who`.
ReadFor(d, h, who, window) ==
    /\ reply' = [reply EXCEPT ![d] =
            [kind |-> "read", status |-> who.status, meant |-> h, player |-> who.player,
             unnamed |-> window = Unnamed,
             found |-> who.status = "ok" /\ Stored(who, ParseRankType(window))]]
    /\ Request
    /\ UNCHANGED <<now, accounts, session, rows>>

-----------------------------------------------------------------------------
(* HTTP *)

\* The code or open_id of the request, or else the session, says who registers.
Register(d, h, f) ==
    LET s       == session[d]
        own     == f.id # "open_id" /\ Valid(s)
        app     == FirstNonEmpty(Sent(f.app, h.app), Sent(own, s.app))
        channel == FirstNonEmpty(Sent(f.channel, h.channel), Sent(own, s.channel))
        open    == FirstNonEmpty(Sent(f.id = "open_id", h.open), Sent(own, s.open))
        accepted == app # NoId /\ channel # NoId /\ open # NoId
    IN  /\ accounts' = IF accepted
                       THEN accounts \union {[app |-> app, channel |-> channel, open |-> open]}
                       ELSE accounts
        /\ Answer(d, "register", IF accepted THEN "ok" ELSE "failed")
        /\ Request
        /\ UNCHANGED <<now, session, rows>>

\* The code of the platform stands for the person's open id.
Login(d, h) ==
    /\ IF h \in accounts
       THEN /\ session' = [session EXCEPT ![d] = Issue(h, now)]
            /\ Answer(d, "login", "ok")
       ELSE Answer(d, "login", "need_register") /\ UNCHANGED session
    /\ Request
    /\ UNCHANGED <<now, accounts, rows>>

Score(d, h, f, spec) == WriteFor(d, h, RequireSession(d, h, f), WriteSpec(spec), spec = <<>>)

GetLeaderboard(d, h, f, window) == ReadFor(d, h, RequireSession(d, h, f), window)

SetImRankData(d, h, f, spec) ==
    WriteFor(d, h, ResolveImRankPlayer(d, h, f), WriteSpec(spec), spec = <<>>)

\* getImRankList and getImRankData.
GetImRank(d, h, f, window) == ReadFor(d, h, ResolveImRankPlayer(d, h, f), window)

-----------------------------------------------------------------------------
(* gRPC: the game's server names app, channel and account id in full. *)

Explicit(h) ==
    [status |-> "ok", app |-> h.app, channel |-> h.channel, player |-> AccountID(h.channel, h.open)]

GrpcUpsertMaxScore(d, h, spec) == WriteFor(d, h, Explicit(h), WriteSpec(spec), spec = <<>>)

GrpcSetImRankData(d, h, spec) == WriteFor(d, h, Explicit(h), spec, spec = <<>>)

\* A window has to be named.
GrpcGetLeaderboard(d, h, window) ==
    ReadFor(d, h, IF window = Unnamed THEN Refuse("failed") ELSE Explicit(h), window)

GrpcGetImRank(d, h, window) == ReadFor(d, h, Explicit(h), window)

\* player_id is the open id here.
GrpcReportPlayerRegister(d, h) ==
    /\ accounts' = accounts \union {[app |-> h.app, channel |-> h.channel, open |-> h.open]}
    /\ Answer(d, "register", "ok")
    /\ Request
    /\ UNCHANGED <<now, session, rows>>

-----------------------------------------------------------------------------

Tick == now < MaxNow /\ now' = now + 1 /\ UNCHANGED <<accounts, session, rows, reply, requests>>

Init ==
    /\ now = 0
    /\ accounts = {}
    /\ session = [d \in Devices |-> NoSession]
    /\ rows = {}
    /\ reply = [d \in Devices |-> NoReply]
    /\ requests = 0

Http(d, h) ==
    \/ Login(d, h)
    \/ \E f \in Forms[d] :
          \/ Register(d, h, f)
          \/ \E spec \in Specs : Score(d, h, f, spec) \/ SetImRankData(d, h, f, spec)
          \/ \E window \in Asked :
                GetLeaderboard(d, h, f, window) \/ GetImRank(d, h, f, window)

Grpc(d, h) ==
    \/ GrpcReportPlayerRegister(d, h)
    \/ \E spec \in Specs : GrpcUpsertMaxScore(d, h, spec) \/ GrpcSetImRankData(d, h, spec)
    \/ \E window \in Asked :
          GrpcGetLeaderboard(d, h, window) \/ GrpcGetImRank(d, h, window)

Next ==
    \/ \E d \in Devices : \E h \in Homes[d] : Http(d, h) \/ Grpc(d, h)
    \/ Tick

Spec == Init /\ [][Next]_vars
=============================================================================
