---------------------------- MODULE GatewayProofs ----------------------------
(***************************************************************************)
(* A token names a registered account of its device, and every score is    *)
(* stored under the account it was sent for, for any number of devices,    *)
(* accounts, apps, channels and requests; the latter as long as clients    *)
(* are careful about what they leave out.                                  *)
(***************************************************************************)
EXTENDS GatewayProps, SequenceTheorems, TLAPS

\* The request of a device with a valid session that agrees with it is about
\* the account the device means.
LEMMA SessionSpeaks ==
    ASSUME CarefulClients, OneAccountEach, now \in Nat, SessionIsOwn,
           NEW d \in Devices, NEW h \in Homes[d], NEW f \in Forms[d],
           Valid(session[d]),
           FromSession(session[d], Sent(f.app, h.app), Sent(f.channel, h.channel)).status = "ok"
    PROVE  /\ session[d].app = h.app
           /\ session[d].channel = h.channel
           /\ session[d].player = AccountID(h.channel, h.open)
<1> DEFINE s == session[d]
<1>1. s # NoSession
  BY DEF Valid, NoSession
<1>2. PICK g \in Homes[d] : /\ s.app = g.app
                            /\ s.channel = g.channel
                            /\ s.player = AccountID(g.channel, g.open)
  BY <1>1 DEF SessionIsOwn
<1>3. h.app # NoId /\ h.channel # NoId
  BY HomesAssumption DEF Accounts
<1>4. /\ FirstNonEmpty(Sent(f.app, h.app), s.app) = s.app
      /\ FirstNonEmpty(Sent(f.channel, h.channel), s.channel) = s.channel
  BY DEF FromSession, Refuse
<1>5. f.app \in BOOLEAN /\ f.channel \in BOOLEAN
  BY FormsAssumption DEF Form
<1>6. CASE f.app /\ f.channel
  <2>1. g.app = h.app /\ g.channel = h.channel
    BY <1>2, <1>3, <1>4, <1>6 DEF FirstNonEmpty, Sent
  <2>2. g = h
    BY <2>1 DEF OneAccountEach
  <2> QED BY <2>2, <1>2
<1>7. CASE ~(f.app /\ f.channel)
  <2>1. Homes[d] = {h}
    BY <1>7 DEF CarefulClients
  <2>2. g = h
    BY <2>1
  <2> QED BY <2>2, <1>2
<1> QED BY <1>5, <1>6, <1>7

\* Whom a request speaks for, once it is accepted, is the account it is meant for.
Speaks(who, h) ==
    who.status = "ok" /\ who.player # NoId =>
        /\ who.app = h.app
        /\ who.channel = h.channel
        /\ who.player = AccountID(h.channel, h.open)

LEMMA SessionRequestSpeaks ==
    ASSUME CarefulClients, OneAccountEach, now \in Nat, SessionIsOwn,
           NEW d \in Devices, NEW h \in Homes[d], NEW f \in Forms[d], Valid(session[d])
    PROVE  Speaks(FromSession(session[d], Sent(f.app, h.app), Sent(f.channel, h.channel)), h)
<1> DEFINE who == FromSession(session[d], Sent(f.app, h.app), Sent(f.channel, h.channel))
<1>1. SUFFICES ASSUME who.status = "ok"
               PROVE  /\ who.app = h.app
                      /\ who.channel = h.channel
                      /\ who.player = AccountID(h.channel, h.open)
  BY DEF Speaks
<1>2. /\ who.app = session[d].app
      /\ who.channel = session[d].channel
      /\ who.player = session[d].player
  BY <1>1 DEF FromSession, Refuse
<1> QED BY <1>1, <1>2, SessionSpeaks

LEMMA RequireSessionSpeaks ==
    ASSUME CarefulClients, OneAccountEach, now \in Nat, SessionIsOwn,
           NEW d \in Devices, NEW h \in Homes[d], NEW f \in Forms[d]
    PROVE  Speaks(RequireSession(d, h, f), h)
<1>1. CASE Valid(session[d])
  BY <1>1, SessionRequestSpeaks DEF RequireSession
<1>2. CASE ~Valid(session[d])
  BY <1>2 DEF RequireSession, Refuse, Speaks
<1> QED BY <1>1, <1>2

LEMMA ResolveSpeaks ==
    ASSUME CarefulClients, OneAccountEach, now \in Nat, SessionIsOwn,
           NEW d \in Devices, NEW h \in Homes[d], NEW f \in Forms[d]
    PROVE  Speaks(ResolveImRankPlayer(d, h, f), h)
<1> DEFINE who == ResolveImRankPlayer(d, h, f)
<1>1. CASE Valid(session[d])
  BY <1>1, SessionRequestSpeaks DEF ResolveImRankPlayer
<1>2. CASE ~Valid(session[d])
  <2>1. h.app # NoId /\ h.channel # NoId /\ h.open # NoId
    BY HomesAssumption DEF Accounts
  <2>2. f.app \in BOOLEAN /\ f.channel \in BOOLEAN /\ f.id \in {"none", "open_id"}
    BY FormsAssumption DEF Form, CarefulClients
  <2>3. who.app = h.app /\ who.channel = h.channel
    BY <1>2, <2>1, <2>2 DEF ResolveImRankPlayer, FirstNonEmpty, Sent, CarefulClients
  <2>4. Sent(f.id = "player_id", AccountID(h.channel, h.open)) = NoId
    BY <2>2 DEF Sent
  <2>5. OpenIDOf(NoId) = NoId
    BY DEF OpenIDOf, IsAccountID, NoId
  <2>6. who.player = PlayerID(h.channel, Sent(f.id = "open_id", h.open))
    BY <1>2, <2>1, <2>2, <2>3, <2>4, <2>5 DEF ResolveImRankPlayer, FirstNonEmpty, Sent
  <2>7. who.player # NoId => who.player = AccountID(h.channel, h.open)
    BY <2>6 DEF PlayerID, Sent
  <2> QED BY <2>3, <2>7 DEF Speaks
<1> QED BY <1>1, <1>2

\* A request that speaks for the account it is meant for adds rows of that
\* account only.
LEMMA WriteKeepsRows ==
    ASSUME RowsAreMeant, NEW d, NEW h, NEW who, NEW spec, NEW unnamed,
           Speaks(who, h), WriteFor(d, h, who, spec, unnamed)
    PROVE  RowsAreMeant'
<1> DEFINE row(w) == [app |-> who.app, channel |-> who.channel, window |-> w,
                      player |-> who.player, meant |-> h, unnamed |-> unnamed]
<1> SUFFICES ASSUME NEW r \in rows'
             PROVE  /\ r.app = r.meant.app
                    /\ r.channel = r.meant.channel
                    /\ r.player = AccountID(r.meant.channel, r.meant.open)
  BY DEF RowsAreMeant
<1>1. CASE r \in rows
  BY <1>1 DEF RowsAreMeant
<1>2. CASE r \notin rows
  <2>1. who.status = "ok" /\ who.player # NoId
    BY <1>2 DEF WriteFor
  <2>2. \E w : r = row(w)
    BY <1>2 DEF WriteFor
  <2> QED BY <2>1, <2>2 DEF Speaks
<1> QED BY <1>1, <1>2

LEMMA ExplicitSpeaks == ASSUME NEW h PROVE Speaks(Explicit(h), h)
BY DEF Speaks, Explicit

\* Tokens stay while accounts are only added.
LEMMA SessionKept ==
    ASSUME SessionIsOwn, UNCHANGED session, accounts \subseteq accounts'
    PROVE  SessionIsOwn'
<1> SUFFICES ASSUME NEW d \in Devices, session[d] # NoSession
             PROVE  \E h \in Homes[d] \intersect accounts' :
                        /\ session[d].app = h.app
                        /\ session[d].channel = h.channel
                        /\ session[d].open = h.open
                        /\ session[d].player = AccountID(h.channel, h.open)
  BY DEF SessionIsOwn
<1> QED BY DEF SessionIsOwn

LEMMA LoginKeepsTokens ==
    ASSUME TokenInv, NEW d \in Devices, NEW h \in Homes[d], Login(d, h)
    PROVE  TokenInv'
<1>1. now' \in Nat /\ accounts' = accounts
  BY DEF Login, TokenInv
<1>2. CASE h \notin accounts
  <2>1. UNCHANGED session
    BY <1>2 DEF Login
  <2> QED BY <1>1, <2>1, SessionKept DEF TokenInv
<1>3. CASE h \in accounts
  <2>1. session' = [session EXCEPT ![d] = Issue(h, now)]
    BY <1>3 DEF Login
  <2>2. session' = [e \in Devices |-> session'[e]]
    BY <2>1 DEF TokenInv
  <2>3. ASSUME NEW e \in Devices, session'[e] # NoSession
        PROVE  \E g \in Homes[e] \intersect accounts' :
                    /\ session'[e].app = g.app
                    /\ session'[e].channel = g.channel
                    /\ session'[e].open = g.open
                    /\ session'[e].player = AccountID(g.channel, g.open)
    <3>1. CASE e = d
      <4>1. session'[e] = Issue(h, now)
        BY <2>1, <3>1 DEF TokenInv
      <4> QED BY <4>1, <3>1, <1>1, <1>3 DEF Issue
    <3>2. CASE e # d
      <4>1. session'[e] = session[e]
        BY <2>1, <3>2 DEF TokenInv
      <4> QED BY <4>1, <2>3, <1>1 DEF TokenInv, SessionIsOwn
    <3> QED BY <3>1, <3>2
  <2>4. SessionIsOwn'
    BY <2>3 DEF SessionIsOwn
  <2> QED BY <1>1, <2>2, <2>4 DEF TokenInv
<1> QED BY <1>2, <1>3

\* What every step but a login does to the tokens and the accounts.
Quiet == now' \in Nat /\ UNCHANGED session /\ accounts \subseteq accounts'

LEMMA QuietKeepsTokens ==
    ASSUME TokenInv, Quiet
    PROVE  TokenInv'
BY SessionKept DEF TokenInv, Quiet

LEMMA WritesAndReadsAreQuiet ==
    ASSUME now \in Nat, NEW d, NEW h, NEW who, NEW what, NEW unnamed,
           WriteFor(d, h, who, what, unnamed) \/ ReadFor(d, h, who, what)
    PROVE  Quiet
BY DEF Quiet, WriteFor, ReadFor

LEMMA HttpKeepsTokens ==
    ASSUME TokenInv, NEW d \in Devices, NEW h \in Homes[d], Http(d, h)
    PROVE  TokenInv'
<1>1. now \in Nat
  BY DEF TokenInv
<1>2. CASE Login(d, h)
  BY <1>2, LoginKeepsTokens
<1>3. ASSUME NEW f \in Forms[d], Register(d, h, f)
      PROVE  Quiet
  BY <1>1, <1>3 DEF Quiet, Register
<1>4. ASSUME NEW f \in Forms[d], NEW spec \in Specs,
             Score(d, h, f, spec) \/ SetImRankData(d, h, f, spec)
      PROVE  Quiet
  BY <1>1, <1>4, WritesAndReadsAreQuiet DEF Score, SetImRankData
<1>5. ASSUME NEW f \in Forms[d], NEW window \in Asked,
             GetLeaderboard(d, h, f, window) \/ GetImRank(d, h, f, window)
      PROVE  Quiet
  BY <1>1, <1>5, WritesAndReadsAreQuiet DEF GetLeaderboard, GetImRank
<1> QED BY <1>2, <1>3, <1>4, <1>5, QuietKeepsTokens DEF Http

LEMMA GrpcKeepsTokens ==
    ASSUME TokenInv, NEW d \in Devices, NEW h \in Homes[d], Grpc(d, h)
    PROVE  TokenInv'
<1>1. now \in Nat
  BY DEF TokenInv
<1>2. CASE GrpcReportPlayerRegister(d, h)
  <2>1. Quiet
    BY <1>1, <1>2 DEF Quiet, GrpcReportPlayerRegister
  <2> QED BY <2>1, QuietKeepsTokens
<1>3. ASSUME NEW spec \in Specs, GrpcUpsertMaxScore(d, h, spec) \/ GrpcSetImRankData(d, h, spec)
      PROVE  Quiet
  BY <1>1, <1>3, WritesAndReadsAreQuiet DEF GrpcUpsertMaxScore, GrpcSetImRankData
<1>4. ASSUME NEW window \in Asked, GrpcGetLeaderboard(d, h, window) \/ GrpcGetImRank(d, h, window)
      PROVE  Quiet
  BY <1>1, <1>4, WritesAndReadsAreQuiet DEF GrpcGetLeaderboard, GrpcGetImRank
<1> QED BY <1>2, <1>3, <1>4, QuietKeepsTokens DEF Grpc

LEMMA TokensInitial == Init => TokenInv
BY DEF Init, TokenInv, SessionIsOwn

LEMMA TokensPreserved == TokenInv /\ [Next]_vars => TokenInv'
<1> SUFFICES ASSUME TokenInv, [Next]_vars
             PROVE  TokenInv'
  OBVIOUS
<1>1. ASSUME NEW d \in Devices, NEW h \in Homes[d], Http(d, h) \/ Grpc(d, h)
      PROVE  TokenInv'
  BY <1>1, HttpKeepsTokens, GrpcKeepsTokens
<1>2. CASE Tick \/ UNCHANGED vars
  <2>1. Quiet
    BY <1>2 DEF Quiet, Tick, vars, TokenInv
  <2> QED BY <2>1, QuietKeepsTokens
<1> QED BY <1>1, <1>2 DEF Next

\* A token always names a registered account of the device that holds it, and
\* the player id the boards use (service.go Login, auth.go Issue).
THEOREM TokensAreOwn == Spec => []SessionIsOwn
<1>1. TokenInv => SessionIsOwn
  BY DEF TokenInv
<1> QED BY <1>1, TokensInitial, TokensPreserved, PTL DEF Spec

-----------------------------------------------------------------------------
(* The rows *)

LEMMA HttpKeepsRows ==
    ASSUME CarefulClients, OneAccountEach, TokenInv, RowsAreMeant,
           NEW d \in Devices, NEW h \in Homes[d], Http(d, h)
    PROVE  RowsAreMeant'
<1>1. now \in Nat /\ SessionIsOwn
  BY DEF TokenInv
<1>2. ASSUME NEW f \in Forms[d], NEW spec \in Specs, Score(d, h, f, spec)
      PROVE  RowsAreMeant'
  BY <1>1, <1>2, RequireSessionSpeaks, WriteKeepsRows DEF Score
<1>3. ASSUME NEW f \in Forms[d], NEW spec \in Specs, SetImRankData(d, h, f, spec)
      PROVE  RowsAreMeant'
  BY <1>1, <1>3, ResolveSpeaks, WriteKeepsRows DEF SetImRankData
<1>4. ASSUME NEW f \in Forms[d], NEW window \in Asked,
             GetLeaderboard(d, h, f, window) \/ GetImRank(d, h, f, window)
      PROVE  RowsAreMeant'
  BY <1>4 DEF GetLeaderboard, GetImRank, ReadFor, RowsAreMeant
<1>5. CASE Login(d, h) \/ \E f \in Forms[d] : Register(d, h, f)
  BY <1>5 DEF Login, Register, RowsAreMeant
<1> QED BY <1>2, <1>3, <1>4, <1>5 DEF Http

LEMMA GrpcKeepsRows ==
    ASSUME RowsAreMeant, NEW d \in Devices, NEW h \in Homes[d], Grpc(d, h)
    PROVE  RowsAreMeant'
<1>1. CASE GrpcReportPlayerRegister(d, h)
  BY <1>1 DEF RowsAreMeant, GrpcReportPlayerRegister
<1>2. ASSUME NEW spec \in Specs, GrpcUpsertMaxScore(d, h, spec) \/ GrpcSetImRankData(d, h, spec)
      PROVE  RowsAreMeant'
  BY <1>2, ExplicitSpeaks, WriteKeepsRows DEF GrpcUpsertMaxScore, GrpcSetImRankData
<1>3. ASSUME NEW window \in Asked, GrpcGetLeaderboard(d, h, window) \/ GrpcGetImRank(d, h, window)
      PROVE  RowsAreMeant'
  BY <1>3 DEF GrpcGetLeaderboard, GrpcGetImRank, ReadFor, RowsAreMeant
<1> QED BY <1>1, <1>2, <1>3 DEF Grpc

LEMMA RowsPreserved ==
    ASSUME CarefulClients, OneAccountEach
    PROVE  TokenInv /\ RowsAreMeant /\ [Next]_vars => RowsAreMeant'
<1> SUFFICES ASSUME TokenInv, RowsAreMeant, [Next]_vars
             PROVE  RowsAreMeant'
  OBVIOUS
<1>1. ASSUME NEW d \in Devices, NEW h \in Homes[d], Http(d, h) \/ Grpc(d, h)
      PROVE  RowsAreMeant'
  BY <1>1, HttpKeepsRows, GrpcKeepsRows
<1>2. CASE Tick \/ UNCHANGED vars
  BY <1>2 DEF Tick, vars, RowsAreMeant
<1> QED BY <1>1, <1>2 DEF Next

\* Careful clients have their scores stored under their own accounts, whichever
\* handler is called and whether or not a session is still valid (http.go
\* resolveImRankPlayerErr, handleScore; grpc.go).
THEOREM ScoresAreOwn ==
    ASSUME CarefulClients, OneAccountEach
    PROVE  Spec => []RowsAreMeant
<1>1. Init => RowsAreMeant
  BY DEF Init, RowsAreMeant
<1>2. TokenInv /\ RowsAreMeant /\ [Next]_vars => RowsAreMeant'
  BY RowsPreserved
<1> QED BY <1>1, <1>2, TokensInitial, TokensPreserved, PTL DEF Spec

-----------------------------------------------------------------------------
(* Rows of different accounts *)

RowsOfAccounts == \A r \in rows : r.meant \in Accounts

\* Two rows of one app, channel and player are of one account.
RowsNotShared ==
    \A r, s \in rows :
        r.app = s.app /\ r.channel = s.channel /\ r.player = s.player => r.meant = s.meant

LEMMA WriteForAccount ==
    ASSUME RowsOfAccounts, NEW d \in Devices, NEW h \in Homes[d], NEW who, NEW spec, NEW unnamed,
           WriteFor(d, h, who, spec, unnamed)
    PROVE  RowsOfAccounts'
<1> SUFFICES ASSUME NEW r \in rows', r \notin rows
             PROVE  r.meant \in Accounts
  BY DEF RowsOfAccounts
<1>1. r.meant = h
  BY DEF WriteFor
<1> QED BY <1>1 DEF Accounts

LEMMA RowsOfAccountsStep == RowsOfAccounts /\ [Next]_vars => RowsOfAccounts'
<1> SUFFICES ASSUME RowsOfAccounts, [Next]_vars
             PROVE  RowsOfAccounts'
  OBVIOUS
<1>1. CASE UNCHANGED rows
  BY <1>1 DEF RowsOfAccounts
<1>2. ASSUME NEW d \in Devices, NEW h \in Homes[d], Http(d, h) \/ Grpc(d, h)
      PROVE  UNCHANGED rows \/ \E who, spec, unnamed : WriteFor(d, h, who, spec, unnamed)
  <2>1. CASE Http(d, h)
    BY <2>1 DEF Http, Login, Register, Score, SetImRankData, GetLeaderboard, GetImRank, ReadFor
  <2>2. CASE Grpc(d, h)
    BY <2>2 DEF Grpc, GrpcReportPlayerRegister, GrpcUpsertMaxScore, GrpcSetImRankData,
                GrpcGetLeaderboard, GrpcGetImRank, ReadFor
  <2> QED BY <1>2, <2>1, <2>2
<1>3. ASSUME NEW d \in Devices, NEW h \in Homes[d], Http(d, h) \/ Grpc(d, h)
      PROVE  RowsOfAccounts'
  BY <1>1, <1>2, <1>3, WriteForAccount
<1>4. CASE Tick \/ UNCHANGED vars
  BY <1>1, <1>4 DEF Tick, vars
<1> QED BY <1>3, <1>4 DEF Next

\* On a known channel an account id names one open id, underscores or not.
LEMMA SameOpen ==
    ASSUME NEW S, NEW c \in Seq(S), NEW a \in Seq(S), NEW b \in Seq(S),
           AccountID(c, a) = AccountID(c, b)
    PROVE  a = b
<1> DEFINE x == c \o a
           y == c \o b
<1>1. /\ Len(x) = Len(c) + Len(a)
      /\ \A i \in 1..(Len(c) + Len(a)) : x[i] = IF i <= Len(c) THEN c[i] ELSE a[i - Len(c)]
  BY ConcatProperties
<1>2. /\ Len(y) = Len(c) + Len(b)
      /\ \A i \in 1..(Len(c) + Len(b)) : y[i] = IF i <= Len(c) THEN c[i] ELSE b[i - Len(c)]
  BY ConcatProperties
<1>3. x = y
  BY DEF AccountID
<1>4. Len(c) \in Nat /\ Len(a) \in Nat /\ Len(b) \in Nat
  OBVIOUS
<1> HIDE DEF x, y
<1>5. Len(a) = Len(b)
  BY <1>1, <1>2, <1>3, <1>4
<1>6. ASSUME NEW i \in 1..Len(a)
      PROVE  a[i] = b[i]
  <2> DEFINE k == Len(c) + i
  <2>1. k \in 1..(Len(c) + Len(a)) /\ ~(k <= Len(c)) /\ k - Len(c) = i
    BY <1>4
  <2> HIDE DEF k
  <2>2. x[k] = a[i] /\ y[k] = b[i]
    BY <1>1, <1>2, <1>5, <2>1
  <2> QED BY <1>3, <2>2
<1> QED BY <1>5, <1>6, SeqEqual

\* Two accounts never have their scores in the same row, also when an open id
\* holds underscores or is the same on several channels (domain.go AccountID,
\* http.go resolveImRankPlayerErr).
THEOREM RowsAreNeverShared ==
    ASSUME CarefulClients, OneAccountEach,
           NEW S, Accounts \subseteq [app : Seq(S), channel : Seq(S), open : Seq(S)]
    PROVE  Spec => []RowsNotShared
<1>1. RowsAreMeant /\ RowsOfAccounts => RowsNotShared
  <2> SUFFICES ASSUME RowsAreMeant, RowsOfAccounts, NEW r \in rows, NEW s \in rows,
                      r.app = s.app, r.channel = s.channel, r.player = s.player
               PROVE  r.meant = s.meant
    BY DEF RowsNotShared
  <2> DEFINE g == r.meant
             h == s.meant
  <2>1. g.app = h.app /\ g.channel = h.channel
           /\ AccountID(g.channel, g.open) = AccountID(h.channel, h.open)
    BY DEF RowsAreMeant
  <2>2. /\ g \in [app : Seq(S), channel : Seq(S), open : Seq(S)]
        /\ h \in [app : Seq(S), channel : Seq(S), open : Seq(S)]
    BY DEF RowsOfAccounts
  <2> HIDE DEF g, h
  <2>3. g.open = h.open
    BY <2>1, <2>2, SameOpen
  <2>4. g = h
    BY <2>1, <2>2, <2>3
  <2> QED BY <2>4 DEF g, h
<1>2. Init => RowsOfAccounts
  BY DEF Init, RowsOfAccounts
<1> QED BY <1>1, <1>2, RowsOfAccountsStep, ScoresAreOwn, PTL DEF Spec

-----------------------------------------------------------------------------
(* Windows nobody names *)

\* Whoever has written without naming windows has a row of the week.
WeekIsThere ==
    \A r \in rows : r.unnamed => \E s \in rows : s.meant = r.meant /\ s.window = "week"

RepliesInv == reply = [d \in Devices |-> reply[d]] /\ WeekIsThere

\* The default of either kind of write has the week in it.
LEMMA DefaultHasWeek ==
    /\ ~BadSpec(<<"both">>) /\ "week" \in ParseWriteRankTypes(<<"both">>)
    /\ "week" \in ParseWriteRankTypes(<<>>)
<1> DEFINE both == <<"both">>
<1>1. both # <<>> /\ DOMAIN both = {1} /\ both[1] = "both"
  OBVIOUS
<1>2. Expand(both[1]) = {"week", "month"}
  BY <1>1 DEF Expand
<1>3. UNION {Expand(both[i]) : i \in DOMAIN both} = {"week", "month"}
  BY <1>1, <1>2
<1>4. ~BadSpec(both)
  BY <1>1, <1>2 DEF BadSpec, Windows
<1>5. ParseWriteRankTypes(both) = {"week", "month"} \intersect Windows
  BY <1>1, <1>3 DEF ParseWriteRankTypes
<1> QED BY <1>4, <1>5 DEF ParseWriteRankTypes, Windows

LEMMA WriteKeepsWeek ==
    ASSUME RepliesInv, NEW d \in Devices, NEW h, NEW who, NEW spec, NEW unnamed \in BOOLEAN,
           unnamed => "week" \in ParseWriteRankTypes(spec),
           WriteFor(d, h, who, spec, unnamed)
    PROVE  RepliesInv'
<1> DEFINE row(w) == [app |-> who.app, channel |-> who.channel, window |-> w,
                      player |-> who.player, meant |-> h, unnamed |-> unnamed]
<1>1. reply' = [e \in Devices |-> reply'[e]]
  BY DEF RepliesInv, WriteFor, Answer
<1>2. rows \subseteq rows'
  BY DEF WriteFor
<1>3. ASSUME NEW r \in rows', r.unnamed
      PROVE  \E s \in rows' : s.meant = r.meant /\ s.window = "week"
  <2>1. CASE r \in rows
    BY <1>2, <1>3, <2>1 DEF RepliesInv, WeekIsThere
  <2>2. CASE r \notin rows
    <3>1. rows' = rows \union {row(w) : w \in ParseWriteRankTypes(spec)}
      BY <2>2 DEF WriteFor
    <3>2. r.meant = h /\ unnamed
      BY <1>3, <2>2, <3>1
    <3>3. row("week") \in rows'
      BY <3>1, <3>2
    <3> QED BY <3>2, <3>3
  <2> QED BY <2>1, <2>2
<1> QED BY <1>1, <1>3 DEF RepliesInv, WeekIsThere

LEMMA OtherKeepsWeek ==
    ASSUME RepliesInv, UNCHANGED rows, reply' = [d \in Devices |-> reply'[d]]
    PROVE  RepliesInv'
BY DEF RepliesInv, WeekIsThere

LEMMA RepliesPreserved == RepliesInv /\ [Next]_vars => RepliesInv'
<1> SUFFICES ASSUME RepliesInv, [Next]_vars
             PROVE  RepliesInv'
  OBVIOUS
<1>1. ASSUME NEW d \in Devices, NEW h, NEW who, NEW spec \in Specs,
             \/ WriteFor(d, h, who, WriteSpec(spec), spec = <<>>)
             \/ WriteFor(d, h, who, spec, spec = <<>>)
      PROVE  RepliesInv'
  <2>1. spec = <<>> => /\ "week" \in ParseWriteRankTypes(WriteSpec(spec))
                      /\ "week" \in ParseWriteRankTypes(spec)
    BY DefaultHasWeek DEF WriteSpec
  <2>2. (spec = <<>>) \in BOOLEAN
    OBVIOUS
  <2> QED BY <1>1, <2>1, <2>2, WriteKeepsWeek
<1>2. ASSUME NEW d \in Devices, NEW h, NEW who, NEW window, ReadFor(d, h, who, window)
      PROVE  RepliesInv'
  BY <1>2, OtherKeepsWeek DEF ReadFor, RepliesInv
<1>3. ASSUME NEW d \in Devices, NEW h, NEW f,
             Login(d, h) \/ Register(d, h, f) \/ GrpcReportPlayerRegister(d, h)
      PROVE  RepliesInv'
  <2>1. UNCHANGED rows /\ reply' = [e \in Devices |-> reply'[e]]
    BY <1>3 DEF Login, Register, GrpcReportPlayerRegister, Answer, RepliesInv
  <2> QED BY <2>1, OtherKeepsWeek
<1>4. CASE Tick \/ UNCHANGED vars
  BY <1>4, OtherKeepsWeek DEF Tick, vars, RepliesInv
<1>5. ASSUME NEW d \in Devices, NEW h \in Homes[d], Http(d, h)
      PROVE  RepliesInv'
  BY <1>1, <1>2, <1>3, <1>5 DEF Http, Score, SetImRankData, GetLeaderboard, GetImRank
<1>6. ASSUME NEW d \in Devices, NEW h \in Homes[d], Grpc(d, h)
      PROVE  RepliesInv'
  BY <1>1, <1>2, <1>3, <1>6
     DEF Grpc, GrpcUpsertMaxScore, GrpcSetImRankData, GrpcGetLeaderboard, GrpcGetImRank
<1> QED BY <1>4, <1>5, <1>6 DEF Next

\* A read without a window finds the row of the week.
LEMMA ReadFinds ==
    ASSUME RepliesInv, RowsAreMeant, NEW d \in Devices, NEW h, NEW who, NEW window,
           ReadFor(d, h, who, window), Speaks(who, h),
           who.status = "ok", who.player # NoId, window = Unnamed,
           NEW r \in rows, r.meant = h, r.unnamed
    PROVE  Stored(who, ParseRankType(window))
<1>1. ParseRankType(window) = "week"
  BY DEF ParseRankType
<1>2. PICK s \in rows : s.meant = h /\ s.window = "week"
  BY DEF RepliesInv, WeekIsThere
<1>3. s.app = who.app /\ s.channel = who.channel /\ s.player = who.player
  BY <1>2 DEF RowsAreMeant, Speaks
<1> QED BY <1>1, <1>2, <1>3 DEF Stored

DefaultsFit(d) ==
    LET seen == reply'[d]
    IN  /\ seen # reply[d]
        /\ seen.kind = "read" /\ seen.status = "ok"
        /\ seen.unnamed /\ seen.player # NoId
        /\ \E r \in rows : r.meant = seen.meant /\ r.unnamed
        => seen.found

LEMMA ReadsFit ==
    ASSUME RepliesInv, RowsAreMeant, NEW d \in Devices, NEW h, NEW who, NEW window,
           ReadFor(d, h, who, window), Speaks(who, h), NEW e \in Devices
    PROVE  DefaultsFit(e)
<1> DEFINE new == [kind |-> "read", status |-> who.status, meant |-> h, player |-> who.player,
                   unnamed |-> window = Unnamed,
                   found |-> who.status = "ok" /\ Stored(who, ParseRankType(window))]
<1>1. reply' = [reply EXCEPT ![d] = new]
  BY DEF ReadFor
<1>2. CASE e # d
  BY <1>1, <1>2 DEF RepliesInv, DefaultsFit
<1>3. CASE e = d
  <2>1. reply'[e] = new
    BY <1>1, <1>3 DEF RepliesInv
  <2>2. new.status = who.status /\ new.player = who.player /\ new.meant = h
    OBVIOUS
  <2>3. new.unnamed <=> window = Unnamed
    OBVIOUS
  <2>4. new.found <=> (who.status = "ok" /\ Stored(who, ParseRankType(window)))
    OBVIOUS
  <2> HIDE DEF new
  <2> QED BY <2>1, <2>2, <2>3, <2>4, ReadFinds DEF DefaultsFit
<1> QED BY <1>2, <1>3

\* Every other answer is none of a read.
LEMMA OthersFit ==
    ASSUME RepliesInv, NEW d \in Devices, NEW kind, kind # "read", NEW status,
           Answer(d, kind, status), NEW e \in Devices
    PROVE  DefaultsFit(e)
<1> DEFINE new == [NoReply EXCEPT !.kind = kind, !.status = status]
<1>1. reply'[e] = reply[e] \/ reply'[e] = new
  BY DEF Answer, RepliesInv
<1>2. new.kind = kind
  BY DEF NoReply
<1> QED BY <1>1, <1>2 DEF DefaultsFit

LEMMA StepFits ==
    ASSUME CarefulClients, OneAccountEach, TokenInv, RowsAreMeant, RepliesInv, Next,
           NEW e \in Devices
    PROVE  DefaultsFit(e)
<1>1. now \in Nat /\ SessionIsOwn
  BY DEF TokenInv
<1>2. ASSUME NEW d \in Devices, NEW h \in Homes[d], Http(d, h)
      PROVE  DefaultsFit(e)
  <2>1. ASSUME NEW f \in Forms[d], NEW window \in Asked,
               GetLeaderboard(d, h, f, window) \/ GetImRank(d, h, f, window)
        PROVE  DefaultsFit(e)
    BY <1>1, <2>1, RequireSessionSpeaks, ResolveSpeaks, ReadsFit DEF GetLeaderboard, GetImRank
  <2>2. ASSUME NEW f \in Forms[d], NEW spec \in Specs,
               Score(d, h, f, spec) \/ SetImRankData(d, h, f, spec)
        PROVE  DefaultsFit(e)
    BY <2>2, OthersFit DEF Score, SetImRankData, WriteFor
  <2>3. CASE Login(d, h) \/ \E f \in Forms[d] : Register(d, h, f)
    BY <2>3, OthersFit DEF Login, Register
  <2> QED BY <1>2, <2>1, <2>2, <2>3 DEF Http
<1>3. ASSUME NEW d \in Devices, NEW h \in Homes[d], Grpc(d, h)
      PROVE  DefaultsFit(e)
  <2>1. Speaks(Refuse("failed"), h)
    BY DEF Speaks, Refuse
  <2>2. ASSUME NEW window \in Asked,
               GrpcGetLeaderboard(d, h, window) \/ GrpcGetImRank(d, h, window)
        PROVE  DefaultsFit(e)
    BY <2>1, <2>2, ExplicitSpeaks, ReadsFit DEF GrpcGetLeaderboard, GrpcGetImRank
  <2>3. ASSUME NEW spec \in Specs, GrpcUpsertMaxScore(d, h, spec) \/ GrpcSetImRankData(d, h, spec)
        PROVE  DefaultsFit(e)
    BY <2>3, OthersFit DEF GrpcUpsertMaxScore, GrpcSetImRankData, WriteFor
  <2>4. CASE GrpcReportPlayerRegister(d, h)
    BY <2>4, OthersFit DEF GrpcReportPlayerRegister
  <2> QED BY <1>3, <2>2, <2>3, <2>4 DEF Grpc
<1>4. CASE Tick
  BY <1>4 DEF Tick, DefaultsFit
<1> QED BY <1>2, <1>3, <1>4 DEF Next

\* A score written without naming windows is found by a read that names none,
\* over whichever of the handlers either went (http.go:335, grpc.go,
\* ParseWriteRankTypes, ParseRankType).
THEOREM DefaultWindowsMeet ==
    ASSUME CarefulClients, OneAccountEach
    PROVE  Spec => DefaultsMeet
<1>1. Init => TokenInv /\ RowsAreMeant /\ RepliesInv
  BY TokensInitial DEF Init, RowsAreMeant, RepliesInv, WeekIsThere
<1>2. TokenInv /\ RowsAreMeant /\ RepliesInv /\ [Next]_vars =>
        TokenInv' /\ RowsAreMeant' /\ RepliesInv'
  BY TokensPreserved, RowsPreserved, RepliesPreserved
<1>3. TokenInv /\ RowsAreMeant /\ RepliesInv /\ [Next]_vars =>
        [\A d \in Devices : DefaultsFit(d)]_vars
  BY StepFits
<1>4. (\A d \in Devices : DefaultsFit(d)) <=>
        \A d \in Devices :
          LET seen == reply'[d]
          IN  /\ seen # reply[d]
              /\ seen.kind = "read" /\ seen.status = "ok"
              /\ seen.unnamed /\ seen.player # NoId
              /\ \E r \in rows : r.meant = seen.meant /\ r.unnamed
              => seen.found
  BY DEF DefaultsFit
<1> QED BY <1>1, <1>2, <1>3, <1>4, PTL DEF Spec, DefaultsMeet
=============================================================================
