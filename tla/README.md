# Verification of MiniGameServer

TLA+ models of the leaderboard and account service in `src/`, TLC runs that
check them on small instances, and TLAPS proofs that hold for every instance.
All definitions are translated from the Go code; `PROJECT.json` maps each one
to the lines it stands for.

## 1. The system

A game client submits scores and asks for ranked lists; its account is
registered once and then logged in to. One process serves HTTP and gRPC; each
request is a goroutine. `main.go` chooses one of two stores with `RANK_STORE`:
`memory` (Go maps under one lock, lost on exit) or `mysql`.

| Component | State | Operations | Talks to |
|---|---|---|---|
| score store (`store/memory`, `store/mysql`) | rows per board and player: score, time, extra | `UpsertMax`, `TopN`, `RankOf` | called by the service; MySQL runs several statements without a transaction |
| account store (same packages) | rows per app, channel and open id: name, avatar, click id, time, extra_json | `GetAccount`, `ReportRegister`, `UpdateProfile`, `CountByChannel` | called by the service |
| hot cache (`hotcache`) | per board: the compact list read last and its smallest score | `Get`, `Put`, `Invalidate` | filled by list reads, dropped by writes |
| leaderboard service (`service`) | none of its own: request-local variables | `UpsertMaxScore`, `SetImRankData`, `GetLeaderboard`, `GetImRankList`, `GetImRankData` | score store and cache |
| accounts, profiles, login (`service`, `auth`) | signed session tokens, kept by the clients | `Register`, `ReportPlayerRegister`, `Login`, `GetPlayerProfile`, `UpdatePlayerProfile`, `SyncPlayerProfile` | account store, platform APIs |
| identities and parsers (`domain`) | none | `AccountID`, `ParseAccountID`, `PeriodKey`, `ParseWriteRankTypes`, `NormalizeChannel` | used everywhere |
| configuration (`config`), auth router (`auth`) | read once from the environment | which provider answers the codes of a channel, and with whose key | platform APIs |
| HTTP and gRPC APIs | none | one handler per call: decoding, who the request speaks for, default windows | service |
| logging | none | output; the HTTP middleware reads the body of a request and cuts it off | - |
| life cycle (`cmd/minigameserver`) | the two servers | start, signal, shutdown | all |

What makes it hard: a request is overtaken between any two store or cache
calls; a list goes into the cache long after it was read; MySQL calls are
several statements and a statement may take effect although its caller is told
it failed; one write goes to several boards without a transaction; the two
stores are two implementations of one contract; a restart empties the memory
store but not the clients' tokens.

What makes each component correct:

* stores: a score only rises, is one that was submitted, and carries the time
  at which it was reached; a rank agrees with the list;
* cache: a list that a write made old is dropped;
* leaderboard service: what is answered was stored, in the period of the
  instant the write was accepted;
* accounts: registration is first touch, one client is told that the account
  is new, an update changes only the fields it names;
* sessions: a token names an account that exists, until it expires;
* requests: a score is stored under the account it was sent for, whichever
  handler took it and whatever state its session is in;
* configuration and router: on a channel of the platform nobody gets an id the
  platform has not named, whatever mixture of credentials is given;
* life cycle: after a signal nothing but an unfinished gRPC call holds the
  process, no gRPC call meets a closed store, an HTTP request does only after
  the deadline.

`PROJECT.json` lists the places where each of these may break ("hazards"), with
the property that watches it.

## 2. Modules

| Module | Content |
|---|---|
| `RankBoard` | pure operators on one board: `MemoryMerge`, `SqlMerge`, `RankOf`, `TopNLists` |
| `Leaderboard` | the leaderboard service over a store and the cache |
| `MaxScores` | what writers of scores are promised (abstract specification) |
| `LeaderboardProps` | properties, refinement mapping to `MaxScores`, inductive invariants, fairness |
| `LeaderboardProofs`, `LeaderboardWriteProofs`, `LeaderboardReadProofs` | proofs: types, writes, the cache with reads and ranks |
| `MCLeaderboard` | constants of the TLC instances |
| `Accounts` | registration, login and profiles over the account store |
| `FirstTouch` | what registrations are promised (abstract specification) |
| `AccountsProps`, `AccountsProofs`, `FirstTouchProofs`, `MCAccounts` | as above; `FirstTouchProofs` has the refinement |
| `Gateway` | the HTTP and gRPC handlers: whose score a request is about, and in which windows |
| `GatewayProps`, `GatewayProofs`, `MCGateway` | as above |
| `AuthConfig` | pure operators: `Load` of the environment, `ModeForChannel`, `SecretForClientKey`, `BuildAuthStack` |
| `Server` | the process: start, requests waiting for client, platform and store, shutdown, restart |
| `ServerProps`, `ServerProofs`, `MCServer` | as above |
| `Calendar` | pure operators: the period keys of days, board keys |
| `Periods` | `Leaderboard` on the boards of the program: one constant for the day of each instant |
| `PeriodsProofs`, `MCPeriods` | as above |

Definitions whose comment begins with "Fault" are plausible mistakes; each is
exchanged for the definition below it to see that a property notices. They are
not part of the specification.

### Leaderboard

`rows[b][p]` is a row of `rank_score`, score -1 where there is none. A board
`b` stands for app, board, zone, channel, window and period bucket;
`BoardAt[window][time]` stands for `PeriodKey`. `cache[b]` is the hot item.
`writer[w]` and `reader[r]` are requests in flight; `pc` names the next call
they make:

| `pc` of a writer | next step | code |
|---|---|---|
| `upsert` | `UpsertInMemory`, or `SelectOldScore` and `InsertOrUpdate` | `UpsertMax` |
| `get` | `DecideInvalidate` | `upsertOne`, dirty check |
| `invalidate` | `Invalidate` | `hotcache.Invalidate` |
| `rank` | `RankForWriter`, or `SelectOwnForWriter` and `CountForWriter` | `RankOf` |

After the last of these the next window starts, or the reply is sent. A reader
goes from `get` (`ReadCache`) either to the reply or through `topn` (`ReadTopN`)
and `put` (`PutCache`), and then asks for the caller's rank. With MySQL any
statement may fail (`WriterFails`, `ReaderFails`), and the INSERT may fail
after it was committed (`InsertWithoutReply`). `Restart` ends all requests,
empties the cache and, for `memory`, the rows.

`TopNLists` is a set: rows equal in score and time come in any order, as Go's
map order and the query leave it open. `SqlMerge` follows MySQL's rule that
`ON DUPLICATE KEY UPDATE` assigns from left to right and later expressions see
the new values.

Auxiliary state, which nothing else depends on: `history` (what reached the
store), `Item.n` (the number a list was read with) and `excused`. A list is
excused when a write changed the board after it was read and before it was put
into the cache, or when the database committed a write and reported an error;
in these cases the code does leave an old list behind (see Findings).

### Accounts

`accounts[k]` is a row of `player_register`: `col` the columns, `extra` the same
fields inside `extra_json`, `at` the time of registration, -1 for no row.
`Hydrated` is what `GetAccount` of MySQL does to a row, `Shown` what replies
take from it. `client[c]` is the request a device has sent last, `session[c]`
its token. `ReportRegister` is one step in memory; over MySQL it is
`SelectAccount`, then `InsertAccount`, `InsertRefused` (primary key) or
`InsertFails` (an error, with or without effect), then `SelectAgain`.
`UpdateProfile` is one step in memory, `ReadAccount` and `WriteAccount` in
MySQL. `SyncProfile` is `CheckAccount`, `Fetch` and then the same update.
`Login` and `ViewProfile` make a single store call and are single steps; when
that call fails nothing changes. Clients keep their tokens over `Restart`.

### Gateway

`Leaderboard` and `Accounts` take the account a request is about as given;
`Gateway` is about finding it. Each handler is one action and one step on the
store, `rows` being the set of what has been written: app, channel, window and
player, with the account the score was `meant` for as an auxiliary field.
`Homes[d]` are the accounts of the person at device `d`, `Forms[d]` which fields
the client fills in, `session[d]` its token. `ResolveImRankPlayer` and
`RequireSession` are the two ways the handlers find out who is asking; `Explicit`
is gRPC, where a game server names the account in full. Ids are sequences of
the segments between underscores, so that joining and splitting at the first
underscore (`AccountID`, `ParseAccountID`) are what the code does. `WriteSpec`,
`ParseWriteRankTypes` and `ParseRankType` are the windows a call means when it
names some or none.

### Server and AuthConfig

`Leaderboard`, `Accounts` and `Gateway` take the process as running and a login
code as answered; `Server` is about both. `main` is where the main goroutine
is: `Start` loads an environment (`AuthConfig!Load`), opens the store and
chooses the provider of logins (`BuildAuthStack`); `HttpListens` and
`GrpcServes` are the two listener goroutines; `Signal`, `StopGrpc` or
`StopGrpcAnyway` (the 5 s are over), `CloseStore` and `Exit` are the way out,
one action for each call `main` waits for. `Fatal` stands for every end without
the deferred `Close`: `logging.Fatal` of either listener, or a kill.

`web[r]` is an HTTP request; its `pc` says what it waits for:

| `pc` | next step | code |
|---|---|---|
| `body` | `ReadBody`, `ReadCutBody` | the middleware reads the body, `logging/http.go` |
| `lookup` | `LookUp` | `SyncPlayerProfile` asks for the account first |
| `exchange` | `ExchangeCode`, `ExchangeFails` | `/oauth/token/`, which takes a code once |
| `userinfo` | `FetchProfile`, `FetchFails` | `/user/info/` |
| `store` | `UseStore` | the store call of the handler |

The kinds are `login`, `register` with a code, `profile`
(`/player/profile/tiktok`), `sync`, and `plain` for every handler that needs
only the store. `id` is whom the request is about, with who said so: the
platform, a mock code, or the code itself, which the mock takes for an open id.
`call[g]` is a gRPC call. What is stored (`accounts`) and what the platform has
exchanged (`spent`) outlive the process. Environments hold the variables as
lists of names and pairs, so that which entry of a list wins is what the code
does; `BuildAuthStack` is a set, as Go leaves the order of a map open.

### Calendar and Periods

`PeriodKey` is a record of what the text of a key holds. `Year`, `Month`,
`DayOfMonth` and `ISOWeek` are what `time.Time` does, over days counted from
1 January of the year 1; texts of different windows differ in form. `BoardKey`
joins its five parts with bars: a text is the sequence of its parts between
bars, so that joining is concatenation. `Leaderboard` knows boards only as the
values of `BoardAt`; `Periods` adds the day of each instant (`DayAt`) and
requires `BoardAt` to be `BoardKey` of `PeriodKey` of that day. `SamePeriod`
says without keys which days belong together. `MCPeriods` has three days around
a new year.

Composition: `Leaderboard` refines one write or read of `Gateway` into its store
and cache calls, for one app and channel; `Accounts` does the same for one
account. They are joined by their constants and not by a refinement: `Players`
of `Leaderboard` are the account ids `Gateway` computes.

## 3. Runs

All runs are over at most two score writers and one list reader, or two
clients or devices. Every bound is a constant of the `.cfg`: `MaxWrites`, `MaxReads`,
`MaxFaults`, `MaxRestarts`, `MaxRequests` bound the environment, never a step
of the code. Requests stop when these are used up, so deadlock is not checked:
a state in which all requests are answered and the budget is spent is final.

| Run | Question |
|---|---|
| `lb_memory` | memory store, two writes and two reads, two scores and instants: types, rows, cached lists and ranks; implements `MaxScores` |
| `lb_mysql` | the same over MySQL, one fault and one restart, read as a page |
| `lb_windows` | writes into week and month on Wednesday 31 December, the Thursday after it and the Monday after that, with a fault and a restart: a reply means stored on every board of the instant of acceptance; a board holds exactly one week or month, although the year changes within a week |
| `lb_live` | a list that a write made old is dropped or replaced in the end |
| `acc_stores` | either store (chosen in the first state), four requests of two devices, statement by statement over MySQL, with a fault and a restart: first touch, one new reply, tokens of existing accounts; in memory an update changes named fields only; implements `FirstTouch` |
| `gw_players` | four requests of two people with three accounts over every HTTP and gRPC handler, with a session, an expired one or none: tokens and rows belong to the account meant, and default reads find default writes |
| `srv_life` | three environments, two HTTP requests and a gRPC call, one fault, a signal at any time, two starts: order of the shutdown, what may keep it from its end, and who answers codes |
| `lb_stale_list`, `lb_sql_time`, `lb_short_list`, `acc_lost_update`, `gw_player_id` | the findings below |

Why these bounds suffice: every hazard listed is a race of two requests (two
writers of one player, a writer and a reader, two registrations, two updates),
with one fault or one restart in between. Two scores and two instants give
lower, equal and higher submissions and ties in time; lists of one and of two
entries over two players are lists that are full, short and cut. In
`gw_players` four requests are register, login, a write and a read; the two
people share an open id with an underscore, one plays the default game on the
default channel and the other names other ones, so that every kind of wrong id
is some other account's. In `srv_life` the environments are two games without
the single pair of older installations, the single pair with an outdated secret
for a game that has an entry of its own, and an incomplete pair alone; codes
are one of each game and a mock code; every race of the shutdown is one of a
request, a call and `main`, and a second start meets what the first has left
(accounts and spent codes). Each checked
property is known to fail in its own run when one definition is replaced by
its "Fault" (`PROJECT.json`, "mutants").

Symmetry: players, writers, readers and clients are interchangeable in the
safety runs. `lb_live` and `lb_stale_list` use none, as symmetry is unsound
for liveness.

Fairness (`FairSpec`): weak fairness of each request's steps. The Go scheduler
runs every runnable goroutine, cache calls hold a mutex only briefly, and store
calls of the memory backend do not block. Nothing is assumed about clients: no
new request, tick, fault or restart has to happen.
In `Server` the steps of `main`, of the two listeners and of requests and calls
that have arrived are weakly fair: the deadline of `Shutdown` passes, and
`http.Client` gives up on the platform after 8 s, so `exchange` and `userinfo`
end in an answer or a fault. `ReadBody` is not fair: no timeout covers the body
of an HTTP request. Nor is `ReceiveCall`: a game's server may never send the
message of a call. `GracefulStop` has no deadline (`main.go:81`), so such a call
holds the process for good, and `OnlyCallsHoldTheEnd` says that nothing else
does: after a signal the process ends, or from some moment on `main` waits in
`GracefulStop` for a message that does not come. That a signal always ends the
process is not true of this code; no text of the repository says it, so it is
not listed as a finding.

### Findings

| Run | What the code does | What is said |
|---|---|---|
| `lb_stale_list` | a list read before a write and put after its invalidation stays until the next write; `RefreshSec` is never read | `docs/design.md:444`: boards are rebuilt every `refresh_sec` |
| `lb_sql_time` | `updated_at` is compared with the score already raised (`mysql.go:58`) and stays old | `docs/design.md:122`: both are updated |
| `lb_short_list` | a cached list is served whatever number of entries is asked for (`service.go:377`): after a read of page 1 the second page is empty, after a small `top_n` a larger one is cut, until a write drops the list | `docs/design.md:240`: `top_n` is clamped to a maximum |
| `gw_player_id` | `ParseAccountID` splits at the first underscore (`domain.go:51`), but the default channel is `tiktok_minis`: a `player_id` as login returns it, sent without a session, is resolved to another id | `domain.go:49`: it splits `{channel}_{open_id}`; `docs/register.md:11`: the boards use the account id |
| `acc_lost_update` | `UpdateProfile` writes back the fields it read (`mysql.go:296`); of two overlapping updates one is lost | `store.go:21`: "Empty fields are left unchanged" |

`acc_lost_update` needs two overlapping requests for the same player and loses
data.

More was met that has no run:

* With the memory store a better score without a payload replaces the row and
  its nickname (`memory.go:45`; `memory.go:49`, of the other branch: "Empty
  Extra must not wipe an existing nickname payload"). `docs/design.md:414` has a
  better score replace the payload in any case. MySQL keeps it:
  `ExtraNeverWiped` in `lb_mysql`, which says nothing about the memory store.
* After a restart with the memory store a token names an account that is gone
  (`auth.go:74`): profile requests with it fail until somebody registers again.
  `SessionNamesAccount` is about MySQL; that such a token brings no account into
  being is part of `KeepsFirstTouch`, in either store.
* Over MySQL a write that is overtaken between its SELECT and its INSERT
  reports its own score as the best although the store holds a higher one
  (`mysql.go:65`; `docs/design.md:357`); `ReportedBestIsReal` says what does
  hold.
* The acceptance test writes through HTTP without naming windows and expects
  all four to be written (`acceptance_test.go:451`), whereas `http.go:335`
  defaults to week and month; `DefaultsMeet` says what does hold.
* A login spends the one-time code before it answers `NEED_REGISTER`
  (`service.go:146-159`), so registering with the same code is refused by the
  platform. `docs/register.md:25` has the client register with a code and does
  not say that it needs a second one; the open id of the answer would do.
* Without the single pair, the pair of logins is "first entry in
  RANK_TT_CLIENT_SECRETS" by the comment (`router.go:125`) and any entry by the
  code, as Go iterates maps in random order: with two games, logins of one of
  them work after some starts only.
* An explicit entry for the key of the single pair wins for profile requests
  (`config.go:49`), while logins go on with the secret of the single pair.
* A signal between the start of the gRPC goroutine and its `Serve` makes
  `Serve` return an error and `logging.Fatal` end the process without `Close`.
* A page number near the largest integer overflows `pageNum * pageSize`
  (`service.go:636`); the handler panics and `net/http` recovers.

## 4. Proofs

All theorems but three about the calendar and the keys, which hold for every
day and every text, are of the form `Spec => ...`, for every value of the
constants that satisfies the named assumptions: any number of players, boards, requests,
scores, instants and faults, and either store, unless the table says which.

| Theorem | Module |
|---|---|
| `TypeCorrect`: `Spec => []TypeOK` | `LeaderboardProofs` |
| `CacheIsCurrent`: `Spec => []CachedListIsCurrent` | `LeaderboardReadProofs` |
| `StoredBeforeEveryReply`: `Spec => []StoredBeforeReply` | `LeaderboardWriteProofs` |
| `ReportedBestIsAlwaysReal`: `Spec => []ReportedBestIsReal` | `LeaderboardWriteProofs` |
| `ScoreIsAlwaysBest`: `Spec => []ScoreIsBestSubmission` | `LeaderboardWriteProofs` |
| `MemoryRowsAreSubmissions`: with the memory store, `Spec => []RowIsASubmission` | `LeaderboardWriteProofs` |
| `PayloadIsNeverWiped`: over MySQL, `Spec => ExtraNeverWiped` | `LeaderboardWriteProofs` |
| `SqlTimesNeverMove`: over MySQL, `Spec` implies that a row keeps its time | `LeaderboardWriteProofs` |
| `ImplementsMaxScores`: `Spec => KeepsPromise`, the refinement of `MaxScores` | `LeaderboardWriteProofs` |
| `ListsAreNeverAhead`: `Spec => []ListsNeverAhead` | `LeaderboardReadProofs` |
| `RepliesAgreeWithThemselves`: `Spec => []SelfNotBehindList` | `LeaderboardReadProofs` |
| `RanksAgreeWithLists`: `Spec => []RankAgreesWithList` | `LeaderboardReadProofs` |
| `RanksStayWithinBoard`: `Spec => []RankWithinBoard` | `LeaderboardReadProofs` |
| `OneSizeIsServed`: while all requests need the same number of entries, `Spec => AskedEntriesAreServed` | `LeaderboardReadProofs` |
| `KeysArePeriods`: two days have one `PeriodKey` exactly if `SamePeriod` | `PeriodsProofs` |
| `BoardKeysDiffer`: different parts, three of them without bars, give different `BoardKey`s | `PeriodsProofs` |
| `WindowsHaveOwnBoards`: keys of different windows differ | `PeriodsProofs` |
| `BoardsAreAlwaysPeriods`: `Spec => []BoardsArePeriods` | `PeriodsProofs` |
| `AccountsTypeCorrect`: `Spec => []TypeOK` | `AccountsProofs` |
| `AnswersAlwaysAgree`: `Spec => []AnswersAgree` | `AccountsProofs` |
| `OnlyOneIsNew`: `Spec => []OneIsNew` | `AccountsProofs` |
| `FirstTouchIsKept`: `Spec => FirstTouchKept` | `AccountsProofs` |
| `SessionsNameAccounts`: over MySQL (a condition of the property), `Spec => []SessionNamesAccount` | `AccountsProofs` |
| `MemoryKeepsFields`: in memory (likewise), `Spec => MemoryFieldsStay` | `AccountsProofs` |
| `OneUpdateLosesNothing`: `Spec /\ []OneUpdate => EmptyFieldsStay` | `AccountsProofs` |
| `ImplementsFirstTouch`: `Spec => KeepsFirstTouch`, the refinement of `FirstTouch` | `FirstTouchProofs` |
| `TokensAreOwn`: `Spec => []SessionIsOwn` | `GatewayProofs` |
| `ScoresAreOwn`: `CarefulClients /\ OneAccountEach` implies `Spec => []RowsAreMeant` | `GatewayProofs` |
| `DefaultWindowsMeet`: `CarefulClients /\ OneAccountEach` implies `Spec => DefaultsMeet` | `GatewayProofs` |
| `RowsAreNeverShared`: under the same two and ids that are sequences, `Spec => []RowsNotShared` | `GatewayProofs` |
| `ServerTypes`: `Spec => []TypeOK` | `ServerProofs` |
| `CallsAreServed`: `Spec => []CallsFindStoreOpen` | `ServerProofs` |
| `RequestsAreWaitedFor`: `Spec => []HttpLostOnlyAfterTimeout` | `ServerProofs` |
| `PlatformNamesPlayers`: `Spec => []TikTokIdsComeFromPlatform` | `ServerProofs` |
| `LoginsOutlive`: `Spec => []LoginOutlivesProfileFailure` | `ServerProofs` |
| `OwnKeys`: `Spec => OwnKeyIsAccepted` | `ServerProofs` |

**Types of the leaderboard.** `TypeOK` alone is not inductive: `BoardOf(wr)`
applies `targets` at `i`, so a write at work must have windows and an index
within them, and a rank lookup needs a named player. `ShapeInv` adds
`WriterInv` and `ReaderInv`. `WriterInv` also says that the score seen by a
SELECT is at most the stored one, which rests on `SqlMerge` never lowering it.

**The cache.** `CacheInv` adds `FillIsCurrent`: a list on its way into the
cache is current unless a write has changed the board since. The argument: a
write that changes a row has `updated` set, so it is on its way to
`Invalidate`, which it cannot miss; a write that changes nothing leaves
`TopNLists` alone; a list that is put is current or excused. Over MySQL
`updated` is computed from the score selected earlier, and one has to show that
a write that does change the row is still reported as updated; that is the part
of `WriterInv` about `exec`.

**Writes.** Every step is, for one write, one of five shapes, whatever the
store and whether it succeeds: the write is accepted (`Accepts`), its score
reaches the store (`Records`), it goes to its next call (`Moves`), it is done
with a window (`EndsWindow`), or it ends in an error, with or without the score
stored (`GivesUp`). `StepShape` shows this once; the invariants and the
refinement then need five cases and not one for each statement. Two invariants
rest on it. `WritesKept`: the windows a write has left behind hold at least its
score, and its best is between its own score and the stored one. `RowsHeld`:
the score of a row is the largest in its history and one of it. For payloads it
takes `AbsentAreBare`, that a row which is not there has none, since
`SqlMerge` looks at the payload only where it finds a row.

`ImplementsMaxScores` maps rows to their scores and each write to its job. A
step that stores a score is `Record` of `MaxScores`, or `RecordUnconfirmed` if
the database reports an error for it; the last window done is `Confirm`, an
error `Fail`, a restart `Crash`; the other calls stutter.

**Reads and ranks.** `CacheHolds` and `ReadsHold`: a list in the cache or in a
read shows no score above the stored one, as rows only rise while the process
runs, and the cache and the reads end with it. A reply agrees with itself because the own score
is looked up after the list: what is seen later is not lower. That a rank
agrees with lists is a fact about one board: the rows which come before a
player in a sorted list are the ones `RankOf` counts and some of those equal to
his own, and counting is a matter of finite sets. `RanksFit` bounds a rank by
the number of players. Over MySQL the count is made with a score read before,
so the player's own improved row may be counted too: this is where the one more
of `RankWithinBoard` comes from, and it cannot be left out.

**Causes of findings.** Three findings are races or mixtures of requests, and a
theorem says that nothing else is behind them. `OneSizeIsServed` (finding
`lb_short_list`): while every request needs the same number of entries, `SizeInv`
says that every list in the cache was read with it, and a list that is neither
excused nor about to be dropped is then a current `TopN` of the length asked
for. `OneUpdateLosesNothing` (finding `acc_lost_update`): while no two requests
are between the SELECT and the UPDATE of one account, what an update has read is
still there when it writes (`ReadIsCurrent`); the second hypothesis is a
condition on the behaviour, which a client that waits for each answer keeps.
`SqlTimesNeverMove` (finding `lb_sql_time`): over MySQL the time of a row is
the one of its first write for ever, so ties are always ordered by that.

**Periods.** `FirstDay` grows by 365 or 366 days a year and every day is in
one of the three years from `(400 * day) \div 146097` on, so `Year` exists and is unique;
`Month` likewise, from the 13 bounds of `DaysBefore`. Two days have one month
key exactly if no day after the first of them, up to the second, is the first
of a month: within a month `DayOfMonth` counts up, and a change of month passes
a first. A week has one Thursday, and Thursdays of one year are as far apart as
their week numbers say: this is why the ISO week works with the year of the
Thursday and not with that of the day. `BoardKey` puts the period in the fourth
place from the front and the channel last, so three parts without bars are
enough for all five to be read off. `WindowsHaveOwnBoards` shows that the boards
of the program have what `BoardsAssumption` demands of boards. The invariant of
`BoardsAreAlwaysPeriods` is `InPlace`: a score in the history of a board is on
the board of its own window and instant. It needs `StepShape`, and that the
clock is read once for all windows of a write.

**Accounts.** `AccountsInv` is the types, `AnswersAgree`, `OneIsNew` and
`UpdateKeepsClick`: between the SELECT and the UPDATE of a profile the account
read is still there with the same click id and time, so that writing
`extra_json` back as a whole cannot lose the click id. `OneIsNew` needs
`AnswersAgree`: whoever registers first finds no row, and therefore nobody has
been answered before. `SessionNamesAccount` holds since accounts of MySQL are
never deleted and a token is issued for the account just found. For
`MemoryFieldsStay` the invariant `MemoryPCs` says that in memory no request is
between two statements, so that an update writes over what it has just read.

`ImplementsFirstTouch` maps an account to its click id and time and a request
to what it is told of its registration. Again each step of a client is one of a
few forms: it has nothing to do with a registration (`Leaves`), it sends one
(`Arrives`), goes on with one (`GoesOn`), perhaps having inserted the row and
lost the answer, is told that the account is new (`IsFirst`), or that it
is not (`IsLate`). `WaitersRegister` ties the statements to the kind of request.

**Players.** `TokenInv` (tokens are those of registered accounts of the device)
is inductive by itself: accounts are only added, and `Login` issues a token for
the account it has just found. `RowsAreMeant` follows with it from one lemma per
way of finding the player: what `RequireSession`, `ResolveImRankPlayer` and
`Explicit` return either speaks for the account meant or is refused.
`ScoresAreOwn` has two hypotheses about the clients, and both are needed.
`OneAccountEach`: a person has one account in an app on a channel.
`CarefulClients`: no `player_id` in place of an open id (this is the finding
`gw_player_id`), and app or channel are left out only if they are the defaults
and the device has no other account. The second part is how the code is used:
a request that leaves them out takes them from the session as long as it is
valid and from the defaults afterwards. `DefaultWindowsMeet` adds `WeekIsThere`:
both defaults of writes, week and month over HTTP and all four over gRPC's
`SetImRankData`, have the week in them, which is the default of reads.
`RowsAreNeverShared` adds that two accounts with one `player` are one: the
account id puts the channel before the open id, and within one channel the rest
is the open id, whatever underscores it holds.

**The process.** `ServerInv` is the types and five parts. `Life`: the store is
open, and a call may be in flight, only while `main` has not left the way to
`Close`; a listener that serves is not past its stop. `Late`: a request in
flight beyond `Shutdown`, or one that has met a closed store, means that the
deadline has passed. `Ways`: which kinds wait where, and that a code is there
where one is exchanged. `PairIsThere`: where the platform's mode is enabled and
`TikTokReady`, logins have a pair. Its lemma `StackHasPair` is about the two
readers of the credentials and holds for every environment: a map that has an
entry at all has a complete one, since `ParseClientSecrets` drops incomplete
entries and `Load` adds the single pair only when complete. `Told`: a login that
has got past the platform names the id the platform gave, and one that has not,
or is refused, names none. `OwnKeyIsAccepted` follows from `Ways` and from what
`PairFor` returns: a request leaves `exchange` refused only through
`ExchangeCode`, with the code spent or the secret wrong, or through
`ExchangeFails`.

The assumptions are the `ASSUME`s of `Leaderboard`, `Periods`, `Accounts`,
`Gateway` and `Server`; TLC evaluates them in every run. Those about the world: period buckets of different windows
are different, and a write names a window once (`ParseWriteRankTypes` does not
repeat one); there is at least one player or account; a game registered with
the platform has a key and a secret, and a login carries a code; profile updates carry no
click id (`UpdateProfile` has no such parameter).

Only model-checked: the liveness properties `OutdatedListIsDropped` and
`OnlyCallsHoldTheEnd` (outside the prover's reach). Every other property of a
passing run is stated by a theorem, under the hypotheses of the table. Of the
properties of the findings, which the code violates, two hold under a
hypothesis (`OneSizeIsServed`, `OneUpdateLosesNothing`) and `RowIsASubmission`
and `RowsAreMeant` with the memory store and for careful clients.

## 5. Not modelled

* `GetImRankData` cuts a page from the list it has read; the model keeps the
  list, and `lb_short_list` the number it has to have, and leaves out the cut.
* In `Gateway`: friend lists (which are empty by design), board and zone ids
  (copied through), and the change of period (`Leaderboard` has it).
* The hash of a board key, taken to be injective. The five parts are joined
  with bars that are not escaped (`domain.go:133`): ids with bars could meet,
  ids without do not (`BoardKeysDiffer`).
* In `Server`: registration with an open id and no code, which nobody checks
  (a `plain` request), the memory store, and names of modes and keys that
  differ in case, blanks or quotes only (the parsers remove these).
* Addresses, limits and levels in the configuration: constants of the models,
  or without effect on any state.
* Decoding, error codes, what is logged, and generated code: no state.
* `CountByChannel` and `GetRegisterStats` only read. `EnsureSchema` runs before
  the first request; its primary keys are assumptions of the models.
* The redis store is a stub whose methods return an error. Gzip and the
  snapshot time of the cache are not visible in replies' contents.

## 6. Plan

Done, in this order: the leaderboard, as the program exists for it; the
accounts; the handlers that join them; the process with its configuration and
shutdown; period and board keys; the proofs of all safety properties, for every
value of the constants, and of both refinements. What remains:

1. the page `GetImRankData` cuts from its list, with integers of their width
   (`service.go:636`);
2. `Gateway` as an abstract specification of `Leaderboard` and `Accounts` put
   together, in place of the join by constants.
