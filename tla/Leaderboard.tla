----------------------------- MODULE Leaderboard -----------------------------
(***************************************************************************)
(* The running leaderboard: score writes (UpsertMaxScore, SetImRankData)   *)
(* and list reads (GetLeaderboard, GetImRankList, GetImRankData) of        *)
(* concurrent requests over one score store and one hot cache.             *)
(*                                                                         *)
(* Every request is a goroutine: it may be overtaken between any two calls *)
(* to the store or the cache, each of which is one step here because it    *)
(* holds a lock or is one SQL statement.  Backend says which store the     *)
(* process was started with: "memory" has atomic calls that cannot fail,   *)
(* "mysql" runs UpsertMax and RankOf as two statements each, and any       *)
(* statement may fail, an INSERT also after it has been committed.         *)
(***************************************************************************)
EXTENDS RankBoard

CONSTANTS
    Backend,        \* "memory" or "mysql" (RANK_STORE)
    Players, NoPlayer,
    Windows,        \* rank windows: day, week, month, all
    Boards,         \* board keys of one app, board, zone and channel
    BoardAt,        \* BoardAt[window][time]: the period bucket of that instant
    WriteTargets,   \* window lists ParseWriteRankTypes may return
    Scores, Extras,
    Writers, Readers,           \* requests in flight at the same time
    TopNDefault, TopNMax,       \* RANK_TOPN_DEFAULT, RANK_TOPN_MAX
    Askers,         \* player_id of list reads; NoPlayer: none given
    AskedTopN, PageNums, PageSizes,   \* what clients ask for
    MaxNow, MaxWrites, MaxReads, MaxFaults, MaxRestarts   \* bounds

Times == 0..MaxNow
Budget == [write |-> MaxWrites, read |-> MaxReads,
           fault |-> MaxFaults, restart |-> MaxRestarts]

ASSUME BackendAssumption == Backend \in {"memory", "mysql"}
ASSUME PlayersAssumption == /\ Players # {}
                            /\ IsFiniteSet(Players)
                            /\ NoPlayer \notin Players
\* Period keys of different windows never coincide, and a write list names a
\* window once (ParseWriteRankTypes keeps a set of those seen).
ASSUME BoardsAssumption ==
    /\ Boards # {}
    /\ BoardAt \in [Windows -> [Times -> Boards]]
    /\ \A v, u \in Windows : \A s, t \in Times :
          BoardAt[v][s] = BoardAt[u][t] => v = u
ASSUME TargetsAssumption ==
    \A targets \in WriteTargets :
        /\ targets \in Seq(Windows)
        /\ targets # <<>>
        /\ \A i, j \in 1..Len(targets) : targets[i] = targets[j] => i = j
ASSUME InputsAssumption == /\ Scores \subseteq Nat
                           /\ NoExtra \in Extras
                           /\ Askers \subseteq Players \union {NoPlayer}
                           /\ AskedTopN \subseteq Int
                           /\ PageNums \subseteq Int
                           /\ PageSizes \subseteq Int
ASSUME TopNAssumption == TopNDefault \in Nat \ {0} /\ TopNMax \in Nat \ {0}
ASSUME BoundsAssumption == /\ MaxNow \in Nat
                           /\ Budget \in [DOMAIN Budget -> Nat]

VARIABLES
    now,        \* the wall clock
    rows,       \* rows[b][p]: the stored row
    cache,      \* cache[b]: the hot item of a board
    writer,     \* writer[w]: a score-write request
    reader,     \* reader[r]: a list-read request
    history,    \* history[b][p]: auxiliary, the (score, at) pairs stored so far
    used        \* how much of each bound has been used

vars == <<now, rows, cache, writer, reader, history, used>>

-----------------------------------------------------------------------------
(* Requests *)

Finished == {"idle", "ok", "failed"}
WriterPC == Finished \union {"upsert", "exec", "get", "invalidate", "rank", "count"}
ReaderPC == Finished \union {"get", "topn", "put", "rank", "count"}

Score == Nat \union {-1}
Row == [score : Score, at : Times, extra : Extras]
Compact == [p : Players, s : Nat, x : Extras]

\* hit: the map has an item; n and excused are auxiliary: the TopN the list was
\* read with, and whether a write went by that no invalidation will make up for.
Item == [hit : BOOLEAN, list : Seq(Compact), n : Nat, excused : BOOLEAN]
NoItem == [hit |-> FALSE, list |-> <<>>, n |-> 0, excused |-> FALSE]

WriterState ==
    [pc : WriterPC, player : Players \union {NoPlayer}, score : Nat, extra : Extras, at : Times,
     targets : Seq(Windows), i : Nat, seen : Score, seenAt : Times,
     updated : BOOLEAN, best : Score, rank : Nat]

ReaderState ==
    [pc : ReaderPC, player : Players \union {NoPlayer}, board : Boards, want : Nat,
     list : Seq(Compact), excused : BOOLEAN, seen : Score, seenAt : Times, rank : Nat]

IdleWriter ==
    [pc |-> "idle", player |-> NoPlayer, score |-> 0,
     extra |-> NoExtra, at |-> 0, targets |-> <<>>, i |-> 1, seen |-> -1,
     seenAt |-> 0, updated |-> FALSE, best |-> -1, rank |-> 0]

IdleReader ==
    [pc |-> "idle", player |-> NoPlayer, board |-> CHOOSE b \in Boards : TRUE,
     want |-> 0, list |-> <<>>, excused |-> FALSE, seen |-> -1, seenAt |-> 0, rank |-> 0]

EmptyRows == [b \in Boards |-> [p \in Players |-> NoRow]]
NoHistory == [b \in Boards |-> [p \in Players |-> {}]]
EmptyCache == [b \in Boards |-> NoItem]
IdleWriters == [w \in Writers |-> IdleWriter]
IdleReaders == [r \in Readers |-> IdleReader]

Spend(kind) == /\ used[kind] < Budget[kind]
               /\ used' = [used EXCEPT ![kind] = @ + 1]

\* Fault in BoardOf: the clock is read again for every window.
BoardNow(wr) == BoardAt[wr.targets[wr.i]][now]

\* The board of the window a write is working on, and the entry it stores there.
BoardOf(wr) == BoardAt[wr.targets[wr.i]][wr.at]
EntryOf(wr) == [score |-> wr.score, at |-> wr.at, extra |-> wr.extra]

Merge(old, e) == IF Backend = "memory" THEN MemoryMerge(old, e) ELSE SqlMerge(old, e)

-----------------------------------------------------------------------------
(* Score writes *)

\* A validated write: the clock is read once and used for every window.
SubmitScore(w, p, s, x, targets) ==
    /\ writer[w].pc \in Finished
    /\ Spend("write")
    /\ writer' = [writer EXCEPT ![w] =
                    [IdleWriter EXCEPT !.pc = "upsert", !.player = p, !.score = s,
                                       !.extra = x, !.at = now, !.targets = targets]]
    /\ UNCHANGED <<now, rows, cache, reader, history>>

\* The entry reaches the store.  Readers that hold a list of this board they
\* have not put into the cache yet now hold an old one.
StoreEntry(wr) ==
    LET b   == BoardOf(wr)
        p   == wr.player
        new == Merge(rows[b][p], EntryOf(wr))
    IN  /\ rows' = [rows EXCEPT ![b][p] = new]
        /\ history' = [history EXCEPT ![b][p] = @ \union {<<wr.score, wr.at>>}]
        /\ reader' = [r \in Readers |->
                        IF new # rows[b][p] /\ reader[r].pc = "put" /\ reader[r].board = b
                        THEN [reader[r] EXCEPT !.excused = TRUE]
                        ELSE reader[r]]

Reported(wr, seen) ==
    [wr EXCEPT !.pc = "get", !.seen = seen,
               !.updated = Updated(seen, EntryOf(wr)),
               !.best = Best(seen, EntryOf(wr))]

\* memory: look up, compare and store under one lock.
UpsertInMemory(w) ==
    /\ Backend = "memory"
    /\ writer[w].pc = "upsert"
    /\ StoreEntry(writer[w])
    /\ writer' = [writer EXCEPT ![w] =
                    Reported(@, rows[BoardOf(@)][@.player].score)]
    /\ UNCHANGED <<now, cache, used>>

\* mysql: SELECT score.
SelectOldScore(w) ==
    /\ Backend = "mysql"
    /\ writer[w].pc = "upsert"
    /\ writer' = [writer EXCEPT
                    ![w].pc = "exec",
                    ![w].seen = rows[BoardOf(writer[w])][writer[w].player].score]
    /\ UNCHANGED <<now, rows, cache, reader, history, used>>

\* mysql: the INSERT; the outcome is computed from the score selected before it.
InsertOrUpdate(w) ==
    /\ writer[w].pc = "exec"
    /\ StoreEntry(writer[w])
    /\ writer' = [writer EXCEPT ![w] = Reported(@, @.seen)]
    /\ UNCHANGED <<now, cache, used>>

\* mysql: the INSERT is committed but the call returns an error: upsertOne
\* returns before it looks at the cache.
InsertWithoutReply(w) ==
    /\ writer[w].pc = "exec"
    /\ Spend("fault")
    /\ StoreEntry(writer[w])
    /\ writer' = [writer EXCEPT ![w] = [IdleWriter EXCEPT !.pc = "failed"]]
    /\ cache' = [b \in Boards |->
                    IF rows'[b] # rows[b] /\ cache[b].hit
                    THEN [cache[b] EXCEPT !.excused = TRUE] ELSE cache[b]]
    /\ UNCHANGED now

\* Fault: only a write that reaches the last score of the list drops it, though
\* the list may be shorter than n (the rule of docs/design.md 6.2).
ReachesList(wr, item) == item.hit /\ wr.best >= TopScoreMin(item.list)

\* The write may show in the cached list.
MayShow(wr, item) == wr.updated \/ (item.hit /\ wr.best >= TopScoreMin(item.list))

\* upsertOne looks at the cache; the item may be replaced before it is dropped.
DecideInvalidate(w) ==
    LET wr == writer[w]
    IN  /\ wr.pc = "get"
        /\ writer' = [writer EXCEPT ![w].pc =
                        IF MayShow(wr, cache[BoardOf(wr)]) THEN "invalidate" ELSE "rank"]
        /\ UNCHANGED <<now, rows, cache, reader, history, used>>

Invalidate(w) ==
    /\ writer[w].pc = "invalidate"
    /\ cache' = [cache EXCEPT ![BoardOf(writer[w])] = NoItem]
    /\ writer' = [writer EXCEPT ![w].pc = "rank"]
    /\ UNCHANGED <<now, rows, reader, history, used>>

\* Fault: the reply is sent after the first window.
FirstWindowOnly(wr, rank) == [wr EXCEPT !.pc = "ok", !.rank = rank]

\* Fault: the rank is not copied into the reply.
WindowWithoutRank(wr, rank) ==
    IF wr.i < Len(wr.targets)
    THEN [wr EXCEPT !.pc = "upsert", !.i = wr.i + 1]
    ELSE [wr EXCEPT !.pc = "ok"]

\* The window is done: the next one, or the reply.
WindowDone(wr, rank) ==
    IF wr.i < Len(wr.targets)
    THEN [wr EXCEPT !.pc = "upsert", !.i = wr.i + 1, !.seen = -1, !.seenAt = 0,
                    !.updated = FALSE, !.best = -1]
    ELSE [wr EXCEPT !.pc = "ok", !.rank = rank]

\* RankOf for the reply of a write: in one step in memory, ...
RankForWriter(w) ==
    /\ Backend = "memory"
    /\ writer[w].pc = "rank"
    /\ writer' = [writer EXCEPT ![w] =
                    WindowDone(@, RankOf(rows[BoardOf(@)], @.player))]
    /\ UNCHANGED <<now, rows, cache, reader, history, used>>

\* ... in mysql the player's own row first, then the count of better rows.
SelectOwnForWriter(w) ==
    LET own == rows[BoardOf(writer[w])][writer[w].player]
    IN  /\ Backend = "mysql"
        /\ writer[w].pc = "rank"
        /\ writer' = [writer EXCEPT ![w] =
                        IF own.score < 0 THEN WindowDone(@, 0)
                        ELSE [@ EXCEPT !.pc = "count", !.seen = own.score, !.seenAt = own.at]]
        /\ UNCHANGED <<now, rows, cache, reader, history, used>>

CountForWriter(w) ==
    LET wr  == writer[w]
        own == [score |-> wr.seen, at |-> wr.seenAt]
    IN  /\ wr.pc = "count"
        /\ writer' = [writer EXCEPT ![w] =
                        WindowDone(@, 1 + Cardinality(Ahead(rows[BoardOf(wr)], own)))]
        /\ UNCHANGED <<now, rows, cache, reader, history, used>>

\* A statement of a write fails without effect: the request ends with an error
\* and the windows after this one are not written.
WriterFails(w) ==
    /\ Backend = "mysql"
    /\ writer[w].pc \in {"upsert", "exec", "rank", "count"}
    /\ Spend("fault")
    /\ writer' = [writer EXCEPT ![w] = [IdleWriter EXCEPT !.pc = "failed"]]
    /\ UNCHANGED <<now, rows, cache, reader, history>>

-----------------------------------------------------------------------------
(* List reads *)

ClampTopN(n) == Smaller(IF n <= 0 THEN TopNDefault ELSE n, TopNMax)
ClampPageNum(num) == IF num <= 0 THEN 1 ELSE num
ClampPageSize(size) == Smaller(IF size <= 0 THEN 20 ELSE size, TopNMax)

\* GetLeaderboard and GetImRankList: the n best entries.
AskList(r, p, window, n) ==
    /\ reader[r].pc \in Finished
    /\ Spend("read")
    /\ reader' = [reader EXCEPT ![r] =
                    [IdleReader EXCEPT !.pc = "get", !.player = p,
                                       !.board = BoardAt[window][now],
                                       !.want = ClampTopN(n)]]
    /\ UNCHANGED <<now, rows, cache, writer, history>>

\* GetImRankData: as many entries as the page needs, capped;
\* the slice it is answered with is cut from the list at the end.
AskPage(r, p, window, num, size) ==
    LET pageNum  == ClampPageNum(num)
        pageSize == ClampPageSize(size)
    IN  /\ reader[r].pc \in Finished
        /\ Spend("read")
        /\ reader' = [reader EXCEPT ![r] =
                        [IdleReader EXCEPT !.pc = "get", !.player = p,
                                           !.board = BoardAt[window][now],
                                           !.want = Smaller(pageNum * pageSize, TopNMax)]]
        /\ UNCHANGED <<now, rows, cache, writer, history>>

\* Fault: the list is answered without the caller's rank.
ListOnly(rd) == [rd EXCEPT !.pc = "ok"]

\* With the list in hand: the caller's own rank, if a player is named.
ListDone(rd) == [rd EXCEPT !.pc = IF rd.player = NoPlayer THEN "ok" ELSE "rank"]

\* A cached list is served whatever number of entries is asked for.
ReadCache(r) ==
    LET item == cache[reader[r].board]
    IN  /\ reader[r].pc = "get"
        /\ reader' = [reader EXCEPT ![r] =
                        IF item.hit THEN ListDone([@ EXCEPT !.list = item.list])
                        ELSE [@ EXCEPT !.pc = "topn"]]
        /\ UNCHANGED <<now, rows, cache, writer, history, used>>

ReadTopN(r) ==
    /\ reader[r].pc = "topn"
    /\ \E list \in TopNLists(rows[reader[r].board], reader[r].want) :
          reader' = [reader EXCEPT ![r] = [@ EXCEPT !.pc = "put", !.list = list]]
    /\ UNCHANGED <<now, rows, cache, writer, history, used>>

\* The list read before is put into the cache, over whatever is there now.
PutCache(r) ==
    LET rd == reader[r]
    IN  /\ rd.pc = "put"
        /\ cache' = [cache EXCEPT ![rd.board] =
                        [hit |-> TRUE, list |-> rd.list, n |-> rd.want,
                         excused |-> rd.excused]]
        /\ reader' = [reader EXCEPT ![r] = ListDone([rd EXCEPT !.excused = FALSE])]
        /\ UNCHANGED <<now, rows, writer, history, used>>

RankForReader(r) ==
    LET board == rows[reader[r].board]
        p     == reader[r].player
    IN  /\ Backend = "memory"
        /\ reader[r].pc = "rank"
        /\ reader' = [reader EXCEPT ![r].pc = "ok", ![r].seen = board[p].score,
                                    ![r].rank = RankOf(board, p)]
        /\ UNCHANGED <<now, rows, cache, writer, history, used>>

SelectOwnForReader(r) ==
    LET own == rows[reader[r].board][reader[r].player]
    IN  /\ Backend = "mysql"
        /\ reader[r].pc = "rank"
        /\ reader' = [reader EXCEPT ![r] =
                        IF own.score < 0 THEN [@ EXCEPT !.pc = "ok"]
                        ELSE [@ EXCEPT !.pc = "count", !.seen = own.score, !.seenAt = own.at]]
        /\ UNCHANGED <<now, rows, cache, writer, history, used>>

CountForReader(r) ==
    LET rd  == reader[r]
        own == [score |-> rd.seen, at |-> rd.seenAt]
    IN  /\ rd.pc = "count"
        /\ reader' = [reader EXCEPT ![r] =
                        [@ EXCEPT !.pc = "ok",
                                  !.rank = 1 + Cardinality(Ahead(rows[rd.board], own))]]
        /\ UNCHANGED <<now, rows, cache, writer, history, used>>

ReaderFails(r) ==
    /\ Backend = "mysql"
    /\ reader[r].pc \in {"topn", "rank", "count"}
    /\ Spend("fault")
    /\ reader' = [reader EXCEPT ![r] = [IdleReader EXCEPT !.pc = "failed"]]
    /\ UNCHANGED <<now, rows, cache, writer, history>>

-----------------------------------------------------------------------------
(* The environment, and the specification *)

Tick == /\ now < MaxNow
        /\ now' = now + 1
        /\ UNCHANGED <<rows, cache, writer, reader, history, used>>

\* The process is killed and started again: requests and cache are gone, and
\* with the memory store the scores as well.
Restart ==
    /\ Spend("restart")
    /\ cache' = EmptyCache
    /\ writer' = IdleWriters
    /\ reader' = IdleReaders
    /\ rows' = IF Backend = "memory" THEN EmptyRows ELSE rows
    /\ history' = IF Backend = "memory" THEN NoHistory ELSE history
    /\ UNCHANGED now

Init ==
    /\ now = 0
    /\ rows = EmptyRows
    /\ cache = EmptyCache
    /\ writer = IdleWriters
    /\ reader = IdleReaders
    /\ history = NoHistory
    /\ used = [kind \in DOMAIN Budget |-> 0]

\* The steps a request takes by itself.
WriterStep(w) ==
    \/ UpsertInMemory(w)
    \/ SelectOldScore(w)
    \/ InsertOrUpdate(w)
    \/ DecideInvalidate(w)
    \/ Invalidate(w)
    \/ RankForWriter(w)
    \/ SelectOwnForWriter(w)
    \/ CountForWriter(w)

ReaderStep(r) ==
    \/ ReadCache(r)
    \/ ReadTopN(r)
    \/ PutCache(r)
    \/ RankForReader(r)
    \/ SelectOwnForReader(r)
    \/ CountForReader(r)

Next ==
    \/ \E w \in Writers :
          \/ \E p \in Players, s \in Scores, x \in Extras, t \in WriteTargets :
                SubmitScore(w, p, s, x, t)
          \/ WriterStep(w)
          \/ InsertWithoutReply(w)
          \/ WriterFails(w)
    \/ \E r \in Readers :
          \/ \E p \in Askers, t \in Windows, n \in AskedTopN :
                AskList(r, p, t, n)
          \/ \E p \in Askers, t \in Windows,
                num \in PageNums, size \in PageSizes :
                AskPage(r, p, t, num, size)
          \/ ReaderStep(r)
          \/ ReaderFails(r)
    \/ Tick
    \/ Restart

Spec == Init /\ [][Next]_vars

\* The Go scheduler runs every goroutine that can run, and every store call
\* returns: each request takes its next step in the end.
Fairness == /\ \A w \in Writers : WF_vars(WriterStep(w))
            /\ \A r \in Readers : WF_vars(ReaderStep(r))

FairSpec == Spec /\ Fairness
=============================================================================
