-------------------------- MODULE LeaderboardProps --------------------------
(***************************************************************************)
(* The correctness properties of Leaderboard.                              *)
(***************************************************************************)
EXTENDS Leaderboard

TypeOK ==
    /\ now \in Times
    /\ rows \in [Boards -> [Players -> Row]]
    /\ cache \in [Boards -> Item]
    /\ writer \in [Writers -> WriterState]
    /\ reader \in [Readers -> ReaderState]
    /\ history \in [Boards -> [Players -> SUBSET (Nat \X Times)]]
    /\ used \in [DOMAIN Budget -> Nat]

-----------------------------------------------------------------------------
(* Score writes *)

\* Program counters of a write whose current window has reached the store.
AfterStore == {"get", "invalidate", "rank", "count", "ok"}

\* Windows of a request that upsertOne has been through.
Stored(wr) == {k \in 1..Len(wr.targets) :
                  k < wr.i \/ (k = wr.i /\ wr.pc \in AfterStore)}

\* A request that goes on to its next window, or answers with success, has left
\* its score on the boards of all windows before: the store never falls below
\* it, whatever other writers did since (service.go UpsertMaxScore loop).
StoredBeforeReply ==
    \A w \in Writers : writer[w].pc \notin {"idle", "failed"} =>
        \A k \in Stored(writer[w]) :
            rows[BoardAt[writer[w].targets[k]][writer[w].at]][writer[w].player].score
                >= writer[w].score

\* best_score is never below the score just submitted and never above what the
\* store holds: a reply promises no score that a later read could deny.
ReportedBestIsReal ==
    \A w \in Writers : writer[w].pc \in AfterStore =>
        LET wr == writer[w]
        IN  /\ wr.score <= wr.best
            /\ wr.best <= rows[BoardOf(wr)][wr.player].score

\* The stored score is the best of all that reached the store and is one of
\* them; there is a row as soon as one did (UpsertMax, both stores).
ScoreIsBestSubmission ==
    \A b \in Boards, p \in Players :
        LET row == rows[b][p]
        IN  /\ \A h \in history[b][p] : h[1] <= row.score
            /\ row.score >= 0 => \E h \in history[b][p] : h[1] = row.score

\* A row's time is the time of a submission of exactly its score: the tie-break
\* orders equal scores by when they were reached (memory.go:44-46).
RowIsASubmission ==
    \A b \in Boards, p \in Players :
        rows[b][p].score >= 0 => <<rows[b][p].score, rows[b][p].at>> \in history[b][p]

\* No write takes the display payload of a row away.  So it is over MySQL
\* (mysql.go:59); in memory a better score may (memory.go:45).
ExtraNeverWiped ==
    [][\A b \in Boards, p \in Players :
          rows[b][p].extra # NoExtra => rows'[b][p].extra # NoExtra]_rows

-----------------------------------------------------------------------------
(* The hot cache *)

\* A write has changed board b and is on its way to drop the cached list.
InvalidationPending(b) ==
    \E w \in Writers : /\ writer[w].pc \in {"get", "invalidate"}
                       /\ writer[w].updated
                       /\ BoardOf(writer[w]) = b

\* A cached list is the current TopN of its size, unless a write to the board is
\* about to drop it, or the list was read before and put after a write, or the
\* database hid a committed write from the service.  No other sequence of
\* writes, reads and failures leaves an old list behind (service.go:303-311).
CachedListIsCurrent ==
    \A b \in Boards :
        cache[b].hit /\ ~cache[b].excused /\ ~InvalidationPending(b)
            => cache[b].list \in TopNLists(rows[b], cache[b].n)

\* A list served from the cache is as long as the request asks for, unless the
\* board is shorter (docs/design.md:240: top_n is only clamped to a maximum).
AskedEntriesAreServed ==
    [][\A r \in Readers :
          LET rd == reader[r]
          IN  /\ rd.pc = "get" /\ reader'[r].pc \in {"ok", "rank"}
              /\ ~cache[rd.board].excused /\ ~InvalidationPending(rd.board)
              => Len(reader'[r].list) >= Smaller(rd.want, Cardinality(Present(rows[rd.board])))]_vars

\* No list, cached or on its way into the cache, shows a score its player has
\* not reached on the board, and every cached list is in order of score.
ListBehindStore(list, b) ==
    /\ \A i \in DOMAIN list : list[i].s <= rows[b][list[i].p].score
    /\ \A i, j \in DOMAIN list : i < j => list[i].s >= list[j].s

ListsNeverAhead ==
    /\ \A b \in Boards : ListBehindStore(cache[b].list, b)
    /\ \A r \in Readers : ListBehindStore(reader[r].list, reader[r].board)

-----------------------------------------------------------------------------
(* Ranks *)

\* A reply's own score is at least what its list shows for the same player, and
\* a player on the list has a rank: the list may be old, the rank never older.
SelfNotBehindList ==
    \A r \in Readers : reader[r].pc = "ok" =>
        \A i \in DOMAIN reader[r].list :
            reader[r].list[i].p = reader[r].player =>
                /\ reader[r].rank >= 1
                /\ reader[r].list[i].s <= reader[r].seen

\* A rank in a reply is at most the number of players on the board.  With mysql
\* it may be one more: the player's own row, raised between the two statements
\* of RankOf, is counted as better than itself (mysql.go:110-132).
RankWithinBoard ==
    LET limit(b) == Cardinality(Present(rows[b])) + (IF Backend = "mysql" THEN 1 ELSE 0)
    IN  /\ \A r \in Readers : reader[r].rank <= limit(reader[r].board)
        /\ \A w \in Writers : writer[w].pc = "ok" =>
              writer[w].rank \in 1..limit(BoardOf(writer[w]))

\* The rank counted by RankOf is at most the position in any list TopN may
\* return, and equal to it when no other row has the same score and time.
RankAgreesWithList ==
    \A b \in Boards, n \in 1..TopNMax :
        \A list \in TopNLists(rows[b], n) : \A i \in DOMAIN list :
            LET p    == list[i].p
                tied == {q \in Present(rows[b]) \ {p} :
                            /\ rows[b][q].score = rows[b][p].score
                            /\ rows[b][q].at = rows[b][p].at}
            IN  /\ RankOf(rows[b], p) <= i
                /\ i <= RankOf(rows[b], p) + Cardinality(tied)

-----------------------------------------------------------------------------
(* What writers are promised, as the abstract specification MaxScores *)

LeftBoards(wr) ==
    {BoardAt[wr.targets[k]][wr.at] : k \in (1..Len(wr.targets)) \ Stored(wr)}

JobOf(wr) ==
    IF wr.pc \in Finished
    THEN [st |-> wr.pc, player |-> NoPlayer, score |-> 0, left |-> {}]
    ELSE [st |-> "busy", player |-> wr.player, score |-> wr.score, left |-> LeftBoards(wr)]

Promise == INSTANCE MaxScores WITH
    Jobs       <- Writers,
    Persistent <- (Backend = "mysql"),
    best       <- [b \in Boards |-> [p \in Players |-> rows[b][p].score]],
    job        <- [w \in Writers |-> JobOf(writer[w])]

\* The service keeps the promise: scores only rise, an answered write is on all
\* its boards, a failed one on some, and only a memory store forgets (all of
\* service.go UpsertMaxScore with either store).
KeepsPromise == Promise!AbsSpec

-----------------------------------------------------------------------------
(* The inductive invariant the proofs of LeaderboardProofs use *)

\* A write in progress knows its player, its windows and its place among them;
\* between SELECT and INSERT the score it saw may be old, but never too high.
AtWork(wr, table) ==
    /\ wr.player \in Players
    /\ wr.targets \in WriteTargets
    /\ wr.i \in 1..Len(wr.targets)
    /\ wr.pc = "exec" => /\ Backend = "mysql"
                         /\ wr.seen <= table[BoardOf(wr)][wr.player].score

WriterInv ==
    \A w \in Writers :
        writer[w].pc \notin {"idle", "failed"} => AtWork(writer[w], rows)

\* A read looks up the rank of a named player only.
ReaderInv ==
    \A r \in Readers :
        reader[r].pc \in {"rank", "count"} => reader[r].player \in Players

ShapeInv == TypeOK /\ WriterInv /\ ReaderInv

\* The list a read is about to put into the cache is current unless a write to
\* the board has gone by.
FillIsCurrent ==
    \A r \in Readers :
        reader[r].pc = "put" /\ ~reader[r].excused =>
            reader[r].list \in TopNLists(rows[reader[r].board], reader[r].want)

CacheInv == ShapeInv /\ FillIsCurrent /\ CachedListIsCurrent

-----------------------------------------------------------------------------
(* Liveness *)

Outdated(b) == cache[b].hit /\ cache[b].list \notin TopNLists(rows[b], cache[b].n)

\* A cached list that a write has made old is dropped or replaced in the end,
\* unless it missed that write (see CachedListIsCurrent).
OutdatedListIsDropped ==
    \A b \in Boards : Outdated(b) /\ ~cache[b].excused
                        ~> (~Outdated(b) \/ cache[b].excused)

\* The refresh the design promises: every old list is replaced within
\* refresh_sec (docs/design.md 6.2), whatever made it old.
OutdatedListIsRebuilt == \A b \in Boards : Outdated(b) ~> ~Outdated(b)
=============================================================================
