------------------------ MODULE LeaderboardReadProofs ------------------------
(***************************************************************************)
(* Cache, lists and ranks of Leaderboard, for all numbers of players,      *)
(* boards, concurrent requests, failures and restarts and with either      *)
(* store: a cached list is the current TopN unless its invalidation is on  *)
(* its way or it missed a write in one of the two known manners, no list   *)
(* is ahead of the store, a reply does not contradict itself, and the two  *)
(* ways to a rank, RankOf and the position in a list, agree.               *)
(***************************************************************************)
EXTENDS LeaderboardWriteProofs

-----------------------------------------------------------------------------
(* The hot cache *)

\* Write v is about to drop the list of board b.
Pending(v, b) == /\ writer[v].pc \in {"get", "invalidate"}
                 /\ writer[v].updated
                 /\ BoardOf(writer[v]) = b

LEMMA PendingDef == \A b : InvalidationPending(b) <=> \E v \in Writers : Pending(v, b)
BY DEF InvalidationPending, Pending

\* The steps that neither store nor cache anything, nor end an invalidation.
LEMMA QuietStep ==
    ASSUME CachedListIsCurrent, UNCHANGED <<rows, cache>>,
           \A v \in Writers, b \in Boards : Pending(v, b) => Pending(v, b)'
    PROVE  CachedListIsCurrent'
<1> SUFFICES ASSUME NEW b \in Boards, cache[b].hit, ~cache[b].excused,
                    ~InvalidationPending(b)'
             PROVE  cache[b].list \in TopNLists(rows[b], cache[b].n)
  BY DEF CachedListIsCurrent
<1>1. ~InvalidationPending(b)
  BY PendingDef DEF InvalidationPending, Pending
<1> QED BY <1>1 DEF CachedListIsCurrent

\* Storing an entry whose outcome is reported: a changed board means a pending
\* invalidation, and readers with an old list in hand know.
LEMMA StoreStep ==
    ASSUME CacheInv, NEW w \in Writers, NEW seen \in Score,
           writer[w].pc \in {"upsert", "exec"},
           seen <= rows[BoardOf(writer[w])][writer[w].player].score,
           StoreEntry(writer[w]),
           writer' = [writer EXCEPT ![w] = Reported(writer[w], seen)],
           UNCHANGED cache
    PROVE  FillIsCurrent' /\ CachedListIsCurrent'
<1> DEFINE wr == writer[w]
           b == BoardOf(wr)
           p == wr.player
           e == EntryOf(wr)
           new == Merge(rows[b][p], e)
<1>1. /\ wr \in WriterState /\ b \in Boards /\ p \in Players
      /\ e \in Row /\ rows[b][p] \in Row
  BY WriterAtWork DEF CacheInv, ShapeInv
<1>2. rows' = [rows EXCEPT ![b][p] = new]
  BY DEF StoreEntry
<1>3. rows \in [Boards -> [Players -> Row]] /\ reader \in [Readers -> ReaderState]
  BY DEF CacheInv, ShapeInv, TypeOK
<1>4. \A c \in Boards : c # b \/ new = rows[b][p] => rows'[c] = rows[c]
  BY <1>1, <1>2, <1>3
<1>5. FillIsCurrent'
  <2> SUFFICES ASSUME NEW r \in Readers, reader'[r].pc = "put", ~reader'[r].excused
               PROVE  reader'[r].list \in TopNLists(rows'[reader'[r].board], reader'[r].want)
    BY DEF FillIsCurrent
  <2>1. ~(new # rows[b][p] /\ reader[r].pc = "put" /\ reader[r].board = b)
        /\ reader'[r] = reader[r]
    BY <1>3 DEF StoreEntry, ReaderState
  <2>2. rows'[reader[r].board] = rows[reader[r].board]
    BY <1>3, <1>4, <2>1 DEF ReaderState
  <2> QED BY <2>1, <2>2 DEF CacheInv, FillIsCurrent
<1>6. CachedListIsCurrent'
  <2> SUFFICES ASSUME NEW c \in Boards, cache[c].hit, ~cache[c].excused,
                      ~InvalidationPending(c)'
               PROVE  cache[c].list \in TopNLists(rows'[c], cache[c].n)
    BY DEF CachedListIsCurrent
  <2>1. /\ writer'[w].pc = "get"
        /\ writer'[w].updated = Updated(seen, e)
        /\ BoardOf(writer'[w]) = b
    BY <1>1 DEF Reported, BoardOf, WriterState, CacheInv, ShapeInv, TypeOK
  <2>2. c # b \/ new = rows[b][p]
    <3> SUFFICES ASSUME c = b, new # rows[b][p] PROVE FALSE
      OBVIOUS
    <3>1. Updated(seen, e)
      BY <1>1, ChangeIsReported DEF EntryOf, WriterState
    <3> QED BY <2>1, <3>1 DEF InvalidationPending
  <2>3. ~InvalidationPending(c)
    BY DEF InvalidationPending, CacheInv, ShapeInv, TypeOK
  <2> QED BY <1>4, <2>2, <2>3 DEF CacheInv, CachedListIsCurrent
<1> QED BY <1>5, <1>6

\* A committed insert without a reply: nobody will drop the list, so it is
\* excused together with the lists in the hands of readers.
LEMMA LostReplyStep ==
    ASSUME CacheInv, NEW w \in Writers, InsertWithoutReply(w)
    PROVE  FillIsCurrent' /\ CachedListIsCurrent'
<1> DEFINE wr == writer[w]
           b == BoardOf(wr)
           p == wr.player
           new == Merge(rows[b][p], EntryOf(wr))
<1>1. wr.pc = "exec" /\ StoreEntry(wr)
  BY DEF InsertWithoutReply
<1>2. b \in Boards /\ p \in Players
  BY <1>1, WriterAtWork DEF CacheInv, ShapeInv
<1>3. rows \in [Boards -> [Players -> Row]] /\ reader \in [Readers -> ReaderState]
  BY DEF CacheInv, ShapeInv, TypeOK
<1>4. rows' = [rows EXCEPT ![b][p] = new]
  BY <1>1 DEF StoreEntry
<1>5. \A c \in Boards : c # b \/ new = rows[b][p] => rows'[c] = rows[c]
  BY <1>2, <1>3, <1>4
<1>6. FillIsCurrent'
  <2> SUFFICES ASSUME NEW r \in Readers, reader'[r].pc = "put", ~reader'[r].excused
               PROVE  reader'[r].list \in TopNLists(rows'[reader'[r].board], reader'[r].want)
    BY DEF FillIsCurrent
  <2>1. ~(new # rows[b][p] /\ reader[r].pc = "put" /\ reader[r].board = b)
        /\ reader'[r] = reader[r]
    BY <1>1, <1>3 DEF StoreEntry, ReaderState
  <2>2. rows'[reader[r].board] = rows[reader[r].board]
    BY <1>3, <1>5, <2>1 DEF ReaderState
  <2> QED BY <2>1, <2>2 DEF CacheInv, FillIsCurrent
<1>7. CachedListIsCurrent'
  <2> SUFFICES ASSUME NEW c \in Boards, cache'[c].hit, ~cache'[c].excused,
                      ~InvalidationPending(c)'
               PROVE  cache'[c].list \in TopNLists(rows'[c], cache'[c].n)
    BY DEF CachedListIsCurrent
  <2>1. cache[c] \in Item
    BY DEF CacheInv, ShapeInv, TypeOK
  <2>2. cache'[c] = cache[c] /\ rows'[c] = rows[c]
    BY <2>1 DEF InsertWithoutReply, Item
  <2>3. \A v \in Writers : Pending(v, c) => v # w /\ writer'[v] = writer[v]
    BY <1>1 DEF Pending, InsertWithoutReply, CacheInv, ShapeInv, TypeOK
  <2>4. ~InvalidationPending(c)
    BY <2>3 DEF InvalidationPending, Pending
  <2> QED BY <2>2, <2>4 DEF CacheInv, CachedListIsCurrent
<1> QED BY <1>6, <1>7

LEMMA WriterCacheStep ==
    ASSUME CacheInv, NEW w \in Writers,
           \/ \E p \in Players, s \in Scores, x \in Extras, t \in WriteTargets :
                 SubmitScore(w, p, s, x, t)
           \/ WriterStep(w)
           \/ InsertWithoutReply(w)
           \/ WriterFails(w)
    PROVE  FillIsCurrent' /\ CachedListIsCurrent'
<1> DEFINE wr == writer[w]
<1>0. /\ writer \in [Writers -> WriterState] /\ wr \in WriterState
      /\ FillIsCurrent /\ CachedListIsCurrent
  BY DEF CacheInv, ShapeInv, TypeOK
<1>1. ASSUME UNCHANGED <<rows, reader>>
      PROVE  FillIsCurrent'
  BY <1>0, <1>1 DEF FillIsCurrent
<1>2. ASSUME wr.pc \notin {"get", "invalidate"}, UNCHANGED <<rows, cache, reader>>,
             \A v \in Writers \ {w} : writer'[v] = writer[v]
      PROVE  FillIsCurrent' /\ CachedListIsCurrent'
  <2>1. \A v \in Writers, b \in Boards : Pending(v, b) => Pending(v, b)'
    BY <1>2 DEF Pending
  <2> QED BY <1>0, <1>1, <1>2, <2>1, QuietStep
<1>3. CASE \E p \in Players, s \in Scores, x \in Extras, t \in WriteTargets :
              SubmitScore(w, p, s, x, t)
  BY <1>0, <1>2, <1>3 DEF SubmitScore, Finished
<1>4. CASE UpsertInMemory(w)
  <2>1. rows[BoardOf(wr)][wr.player] \in Row
    BY <1>4, WriterAtWork DEF UpsertInMemory, CacheInv, ShapeInv
  <2>2. rows[BoardOf(wr)][wr.player].score \in Score
    BY <2>1 DEF Row
  <2>3. rows[BoardOf(wr)][wr.player].score <= rows[BoardOf(wr)][wr.player].score
    BY <2>2 DEF Score
  <2> QED BY <1>4, <2>2, <2>3, StoreStep DEF UpsertInMemory
<1>5. CASE InsertOrUpdate(w)
  <2>1. AtWork(wr, rows)
    BY <1>5 DEF InsertOrUpdate, CacheInv, ShapeInv, WriterInv
  <2>2. /\ wr.seen \in Score
        /\ wr.seen <= rows[BoardOf(wr)][wr.player].score
    BY <1>0, <1>5, <2>1 DEF InsertOrUpdate, AtWork, WriterState
  <2>3. writer' = [writer EXCEPT ![w] = Reported(writer[w], writer[w].seen)]
    BY <1>5 DEF InsertOrUpdate
  <2> QED BY <1>5, <2>2, <2>3, StoreStep DEF InsertOrUpdate
<1>6. CASE DecideInvalidate(w)
  <2>1. wr.updated => writer'[w].pc = "invalidate"
    BY <1>0, <1>6 DEF DecideInvalidate, MayShow
  <2>2. \A v \in Writers, b \in Boards : Pending(v, b) => Pending(v, b)'
    BY <1>0, <1>6, <2>1 DEF DecideInvalidate, Pending, BoardOf, WriterState
  <2> QED BY <1>0, <1>1, <1>6, <2>2, QuietStep DEF DecideInvalidate
<1>7. CASE Invalidate(w)
  <2>1. FillIsCurrent'
    BY <1>1, <1>7 DEF Invalidate
  <2> SUFFICES ASSUME NEW c \in Boards, cache'[c].hit, ~cache'[c].excused,
                      ~InvalidationPending(c)'
               PROVE  cache'[c].list \in TopNLists(rows'[c], cache'[c].n)
    BY <2>1 DEF CachedListIsCurrent
  <2>2. cache' = [cache EXCEPT ![BoardOf(wr)] = NoItem] /\ cache \in [Boards -> Item]
    BY <1>7 DEF Invalidate, CacheInv, ShapeInv, TypeOK
  <2>3. c # BoardOf(wr) /\ cache'[c] = cache[c]
    BY <2>2 DEF NoItem
  <2>4. \A v \in Writers : Pending(v, c) => v # w /\ writer'[v] = writer[v]
    BY <1>0, <1>7, <2>3 DEF Pending, Invalidate
  <2>5. ~InvalidationPending(c)
    BY <2>4 DEF InvalidationPending, Pending
  <2>6. rows' = rows
    BY <1>7 DEF Invalidate
  <2> QED BY <1>0, <2>3, <2>5, <2>6 DEF CachedListIsCurrent
<1>8. CASE InsertWithoutReply(w)
  BY <1>8, LostReplyStep
<1>9. CASE \/ SelectOldScore(w) \/ RankForWriter(w) \/ SelectOwnForWriter(w)
           \/ CountForWriter(w) \/ WriterFails(w)
  BY <1>0, <1>2, <1>9 DEF SelectOldScore, RankForWriter, SelectOwnForWriter,
                          CountForWriter, WriterFails
<1> QED BY <1>3, <1>4, <1>5, <1>6, <1>7, <1>8, <1>9 DEF WriterStep

LEMMA ReaderCacheStep ==
    ASSUME CacheInv, NEW r \in Readers,
           \/ \E p \in Askers, t \in Windows, n \in AskedTopN : AskList(r, p, t, n)
           \/ \E p \in Askers, t \in Windows, num \in PageNums, size \in PageSizes :
                 AskPage(r, p, t, num, size)
           \/ ReaderStep(r)
           \/ ReaderFails(r)
    PROVE  FillIsCurrent' /\ CachedListIsCurrent'
<1> DEFINE rd == reader[r]
<1>0. /\ reader \in [Readers -> ReaderState] /\ rd \in ReaderState
      /\ cache \in [Boards -> Item]
      /\ FillIsCurrent /\ CachedListIsCurrent
  BY DEF CacheInv, ShapeInv, TypeOK
<1>1. ASSUME UNCHANGED rows, \A q \in Readers \ {r} : reader'[q] = reader[q],
             reader'[r].pc = "put" =>
                 reader'[r].list \in TopNLists(rows[reader'[r].board], reader'[r].want)
      PROVE  FillIsCurrent'
  BY <1>0, <1>1 DEF FillIsCurrent
<1>2. ASSUME UNCHANGED <<rows, cache, writer>>
      PROVE  CachedListIsCurrent'
  <2>1. \A v \in Writers, b \in Boards : Pending(v, b) => Pending(v, b)'
    BY <1>2 DEF Pending, BoardOf
  <2> QED BY <1>0, <1>2, <2>1, QuietStep
<1>3. ASSUME UNCHANGED <<rows, cache, writer>>,
             \A q \in Readers \ {r} : reader'[q] = reader[q], reader'[r].pc # "put"
      PROVE  FillIsCurrent' /\ CachedListIsCurrent'
  BY <1>1, <1>2, <1>3
<1>4. \A x \in ReaderState : ListDone(x).pc # "put"
  BY DEF ListDone, ReaderState
<1>5. CASE \E p \in Askers, t \in Windows, n \in AskedTopN : AskList(r, p, t, n)
  BY <1>0, <1>3, <1>5, ZenonT(40) DEF AskList, IdleReader
<1>6. CASE \E p \in Askers, t \in Windows, num \in PageNums, size \in PageSizes :
              AskPage(r, p, t, num, size)
  BY <1>0, <1>3, <1>6, ZenonT(40) DEF AskPage, IdleReader
<1>7. CASE ReadCache(r)
  <2>1. [rd EXCEPT !.list = cache[rd.board].list] \in ReaderState
    <3>1. cache[rd.board] \in Item
      BY <1>0 DEF ReaderState
    <3> QED BY <1>0, <3>1 DEF Item, ReaderState
  <2> QED BY <1>0, <1>3, <1>4, <1>7, <2>1 DEF ReadCache, ReaderState
<1>8. CASE ReadTopN(r)
  <2>1. PICK list \in TopNLists(rows[rd.board], rd.want) :
            reader' = [reader EXCEPT ![r] = [@ EXCEPT !.pc = "put", !.list = list]]
    BY <1>8 DEF ReadTopN
  <2>2. /\ reader'[r].list = list /\ reader'[r].board = rd.board
        /\ reader'[r].want = rd.want
    BY <1>0, <2>1 DEF ReaderState
  <2> QED BY <1>0, <1>1, <1>2, <1>8, <2>1, <2>2 DEF ReadTopN
<1>9. CASE PutCache(r)
  <2>1. reader' = [reader EXCEPT ![r] = ListDone([rd EXCEPT !.excused = FALSE])]
    BY <1>9 DEF PutCache
  <2>2. [rd EXCEPT !.excused = FALSE] \in ReaderState
    BY <1>0 DEF ReaderState
  <2>3. FillIsCurrent'
    BY <1>0, <1>1, <1>4, <1>9, <2>1, <2>2 DEF PutCache
  <2>4. CachedListIsCurrent'
    <3> SUFFICES ASSUME NEW c \in Boards, cache'[c].hit, ~cache'[c].excused,
                        ~InvalidationPending(c)'
                 PROVE  cache'[c].list \in TopNLists(rows'[c], cache'[c].n)
      BY DEF CachedListIsCurrent
    <3>1. UNCHANGED <<rows, writer>>
      BY <1>9 DEF PutCache
    <3>2. CASE c = rd.board
      BY <1>0, <1>9, <3>1, <3>2 DEF PutCache, FillIsCurrent
    <3>3. CASE c # rd.board
      <4>1. cache'[c] = cache[c] /\ ~InvalidationPending(c)
        BY <1>0, <1>9, <3>1, <3>3 DEF PutCache, InvalidationPending
      <4> QED BY <1>0, <3>1, <4>1 DEF CachedListIsCurrent
    <3> QED BY <3>2, <3>3
  <2> QED BY <2>3, <2>4
<1>10. CASE RankForReader(r) \/ SelectOwnForReader(r) \/ CountForReader(r)
  <2>1. /\ UNCHANGED <<rows, cache, writer>>
        /\ \A q \in Readers \ {r} : reader'[q] = reader[q]
    BY <1>0, <1>10 DEF RankForReader, SelectOwnForReader, CountForReader
  <2>2. CASE RankForReader(r)
    BY <1>0, <1>3, <2>1, <2>2 DEF RankForReader, ReaderState
  <2>3. CASE SelectOwnForReader(r)
    BY <1>0, <1>3, <2>1, <2>3 DEF SelectOwnForReader, ReaderState
  <2>4. CASE CountForReader(r)
    BY <1>0, <1>3, <2>1, <2>4 DEF CountForReader, ReaderState
  <2> QED BY <1>10, <2>2, <2>3, <2>4
<1>11. CASE ReaderFails(r)
  BY <1>0, <1>3, <1>11 DEF ReaderFails, IdleReader
<1> QED BY <1>5, <1>6, <1>7, <1>8, <1>9, <1>10, <1>11 DEF ReaderStep

LEMMA CacheInvInitial == Init => CacheInv
<1> SUFFICES ASSUME Init PROVE CacheInv
  OBVIOUS
<1>1. ShapeInv
  BY InitialShape
<1>2. FillIsCurrent
  BY DEF Init, FillIsCurrent, IdleReaders, IdleReader
<1>3. CachedListIsCurrent
  BY DEF Init, CachedListIsCurrent, EmptyCache, NoItem
<1> QED BY <1>1, <1>2, <1>3 DEF CacheInv

LEMMA CacheInvPreserved == CacheInv /\ [Next]_vars => CacheInv'
<1> SUFFICES ASSUME CacheInv, [Next]_vars PROVE CacheInv'
  OBVIOUS
<1>1. ShapeInv'
  BY ShapePreserved DEF CacheInv
<1>2. FillIsCurrent' /\ CachedListIsCurrent'
  <2>1. CASE Tick \/ UNCHANGED vars
    <3>1. UNCHANGED <<rows, cache, writer, reader>>
      BY <2>1 DEF Tick, vars
    <3>2. FillIsCurrent'
      BY <3>1 DEF CacheInv, FillIsCurrent
    <3>3. \A v \in Writers, b \in Boards : Pending(v, b) => Pending(v, b)'
      BY <3>1 DEF Pending, BoardOf
    <3> QED BY <3>1, <3>2, <3>3, QuietStep DEF CacheInv
  <2>2. CASE Restart
    <3>1. FillIsCurrent'
      BY <2>2 DEF Restart, FillIsCurrent, IdleReaders, IdleReader
    <3>2. CachedListIsCurrent'
      BY <2>2 DEF Restart, CachedListIsCurrent, EmptyCache, NoItem
    <3> QED BY <3>1, <3>2
  <2> QED BY <2>1, <2>2, WriterCacheStep, ReaderCacheStep DEF Next
<1> QED BY <1>1, <1>2 DEF CacheInv

\* A cached list is the current TopN of its size, unless the write that made it
\* old is on its way to drop it, or it was put after being overtaken, or the
\* database hid the write (service.go:303-311, hotcache.go).
THEOREM CacheIsCurrent == Spec => []CachedListIsCurrent
<1>1. CacheInv => CachedListIsCurrent
  BY DEF CacheInv
<1> QED BY CacheInvInitial, CacheInvPreserved, <1>1, PTL DEF Spec

-----------------------------------------------------------------------------
(* Lists as TopN returns them *)

LEMMA TopNEntries ==
    ASSUME NEW board \in [Players -> Row], NEW n \in Nat, NEW list \in TopNLists(board, n)
    PROVE  /\ list \in Seq(Compact)
           /\ DOMAIN list = 1..Len(list)
           /\ Len(list) = Smaller(n, Cardinality(Present(board)))
           /\ Len(list) \in Nat
           /\ \A i \in DOMAIN list : /\ list[i].p \in Present(board)
                                     /\ list[i].s = board[list[i].p].score
           /\ \A i, j \in DOMAIN list : list[i].p = list[j].p => i = j
           /\ \A i \in DOMAIN list, q \in Present(board) :
                 Outranks(board[q], board[list[i].p]) =>
                     \E j \in 1..(i - 1) : list[j].p = q
<1> DEFINE k == Smaller(n, Cardinality(Present(board)))
<1>1. k \in Nat
  BY PresentFinite DEF Smaller
<1>2. /\ list \in [1..k -> Compacts(board)]
      /\ \A i \in 1..k :
            /\ \A j \in 1..k : list[i].p = list[j].p => i = j
            /\ \A q \in Present(board) :
                  Outranks(board[q], board[list[i].p]) => \E j \in 1..(i - 1) : list[j].p = q
  BY DEF TopNLists
<1>3. list \in Seq(Compact)
  BY TopNType
<1> HIDE DEF k
<1>4. DOMAIN list = 1..k /\ Len(list) = k
  BY <1>1, <1>2, <1>3
<1>5. ASSUME NEW i \in 1..k
      PROVE  list[i].p \in Present(board) /\ list[i].s = board[list[i].p].score
  <2>1. list[i] \in Compacts(board)
    BY <1>2
  <2>2. PICK p \in Present(board) : list[i] = ToCompact(board, p)
    BY <2>1 DEF Compacts
  <2> QED BY <2>2 DEF ToCompact
<1> QED BY <1>1, <1>2, <1>3, <1>4, <1>5 DEF k

\* A cached list that is current has as many entries as it was read with, or as
\* the board has.
LEMMA CachedLength ==
    ASSUME CacheInv, NEW b \in Boards,
           cache[b].hit, ~cache[b].excused, ~InvalidationPending(b)
    PROVE  Len(cache[b].list) = Smaller(cache[b].n, Cardinality(Present(rows[b])))
<1>1. cache[b].list \in TopNLists(rows[b], cache[b].n)
  BY DEF CacheInv, CachedListIsCurrent
<1>2. rows[b] \in [Players -> Row] /\ cache[b].n \in Nat
  BY DEF CacheInv, ShapeInv, TypeOK, Item
<1> QED BY <1>1, <1>2, TopNEntries

\* Every request needs n entries, however it asks for them.
OneSize(n) ==
    /\ \A asked \in AskedTopN : ClampTopN(asked) = n
    /\ \A num \in PageNums, size \in PageSizes :
          Smaller(ClampPageNum(num) * ClampPageSize(size), TopNMax) = n

\* So every list in the cache, or on its way there, was read with n.
SizeInv(n) ==
    /\ \A r \in Readers : reader[r].pc \in {"get", "topn", "put"} => reader[r].want = n
    /\ \A b \in Boards : cache[b].hit => cache[b].n = n

LEMMA SizeStep ==
    ASSUME ShapeInv, NEW n, OneSize(n), SizeInv(n), [Next]_vars
    PROVE  SizeInv(n)'
<1>0. /\ reader \in [Readers -> ReaderState] /\ cache \in [Boards -> Item]
      /\ SizeInv(n)
  BY DEF ShapeInv, TypeOK
<1>1. ASSUME UNCHANGED <<reader, cache>> PROVE SizeInv(n)'
  BY <1>0, <1>1 DEF SizeInv
<1>2. CASE Restart
  BY <1>2 DEF Restart, SizeInv, IdleReaders, IdleReader, EmptyCache, NoItem
<1>3. ASSUME NEW w \in Writers, StoreEntry(writer[w]),
             \A b \in Boards : cache'[b].hit = cache[b].hit /\ cache'[b].n = cache[b].n
      PROVE  SizeInv(n)'
  <2>1. \A r \in Readers : reader'[r].pc = reader[r].pc /\ reader'[r].want = reader[r].want
    BY <1>0, <1>3 DEF StoreEntry, ReaderState
  <2> QED BY <1>0, <1>3, <2>1 DEF SizeInv
<1>4. ASSUME NEW w \in Writers,
             \/ \E p \in Players, s \in Scores, x \in Extras, t \in WriteTargets :
                   SubmitScore(w, p, s, x, t)
             \/ WriterStep(w)
             \/ InsertWithoutReply(w)
             \/ WriterFails(w)
      PROVE  SizeInv(n)'
  <2>1. CASE UpsertInMemory(w) \/ InsertOrUpdate(w)
    BY <1>3, <2>1 DEF UpsertInMemory, InsertOrUpdate
  <2>2. CASE InsertWithoutReply(w)
    BY <1>0, <1>3, <2>2 DEF InsertWithoutReply, Item
  <2>3. CASE Invalidate(w)
    BY <1>0, <2>3 DEF Invalidate, SizeInv, NoItem
  <2>4. CASE UNCHANGED <<reader, cache>>
    BY <1>1, <2>4
  <2> QED BY <1>4, <2>1, <2>2, <2>3, <2>4
          DEF WriterStep, SubmitScore, SelectOldScore, DecideInvalidate, RankForWriter,
              SelectOwnForWriter, CountForWriter, WriterFails
<1>5. ASSUME NEW r \in Readers,
             \/ \E p \in Askers, t \in Windows, m \in AskedTopN : AskList(r, p, t, m)
             \/ \E p \in Askers, t \in Windows, num \in PageNums, size \in PageSizes :
                   AskPage(r, p, t, num, size)
             \/ ReaderStep(r)
             \/ ReaderFails(r)
      PROVE  SizeInv(n)'
  <2> DEFINE rd == reader[r]
             Fits(x) == x.pc \in {"get", "topn", "put"} => x.want = n
  <2>0. rd \in ReaderState /\ Fits(rd)
    BY <1>0 DEF SizeInv
  <2>1. ASSUME NEW x, reader' = [reader EXCEPT ![r] = x], Fits(x), UNCHANGED cache
        PROVE  SizeInv(n)'
    BY <1>0, <2>1 DEF SizeInv
  <2>2. \A x \in ReaderState : Fits(ListDone(x))
    BY DEF ListDone, ReaderState
  <2>3. CASE \E p \in Askers, t \in Windows, m \in AskedTopN : AskList(r, p, t, m)
    BY <2>1, <2>3 DEF AskList, IdleReader, OneSize
  <2>4. CASE \E p \in Askers, t \in Windows, num \in PageNums, size \in PageSizes :
                AskPage(r, p, t, num, size)
    BY <2>1, <2>4 DEF AskPage, IdleReader, OneSize
  <2>5. CASE ReadCache(r)
    <3>1. [rd EXCEPT !.list = cache[rd.board].list] \in ReaderState
      BY <1>0, <2>0 DEF Item, ReaderState
    <3>2. Fits([rd EXCEPT !.pc = "topn"])
      BY <2>0, <2>5 DEF ReadCache, ReaderState
    <3> QED BY <2>1, <2>2, <2>5, <3>1, <3>2 DEF ReadCache
  <2>6. CASE ReadTopN(r)
    <3>1. PICK list : reader' = [reader EXCEPT ![r] = [rd EXCEPT !.pc = "put", !.list = list]]
      BY <2>6 DEF ReadTopN
    <3>2. Fits([rd EXCEPT !.pc = "put", !.list = list]) /\ UNCHANGED cache
      BY <2>0, <2>6 DEF ReadTopN, ReaderState
    <3> QED BY <2>1, <3>1, <3>2
  <2>7. CASE PutCache(r)
    <3>1. [rd EXCEPT !.excused = FALSE] \in ReaderState
      BY <2>0 DEF ReaderState
    <3>2. /\ reader' = [reader EXCEPT ![r] = ListDone([rd EXCEPT !.excused = FALSE])]
          /\ rd.want = n
          /\ cache' = [cache EXCEPT ![rd.board] =
                          [hit |-> TRUE, list |-> rd.list, n |-> n, excused |-> rd.excused]]
      BY <2>0, <2>7 DEF PutCache
    <3> QED BY <1>0, <2>2, <3>1, <3>2 DEF SizeInv
  <2>8. CASE RankForReader(r) \/ SelectOwnForReader(r) \/ CountForReader(r)
    <3>1. /\ UNCHANGED cache
          /\ \A q \in Readers \ {r} : reader'[q] = reader[q]
      BY <1>0, <2>8 DEF RankForReader, SelectOwnForReader, CountForReader
    <3>2. reader'[r].pc \in {"ok", "count"}
      <4>1. CASE RankForReader(r)
        BY <1>0, <2>0, <4>1 DEF RankForReader, ReaderState
      <4>2. CASE SelectOwnForReader(r)
        BY <1>0, <2>0, <4>2 DEF SelectOwnForReader, ReaderState
      <4>3. CASE CountForReader(r)
        BY <1>0, <2>0, <4>3 DEF CountForReader, ReaderState
      <4> QED BY <2>8, <4>1, <4>2, <4>3
    <3> QED BY <1>0, <3>1, <3>2 DEF SizeInv
  <2>9. CASE ReaderFails(r)
    BY <2>1, <2>9 DEF ReaderFails, IdleReader
  <2> QED BY <1>5, <2>3, <2>4, <2>5, <2>6, <2>7, <2>8, <2>9 DEF ReaderStep
<1>6. CASE Tick \/ UNCHANGED vars
  BY <1>1, <1>6 DEF Tick, vars
<1> QED BY <1>2, <1>4, <1>5, <1>6 DEF Next

\* A list is served from the cache by ReadCache alone.
LEMMA ServedFromCache ==
    ASSUME ShapeInv, [Next]_vars, NEW r \in Readers,
           reader[r].pc = "get", reader'[r].pc \in {"ok", "rank"}
    PROVE  /\ cache[reader[r].board].hit
           /\ reader'[r].list = cache[reader[r].board].list
<1>0. reader \in [Readers -> ReaderState] /\ reader[r] \in ReaderState
  BY DEF ShapeInv, TypeOK
<1>1. ASSUME NEW w \in Writers, StoreEntry(writer[w]) PROVE FALSE
  BY <1>0, <1>1 DEF StoreEntry
<1>2. reader' # reader
  OBVIOUS
<1>3. ~Restart /\ ~Tick /\ ~UNCHANGED vars
  BY <1>2 DEF Restart, IdleReaders, IdleReader, Tick, vars
<1>4. ASSUME NEW w \in Writers,
             \/ \E p \in Players, s \in Scores, x \in Extras, t \in WriteTargets :
                   SubmitScore(w, p, s, x, t)
             \/ WriterStep(w)
             \/ InsertWithoutReply(w)
             \/ WriterFails(w)
      PROVE  FALSE
  BY <1>1, <1>2, <1>4
     DEF SubmitScore, WriterStep, UpsertInMemory, SelectOldScore, InsertOrUpdate,
         DecideInvalidate, Invalidate, RankForWriter, SelectOwnForWriter,
         CountForWriter, InsertWithoutReply, WriterFails
<1>5. PICK q \in Readers :
          \/ \E p \in Askers, t \in Windows, n \in AskedTopN : AskList(q, p, t, n)
          \/ \E p \in Askers, t \in Windows, num \in PageNums, size \in PageSizes :
                AskPage(q, p, t, num, size)
          \/ ReaderStep(q)
          \/ ReaderFails(q)
  BY <1>3, <1>4 DEF Next
<1>6. q = r
  <2>1. \E x : reader' = [reader EXCEPT ![q] = x]
    BY <1>5, ZenonT(40)
       DEF AskList, AskPage, ReaderStep, ReadCache, ReadTopN, PutCache, RankForReader,
           SelectOwnForReader, CountForReader, ReaderFails
  <2> QED BY <1>0, <2>1
<1>7. ReadCache(r)
  BY <1>5, <1>6 DEF AskList, AskPage, ReaderStep, ReadTopN, PutCache, RankForReader,
                    SelectOwnForReader, CountForReader, ReaderFails, Finished
<1>8. [reader[r] EXCEPT !.list = cache[reader[r].board].list] \in ReaderState
  BY <1>0 DEF ShapeInv, TypeOK, Item, ReaderState
<1> QED BY <1>0, <1>7, <1>8 DEF ReadCache, ListDone, ReaderState

\* As long as every request needs the same number of entries, a list from the
\* cache is never short: a request of another size is all that makes it so
\* (service.go:377 GetLeaderboard, hotcache.go Get).
THEOREM OneSizeIsServed ==
    ASSUME NEW n \in Nat, OneSize(n)
    PROVE  Spec => AskedEntriesAreServed
<1> DEFINE Full ==
        \A r \in Readers :
          LET rd == reader[r]
          IN  /\ rd.pc = "get" /\ reader'[r].pc \in {"ok", "rank"}
              /\ ~cache[rd.board].excused /\ ~InvalidationPending(rd.board)
              => Len(reader'[r].list) >= Smaller(rd.want, Cardinality(Present(rows[rd.board])))
<1>1. Init => SizeInv(n)
  BY DEF Init, SizeInv, IdleReaders, IdleReader, EmptyCache, NoItem
<1>2. CacheInv /\ SizeInv(n) /\ [Next]_vars => SizeInv(n)'
  BY SizeStep DEF CacheInv
<1>3. CacheInv /\ SizeInv(n) /\ [Next]_vars => Full
  <2> SUFFICES ASSUME CacheInv, SizeInv(n), [Next]_vars, NEW r \in Readers,
                      reader[r].pc = "get", reader'[r].pc \in {"ok", "rank"},
                      ~cache[reader[r].board].excused, ~InvalidationPending(reader[r].board)
               PROVE  Len(reader'[r].list)
                        >= Smaller(reader[r].want, Cardinality(Present(rows[reader[r].board])))
    OBVIOUS
  <2> DEFINE b == reader[r].board
             size == Cardinality(Present(rows[b]))
  <2>1. b \in Boards /\ rows[b] \in [Players -> Row]
    BY ReaderTyped DEF CacheInv, ShapeInv
  <2>2. cache[b].hit /\ reader'[r].list = cache[b].list
    BY ServedFromCache DEF CacheInv
  <2>3. cache[b].n = n /\ reader[r].want = n
    BY <2>1, <2>2 DEF SizeInv
  <2>4. Len(cache[b].list) = Smaller(n, size)
    BY <2>1, <2>2, <2>3, CachedLength
  <2>5. size \in Nat
    BY <2>1, PresentFinite
  <2> HIDE DEF b, size
  <2>6. Len(reader'[r].list) >= Smaller(n, size)
    BY <2>2, <2>4, <2>5 DEF Smaller
  <2> QED BY <2>3, <2>6 DEF b, size
<1>4. SizeInv(n) /\ CacheInv /\ [Next]_vars => [Full]_vars
  BY <1>3
<1> QED BY <1>1, <1>2, <1>4, CacheInvInitial, CacheInvPreserved, PTL DEF Spec, AskedEntriesAreServed

\* ListBehindStore, about a board given.
Behind(list, board) ==
    /\ \A i \in DOMAIN list : list[i].s <= board[list[i].p].score
    /\ \A i, j \in DOMAIN list : i < j => list[i].s >= list[j].s

\* A list is in order of score and shows scores the board has.
LEMMA TopNBehind ==
    ASSUME NEW board \in [Players -> Row], NEW n \in Nat, NEW list \in TopNLists(board, n)
    PROVE  Behind(list, board)
<1>1. ASSUME NEW i \in DOMAIN list
      PROVE  /\ i \in Int /\ list[i].p \in Present(board) /\ list[i].s \in Int
             /\ list[i].s = board[list[i].p].score
  <2>1. i \in Int /\ list[i].p \in Present(board) /\ list[i].s = board[list[i].p].score
    BY TopNEntries
  <2>2. board[list[i].p] \in Row
    BY <2>1 DEF Present
  <2> QED BY <2>1, <2>2 DEF Row, Score
<1>2. ASSUME NEW i \in DOMAIN list, NEW j \in DOMAIN list, i < j, list[j].s > list[i].s
      PROVE  FALSE
  <2>1. Outranks(board[list[j].p], board[list[i].p])
    BY <1>1, <1>2 DEF Outranks
  <2>0. \A q \in Present(board) : Outranks(board[q], board[list[i].p]) =>
            \E m \in 1..(i - 1) : list[m].p = q
    BY TopNEntries
  <2>2. PICK m \in 1..(i - 1) : list[m].p = list[j].p
    BY <1>1, <2>1, <2>0
  <2>3. m \in DOMAIN list
    BY <1>1, <2>2, TopNEntries
  <2>4. m = j
    BY <2>2, <2>3, TopNEntries
  <2> QED BY <1>1, <1>2, <2>2, <2>4
<1>3. \A i \in DOMAIN list : list[i].s <= board[list[i].p].score
  BY <1>1
<1>4. \A i, j \in DOMAIN list : i < j => list[i].s >= list[j].s
  BY <1>1, <1>2
<1> QED BY <1>3, <1>4 DEF Behind

\* What a list shows is not taken back: scores only rise.
LEMMA BehindRises ==
    ASSUME NEW list \in Seq(Compact),
           NEW board \in [Players -> Row], NEW new \in [Players -> Row],
           \A p \in Players : new[p].score >= board[p].score,
           Behind(list, board)
    PROVE  Behind(list, new)
<1>1. ASSUME NEW i \in DOMAIN list
      PROVE  list[i].s <= new[list[i].p].score
  <2>1. list[i] \in Compact
    OBVIOUS
  <2>2. /\ list[i].p \in Players /\ list[i].s \in Int
        /\ board[list[i].p] \in Row /\ new[list[i].p] \in Row
    BY <2>1 DEF Compact
  <2>3. board[list[i].p].score \in Int /\ new[list[i].p].score \in Int
    BY <2>2 DEF Row, Score
  <2>4. list[i].s <= board[list[i].p].score
    BY DEF Behind
  <2> QED BY <2>2, <2>3, <2>4
<1> QED BY <1>1 DEF Behind

LEMMA EmptyBehind == \A board : Behind(<<>>, board)
BY DEF Behind

-----------------------------------------------------------------------------
(* No list is ahead of the store, no reply contradicts itself *)

\* A reply, or a read that counts its rank, has seen a score that is not older
\* than the one its list shows for the same player.
OwnSeen(rd) ==
    rd.pc \in {"count", "ok"} =>
        \A i \in DOMAIN rd.list :
            rd.list[i].p = rd.player => /\ rd.list[i].s <= rd.seen
                                        /\ rd.pc = "ok" => rd.rank >= 1

ReadHolds(rd, table) == Behind(rd.list, table[rd.board]) /\ OwnSeen(rd)

CacheHolds == \A b \in Boards : Behind(cache[b].list, rows[b])
ReadsHold == \A r \in Readers : ReadHolds(reader[r], rows)

LEMMA ListsMean == CacheHolds /\ ReadsHold => ListsNeverAhead /\ SelfNotBehindList
BY DEF CacheHolds, ReadsHold, ReadHolds, OwnSeen, Behind, ListsNeverAhead, ListBehindStore,
       SelfNotBehindList

\* Steps of a write: they raise scores, drop lists and excuse reads.
LEMMA WriteKeepsLists ==
    ASSUME ShapeInv, CacheHolds, ReadsHold,
           rows' \in [Boards -> [Players -> Row]],
           \A b \in Boards, p \in Players : rows'[b][p].score >= rows[b][p].score,
           \A b \in Boards : cache'[b].list = cache[b].list \/ cache'[b].list = <<>>,
           \A r \in Readers : \/ reader'[r] = reader[r]
                              \/ reader'[r] = [reader[r] EXCEPT !.excused = TRUE]
    PROVE  CacheHolds' /\ ReadsHold'
<1>0. rows \in [Boards -> [Players -> Row]]
  BY DEF ShapeInv, TypeOK
<1>1. ASSUME NEW b \in Boards
      PROVE  Behind(cache'[b].list, rows'[b])
  <2>1. cache[b].list \in Seq(Compact) /\ Behind(cache[b].list, rows[b])
    BY DEF ShapeInv, TypeOK, Item, CacheHolds
  <2>2. Behind(cache[b].list, rows'[b])
    BY <1>0, <2>1, BehindRises
  <2> QED BY <2>2, EmptyBehind
<1>2. ASSUME NEW r \in Readers
      PROVE  ReadHolds(reader'[r], rows')
  <2>1. /\ reader[r] \in ReaderState /\ reader[r].board \in Boards
        /\ reader[r].list \in Seq(Compact)
    BY DEF ShapeInv, TypeOK, ReaderState
  <2>2. Behind(reader[r].list, rows[reader[r].board]) /\ OwnSeen(reader[r])
    BY DEF ReadsHold, ReadHolds
  <2>3. Behind(reader[r].list, rows'[reader[r].board])
    BY <1>0, <2>1, <2>2, BehindRises
  <2>4. /\ reader'[r].pc = reader[r].pc /\ reader'[r].player = reader[r].player
        /\ reader'[r].board = reader[r].board /\ reader'[r].list = reader[r].list
        /\ reader'[r].seen = reader[r].seen /\ reader'[r].rank = reader[r].rank
    BY <2>1 DEF ReaderState
  <2> QED BY <2>2, <2>3, <2>4 DEF ReadHolds, OwnSeen
<1> QED BY <1>1, <1>2 DEF CacheHolds, ReadsHold

\* Steps of a read: the store stays as it is.
LEMMA ReadKeepsLists ==
    ASSUME ShapeInv, CacheHolds, ReadsHold, NEW r \in Readers, UNCHANGED rows,
           \A b \in Boards : \/ cache'[b].list = cache[b].list
                             \/ cache'[b].list = reader[r].list /\ b = reader[r].board,
           NEW x, reader' = [reader EXCEPT ![r] = x], ReadHolds(x, rows)
    PROVE  CacheHolds' /\ ReadsHold'
<1>1. CacheHolds'
  BY DEF CacheHolds, ReadsHold, ReadHolds
<1>2. ReadsHold'
  BY DEF ReadsHold, ShapeInv, TypeOK
<1> QED BY <1>1, <1>2

LEMMA WriterKeepsLists ==
    ASSUME ShapeInv, CacheHolds, ReadsHold, NEW w \in Writers,
           \/ \E p \in Players, s \in Scores, x \in Extras, t \in WriteTargets :
                 SubmitScore(w, p, s, x, t)
           \/ WriterStep(w)
           \/ InsertWithoutReply(w)
           \/ WriterFails(w)
    PROVE  CacheHolds' /\ ReadsHold'
<1>1. /\ rows' \in [Boards -> [Players -> Row]]
      /\ \A b \in Boards, p \in Players : rows'[b][p].score >= rows[b][p].score
  <2>1. CASE UNCHANGED rows
    BY <2>1, ScoresStay DEF ShapeInv
  <2>2. CASE StoreEntry(writer[w]) /\ writer[w].pc \in {"upsert", "exec"}
    BY <2>2, StoreEffect DEF ShapeInv
  <2> QED BY <2>1, <2>2 DEF SubmitScore, WriterStep, UpsertInMemory, SelectOldScore,
              InsertOrUpdate, DecideInvalidate, Invalidate, RankForWriter,
              SelectOwnForWriter, CountForWriter, InsertWithoutReply, WriterFails
<1>2. \A r \in Readers : \/ reader'[r] = reader[r]
                         \/ reader'[r] = [reader[r] EXCEPT !.excused = TRUE]
  <2>1. CASE UNCHANGED reader
    BY <2>1
  <2>2. CASE StoreEntry(writer[w])
    BY <2>2 DEF StoreEntry
  <2> QED BY <2>1, <2>2 DEF SubmitScore, WriterStep, UpsertInMemory, SelectOldScore,
              InsertOrUpdate, DecideInvalidate, Invalidate, RankForWriter,
              SelectOwnForWriter, CountForWriter, InsertWithoutReply, WriterFails
<1>3. \A b \in Boards : cache'[b].list = cache[b].list \/ cache'[b].list = <<>>
  <2>1. CASE UNCHANGED cache
    BY <2>1
  <2>2. CASE Invalidate(w)
    BY <2>2 DEF Invalidate, NoItem, ShapeInv, TypeOK
  <2>3. CASE InsertWithoutReply(w)
    BY <2>3 DEF InsertWithoutReply, ShapeInv, TypeOK, Item
  <2> QED BY <2>1, <2>2, <2>3 DEF SubmitScore, WriterStep, UpsertInMemory, SelectOldScore,
              InsertOrUpdate, DecideInvalidate, RankForWriter, SelectOwnForWriter,
              CountForWriter, WriterFails
<1> QED BY <1>1, <1>2, <1>3, WriteKeepsLists

\* With a list in hand that is not ahead, a read may go on or answer.
LEMMA ListDoneHolds ==
    ASSUME NEW rd \in ReaderState, NEW table, Behind(rd.list, table[rd.board])
    PROVE  ReadHolds(ListDone(rd), table)
<1>1. CASE rd.player = NoPlayer
  <2>1. \A i \in DOMAIN rd.list : rd.list[i].p # rd.player
    <3>1. rd.list \in Seq(Compact)
      BY DEF ReaderState
    <3>2. \A i \in DOMAIN rd.list : rd.list[i] \in Compact
      BY <3>1
    <3>3. \A i \in DOMAIN rd.list : rd.list[i].p \in Players
      BY <3>2 DEF Compact
    <3> QED BY <1>1, <3>3, PlayersAssumption
  <2>2. ListDone(rd) = [rd EXCEPT !.pc = "ok"]
    BY <1>1 DEF ListDone
  <2> QED BY <2>1, <2>2 DEF ReadHolds, OwnSeen, ReaderState
<1>2. CASE rd.player # NoPlayer
  BY <1>2 DEF ListDone, ReadHolds, OwnSeen, ReaderState
<1> QED BY <1>1, <1>2

LEMMA RankExists ==
    ASSUME NEW board \in [Players -> Row], NEW p \in Players, board[p].score >= 0
    PROVE  RankOf(board, p) \in Nat /\ RankOf(board, p) >= 1
<1>1. Cardinality(Ahead(board, board[p])) \in Nat
  BY RankType
<1>2. ~(board[p].score < 0)
  BY DEF Row, Score
<1> QED BY <1>1, <1>2 DEF RankOf

LEMMA ReaderKeepsLists ==
    ASSUME ShapeInv, CacheHolds, ReadsHold, NEW r \in Readers,
           \/ \E p \in Askers, t \in Windows, n \in AskedTopN : AskList(r, p, t, n)
           \/ \E p \in Askers, t \in Windows, num \in PageNums, size \in PageSizes :
                 AskPage(r, p, t, num, size)
           \/ ReaderStep(r)
           \/ ReaderFails(r)
    PROVE  CacheHolds' /\ ReadsHold'
<1> DEFINE rd    == reader[r]
           board == rows[rd.board]
           own   == board[rd.player]
<1>0. /\ rd \in ReaderState /\ rd.board \in Boards /\ board \in [Players -> Row]
      /\ rd.list \in Seq(Compact) /\ rd.want \in Nat
  BY ReaderTyped DEF ShapeInv, ReaderState
<1>1. Behind(rd.list, board) /\ OwnSeen(rd)
  BY DEF ReadsHold, ReadHolds
\* What the list shows for the player asking is not above the player's row.
<1>2. ASSUME rd.player \in Players
      PROVE  /\ own \in Row /\ own.score \in Int
             /\ \A i \in DOMAIN rd.list :
                   rd.list[i].p = rd.player => rd.list[i].s <= own.score /\ own.score >= 0
  <2>1. own \in Row /\ own.score \in Int
    BY <1>0, <1>2 DEF Row, Score
  <2>2. ASSUME NEW i \in DOMAIN rd.list, rd.list[i].p = rd.player
        PROVE  rd.list[i].s <= own.score /\ own.score >= 0
    <3>1. rd.list[i] \in Compact
      BY <1>0
    <3>2. rd.list[i].s \in Nat
      BY <3>1 DEF Compact
    <3>3. rd.list[i].s <= own.score
      BY <1>1, <2>2 DEF Behind
    <3> QED BY <2>1, <3>2, <3>3
  <2> QED BY <2>1, <2>2
<1>3. ASSUME NEW x, reader' = [reader EXCEPT ![r] = x], UNCHANGED <<rows, cache>>,
             ReadHolds(x, rows)
      PROVE  CacheHolds' /\ ReadsHold'
  BY <1>3, ReadKeepsLists
<1>4. ASSUME NEW x, x.list = <<>>, x.pc \notin {"count", "ok"},
             reader' = [reader EXCEPT ![r] = x], UNCHANGED <<rows, cache>>
      PROVE  CacheHolds' /\ ReadsHold'
  BY <1>3, <1>4, EmptyBehind DEF ReadHolds, OwnSeen
<1>5. ASSUME NEW p, NEW t, NEW n, AskList(r, p, t, n)
      PROVE  CacheHolds' /\ ReadsHold'
  BY <1>4, <1>5 DEF AskList, IdleReader
<1>6. ASSUME NEW p, NEW t, NEW num, NEW size, AskPage(r, p, t, num, size)
      PROVE  CacheHolds' /\ ReadsHold'
  BY <1>4, <1>6 DEF AskPage, IdleReader
<1>7. CASE ReaderFails(r)
  BY <1>4, <1>7 DEF ReaderFails, IdleReader
<1>8. CASE ReadCache(r)
  <2> DEFINE item == cache[rd.board]
             y    == [rd EXCEPT !.list = item.list]
  <2>1. CASE item.hit
    <3>1. y \in ReaderState /\ y.list = item.list /\ y.board = rd.board
      <4>1. item \in Item
        BY <1>0 DEF ShapeInv, TypeOK
      <4> QED BY <1>0, <4>1 DEF Item, ReaderState
    <3>2. Behind(item.list, board)
      BY <1>0 DEF CacheHolds
    <3>3. reader' = [reader EXCEPT ![r] = ListDone(y)] /\ UNCHANGED <<rows, cache>>
      BY <1>8, <2>1 DEF ReadCache
    <3> HIDE DEF y
    <3>4. ReadHolds(ListDone(y), rows)
      BY <3>1, <3>2, ListDoneHolds
    <3> QED BY <1>3, <3>3, <3>4
  <2>2. CASE ~item.hit
    <3> DEFINE x == [rd EXCEPT !.pc = "topn"]
    <3>1. reader' = [reader EXCEPT ![r] = x] /\ UNCHANGED <<rows, cache>>
      BY <1>8, <2>2 DEF ReadCache
    <3>2. ReadHolds(x, rows)
      BY <1>0, <1>1 DEF ReadHolds, OwnSeen, ReaderState
    <3> QED BY <1>3, <3>1, <3>2
  <2> QED BY <2>1, <2>2
<1>9. CASE ReadTopN(r)
  <2>1. PICK list \in TopNLists(board, rd.want) :
            reader' = [reader EXCEPT ![r] = [rd EXCEPT !.pc = "put", !.list = list]]
    BY <1>9 DEF ReadTopN
  <2> DEFINE x == [rd EXCEPT !.pc = "put", !.list = list]
  <2>2. Behind(list, board)
    BY <1>0, TopNBehind
  <2>3. ReadHolds(x, rows)
    BY <1>0, <2>2 DEF ReadHolds, OwnSeen, ReaderState
  <2> QED BY <1>3, <1>9, <2>1, <2>3 DEF ReadTopN
<1>10. CASE PutCache(r)
  <2> DEFINE y == [rd EXCEPT !.excused = FALSE]
  <2>1. y \in ReaderState /\ y.list = rd.list /\ y.board = rd.board
    BY <1>0 DEF ReaderState
  <2>2. ReadHolds(ListDone(y), rows)
    BY <1>1, <2>1, ListDoneHolds
  <2>3. reader' = [reader EXCEPT ![r] = ListDone(y)] /\ UNCHANGED rows
    BY <1>10 DEF PutCache
  <2>4. \A b \in Boards : \/ cache'[b].list = cache[b].list
                          \/ cache'[b].list = rd.list /\ b = rd.board
    BY <1>10 DEF PutCache, ShapeInv, TypeOK
  <2> QED BY <2>2, <2>3, <2>4, ReadKeepsLists
<1>11. CASE RankForReader(r)
  <2> DEFINE rank == RankOf(board, rd.player)
             x == [rd EXCEPT !.pc = "ok", !.seen = own.score, !.rank = rank]
  <2>1. rd.player \in Players
    BY <1>11 DEF RankForReader, ShapeInv, ReaderInv
  <2>2. reader' = [reader EXCEPT ![r] = x] /\ UNCHANGED <<rows, cache>>
    BY <1>11 DEF RankForReader
  <2>3. own.score >= 0 => rank >= 1
    BY <1>0, <2>1, RankExists
  <2>4. /\ x.list = rd.list /\ x.board = rd.board /\ x.player = rd.player
        /\ x.seen = own.score /\ x.rank = rank
    BY <1>0 DEF ReaderState
  <2> HIDE DEF x, rank
  <2>5. ReadHolds(x, rows)
    BY <1>1, <1>2, <2>1, <2>3, <2>4 DEF ReadHolds, OwnSeen
  <2> QED BY <1>3, <2>2, <2>5
<1>12. CASE SelectOwnForReader(r)
  <2>1. rd.player \in Players
    BY <1>12 DEF SelectOwnForReader, ShapeInv, ReaderInv
  <2>2. CASE own.score < 0
    <3> DEFINE x == [rd EXCEPT !.pc = "ok"]
    <3>1. reader' = [reader EXCEPT ![r] = x] /\ UNCHANGED <<rows, cache>>
      BY <1>12, <2>2 DEF SelectOwnForReader
    <3>2. x.list = rd.list /\ x.board = rd.board /\ x.player = rd.player
      BY <1>0 DEF ReaderState
    <3>3. \A i \in DOMAIN rd.list : rd.list[i].p # rd.player
      BY <1>2, <2>1, <2>2
    <3> HIDE DEF x
    <3>4. ReadHolds(x, rows)
      BY <1>1, <3>2, <3>3 DEF ReadHolds, OwnSeen
    <3> QED BY <1>3, <3>1, <3>4
  <2>3. CASE ~(own.score < 0)
    <3> DEFINE x == [rd EXCEPT !.pc = "count", !.seen = own.score, !.seenAt = own.at]
    <3>1. reader' = [reader EXCEPT ![r] = x] /\ UNCHANGED <<rows, cache>>
      BY <1>12, <2>3 DEF SelectOwnForReader
    <3>2. /\ x.list = rd.list /\ x.board = rd.board /\ x.player = rd.player
          /\ x.seen = own.score /\ x.pc = "count"
      BY <1>0 DEF ReaderState
    <3> HIDE DEF x
    <3>3. ReadHolds(x, rows)
      BY <1>1, <1>2, <2>1, <3>2 DEF ReadHolds, OwnSeen
    <3> QED BY <1>3, <3>1, <3>3
  <2> QED BY <2>2, <2>3
<1>13. CASE CountForReader(r)
  <2> DEFINE rank == 1 + Cardinality(Ahead(board, [score |-> rd.seen, at |-> rd.seenAt]))
             x    == [rd EXCEPT !.pc = "ok", !.rank = rank]
  <2>1. rank >= 1
    <3>1. Cardinality(Ahead(board, [score |-> rd.seen, at |-> rd.seenAt])) \in Nat
      BY <1>0, RankType
    <3> QED BY <3>1
  <2>2. reader' = [reader EXCEPT ![r] = x] /\ UNCHANGED <<rows, cache>> /\ rd.pc = "count"
    BY <1>13 DEF CountForReader
  <2>3. /\ x.list = rd.list /\ x.board = rd.board /\ x.player = rd.player
        /\ x.seen = rd.seen /\ x.rank = rank
    BY <1>0 DEF ReaderState
  <2> HIDE DEF x, rank
  <2>4. ReadHolds(x, rows)
    BY <1>1, <2>1, <2>2, <2>3 DEF ReadHolds, OwnSeen
  <2> QED BY <1>3, <2>2, <2>4
<1> QED BY <1>5, <1>6, <1>7, <1>8, <1>9, <1>10, <1>11, <1>12, <1>13 DEF ReaderStep

LEMMA ListsStep ==
    ASSUME ShapeInv, CacheHolds, ReadsHold, [Next]_vars
    PROVE  CacheHolds' /\ ReadsHold'
<1>1. CASE Tick \/ UNCHANGED vars
  BY <1>1 DEF Tick, vars, CacheHolds, ReadsHold
<1>2. CASE Restart
  BY <1>2, EmptyBehind DEF Restart, CacheHolds, ReadsHold, ReadHolds, OwnSeen, EmptyCache,
          NoItem, IdleReaders, IdleReader
<1> QED BY <1>1, <1>2, WriterKeepsLists, ReaderKeepsLists DEF Next

LEMMA ListsInit == Init => CacheHolds /\ ReadsHold
BY EmptyBehind DEF Init, CacheHolds, ReadsHold, ReadHolds, OwnSeen, EmptyCache, NoItem,
   IdleReaders, IdleReader

LEMMA ListsHold == Spec => [](ShapeInv /\ CacheHolds /\ ReadsHold)
<1>1. Init => ShapeInv /\ CacheHolds /\ ReadsHold
  BY InitialShape, ListsInit
<1>2. ShapeInv /\ CacheHolds /\ ReadsHold /\ [Next]_vars =>
          ShapeInv' /\ CacheHolds' /\ ReadsHold'
  BY ShapePreserved, ListsStep
<1> QED BY <1>1, <1>2, PTL DEF Spec

\* No list, cached or on its way into the cache, shows a score that its player
\* has not reached, and every list is in order (hotcache.go, TopN of both stores).
THEOREM ListsAreNeverAhead == Spec => []ListsNeverAhead
<1>1. ShapeInv /\ CacheHolds /\ ReadsHold => ListsNeverAhead
  BY ListsMean
<1> QED BY <1>1, ListsHold, PTL

\* A reply's own score is not below the one its list shows for the player, and a
\* player on the list has a rank, however old the list is (service.go
\* GetLeaderboard: the list comes first, the rank after it).
THEOREM RepliesAgreeWithThemselves == Spec => []SelfNotBehindList
<1>1. ShapeInv /\ CacheHolds /\ ReadsHold => SelfNotBehindList
  BY ListsMean
<1> QED BY <1>1, ListsHold, PTL

-----------------------------------------------------------------------------
(* Ranks agree with positions *)

\* Nobody stands ahead of himself.
LEMMA NotAheadOfSelf ==
    ASSUME NEW board \in [Players -> Row], NEW p \in Players
    PROVE  p \notin Ahead(board, board[p])
<1>1. board[p].score \in Int /\ board[p].at \in Int
  BY DEF Row, Score, Times
<1> QED BY <1>1 DEF Ahead, Outranks

\* Of two rows one stands ahead, unless they are equal in score and time.
LEMMA AheadOrTied ==
    ASSUME NEW a \in Row, NEW b \in Row
    PROVE  Outranks(a, b) \/ Outranks(b, a) \/ (a.score = b.score /\ a.at = b.at)
BY DEF Outranks, Row, Score, Times

\* The players listed before a position.
LEMMA Before ==
    ASSUME NEW list \in Seq(Compact), NEW i \in DOMAIN list,
           \A m, n \in DOMAIN list : list[m].p = list[n].p => m = n
    PROVE  LET before == {list[j].p : j \in 1..(i - 1)}
           IN  /\ IsFiniteSet(before)
               /\ Cardinality(before) = i - 1
<1> DEFINE before == {list[j].p : j \in 1..(i - 1)}
           f == [j \in 1..(i - 1) |-> list[j].p]
<1>1. i \in Nat /\ i >= 1 /\ 1..(i - 1) \subseteq DOMAIN list
  OBVIOUS
<1>2. f \in [1..(i - 1) -> before]
  OBVIOUS
<1>3. \A b \in before : \E j \in 1..(i - 1) : f[j] = b
  OBVIOUS
<1>4. f \in Surjection(1..(i - 1), before)
  BY <1>2, <1>3 DEF Surjection
<1>5. \A m, n \in 1..(i - 1) : f[m] = f[n] => m = n
  BY <1>1
<1>6. f \in Injection(1..(i - 1), before)
  <2>1. DOMAIN f = 1..(i - 1)
    OBVIOUS
  <2> HIDE DEF f, before
  <2> QED BY <1>2, <1>5, <2>1 DEF Injection, IsInjective
<1>7. IsFiniteSet(1..(i - 1)) /\ Cardinality(1..(i - 1)) = i - 1
  <2> DEFINE n == i - 1
  <2>1. n \in Int /\ n >= 0 /\ 1 \in Int
    BY <1>1
  <2> HIDE DEF n
  <2>2. IsFiniteSet(1..n) /\ Cardinality(1..n) = IF 1 > n THEN 0 ELSE n - 1 + 1
    BY <2>1, FS_Interval
  <2>3. IsFiniteSet(1..n) /\ Cardinality(1..n) = n
    BY <2>1, <2>2
  <2> QED BY <2>3 DEF n
<1> HIDE DEF before, f
<1>8. IsFiniteSet(before) /\ Cardinality(before) = Cardinality(1..(i - 1))
  BY <1>4, <1>6, <1>7, FS_Surjection
<1> QED BY <1>7, <1>8 DEF before

\* RankAgreesWithList, for one list of one board.
LEMMA RankOfPosition ==
    ASSUME NEW board \in [Players -> Row], NEW n \in Nat, NEW list \in TopNLists(board, n),
           NEW i \in DOMAIN list
    PROVE  LET p    == list[i].p
               tied == {q \in Present(board) \ {p} : /\ board[q].score = board[p].score
                                                     /\ board[q].at = board[p].at}
           IN  RankOf(board, p) <= i /\ i <= RankOf(board, p) + Cardinality(tied)
<1> DEFINE p      == list[i].p
           tied   == {q \in Present(board) \ {p} : /\ board[q].score = board[p].score
                                                   /\ board[q].at = board[p].at}
           ahead  == Ahead(board, board[p])
           before == {list[j].p : j \in 1..(i - 1)}
<1>0. /\ list \in Seq(Compact) /\ DOMAIN list = 1..Len(list) /\ i \in Nat /\ i >= 1
      /\ \A m, k \in DOMAIN list : list[m].p = list[k].p => m = k
      /\ \A m \in DOMAIN list : list[m].p \in Present(board)
  BY TopNEntries
<1>1. p \in Players /\ board[p].score >= 0 /\ board[p] \in Row
  BY <1>0 DEF Present
<1>2. \A m \in DOMAIN list, q \in Present(board) :
          Outranks(board[q], board[list[m].p]) => \E j \in 1..(m - 1) : list[j].p = q
  BY TopNEntries
<1>3. IsFiniteSet(before) /\ Cardinality(before) = i - 1
  BY <1>0, Before
<1>4. IsFiniteSet(ahead) /\ Cardinality(ahead) \in Nat /\ RankOf(board, p) = 1 + Cardinality(ahead)
  <2>1. IsFiniteSet(ahead) /\ Cardinality(ahead) \in Nat
    BY PresentFinite, FS_Subset, FS_CardinalityType DEF Ahead
  <2>2. ~(board[p].score < 0)
    BY <1>1 DEF Row, Score
  <2> QED BY <2>1, <2>2 DEF RankOf
<1>5. IsFiniteSet(tied) /\ Cardinality(tied) \in Nat
  BY PresentFinite, FS_Subset, FS_CardinalityType
\* Whoever is ahead is listed before.
<1>6. ahead \subseteq before
  BY <1>2 DEF Ahead
\* Whoever is listed before is ahead or level.
<1>7. before \subseteq ahead \union tied
  <2> SUFFICES ASSUME NEW j \in 1..(i - 1)
               PROVE  list[j].p \in ahead \union tied
    OBVIOUS
  <2> DEFINE q == list[j].p
  <2>1. j \in DOMAIN list /\ j # i /\ j \in Nat /\ j < i
    BY <1>0
  <2>2. q \in Present(board) /\ q # p /\ board[q] \in Row
    BY <1>0, <2>1 DEF Present
  <2>3. ~Outranks(board[p], board[q])
    <3> SUFFICES ASSUME Outranks(board[p], board[q]) PROVE FALSE
      OBVIOUS
    <3>1. p \in Present(board)
      BY <1>0
    <3>2. PICK m \in 1..(j - 1) : list[m].p = p
      BY <1>2, <2>1, <3>1
    <3>3. m \in DOMAIN list /\ m # i
      BY <1>0, <2>1, <3>2
    <3> QED BY <1>0, <3>2, <3>3
  <2>4. Outranks(board[q], board[p]) \/ (board[q].score = board[p].score /\ board[q].at = board[p].at)
    BY <1>1, <2>2, <2>3, AheadOrTied
  <2> QED BY <2>2, <2>4 DEF Ahead
<1> HIDE DEF ahead, before, tied, p
<1>8. Cardinality(ahead) <= i - 1
  BY <1>3, <1>6, FS_Subset
<1>9. i - 1 <= Cardinality(ahead) + Cardinality(tied)
  <2>1. /\ IsFiniteSet(ahead \union tied)
        /\ Cardinality(ahead \union tied) =
              Cardinality(ahead) + Cardinality(tied) - Cardinality(ahead \intersect tied)
    BY <1>4, <1>5, FS_Union
  <2>2. Cardinality(ahead \intersect tied) \in Nat
    BY <1>4, FS_Intersection, FS_CardinalityType
  <2>3. i - 1 <= Cardinality(ahead \union tied)
    BY <1>3, <1>7, <2>1, FS_Subset
  <2> QED BY <1>0, <1>4, <1>5, <2>1, <2>2, <2>3
<1>10. RankOf(board, p) <= i /\ i <= RankOf(board, p) + Cardinality(tied)
  BY <1>0, <1>4, <1>5, <1>8, <1>9
<1> QED BY <1>10 DEF p, tied

\* The rank counted by RankOf is at most the position in any list TopN may
\* return, and is the position when no other row has the same score and time
\* (RankOf and TopN of memory.go and mysql.go).
THEOREM RanksAgreeWithLists == Spec => []RankAgreesWithList
<1>1. ShapeInv => RankAgreesWithList
  <2> SUFFICES ASSUME TypeOK, NEW b \in Boards, NEW n \in 1..TopNMax,
                      NEW list \in TopNLists(rows[b], n), NEW i \in DOMAIN list
               PROVE  LET p    == list[i].p
                          tied == {q \in Present(rows[b]) \ {p} :
                                      /\ rows[b][q].score = rows[b][p].score
                                      /\ rows[b][q].at = rows[b][p].at}
                      IN  /\ RankOf(rows[b], p) <= i
                          /\ i <= RankOf(rows[b], p) + Cardinality(tied)
    BY DEF RankAgreesWithList, ShapeInv
  <2>1. rows[b] \in [Players -> Row] /\ n \in Nat
    BY TopNAssumption DEF TypeOK
  <2> QED BY <2>1, RankOfPosition
<1> QED BY <1>1, ShapeHolds, PTL

-----------------------------------------------------------------------------
(* Ranks within the board *)

\* The highest rank there may be on a board.
LimitOf(board) == Cardinality(Present(board)) + (IF Backend = "mysql" THEN 1 ELSE 0)

ReadFits(rd, table) ==
    /\ rd.rank <= LimitOf(table[rd.board])
    /\ rd.pc = "count" => Backend = "mysql"

WriteFits(wr, table) ==
    /\ wr.pc = "ok" => wr.rank \in 1..LimitOf(table[BoardOf(wr)])
    /\ wr.pc = "count" => Backend = "mysql"

RanksFit == /\ \A r \in Readers : ReadFits(reader[r], rows)
            /\ \A w \in Writers : WriteFits(writer[w], rows)

LEMMA RanksMean == RanksFit => RankWithinBoard
BY DEF RanksFit, ReadFits, WriteFits, LimitOf, RankWithinBoard

LEMMA LimitType ==
    ASSUME NEW board \in [Players -> Row]
    PROVE  LimitOf(board) \in Nat
BY PresentFinite DEF LimitOf

\* Nobody leaves a board.
LEMMA LimitRises ==
    ASSUME NEW board \in [Players -> Row], NEW new \in [Players -> Row],
           \A p \in Players : new[p].score >= board[p].score
    PROVE  LimitOf(board) <= LimitOf(new)
<1>1. ASSUME NEW p \in Present(board)
      PROVE  p \in Present(new)
  <2>1. p \in Players /\ board[p].score >= 0
    BY DEF Present
  <2>2. board[p].score \in Int /\ new[p].score \in Int
    BY <2>1 DEF Row, Score
  <2> QED BY <2>1, <2>2 DEF Present
<1>2. Cardinality(Present(board)) <= Cardinality(Present(new))
  BY <1>1, PresentFinite, FS_Subset
<1>3. Cardinality(Present(board)) \in Nat /\ Cardinality(Present(new)) \in Nat
  BY PresentFinite
<1> QED BY <1>2, <1>3 DEF LimitOf

\* RankOf counts the players ahead, and its own is not among them; counting them
\* for a row read before may find that row's player too.
LEMMA RankBound ==
    ASSUME NEW board \in [Players -> Row]
    PROVE  /\ \A p \in Players : board[p].score >= 0 => RankOf(board, p) \in 1..LimitOf(board)
           /\ \A p \in Players : RankOf(board, p) <= LimitOf(board)
           /\ Backend = "mysql" => \A row : 1 + Cardinality(Ahead(board, row)) \in 1..LimitOf(board)
<1> DEFINE n == Cardinality(Present(board))
<1>0. n \in Nat /\ IsFiniteSet(Present(board))
  BY PresentFinite
<1>1. ASSUME NEW p \in Players, board[p].score >= 0
      PROVE  RankOf(board, p) \in 1..LimitOf(board)
  <2> DEFINE ahead == Ahead(board, board[p])
  <2>1. p \in Present(board)
    BY <1>1 DEF Present
  <2>2. IsFiniteSet(Present(board) \ {p}) /\ Cardinality(Present(board) \ {p}) = n - 1
    BY <1>0, <2>1, FS_RemoveElement
  <2>3. ahead \subseteq Present(board) \ {p}
    BY NotAheadOfSelf DEF Ahead
  <2> HIDE DEF ahead
  <2>4. Cardinality(ahead) <= n - 1 /\ Cardinality(ahead) \in Nat
    BY <2>2, <2>3, FS_Subset, FS_CardinalityType
  <2>5. RankOf(board, p) = 1 + Cardinality(ahead)
    <3>1. ~(board[p].score < 0)
      BY <1>1 DEF Row, Score
    <3> QED BY <3>1 DEF RankOf, ahead
  <2> QED BY <1>0, <2>4, <2>5 DEF LimitOf
<1>2. ASSUME NEW p \in Players
      PROVE  RankOf(board, p) <= LimitOf(board)
  <2>1. CASE board[p].score >= 0
    BY <1>1, <2>1, LimitType
  <2>2. CASE ~(board[p].score >= 0)
    <3>1. board[p].score < 0
      BY <2>2 DEF Row, Score
    <3>2. LimitOf(board) \in Nat
      BY LimitType
    <3> QED BY <3>1, <3>2 DEF RankOf
  <2> QED BY <2>1, <2>2
<1>3. ASSUME Backend = "mysql", NEW row
      PROVE  1 + Cardinality(Ahead(board, row)) \in 1..LimitOf(board)
  <2>1. Ahead(board, row) \subseteq Present(board)
    BY DEF Ahead
  <2>2. Cardinality(Ahead(board, row)) <= n /\ Cardinality(Ahead(board, row)) \in Nat
    BY <1>0, <2>1, FS_Subset, FS_CardinalityType
  <2> QED BY <1>0, <1>3, <2>2 DEF LimitOf
<1> QED BY <1>1, <1>2, <1>3

\* No step of another request takes a rank off the board.
LEMMA ReadStillFits ==
    ASSUME TypeOK, NEW r \in Readers, ReadFits(reader[r], rows),
           NEW table \in [Boards -> [Players -> Row]],
           \A b \in Boards, p \in Players : table[b][p].score >= rows[b][p].score
    PROVE  ReadFits(reader[r], table)
<1> DEFINE b == reader[r].board
<1>1. b \in Boards /\ rows[b] \in [Players -> Row] /\ reader[r].rank \in Nat
  BY DEF TypeOK, ReaderState
<1>2. /\ LimitOf(rows[b]) <= LimitOf(table[b])
      /\ LimitOf(rows[b]) \in Nat /\ LimitOf(table[b]) \in Nat
  BY <1>1, LimitRises, LimitType
<1> QED BY <1>1, <1>2 DEF ReadFits

LEMMA WriteStillFits ==
    ASSUME TypeOK, WriterInv, NEW w \in Writers, WriteFits(writer[w], rows),
           NEW table \in [Boards -> [Players -> Row]],
           \A b \in Boards, p \in Players : table[b][p].score >= rows[b][p].score
    PROVE  WriteFits(writer[w], table)
<1> SUFFICES ASSUME writer[w].pc = "ok"
             PROVE  writer[w].rank \in 1..LimitOf(table[BoardOf(writer[w])])
  BY DEF WriteFits
<1> DEFINE b == BoardOf(writer[w])
<1>1. b \in Boards /\ rows[b] \in [Players -> Row]
  BY WriterAtWork
<1>2. /\ LimitOf(rows[b]) <= LimitOf(table[b])
      /\ LimitOf(rows[b]) \in Nat /\ LimitOf(table[b]) \in Nat
  BY <1>1, LimitRises, LimitType
<1>3. writer[w].rank \in 1..LimitOf(rows[b])
  BY DEF WriteFits
<1> QED BY <1>2, <1>3

\* A window that ends with a rank of its board.
LEMMA WindowFits ==
    ASSUME NEW wr \in WriterState, NEW rank \in Nat, NEW table,
           rank \in 1..LimitOf(table[BoardOf(wr)])
    PROVE  WriteFits(WindowDone(wr, rank), table)
<1> DEFINE x == WindowDone(wr, rank)
<1>1. CASE wr.i < Len(wr.targets)
  <2>1. x.pc = "upsert"
    BY <1>1 DEF WindowDone, WriterState
  <2> QED BY <2>1 DEF WriteFits
<1>2. CASE ~(wr.i < Len(wr.targets))
  <2>1. x = [wr EXCEPT !.pc = "ok", !.rank = rank]
    BY <1>2 DEF WindowDone
  <2>2. x.pc = "ok" /\ x.rank = rank /\ BoardOf(x) = BoardOf(wr)
    BY <2>1 DEF WriterState, BoardOf
  <2> HIDE DEF x
  <2>3. WriteFits(x, table)
    BY <2>2 DEF WriteFits
  <2> QED BY <2>3 DEF x
<1> QED BY <1>1, <1>2

LEMMA WriterStillFits ==
    ASSUME ShapeInv, WritesKept, RanksFit, NEW w \in Writers,
           \/ \E p \in Players, s \in Scores, x \in Extras, t \in WriteTargets :
                 SubmitScore(w, p, s, x, t)
           \/ WriterStep(w)
           \/ InsertWithoutReply(w)
           \/ WriterFails(w)
    PROVE  WriteFits(writer'[w], rows')
<1> DEFINE wr    == writer[w]
           board == rows[BoardOf(wr)]
           own   == board[wr.player]
<1>0. wr \in WriterState /\ \A x : writer' = [writer EXCEPT ![w] = x] => writer'[w] = x
  BY DEF ShapeInv, TypeOK
<1>1. ASSUME wr.pc \in {"rank", "count"}
      PROVE  /\ board \in [Players -> Row] /\ wr.player \in Players
             /\ own \in Row /\ own.score >= 0
  <2>1. /\ board \in [Players -> Row] /\ wr.player \in Players /\ own \in Row
    BY <1>1, WriterAtWork DEF ShapeInv
  <2>2. wr.score <= wr.best /\ wr.best <= own.score
    BY <1>1 DEF WritesKept, Kept, AfterStore
  <2>3. wr.score \in Nat /\ wr.best \in Int /\ own.score \in Int
    BY <1>0, <2>1 DEF WriterState, Row, Score
  <2> QED BY <2>1, <2>2, <2>3
<1>2. ASSUME NEW rank \in Nat, rank \in 1..LimitOf(board), UNCHANGED rows,
             writer' = [writer EXCEPT ![w] = WindowDone(wr, rank)]
      PROVE  WriteFits(writer'[w], rows')
  BY <1>0, <1>2, WindowFits
<1>3. CASE RankForWriter(w)
  <2>1. RankOf(board, wr.player) \in Nat /\ RankOf(board, wr.player) \in 1..LimitOf(board)
    BY <1>1, <1>3, RankBound, RankType DEF RankForWriter
  <2> QED BY <1>2, <1>3, <2>1 DEF RankForWriter
<1>4. CASE SelectOwnForWriter(w)
  <2>1. ~(own.score < 0)
    BY <1>1, <1>4 DEF SelectOwnForWriter, Row, Score
  <2> DEFINE x == [wr EXCEPT !.pc = "count", !.seen = own.score, !.seenAt = own.at]
  <2>2. writer'[w] = x /\ Backend = "mysql"
    BY <1>0, <1>4, <2>1 DEF SelectOwnForWriter
  <2>3. x.pc = "count"
    BY <1>0 DEF WriterState
  <2> HIDE DEF x
  <2> QED BY <2>2, <2>3 DEF WriteFits
<1>5. CASE CountForWriter(w)
  <2> DEFINE rank == 1 + Cardinality(Ahead(board, [score |-> wr.seen, at |-> wr.seenAt]))
  <2>1. wr.pc = "count" /\ Backend = "mysql"
    BY <1>5 DEF CountForWriter, RanksFit, WriteFits
  <2>2. rank \in 1..LimitOf(board) /\ LimitOf(board) \in Nat
    BY <1>1, <2>1, RankBound, LimitType
  <2>3. writer' = [writer EXCEPT ![w] = WindowDone(wr, rank)] /\ UNCHANGED rows
    BY <1>5 DEF CountForWriter
  <2>4. rank \in Nat
    BY <2>2
  <2> HIDE DEF rank
  <2> QED BY <1>2, <2>2, <2>3, <2>4
<1>6. ASSUME writer'[w].pc \notin {"ok", "count"}
      PROVE  WriteFits(writer'[w], rows')
  BY <1>6 DEF WriteFits
<1>7. ASSUME NEW p, NEW s, NEW e, NEW t, SubmitScore(w, p, s, e, t)
      PROVE  writer'[w].pc \notin {"ok", "count"}
  <2> DEFINE y == [IdleWriter EXCEPT !.pc = "upsert", !.player = p, !.score = s,
                                     !.extra = e, !.at = now, !.targets = t]
  <2>1. y.pc = "upsert"
    BY DEF IdleWriter
  <2>2. writer' = [writer EXCEPT ![w] = y]
    BY <1>7 DEF SubmitScore
  <2> HIDE DEF y
  <2> QED BY <1>0, <2>1, <2>2
<1>8. CASE UpsertInMemory(w)
  BY <1>0, <1>6, <1>8 DEF UpsertInMemory, Reported, WriterState
<1>9. CASE InsertOrUpdate(w)
  BY <1>0, <1>6, <1>9 DEF InsertOrUpdate, Reported, WriterState
<1>10. CASE SelectOldScore(w)
  BY <1>0, <1>6, <1>10 DEF SelectOldScore, WriterState, ShapeInv, TypeOK
<1>11. CASE DecideInvalidate(w)
  BY <1>0, <1>6, <1>11 DEF DecideInvalidate, WriterState, ShapeInv, TypeOK
<1>12. CASE Invalidate(w)
  BY <1>0, <1>6, <1>12 DEF Invalidate, WriterState, ShapeInv, TypeOK
<1>13. CASE InsertWithoutReply(w) \/ WriterFails(w)
  BY <1>0, <1>6, <1>13, ZenonT(40) DEF InsertWithoutReply, WriterFails, IdleWriter
<1> QED BY <1>3, <1>4, <1>5, <1>6, <1>7, <1>8, <1>9, <1>10, <1>11, <1>12, <1>13 DEF WriterStep

\* Reads keep their ranks, or get one that fits.
LEMMA ReaderStillFits ==
    ASSUME ShapeInv, RanksFit, NEW r \in Readers,
           \/ \E p \in Askers, t \in Windows, n \in AskedTopN : AskList(r, p, t, n)
           \/ \E p \in Askers, t \in Windows, num \in PageNums, size \in PageSizes :
                 AskPage(r, p, t, num, size)
           \/ ReaderStep(r)
           \/ ReaderFails(r)
    PROVE  ReadFits(reader'[r], rows')
<1> DEFINE rd    == reader[r]
           board == rows[rd.board]
<1>0. /\ rd \in ReaderState /\ board \in [Players -> Row]
      /\ \A x : reader' = [reader EXCEPT ![r] = x] => reader'[r] = x
  BY ReaderTyped DEF ShapeInv, TypeOK
<1>1. ReadFits(rd, rows)
  BY DEF RanksFit
\* A new or a failed read has no rank.
<1>2. ASSUME NEW x \in ReaderState, reader' = [reader EXCEPT ![r] = x], UNCHANGED rows,
             x.rank = 0, x.pc # "count"
      PROVE  ReadFits(reader'[r], rows')
  <2>1. rows[x.board] \in [Players -> Row]
    BY DEF ShapeInv, TypeOK, ReaderState
  <2>2. x.rank <= LimitOf(rows[x.board])
    BY <1>2, <2>1, LimitType
  <2>3. ReadFits(x, rows)
    BY <1>2, <2>2 DEF ReadFits
  <2>4. reader'[r] = x /\ rows' = rows
    BY <1>0, <1>2
  <2> QED BY <2>3, <2>4
<1>3. ASSUME NEW x, reader' = [reader EXCEPT ![r] = x], UNCHANGED rows,
             x.rank = rd.rank, x.board = rd.board, x.pc # "count"
      PROVE  ReadFits(reader'[r], rows')
  BY <1>0, <1>1, <1>3 DEF ReadFits
<1>4. \A pc, list, excused :
          LET x == [rd EXCEPT !.pc = pc, !.list = list, !.excused = excused]
          IN  x.rank = rd.rank /\ x.board = rd.board /\ x.pc = pc
  BY <1>0 DEF ReaderState
<1>5. reader'[r] \in ReaderState
  BY TypesPreserved DEF Next, TypeOK
<1>6. ASSUME NEW p, NEW t, NEW n, AskList(r, p, t, n)
      PROVE  ReadFits(reader'[r], rows')
  <2> DEFINE x == [IdleReader EXCEPT !.pc = "get", !.player = p,
                                     !.board = BoardAt[t][now], !.want = ClampTopN(n)]
  <2>1. reader' = [reader EXCEPT ![r] = x] /\ UNCHANGED rows
    BY <1>6 DEF AskList
  <2>2. x.rank = 0 /\ x.pc = "get"
    BY DEF IdleReader
  <2> HIDE DEF x
  <2>3. x \in ReaderState
    BY <1>0, <1>5, <2>1
  <2> QED BY <1>2, <2>1, <2>2, <2>3
<1>7. ASSUME NEW p, NEW t, NEW num, NEW size, AskPage(r, p, t, num, size)
      PROVE  ReadFits(reader'[r], rows')
  <2> DEFINE want == Smaller(ClampPageNum(num) * ClampPageSize(size), TopNMax)
             x == [IdleReader EXCEPT !.pc = "get", !.player = p,
                                     !.board = BoardAt[t][now], !.want = want]
  <2>1. reader' = [reader EXCEPT ![r] = x] /\ UNCHANGED rows
    BY <1>7 DEF AskPage
  <2>2. x.rank = 0 /\ x.pc = "get"
    BY DEF IdleReader
  <2> HIDE DEF x
  <2>3. x \in ReaderState
    BY <1>0, <1>5, <2>1
  <2> QED BY <1>2, <2>1, <2>2, <2>3
<1>8. CASE ReaderFails(r)
  <2> DEFINE x == [IdleReader EXCEPT !.pc = "failed"]
  <2>1. reader' = [reader EXCEPT ![r] = x] /\ UNCHANGED rows
    BY <1>8 DEF ReaderFails
  <2>2. x.rank = 0 /\ x.pc = "failed"
    BY DEF IdleReader
  <2> HIDE DEF x
  <2>3. x \in ReaderState
    BY <1>0, <1>5, <2>1
  <2> QED BY <1>2, <2>1, <2>2, <2>3
<1>9. CASE ReadCache(r)
  <2> DEFINE x == IF cache[rd.board].hit THEN ListDone([rd EXCEPT !.list = cache[rd.board].list])
                  ELSE [rd EXCEPT !.pc = "topn"]
  <2>1. reader' = [reader EXCEPT ![r] = x] /\ UNCHANGED rows
    BY <1>9 DEF ReadCache
  <2>2. x.rank = rd.rank /\ x.board = rd.board /\ x.pc # "count"
    BY <1>0 DEF ListDone, ReaderState
  <2> HIDE DEF x
  <2> QED BY <1>3, <2>1, <2>2
<1>10. CASE ReadTopN(r)
  <2>1. PICK list : reader' = [reader EXCEPT ![r] = [rd EXCEPT !.pc = "put", !.list = list]]
    BY <1>10 DEF ReadTopN
  <2> DEFINE x == [rd EXCEPT !.pc = "put", !.list = list]
  <2>2. x.rank = rd.rank /\ x.board = rd.board /\ x.pc # "count"
    BY <1>0 DEF ReaderState
  <2>3. reader' = [reader EXCEPT ![r] = x] /\ UNCHANGED rows
    BY <1>10, <2>1 DEF ReadTopN
  <2> HIDE DEF x
  <2> QED BY <1>3, <2>2, <2>3
<1>11. CASE PutCache(r)
  <2> DEFINE x == ListDone([rd EXCEPT !.excused = FALSE])
  <2>1. reader' = [reader EXCEPT ![r] = x] /\ UNCHANGED rows
    BY <1>11 DEF PutCache
  <2>2. x.rank = rd.rank /\ x.board = rd.board /\ x.pc # "count"
    BY <1>0 DEF ListDone, ReaderState
  <2> HIDE DEF x
  <2> QED BY <1>3, <2>1, <2>2
<1>12. CASE RankForReader(r)
  <2> DEFINE rank == RankOf(board, rd.player)
             x == [rd EXCEPT !.pc = "ok", !.seen = board[rd.player].score, !.rank = rank]
  <2>1. rank <= LimitOf(board)
    BY <1>0, <1>12, RankBound DEF RankForReader, ShapeInv, ReaderInv
  <2>2. reader' = [reader EXCEPT ![r] = x] /\ UNCHANGED rows
    BY <1>12 DEF RankForReader
  <2>3. x.pc = "ok" /\ x.board = rd.board /\ x.rank = rank
    BY <1>0 DEF ReaderState
  <2> HIDE DEF x, rank
  <2> QED BY <1>0, <2>1, <2>2, <2>3 DEF ReadFits
<1>13. CASE SelectOwnForReader(r)
  <2> DEFINE own == board[rd.player]
             x == IF own.score < 0 THEN [rd EXCEPT !.pc = "ok"]
                  ELSE [rd EXCEPT !.pc = "count", !.seen = own.score, !.seenAt = own.at]
  <2>1. reader' = [reader EXCEPT ![r] = x] /\ UNCHANGED rows /\ Backend = "mysql"
    BY <1>13 DEF SelectOwnForReader
  <2>2. x.rank = rd.rank /\ x.board = rd.board
    BY <1>0 DEF ReaderState
  <2> HIDE DEF x
  <2> QED BY <1>0, <1>1, <2>1, <2>2 DEF ReadFits
<1>14. CASE CountForReader(r)
  <2> DEFINE rank == 1 + Cardinality(Ahead(board, [score |-> rd.seen, at |-> rd.seenAt]))
             x == [rd EXCEPT !.pc = "ok", !.rank = rank]
  <2>1. Backend = "mysql"
    BY <1>1, <1>14 DEF CountForReader, ReadFits
  <2>2. rank \in 1..LimitOf(board) /\ LimitOf(board) \in Nat
    BY <1>0, <2>1, RankBound, LimitType
  <2>3. reader' = [reader EXCEPT ![r] = x] /\ UNCHANGED rows
    BY <1>14 DEF CountForReader
  <2>4. x.pc = "ok" /\ x.board = rd.board /\ x.rank = rank
    BY <1>0 DEF ReaderState
  <2>5. rank <= LimitOf(board)
    BY <2>2
  <2> HIDE DEF x, rank
  <2> QED BY <1>0, <2>3, <2>4, <2>5 DEF ReadFits
<1> QED BY <1>6, <1>7, <1>8, <1>9, <1>10, <1>11, <1>12, <1>13, <1>14 DEF ReaderStep

LEMMA RanksInit == Init => RanksFit
<1> SUFFICES ASSUME Init PROVE RanksFit
  OBVIOUS
<1>1. ASSUME NEW r \in Readers
      PROVE  ReadFits(reader[r], rows)
  <2>1. reader[r] = IdleReader
    BY DEF Init, IdleReaders
  <2>2. IdleReader.rank = 0 /\ IdleReader.pc = "idle"
    BY DEF IdleReader
  <2>3. rows[reader[r].board] \in [Players -> Row]
    BY InitialShape DEF ShapeInv, TypeOK, ReaderState
  <2>4. LimitOf(rows[reader[r].board]) \in Nat
    BY <2>3, LimitType
  <2> QED BY <2>1, <2>2, <2>4 DEF ReadFits
<1>2. \A w \in Writers : WriteFits(writer[w], rows)
  BY DEF Init, IdleWriters, IdleWriter, WriteFits
<1> QED BY <1>1, <1>2 DEF RanksFit

LEMMA RanksStep ==
    ASSUME ShapeInv, WritesKept, RanksFit, [Next]_vars
    PROVE  RanksFit'
<1>1. CASE Tick \/ UNCHANGED vars
  <2>1. UNCHANGED <<rows, reader, writer>>
    BY <1>1 DEF Tick, vars
  <2> QED BY <2>1 DEF RanksFit, ReadFits, WriteFits, LimitOf, BoardOf
<1>2. CASE Restart
  <2>1. ASSUME NEW r \in Readers
        PROVE  ReadFits(reader'[r], rows')
    <3>1. reader'[r].rank = 0 /\ reader'[r].pc = "idle"
      BY <1>2 DEF Restart, IdleReaders, IdleReader
    <3>2. rows'[reader'[r].board] \in [Players -> Row]
      BY TypesPreserved DEF TypeOK, ReaderState
    <3>3. LimitOf(rows'[reader'[r].board]) \in Nat
      BY <3>2, LimitType
    <3> QED BY <3>1, <3>3 DEF ReadFits
  <2>2. \A w \in Writers : WriteFits(writer'[w], rows')
    BY <1>2 DEF Restart, IdleWriters, IdleWriter, WriteFits
  <2> QED BY <2>1, <2>2 DEF RanksFit
<1>3. ASSUME NEW w \in Writers,
             \/ \E p \in Players, s \in Scores, x \in Extras, t \in WriteTargets :
                   SubmitScore(w, p, s, x, t)
             \/ WriterStep(w)
             \/ InsertWithoutReply(w)
             \/ WriterFails(w)
      PROVE  RanksFit'
  <2>1. /\ rows' \in [Boards -> [Players -> Row]]
        /\ \A b \in Boards, p \in Players : rows'[b][p].score >= rows[b][p].score
    <3>1. Shapes(w)
      BY <1>3, WriterShape DEF ShapeInv
    <3>2. CASE UNCHANGED rows
      BY <3>2, ScoresStay DEF ShapeInv
    <3>3. CASE StoreEntry(writer[w]) /\ writer[w].pc \in {"upsert", "exec"}
      BY <3>3, StoreEffect DEF ShapeInv
    <3> QED BY <3>1, <3>2, <3>3 DEF Shapes, Accepts, Records, Moves, EndsWindow, GivesUp
  <2>2. \A v \in Writers \ {w} : writer'[v] = writer[v]
    BY <1>3, WriterShape
       DEF Shapes, Accepts, Records, Moves, EndsWindow, GivesUp, ShapeInv, TypeOK
  <2>3. \A v \in Writers \ {w} : WriteFits(writer'[v], rows')
    BY <2>1, <2>2, WriteStillFits DEF ShapeInv, RanksFit
  <2>4. WriteFits(writer'[w], rows')
    BY <1>3, WriterStillFits
  <2>5. ASSUME NEW r \in Readers
        PROVE  ReadFits(reader'[r], rows')
    <3>1. ReadFits(reader[r], rows')
      BY <2>1, ReadStillFits DEF ShapeInv, RanksFit
    <3>2. reader'[r] = reader[r] \/ reader'[r] = [reader[r] EXCEPT !.excused = TRUE]
      <4>1. CASE UNCHANGED reader
        BY <4>1
      <4>2. CASE StoreEntry(writer[w])
        BY <4>2 DEF StoreEntry
      <4> QED BY <1>3, <4>1, <4>2 DEF SubmitScore, WriterStep, UpsertInMemory, SelectOldScore,
                 InsertOrUpdate, DecideInvalidate, Invalidate, RankForWriter,
                 SelectOwnForWriter, CountForWriter, InsertWithoutReply, WriterFails
    <3>3. /\ reader'[r].rank = reader[r].rank /\ reader'[r].board = reader[r].board
          /\ reader'[r].pc = reader[r].pc
      BY <3>2 DEF ShapeInv, TypeOK, ReaderState
    <3> QED BY <3>1, <3>3 DEF ReadFits
  <2> QED BY <2>3, <2>4, <2>5 DEF RanksFit
<1>4. ASSUME NEW r \in Readers,
             \/ \E p \in Askers, t \in Windows, n \in AskedTopN : AskList(r, p, t, n)
             \/ \E p \in Askers, t \in Windows, num \in PageNums, size \in PageSizes :
                   AskPage(r, p, t, num, size)
             \/ ReaderStep(r)
             \/ ReaderFails(r)
      PROVE  RanksFit'
  <2>1. /\ UNCHANGED <<writer, rows>>
        /\ \A q \in Readers \ {r} : reader'[q] = reader[q]
    BY <1>4 DEF AskList, AskPage, ReaderStep, ReadCache, ReadTopN, PutCache, RankForReader,
                SelectOwnForReader, CountForReader, ReaderFails, ShapeInv, TypeOK
  <2>2. ReadFits(reader'[r], rows')
    BY <1>4, ReaderStillFits
  <2>3. \A q \in Readers \ {r} : ReadFits(reader'[q], rows')
    BY <2>1 DEF RanksFit
  <2>4. \A w \in Writers : WriteFits(writer'[w], rows')
    BY <2>1 DEF RanksFit
  <2> QED BY <2>2, <2>3, <2>4 DEF RanksFit
<1> QED BY <1>1, <1>2, <1>3, <1>4 DEF Next

\* A rank in a reply is at most the number of players on the board; over MySQL,
\* where RankOf is two statements, at most one more (mysql.go RankOf).
THEOREM RanksStayWithinBoard == Spec => []RankWithinBoard
<1>1. Init => ShapeInv /\ WritesKept /\ RanksFit
  BY InitialShape, WritesKeptInit, RanksInit
<1>2. ShapeInv /\ WritesKept /\ RanksFit /\ [Next]_vars =>
          ShapeInv' /\ WritesKept' /\ RanksFit'
  BY ShapePreserved, WritesKeptStep, RanksStep
<1>3. RanksFit => RankWithinBoard
  BY RanksMean
<1> QED BY <1>1, <1>2, <1>3, PTL DEF Spec
=============================================================================
