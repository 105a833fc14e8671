-------------------------- MODULE LeaderboardProofs --------------------------
(***************************************************************************)
(* Proofs about Leaderboard, for every value of its constants: type        *)
(* correctness and the currency of the hot cache.                          *)
(***************************************************************************)
EXTENDS LeaderboardProps, FiniteSetTheorems, TLAPS

-----------------------------------------------------------------------------
(* The operators of RankBoard *)

\* What a write leaves in a row is a row.
LEMMA MergeType ==
    ASSUME NEW old \in Row, NEW e \in Row
    PROVE  Merge(old, e) \in Row
BY DEF Merge, MemoryMerge, SqlMerge, Row, Score

\* A write never lowers the stored score, and leaves at least its own.
LEMMA MergeRaises ==
    ASSUME NEW old \in Row, NEW e \in Row
    PROVE  /\ Merge(old, e).score >= old.score
           /\ Merge(old, e).score >= e.score
BY DEF Merge, MemoryMerge, SqlMerge, Row, Score

\* A write that changes the row reports an update, even if the score it was
\* compared with is older than the row.
LEMMA ChangeIsReported ==
    ASSUME NEW old \in Row, NEW e \in Row, e.score >= 0,
           NEW seen \in Score, seen <= old.score,
           Merge(old, e) # old
    PROVE  Updated(seen, e)
<1>1. SUFFICES ASSUME e.score <= seen, e.extra = NoExtra
               PROVE  Merge(old, e) = old
  BY DEF Updated, Row, Score
<1>2. MemoryMerge(old, e) = old
  BY <1>1 DEF MemoryMerge, Row, Score
<1>3. SqlMerge(old, e) = old
  <2>1. SqlMerge(old, e) = [score |-> old.score, at |-> old.at, extra |-> old.extra]
    BY <1>1 DEF SqlMerge, Row, Score
  <2>2. old = [score |-> old.score, at |-> old.at, extra |-> old.extra]
    BY DEF Row
  <2> QED BY <2>1, <2>2
<1> QED BY <1>2, <1>3 DEF Merge

LEMMA PresentFinite ==
    ASSUME NEW board \in [Players -> Row]
    PROVE  /\ IsFiniteSet(Present(board))
           /\ Cardinality(Present(board)) \in Nat
<1>1. Present(board) \subseteq Players
  BY DEF Present
<1> QED BY <1>1, PlayersAssumption, FS_Subset, FS_CardinalityType

LEMMA RankType ==
    ASSUME NEW board \in [Players -> Row], NEW row
    PROVE  /\ Cardinality(Ahead(board, row)) \in Nat
           /\ \A p \in Players : RankOf(board, p) \in Nat
<1>1. \A r : Cardinality(Ahead(board, r)) \in Nat
  BY PresentFinite, FS_Subset, FS_CardinalityType DEF Ahead
<1> QED BY <1>1 DEF RankOf

\* A list read from the store is a sequence of compact entries.
LEMMA TopNType ==
    ASSUME NEW board \in [Players -> Row], NEW n \in Nat,
           NEW list \in TopNLists(board, n)
    PROVE  list \in Seq(Compact)
<1> DEFINE k == Smaller(n, Cardinality(Present(board)))
<1>1. k \in Nat
  BY PresentFinite DEF Smaller
<1>2. list \in [1..k -> Compacts(board)]
  BY DEF TopNLists
<1>3. Compacts(board) \subseteq Compact
  BY DEF Compacts, ToCompact, Compact, Present, Row, Score
<1> QED BY <1>1, <1>2, <1>3

-----------------------------------------------------------------------------
(* Type correctness *)

LEMMA WriterAtWork ==
    ASSUME TypeOK, WriterInv, NEW w \in Writers,
           writer[w].pc \notin {"idle", "failed"}
    PROVE  /\ writer[w] \in WriterState
           /\ BoardOf(writer[w]) \in Boards
           /\ writer[w].player \in Players
           /\ EntryOf(writer[w]) \in Row
           /\ rows[BoardOf(writer[w])] \in [Players -> Row]
           /\ rows[BoardOf(writer[w])][writer[w].player] \in Row
<1> DEFINE wr == writer[w]
<1>1. wr \in WriterState
  BY DEF TypeOK
<1>2. wr.targets[wr.i] \in Windows
  BY TargetsAssumption DEF WriterInv, AtWork
<1>3. BoardOf(wr) \in Boards
  BY <1>1, <1>2, BoardsAssumption DEF BoardOf, WriterState
<1>4. wr.player \in Players
  BY DEF WriterInv, AtWork
<1>5. EntryOf(wr) \in Row
  BY <1>1 DEF EntryOf, WriterState, Row, Score
<1> QED BY <1>1, <1>3, <1>4, <1>5 DEF TypeOK

LEMMA ReaderTyped ==
    ASSUME TypeOK, NEW r \in Readers
    PROVE  /\ reader[r] \in ReaderState
           /\ reader[r].board \in Boards
           /\ rows[reader[r].board] \in [Players -> Row]
BY DEF TypeOK, ReaderState

\* Storing an entry keeps the types and lowers no score.
LEMMA StoreEffect ==
    ASSUME TypeOK, WriterInv, NEW w \in Writers,
           writer[w].pc \notin {"idle", "failed"}, StoreEntry(writer[w])
    PROVE  /\ rows' \in [Boards -> [Players -> Row]]
           /\ reader' \in [Readers -> ReaderState]
           /\ history' \in [Boards -> [Players -> SUBSET (Nat \X Times)]]
           /\ \A b \in Boards, p \in Players : rows'[b][p].score >= rows[b][p].score
<1> DEFINE wr == writer[w]
           b == BoardOf(wr)
           p == wr.player
           new == Merge(rows[b][p], EntryOf(wr))
<1>1. /\ wr \in WriterState
      /\ b \in Boards
      /\ p \in Players
      /\ EntryOf(wr) \in Row
      /\ rows[b][p] \in Row
  BY WriterAtWork
<1>2. new \in Row /\ new.score >= rows[b][p].score
  BY <1>1, MergeType, MergeRaises
<1>3. rows' = [rows EXCEPT ![b][p] = new]
  BY DEF StoreEntry
<1>4. rows' \in [Boards -> [Players -> Row]]
  BY <1>1, <1>2, <1>3 DEF TypeOK
<1>5. \A c \in Boards, q \in Players : rows'[c][q].score >= rows[c][q].score
  <2> SUFFICES ASSUME NEW c \in Boards, NEW q \in Players
               PROVE  rows'[c][q].score >= rows[c][q].score
    OBVIOUS
  <2>1. rows[c][q].score \in Int
    BY DEF TypeOK, Row, Score
  <2>2. rows'[c][q] = IF c = b /\ q = p THEN new ELSE rows[c][q]
    BY <1>1, <1>3 DEF TypeOK
  <2> QED BY <1>2, <2>1, <2>2
<1>6. <<wr.score, wr.at>> \in Nat \X Times
  BY <1>1 DEF WriterState
<1>7. history' \in [Boards -> [Players -> SUBSET (Nat \X Times)]]
  <2>1. history' = [history EXCEPT ![b][p] = @ \union {<<wr.score, wr.at>>}]
    BY DEF StoreEntry
  <2>2. history[b][p] \union {<<wr.score, wr.at>>} \in SUBSET (Nat \X Times)
    BY <1>1, <1>6 DEF TypeOK
  <2> QED BY <1>1, <2>1, <2>2 DEF TypeOK
<1>8. reader' \in [Readers -> ReaderState]
  <2>1. \A r \in Readers : /\ reader[r] \in ReaderState
                           /\ [reader[r] EXCEPT !.excused = TRUE] \in ReaderState
    BY ZenonT(40) DEF TypeOK, ReaderState
  <2> QED BY <2>1 DEF StoreEntry
<1> QED BY <1>4, <1>5, <1>7, <1>8

LEMMA InitialShape == Init => ShapeInv
<1> SUFFICES ASSUME Init PROVE ShapeInv
  OBVIOUS
<1>1. 0 \in Times
  BY BoundsAssumption DEF Times
<1>2. NoRow \in Row
  BY <1>1, InputsAssumption DEF NoRow, Row, Score
<1>3. NoItem \in Item
  BY DEF NoItem, Item
<1>4. IdleWriter \in WriterState
  BY <1>1, InputsAssumption DEF IdleWriter, WriterState, WriterPC, Finished, Score
<1>5. IdleReader \in ReaderState
  BY <1>1, BoardsAssumption DEF IdleReader, ReaderState, ReaderPC, Finished, Score
<1>6. TypeOK
  BY <1>1, <1>2, <1>3, <1>4, <1>5
     DEF Init, TypeOK, EmptyRows, EmptyCache, IdleWriters, IdleReaders, NoHistory
<1>7. WriterInv
  BY DEF Init, WriterInv, IdleWriters, IdleWriter
<1>8. ReaderInv
  BY DEF Init, ReaderInv, IdleReaders, IdleReader
<1> QED BY <1>6, <1>7, <1>8 DEF ShapeInv

LEMMA IdleWriterType == IdleWriter \in WriterState
BY InputsAssumption, BoundsAssumption
   DEF IdleWriter, WriterState, WriterPC, Finished, Score, Times

LEMMA SpendType ==
    ASSUME TypeOK, NEW kind \in {"write", "read", "fault", "restart"}, Spend(kind)
    PROVE  used' \in [DOMAIN Budget -> Nat]
<1>1. kind \in DOMAIN Budget
  BY DEF Budget
<1> DEFINE D == DOMAIN Budget
<1>2. used \in [D -> Nat] /\ kind \in D
  BY <1>1 DEF TypeOK
<1>3. used' = [used EXCEPT ![kind] = used[kind] + 1]
  BY DEF Spend
<1> HIDE DEF D
<1>4. used' \in [D -> Nat]
  BY <1>2, <1>3
<1> QED BY <1>4 DEF D

LEMMA WriterMoves ==
    ASSUME NEW wr \in WriterState, NEW pc \in WriterPC,
           NEW seen \in Score, NEW at \in Times
    PROVE  /\ [wr EXCEPT !.pc = pc] \in WriterState
           /\ [wr EXCEPT !.pc = pc, !.seen = seen] \in WriterState
           /\ [wr EXCEPT !.pc = pc, !.seen = seen, !.seenAt = at] \in WriterState
BY DEF WriterState

LEMMA WindowDoneType ==
    ASSUME NEW wr \in WriterState, NEW rank \in Nat
    PROVE  WindowDone(wr, rank) \in WriterState
<1>1. ASSUME NEW i \in Nat, NEW seen \in Score, NEW at \in Times, NEW best \in Score
      PROVE  [wr EXCEPT !.pc = "upsert", !.i = i, !.seen = seen, !.seenAt = at,
                        !.updated = FALSE, !.best = best] \in WriterState
  BY DEF WriterState, WriterPC
<1>2. wr.i + 1 \in Nat /\ -1 \in Score /\ 0 \in Times
  BY BoundsAssumption DEF WriterState, Score, Times
<1>3. [wr EXCEPT !.pc = "ok", !.rank = rank] \in WriterState
  BY DEF WriterState, WriterPC, Finished
<1> QED BY <1>1, <1>2, <1>3 DEF WindowDone

LEMMA ReportedType ==
    ASSUME NEW wr \in WriterState, NEW seen \in Score
    PROVE  Reported(wr, seen) \in WriterState
<1>1. Best(seen, EntryOf(wr)) \in Score /\ Updated(seen, EntryOf(wr)) \in BOOLEAN
  BY DEF Best, Updated, EntryOf, WriterState, Score
<1> QED BY <1>1 DEF Reported, WriterState, WriterPC

LEMMA ListDoneType ==
    ASSUME NEW rd \in ReaderState
    PROVE  ListDone(rd) \in ReaderState
BY DEF ListDone, ReaderState, ReaderPC, Finished

\* Every step of a write keeps the types.
LEMMA WriterTypes ==
    ASSUME TypeOK, WriterInv, NEW w \in Writers,
           \/ \E p \in Players, s \in Scores, x \in Extras, t \in WriteTargets :
                 SubmitScore(w, p, s, x, t)
           \/ WriterStep(w)
           \/ InsertWithoutReply(w)
           \/ WriterFails(w)
    PROVE  TypeOK'
<1> USE DEF TypeOK
<1>1. ASSUME NEW p \in Players, NEW s \in Scores, NEW x \in Extras,
             NEW t \in WriteTargets, SubmitScore(w, p, s, x, t)
      PROVE  TypeOK'
  <2>1. [IdleWriter EXCEPT !.pc = "upsert", !.player = p, !.score = s, !.extra = x,
                           !.at = now, !.targets = t] \in WriterState
    BY IdleWriterType, InputsAssumption, TargetsAssumption DEF WriterState, WriterPC
  <2> QED BY <1>1, <2>1, SpendType DEF SubmitScore
<1>2. CASE UpsertInMemory(w)
  <2>1. writer[w].pc \notin {"idle", "failed"} /\ StoreEntry(writer[w])
    BY <1>2 DEF UpsertInMemory
  <2>2. rows[BoardOf(writer[w])][writer[w].player].score \in Score
    BY <2>1, WriterAtWork DEF Row
  <2>3. Reported(writer[w], rows[BoardOf(writer[w])][writer[w].player].score) \in WriterState
    BY <2>2, ReportedType
  <2> QED BY <1>2, <2>1, <2>3, StoreEffect DEF UpsertInMemory
<1>3. CASE SelectOldScore(w)
  <2>1. rows[BoardOf(writer[w])][writer[w].player].score \in Score
    BY <1>3, WriterAtWork DEF SelectOldScore, Row
  <2>2. 0 \in Times /\ "exec" \in WriterPC
    BY BoundsAssumption DEF Times, WriterPC
  <2>3. [writer[w] EXCEPT
            !.pc = "exec",
            !.seen = rows[BoardOf(writer[w])][writer[w].player].score] \in WriterState
    BY <2>1, <2>2, WriterMoves
  <2> QED BY <1>3, <2>3 DEF SelectOldScore
<1>4. CASE InsertOrUpdate(w)
  <2>1. writer[w].pc \notin {"idle", "failed"} /\ StoreEntry(writer[w])
    BY <1>4 DEF InsertOrUpdate
  <2>2. Reported(writer[w], writer[w].seen) \in WriterState
    BY ReportedType DEF WriterState
  <2> QED BY <1>4, <2>1, <2>2, StoreEffect DEF InsertOrUpdate
<1>5. CASE DecideInvalidate(w)
  <2>1. [writer[w] EXCEPT !.pc = "invalidate"] \in WriterState
    BY ZenonT(40) DEF WriterState, WriterPC
  <2>2. [writer[w] EXCEPT !.pc = "rank"] \in WriterState
    BY ZenonT(40) DEF WriterState, WriterPC
  <2> QED BY <1>5, <2>1, <2>2 DEF DecideInvalidate
<1>6. CASE Invalidate(w)
  <2>1. NoItem \in Item
    BY DEF NoItem, Item
  <2>2. [writer[w] EXCEPT !.pc = "rank"] \in WriterState
    BY ZenonT(40) DEF WriterState, WriterPC
  <2> QED BY <1>6, <2>1, <2>2 DEF Invalidate
<1>7. CASE RankForWriter(w)
  <2>1. RankOf(rows[BoardOf(writer[w])], writer[w].player) \in Nat
    BY <1>7, WriterAtWork, RankType DEF RankForWriter
  <2> QED BY <1>7, <2>1, WindowDoneType DEF RankForWriter
<1>8. CASE SelectOwnForWriter(w)
  <2>1. rows[BoardOf(writer[w])][writer[w].player] \in Row
    BY <1>8, WriterAtWork DEF SelectOwnForWriter
  <2>2. WindowDone(writer[w], 0) \in WriterState
    BY WindowDoneType
  <2>3. [writer[w] EXCEPT
            !.pc = "count",
            !.seen = rows[BoardOf(writer[w])][writer[w].player].score,
            !.seenAt = rows[BoardOf(writer[w])][writer[w].player].at] \in WriterState
    BY <2>1, WriterMoves DEF Row, WriterPC
  <2> QED BY <1>8, <2>2, <2>3 DEF SelectOwnForWriter
<1>9. CASE CountForWriter(w)
  <2> DEFINE own == [score |-> writer[w].seen, at |-> writer[w].seenAt]
  <2>1. 1 + Cardinality(Ahead(rows[BoardOf(writer[w])], own)) \in Nat
    BY <1>9, WriterAtWork, RankType DEF CountForWriter
  <2>2. WindowDone(writer[w], 1 + Cardinality(Ahead(rows[BoardOf(writer[w])], own)))
            \in WriterState
    BY <2>1, WindowDoneType
  <2> QED BY <1>9, <2>2 DEF CountForWriter
<1>10. ASSUME InsertWithoutReply(w) \/ WriterFails(w) PROVE writer' \in [Writers -> WriterState]
  <2>1. [IdleWriter EXCEPT !.pc = "failed"] \in WriterState
    BY IdleWriterType DEF WriterState, WriterPC, Finished
  <2> QED BY <1>10, <2>1 DEF InsertWithoutReply, WriterFails
<1>11. CASE InsertWithoutReply(w)
  <2>1. writer[w].pc \notin {"idle", "failed"} /\ StoreEntry(writer[w])
    BY <1>11 DEF InsertWithoutReply
  <2>2. \A b \in Boards : [cache[b] EXCEPT !.excused = TRUE] \in Item
    BY DEF Item
  <2>3. cache' \in [Boards -> Item]
    BY <1>11, <2>2 DEF InsertWithoutReply
  <2> QED BY <1>10, <1>11, <2>1, <2>3, StoreEffect, SpendType DEF InsertWithoutReply
<1>12. CASE WriterFails(w)
  BY <1>10, <1>12, SpendType DEF WriterFails
<1> QED BY <1>1, <1>2, <1>3, <1>4, <1>5, <1>6, <1>7, <1>8, <1>9, <1>11, <1>12 DEF WriterStep

LEMMA IdleReaderType == IdleReader \in ReaderState
BY BoundsAssumption, BoardsAssumption
   DEF IdleReader, ReaderState, ReaderPC, Finished, Score, Times

LEMMA ClampType ==
    /\ \A n \in Int : ClampTopN(n) \in Nat
    /\ \A n \in Int : ClampPageNum(n) \in Nat \ {0}
    /\ \A n \in Int : ClampPageSize(n) \in Nat \ {0}
BY TopNAssumption DEF ClampTopN, ClampPageNum, ClampPageSize, Smaller

\* Every step of a list read keeps the types.
LEMMA ReaderTypes ==
    ASSUME TypeOK, ReaderInv, NEW r \in Readers,
           \/ \E p \in Askers, t \in Windows, n \in AskedTopN : AskList(r, p, t, n)
           \/ \E p \in Askers, t \in Windows, num \in PageNums, size \in PageSizes :
                 AskPage(r, p, t, num, size)
           \/ ReaderStep(r)
           \/ ReaderFails(r)
    PROVE  TypeOK'
<1> USE DEF TypeOK
<1>1. ASSUME NEW p \in Askers, NEW t \in Windows, NEW n \in AskedTopN,
             AskList(r, p, t, n)
      PROVE  TypeOK'
  <2>1. BoardAt[t][now] \in Boards /\ ClampTopN(n) \in Nat /\ p \in Players \union {NoPlayer}
    BY BoardsAssumption, InputsAssumption, ClampType
  <2>2. [IdleReader EXCEPT !.pc = "get", !.player = p, !.board = BoardAt[t][now],
                           !.want = ClampTopN(n)] \in ReaderState
    BY <2>1, IdleReaderType DEF ReaderState, ReaderPC
  <2> QED BY <1>1, <2>2, SpendType DEF AskList
<1>2. ASSUME NEW p \in Askers, NEW t \in Windows, NEW num \in PageNums,
             NEW size \in PageSizes, AskPage(r, p, t, num, size)
      PROVE  TypeOK'
  <2> DEFINE pageNum  == ClampPageNum(num)
             pageSize == ClampPageSize(size)
             need     == Smaller(pageNum * pageSize, TopNMax)
  <2>1. pageNum \in Nat /\ pageSize \in Nat
    BY InputsAssumption, ClampType
  <2>2. pageNum * pageSize \in Nat
    BY <2>1
  <2>3. need \in Nat
    BY <2>2, TopNAssumption DEF Smaller
  <2>4. BoardAt[t][now] \in Boards /\ p \in Players \union {NoPlayer}
    BY BoardsAssumption, InputsAssumption
  <2>5. reader' = [reader EXCEPT ![r] =
                      [IdleReader EXCEPT !.pc = "get", !.player = p,
                                         !.board = BoardAt[t][now], !.want = need]]
    BY <1>2 DEF AskPage
  <2> HIDE DEF pageNum, pageSize, need
  <2>6. [IdleReader EXCEPT !.pc = "get", !.player = p, !.board = BoardAt[t][now],
                           !.want = need]
            \in ReaderState
    BY <2>1, <2>3, <2>4, IdleReaderType DEF ReaderState, ReaderPC
  <2> QED BY <1>2, <2>5, <2>6, SpendType DEF AskPage
<1>3. CASE ReadCache(r)
  <2>1. cache[reader[r].board] \in Item
    BY ReaderTyped
  <2>2. [reader[r] EXCEPT !.list = cache[reader[r].board].list] \in ReaderState
    BY <2>1, ZenonT(40) DEF Item, ReaderState
  <2>3. [reader[r] EXCEPT !.pc = "topn"] \in ReaderState
    BY ZenonT(40) DEF ReaderState, ReaderPC
  <2> QED BY <1>3, <2>2, <2>3, ListDoneType DEF ReadCache
<1>4. CASE ReadTopN(r)
  <2>1. PICK list \in TopNLists(rows[reader[r].board], reader[r].want) :
            reader' = [reader EXCEPT ![r] = [@ EXCEPT !.pc = "put", !.list = list]]
    BY <1>4 DEF ReadTopN
  <2>2. list \in Seq(Compact)
    BY ReaderTyped, TopNType DEF ReaderState
  <2>3. [reader[r] EXCEPT !.pc = "put", !.list = list] \in ReaderState
    BY <2>2, ZenonT(40) DEF ReaderState, ReaderPC
  <2> QED BY <1>4, <2>1, <2>3 DEF ReadTopN
<1>5. CASE PutCache(r)
  <2>1. reader[r] \in ReaderState
    OBVIOUS
  <2>2. [hit |-> TRUE, list |-> reader[r].list, n |-> reader[r].want,
         excused |-> reader[r].excused] \in Item
    BY <2>1 DEF ReaderState, Item
  <2>3. [reader[r] EXCEPT !.excused = FALSE] \in ReaderState
    BY <2>1 DEF ReaderState
  <2> QED BY <1>5, <2>2, <2>3, ListDoneType DEF PutCache
<1>6. ASSUME NEW own \in Row, NEW rank \in Nat, NEW pc \in ReaderPC
      PROVE  /\ [reader[r] EXCEPT !.pc = pc] \in ReaderState
             /\ [reader[r] EXCEPT !.pc = pc, !.rank = rank] \in ReaderState
             /\ [reader[r] EXCEPT !.pc = pc, !.seen = own.score, !.seenAt = own.at]
                    \in ReaderState
             /\ [reader[r] EXCEPT !.pc = pc, !.seen = own.score, !.rank = rank]
                    \in ReaderState
  <2>1. reader[r] \in ReaderState
    OBVIOUS
  <2> QED BY <2>1 DEF ReaderState, Row
<1>7. "ok" \in ReaderPC /\ "count" \in ReaderPC
  BY DEF ReaderPC, Finished
<1>8. CASE RankForReader(r)
  <2> DEFINE board == rows[reader[r].board]
             p     == reader[r].player
  <2>1. board[p] \in Row /\ RankOf(board, p) \in Nat
    BY <1>8, ReaderTyped, RankType DEF RankForReader, ReaderInv
  <2>2. [reader[r] EXCEPT !.pc = "ok", !.seen = board[p].score, !.rank = RankOf(board, p)]
            \in ReaderState
    BY <1>6, <1>7, <2>1
  <2> QED BY <1>8, <2>2 DEF RankForReader
<1>9. CASE SelectOwnForReader(r)
  <2> DEFINE own == rows[reader[r].board][reader[r].player]
  <2>1. own \in Row
    BY <1>9, ReaderTyped DEF SelectOwnForReader, ReaderInv
  <2>2. /\ [reader[r] EXCEPT !.pc = "ok"] \in ReaderState
        /\ [reader[r] EXCEPT !.pc = "count", !.seen = own.score, !.seenAt = own.at]
              \in ReaderState
    BY <1>6, <1>7, <2>1, 0 \in Nat
  <2> QED BY <1>9, <2>2 DEF SelectOwnForReader
<1>10. CASE CountForReader(r)
  <2> DEFINE own  == [score |-> reader[r].seen, at |-> reader[r].seenAt]
             rank == 1 + Cardinality(Ahead(rows[reader[r].board], own))
  <2>1. rank \in Nat
    <3>1. Cardinality(Ahead(rows[reader[r].board], own)) \in Nat
      BY ReaderTyped, RankType
    <3> QED BY <3>1
  <2>2. reader' = [reader EXCEPT ![r] = [reader[r] EXCEPT !.pc = "ok", !.rank = rank]]
    BY <1>10 DEF CountForReader
  <2> HIDE DEF rank
  <2>3. [reader[r] EXCEPT !.pc = "ok", !.rank = rank] \in ReaderState
    BY <2>1, ZenonT(40) DEF ReaderState, ReaderPC, Finished
  <2> QED BY <1>10, <2>2, <2>3 DEF CountForReader
<1>11. CASE ReaderFails(r)
  <2>1. [IdleReader EXCEPT !.pc = "failed"] \in ReaderState
    BY IdleReaderType DEF ReaderState, ReaderPC, Finished
  <2> QED BY <1>11, <2>1, SpendType DEF ReaderFails
<1> QED BY <1>1, <1>2, <1>3, <1>4, <1>5, <1>8, <1>9, <1>10, <1>11 DEF ReaderStep

LEMMA TypesPreserved ==
    ASSUME ShapeInv, [Next]_vars
    PROVE  TypeOK'
<1> USE DEF ShapeInv
<1>1. CASE Tick
  <2>1. now' \in Times
    BY <1>1, BoundsAssumption DEF Tick, TypeOK, Times
  <2> QED BY <1>1, <2>1 DEF Tick, TypeOK
<1>2. CASE Restart
  <2>1. 0 \in Times
    BY BoundsAssumption DEF Times
  <2>2. NoRow \in Row
    BY <2>1, InputsAssumption DEF NoRow, Row, Score
  <2>3. NoItem \in Item
    BY DEF NoItem, Item
  <2>4. EmptyRows \in [Boards -> [Players -> Row]]
    BY <2>2 DEF EmptyRows
  <2>5. NoHistory \in [Boards -> [Players -> SUBSET (Nat \X Times)]]
    BY DEF NoHistory
  <2>6. /\ EmptyCache \in [Boards -> Item]
        /\ IdleWriters \in [Writers -> WriterState]
        /\ IdleReaders \in [Readers -> ReaderState]
    BY <2>3, IdleWriterType, IdleReaderType DEF EmptyCache, IdleWriters, IdleReaders
  <2>7. used' \in [DOMAIN Budget -> Nat]
    BY <1>2, SpendType DEF Restart
  <2> QED BY <1>2, <2>4, <2>5, <2>6, <2>7 DEF Restart, TypeOK
<1>3. CASE UNCHANGED vars
  BY <1>3 DEF vars, TypeOK
<1> QED BY <1>1, <1>2, <1>3, WriterTypes, ReaderTypes DEF Next

\* What is known of a write at work survives any step that lowers no score.
LEMMA StaysAtWork ==
    ASSUME TypeOK, WriterInv, NEW v \in Writers,
           writer[v].pc \notin {"idle", "failed"},
           NEW table \in [Boards -> [Players -> Row]],
           \A b \in Boards, p \in Players : table[b][p].score >= rows[b][p].score
    PROVE  AtWork(writer[v], table)
<1> DEFINE b == BoardOf(writer[v])
           p == writer[v].player
<1>1. b \in Boards /\ p \in Players /\ rows[b][p] \in Row /\ table[b][p] \in Row
  BY WriterAtWork
<1>2. rows[b][p].score \in Int /\ table[b][p].score \in Int /\ writer[v].seen \in Int
  BY <1>1 DEF Row, Score, TypeOK, WriterState
<1>3. table[b][p].score >= rows[b][p].score
  BY <1>1
<1>4. AtWork(writer[v], rows)
  BY DEF WriterInv
<1> QED BY <1>2, <1>3, <1>4 DEF AtWork

\* So a step of one write only has to account for that write.
LEMMA WriterInvStep ==
    ASSUME TypeOK, WriterInv, NEW w \in Writers,
           rows' \in [Boards -> [Players -> Row]],
           \A b \in Boards, p \in Players : rows'[b][p].score >= rows[b][p].score,
           \A v \in Writers \ {w} : writer'[v] = writer[v],
           writer'[w].pc \notin {"idle", "failed"} => AtWork(writer'[w], rows')
    PROVE  WriterInv'
<1> SUFFICES ASSUME NEW v \in Writers, v # w, writer'[v].pc \notin {"idle", "failed"}
             PROVE  AtWork(writer'[v], rows')
  BY DEF WriterInv
<1> QED BY StaysAtWork

LEMMA WriterInvKept ==
    ASSUME TypeOK, WriterInv, UNCHANGED <<writer, rows>>
    PROVE  WriterInv'
BY DEF WriterInv, AtWork, BoardOf

LEMMA ScoresStay ==
    ASSUME TypeOK, UNCHANGED rows
    PROVE  /\ rows' \in [Boards -> [Players -> Row]]
           /\ \A b \in Boards, p \in Players : rows'[b][p].score >= rows[b][p].score
BY DEF TypeOK, Row, Score

\* Going on to the next window, or to the reply, stays within the windows.
LEMMA WindowDoneAtWork ==
    ASSUME NEW wr \in WriterState, NEW rank \in Nat, NEW table,
           AtWork(wr, table), wr.pc # "exec"
    PROVE  AtWork(WindowDone(wr, rank), table)
<1>1. wr.i \in Nat /\ Len(wr.targets) \in Nat
  BY DEF WriterState
<1> QED BY <1>1 DEF AtWork, WindowDone, WriterState

LEMMA WriterInvPreserved ==
    ASSUME TypeOK, WriterInv, NEW w \in Writers,
           \/ \E p \in Players, s \in Scores, x \in Extras, t \in WriteTargets :
                 SubmitScore(w, p, s, x, t)
           \/ WriterStep(w)
           \/ InsertWithoutReply(w)
           \/ WriterFails(w)
    PROVE  WriterInv'
<1> DEFINE wr == writer[w]
           own == rows[BoardOf(wr)][wr.player]
<1>0. wr \in WriterState /\ writer \in [Writers -> WriterState]
  BY DEF TypeOK
<1>1. ASSUME NEW p \in Players, NEW s \in Scores, NEW x \in Extras,
             NEW t \in WriteTargets, SubmitScore(w, p, s, x, t)
      PROVE  WriterInv'
  <2>1. /\ writer'[w].pc = "upsert"
        /\ writer'[w].player = p
        /\ writer'[w].targets = t
        /\ writer'[w].i = 1
    BY <1>0, <1>1 DEF SubmitScore, IdleWriter
  <2>2. 1 \in 1..Len(t)
    BY TargetsAssumption
  <2>3. AtWork(writer'[w], rows')
    BY <2>1, <2>2 DEF AtWork
  <2> QED BY <1>0, <1>1, <2>3, WriterInvStep, ScoresStay DEF SubmitScore
<1>2. ASSUME NEW seen, writer' = [writer EXCEPT ![w] = Reported(writer[w], seen)],
             wr.pc \notin {"idle", "failed"}, StoreEntry(wr)
      PROVE  WriterInv'
  <2>1. AtWork(wr, rows)
    BY <1>2 DEF WriterInv
  <2>2. AtWork(writer'[w], rows')
    BY <1>0, <1>2, <2>1 DEF AtWork, Reported, WriterState
  <2> QED BY <1>0, <1>2, <2>2, WriterInvStep, StoreEffect
<1>3. CASE UpsertInMemory(w)
  BY <1>2, <1>3 DEF UpsertInMemory
<1>4. CASE InsertOrUpdate(w)
  BY <1>2, <1>4 DEF InsertOrUpdate
<1>5. CASE SelectOldScore(w)
  <2>1. AtWork(wr, rows)
    BY <1>5 DEF SelectOldScore, WriterInv
  <2>2. own.score \in Int
    BY <1>5, WriterAtWork DEF SelectOldScore, Row, Score
  <2>3. writer' = [writer EXCEPT ![w] = [wr EXCEPT !.pc = "exec", !.seen = own.score]]
    BY <1>0, <1>5 DEF SelectOldScore
  <2> DEFINE x == [wr EXCEPT !.pc = "exec", !.seen = own.score]
  <2>5. /\ x.player = wr.player /\ x.targets = wr.targets /\ x.i = wr.i
        /\ x.at = wr.at /\ x.seen = own.score
    BY <1>0 DEF WriterState
  <2>6. BoardOf(x) = BoardOf(wr) /\ Backend = "mysql"
    BY <1>5, <2>5 DEF BoardOf, SelectOldScore
  <2>4. AtWork(x, rows)
    <3> HIDE DEF x
    <3> QED BY <2>1, <2>2, <2>5, <2>6 DEF AtWork
  <2> QED BY <1>0, <1>5, <2>3, <2>4, WriterInvStep, ScoresStay DEF SelectOldScore
<1>6. ASSUME NEW pc \in WriterPC \ {"exec"}, wr.pc \notin {"idle", "failed"},
             UNCHANGED rows,
             \/ writer' = [writer EXCEPT ![w].pc = pc]
             \/ \E seen \in Score, at \in Times :
                   writer' = [writer EXCEPT ![w] =
                       [@ EXCEPT !.pc = pc, !.seen = seen, !.seenAt = at]]
      PROVE  WriterInv'
  <2>1. AtWork(wr, rows)
    BY <1>6 DEF WriterInv
  <2>2. AtWork(writer'[w], rows')
    BY <1>0, <1>6, <2>1, ZenonT(40) DEF AtWork, WriterState
  <2> QED BY <1>0, <1>6, <2>2, WriterInvStep, ScoresStay
<1>7. CASE DecideInvalidate(w)
  BY <1>6, <1>7 DEF DecideInvalidate, WriterPC
<1>8. CASE Invalidate(w)
  BY <1>6, <1>8 DEF Invalidate, WriterPC
<1>9. ASSUME NEW rank \in Nat, wr.pc \in {"rank", "count"}, UNCHANGED rows,
             writer' = [writer EXCEPT ![w] = WindowDone(writer[w], rank)]
      PROVE  WriterInv'
  <2>1. AtWork(WindowDone(wr, rank), rows)
    BY <1>0, <1>9, WindowDoneAtWork DEF WriterInv
  <2> QED BY <1>0, <1>9, <2>1, WriterInvStep, ScoresStay
<1>10. CASE RankForWriter(w)
  <2>1. RankOf(rows[BoardOf(wr)], wr.player) \in Nat
    BY <1>10, WriterAtWork, RankType DEF RankForWriter
  <2> QED BY <1>9, <1>10, <2>1 DEF RankForWriter
<1>11. CASE SelectOwnForWriter(w)
  <2>1. own \in Row
    BY <1>11, WriterAtWork DEF SelectOwnForWriter
  <2>2. CASE own.score < 0
    BY <1>9, <1>11, <2>2 DEF SelectOwnForWriter
  <2>3. CASE ~(own.score < 0)
    <3>1. own.score \in Score /\ own.at \in Times /\ "count" \in WriterPC \ {"exec"}
      BY <2>1 DEF Row, WriterPC
    <3> QED BY <1>6, <1>11, <2>3, <3>1 DEF SelectOwnForWriter
  <2> QED BY <2>2, <2>3
<1>12. CASE CountForWriter(w)
  <2> DEFINE rank == 1 + Cardinality(Ahead(rows[BoardOf(wr)],
                                           [score |-> wr.seen, at |-> wr.seenAt]))
  <2>1. rank \in Nat
    <3>1. Cardinality(Ahead(rows[BoardOf(wr)],
                            [score |-> wr.seen, at |-> wr.seenAt])) \in Nat
      BY <1>12, WriterAtWork, RankType DEF CountForWriter
    <3> QED BY <3>1
  <2>2. /\ writer' = [writer EXCEPT ![w] = WindowDone(writer[w], rank)]
        /\ wr.pc = "count" /\ UNCHANGED rows
    BY <1>12 DEF CountForWriter
  <2> HIDE DEF rank
  <2> QED BY <1>9, <2>1, <2>2
<1>13. CASE InsertWithoutReply(w)
  <2>1. writer'[w].pc = "failed" /\ \A v \in Writers \ {w} : writer'[v] = writer[v]
    BY <1>0, <1>13 DEF InsertWithoutReply, IdleWriter
  <2> QED BY <1>13, <2>1, WriterInvStep, StoreEffect DEF InsertWithoutReply
<1>14. CASE WriterFails(w)
  <2>1. writer'[w].pc = "failed" /\ \A v \in Writers \ {w} : writer'[v] = writer[v]
    BY <1>0, <1>14 DEF WriterFails, IdleWriter
  <2> QED BY <1>14, <2>1, WriterInvStep, ScoresStay DEF WriterFails
<1> QED BY <1>1, <1>3, <1>4, <1>5, <1>7, <1>8, <1>10, <1>11, <1>12, <1>13, <1>14
        DEF WriterStep

LEMMA ReaderInvPreserved ==
    ASSUME TypeOK, ReaderInv, NEW r \in Readers,
           \/ \E p \in Askers, t \in Windows, n \in AskedTopN : AskList(r, p, t, n)
           \/ \E p \in Askers, t \in Windows, num \in PageNums, size \in PageSizes :
                 AskPage(r, p, t, num, size)
           \/ ReaderStep(r)
           \/ ReaderFails(r)
    PROVE  ReaderInv'
<1> DEFINE rd == reader[r]
           Named(x) == x.pc \in {"rank", "count"} => x.player \in Players
<1>0. reader \in [Readers -> ReaderState] /\ rd \in ReaderState
  BY DEF TypeOK
<1>1. ASSUME NEW x, reader' = [reader EXCEPT ![r] = x], Named(x)
      PROVE  ReaderInv'
  BY <1>0, <1>1 DEF ReaderInv
<1>2. \A x \in ReaderState : Named(ListDone(x))
  BY DEF ListDone, ReaderState
<1>3. ASSUME NEW p \in Askers, NEW t \in Windows, NEW n \in AskedTopN,
             AskList(r, p, t, n)
      PROVE  ReaderInv'
  BY <1>1, <1>3 DEF AskList, IdleReader
<1>4. ASSUME NEW p \in Askers, NEW t \in Windows, NEW num \in PageNums,
             NEW size \in PageSizes, AskPage(r, p, t, num, size)
      PROVE  ReaderInv'
  BY <1>1, <1>4 DEF AskPage, IdleReader
<1>5. CASE ReadCache(r)
  <2>1. [rd EXCEPT !.list = cache[rd.board].list] \in ReaderState
    <3>1. cache[rd.board] \in Item
      BY ReaderTyped DEF TypeOK
    <3> QED BY <1>0, <3>1 DEF Item, ReaderState
  <2> QED BY <1>0, <1>1, <1>2, <1>5, <2>1 DEF ReadCache, ReaderState
<1>6. CASE ReadTopN(r)
  BY <1>0, <1>1, <1>6 DEF ReadTopN, ReaderState
<1>7. CASE PutCache(r)
  <2>1. [rd EXCEPT !.excused = FALSE] \in ReaderState
    BY <1>0 DEF ReaderState
  <2> QED BY <1>1, <1>2, <1>7, <2>1 DEF PutCache
<1>8. CASE RankForReader(r)
  BY <1>0, <1>8 DEF RankForReader, ReaderInv, ReaderState
<1>9. CASE SelectOwnForReader(r)
  BY <1>0, <1>9 DEF SelectOwnForReader, ReaderInv, ReaderState
<1>10. CASE CountForReader(r)
  BY <1>0, <1>10 DEF CountForReader, ReaderInv, ReaderState
<1>11. CASE ReaderFails(r)
  BY <1>1, <1>11 DEF ReaderFails, IdleReader
<1> QED BY <1>3, <1>4, <1>5, <1>6, <1>7, <1>8, <1>9, <1>10, <1>11 DEF ReaderStep

LEMMA ShapePreserved ==
    ASSUME ShapeInv, [Next]_vars
    PROVE  ShapeInv'
<1> USE DEF ShapeInv
<1>1. TypeOK'
  BY TypesPreserved
<1>2. ASSUME NEW w \in Writers, UNCHANGED reader \/ StoreEntry(writer[w])
      PROVE  ReaderInv'
  <2>1. CASE UNCHANGED reader
    BY <2>1 DEF ReaderInv
  <2>2. CASE StoreEntry(writer[w])
    <3>1. \A r \in Readers : /\ reader'[r].pc = reader[r].pc
                             /\ reader'[r].player = reader[r].player
      BY <2>2 DEF StoreEntry, TypeOK, ReaderState
    <3> QED BY <3>1 DEF ReaderInv
  <2> QED BY <1>2, <2>1, <2>2
<1>3. ASSUME NEW w \in Writers,
             \/ \E p \in Players, s \in Scores, x \in Extras, t \in WriteTargets :
                   SubmitScore(w, p, s, x, t)
             \/ WriterStep(w)
             \/ InsertWithoutReply(w)
             \/ WriterFails(w)
      PROVE  WriterInv' /\ ReaderInv'
  <2>1. UNCHANGED reader \/ StoreEntry(writer[w])
    BY <1>3 DEF SubmitScore, WriterStep, UpsertInMemory, SelectOldScore, InsertOrUpdate,
                DecideInvalidate, Invalidate, RankForWriter, SelectOwnForWriter,
                CountForWriter, InsertWithoutReply, WriterFails
  <2> QED BY <1>2, <1>3, <2>1, WriterInvPreserved
<1>4. ASSUME NEW r \in Readers,
             \/ \E p \in Askers, t \in Windows, n \in AskedTopN : AskList(r, p, t, n)
             \/ \E p \in Askers, t \in Windows, num \in PageNums, size \in PageSizes :
                   AskPage(r, p, t, num, size)
             \/ ReaderStep(r)
             \/ ReaderFails(r)
      PROVE  WriterInv' /\ ReaderInv'
  <2>1. UNCHANGED <<writer, rows>>
    BY <1>4 DEF AskList, AskPage, ReaderStep, ReadCache, ReadTopN, PutCache, RankForReader,
                SelectOwnForReader, CountForReader, ReaderFails
  <2> QED BY <1>4, <2>1, WriterInvKept, ReaderInvPreserved
<1>5. CASE Tick \/ UNCHANGED vars
  <2>1. UNCHANGED <<writer, rows, reader>>
    BY <1>5 DEF Tick, vars
  <2>2. ReaderInv'
    BY <2>1 DEF ReaderInv
  <2> QED BY <1>1, <2>1, <2>2, WriterInvKept
<1>6. CASE Restart
  <2>1. WriterInv'
    BY <1>6 DEF Restart, WriterInv, IdleWriters, IdleWriter
  <2>2. ReaderInv'
    BY <1>6 DEF Restart, ReaderInv, IdleReaders, IdleReader
  <2> QED BY <1>1, <2>1, <2>2
<1> QED BY <1>1, <1>3, <1>4, <1>5, <1>6 DEF Next

\* Every variable keeps its type: no interleaving, failure or restart leads the
\* service into a state outside the declared shapes.
THEOREM TypeCorrect == Spec => []TypeOK
<1>1. Init => ShapeInv
  BY InitialShape
<1>2. ShapeInv /\ [Next]_vars => ShapeInv'
  BY ShapePreserved
<1>3. ShapeInv => TypeOK
  BY DEF ShapeInv
<1> QED BY <1>1, <1>2, <1>3, PTL DEF Spec
=============================================================================
