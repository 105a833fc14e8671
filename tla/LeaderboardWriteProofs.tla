----------------------- MODULE LeaderboardWriteProofs -----------------------
(***************************************************************************)
(* Score writes of Leaderboard, for all numbers of players, boards,        *)
(* concurrent requests, failures and restarts and with either store: what  *)
(* a reply says is in the store, the store holds the best submission, and  *)
(* the service implements the promise MaxScores.                           *)
(***************************************************************************)
EXTENDS LeaderboardProofs

-----------------------------------------------------------------------------
(* What a step can do to a write *)

Accepts(w) ==
    /\ writer[w].pc \in Finished
    /\ UNCHANGED <<rows, history>>
    /\ \E p \in Players, s \in Scores, t \in WriteTargets, x \in WriterState :
          /\ x.pc = "upsert" /\ x.i = 1
          /\ x.player = p /\ x.score = s /\ x.targets = t
          /\ writer' = [writer EXCEPT ![w] = x]

Records(w) ==
    /\ writer[w].pc \in {"upsert", "exec"}
    /\ StoreEntry(writer[w])
    /\ \E seen \in Score :
          /\ seen <= rows[BoardOf(writer[w])][writer[w].player].score
          /\ writer' = [writer EXCEPT ![w] = Reported(writer[w], seen)]

\* The next place within the same window.
MovesOn(wr, x) ==
    /\ x \in WriterState
    /\ \/ wr.pc = "upsert" /\ x.pc = "exec"
       \/ wr.pc \in AfterStore \ {"ok"} /\ x.pc \in AfterStore \ {"ok"}
    /\ x.player = wr.player /\ x.score = wr.score /\ x.at = wr.at
    /\ x.targets = wr.targets /\ x.i = wr.i /\ x.best = wr.best

Moves(w) ==
    /\ UNCHANGED <<rows, history>>
    /\ \E x : MovesOn(writer[w], x) /\ writer' = [writer EXCEPT ![w] = x]

EndsWindow(w) ==
    /\ writer[w].pc \in {"rank", "count"}
    /\ UNCHANGED <<rows, history>>
    /\ \E rank \in Nat : writer' = [writer EXCEPT ![w] = WindowDone(writer[w], rank)]

\* With the entry stored, or without.
GivesUp(w) ==
    /\ writer[w].pc \in {"upsert", "exec", "rank", "count"}
    /\ \/ UNCHANGED <<rows, history>>
       \/ writer[w].pc = "exec" /\ StoreEntry(writer[w])
    /\ writer' = [writer EXCEPT ![w] = [IdleWriter EXCEPT !.pc = "failed"]]

Shapes(w) == Accepts(w) \/ Records(w) \/ Moves(w) \/ EndsWindow(w) \/ GivesUp(w)

LEMMA MoveShape ==
    ASSUME NEW wr \in WriterState, NEW pc \in WriterPC, NEW seen \in Score, NEW at \in Times,
           \/ wr.pc = "upsert" /\ pc = "exec"
           \/ wr.pc \in AfterStore \ {"ok"} /\ pc \in AfterStore \ {"ok"}
    PROVE  /\ MovesOn(wr, [wr EXCEPT !.pc = pc])
           /\ MovesOn(wr, [wr EXCEPT !.pc = pc, !.seen = seen])
           /\ MovesOn(wr, [wr EXCEPT !.pc = pc, !.seen = seen, !.seenAt = at])
<1>1. MovesOn(wr, [wr EXCEPT !.pc = pc])
  BY WriterMoves DEF MovesOn, WriterState
<1>2. MovesOn(wr, [wr EXCEPT !.pc = pc, !.seen = seen])
  BY WriterMoves DEF MovesOn, WriterState
<1>3. MovesOn(wr, [wr EXCEPT !.pc = pc, !.seen = seen, !.seenAt = at])
  BY WriterMoves DEF MovesOn, WriterState
<1> QED BY <1>1, <1>2, <1>3

LEMMA WriterShape ==
    ASSUME TypeOK, WriterInv, NEW w \in Writers,
           \/ \E p \in Players, s \in Scores, x \in Extras, t \in WriteTargets :
                 SubmitScore(w, p, s, x, t)
           \/ WriterStep(w)
           \/ InsertWithoutReply(w)
           \/ WriterFails(w)
    PROVE  Shapes(w)
<1> DEFINE wr  == writer[w]
           own == rows[BoardOf(wr)][wr.player]
<1>0. wr \in WriterState
  BY DEF TypeOK
<1>1. ASSUME NEW p \in Players, NEW s \in Scores, NEW x \in Extras,
             NEW t \in WriteTargets, SubmitScore(w, p, s, x, t)
      PROVE  Accepts(w)
  <2> DEFINE y == [IdleWriter EXCEPT !.pc = "upsert", !.player = p, !.score = s,
                                     !.extra = x, !.at = now, !.targets = t]
  <2>1. y \in WriterState
    BY IdleWriterType, InputsAssumption, TargetsAssumption DEF WriterState, WriterPC, TypeOK
  <2>2. y.pc = "upsert" /\ y.i = 1 /\ y.player = p /\ y.score = s /\ y.targets = t
    BY DEF IdleWriter
  <2>3. writer' = [writer EXCEPT ![w] = y]
    BY <1>1 DEF SubmitScore
  <2> HIDE DEF y
  <2> QED BY <1>1, <2>1, <2>2, <2>3, ZenonT(40) DEF SubmitScore, Accepts
<1>2. CASE UpsertInMemory(w)
  <2>1. own.score \in Score
    BY <1>2, WriterAtWork DEF UpsertInMemory, Row
  <2>2. own.score <= own.score
    BY <2>1 DEF Score
  <2>3. writer' = [writer EXCEPT ![w] = Reported(wr, own.score)]
    BY <1>2 DEF UpsertInMemory
  <2> QED BY <1>2, <2>1, <2>2, <2>3 DEF UpsertInMemory, Records, Shapes
<1>3. CASE InsertOrUpdate(w)
  <2>1. wr.seen \in Score /\ wr.seen <= own.score
    BY <1>0, <1>3 DEF InsertOrUpdate, WriterInv, AtWork, WriterState
  <2>2. writer' = [writer EXCEPT ![w] = Reported(wr, wr.seen)]
    BY <1>3 DEF InsertOrUpdate
  <2> QED BY <1>3, <2>1, <2>2 DEF InsertOrUpdate, Records, Shapes
<1>4. CASE SelectOldScore(w)
  <2>1. own.score \in Score /\ 0 \in Times
    BY <1>4, WriterAtWork, BoundsAssumption DEF SelectOldScore, Row, Times
  <2> DEFINE x == [wr EXCEPT !.pc = "exec", !.seen = own.score]
  <2>2. MovesOn(wr, x)
    BY <1>0, <1>4, <2>1, MoveShape DEF SelectOldScore, WriterPC
  <2>3. writer' = [writer EXCEPT ![w] = x] /\ UNCHANGED <<rows, history>>
    BY <1>4 DEF SelectOldScore
  <2> HIDE DEF x
  <2> QED BY <2>2, <2>3 DEF Moves, Shapes
<1>5. ASSUME NEW pc \in {"invalidate", "rank"}, wr.pc \in {"get", "invalidate"},
             writer' = [writer EXCEPT ![w].pc = pc], UNCHANGED <<rows, history>>
      PROVE  Shapes(w)
  <2>1. 0 \in Times /\ -1 \in Score
    BY BoundsAssumption DEF Times, Score
  <2>2. MovesOn(wr, [wr EXCEPT !.pc = pc])
    BY <1>0, <1>5, <2>1, MoveShape DEF AfterStore, WriterPC
  <2> QED BY <1>5, <2>2 DEF Moves, Shapes
<1>6. CASE DecideInvalidate(w)
  BY <1>5, <1>6 DEF DecideInvalidate
<1>7. CASE Invalidate(w)
  BY <1>5, <1>7 DEF Invalidate
<1>8. CASE RankForWriter(w)
  <2>1. RankOf(rows[BoardOf(wr)], wr.player) \in Nat
    BY <1>8, WriterAtWork, RankType DEF RankForWriter
  <2> QED BY <1>8, <2>1 DEF RankForWriter, EndsWindow, Shapes
<1>9. CASE SelectOwnForWriter(w)
  <2>1. CASE own.score < 0
    BY <1>9, <2>1 DEF SelectOwnForWriter, EndsWindow, Shapes
  <2>2. CASE ~(own.score < 0)
    <3> DEFINE x == [wr EXCEPT !.pc = "count", !.seen = own.score, !.seenAt = own.at]
    <3>1. own \in Row
      BY <1>9, WriterAtWork DEF SelectOwnForWriter
    <3>2. MovesOn(wr, x)
      BY <1>0, <1>9, <3>1, MoveShape DEF SelectOwnForWriter, Row, AfterStore, WriterPC
    <3>3. writer' = [writer EXCEPT ![w] = x] /\ UNCHANGED <<rows, history>>
      BY <1>9, <2>2 DEF SelectOwnForWriter
    <3> HIDE DEF x
    <3> QED BY <3>2, <3>3 DEF Moves, Shapes
  <2> QED BY <2>1, <2>2
<1>10. CASE CountForWriter(w)
  <2> DEFINE rank == 1 + Cardinality(Ahead(rows[BoardOf(wr)],
                                           [score |-> wr.seen, at |-> wr.seenAt]))
  <2>1. rank \in Nat
    <3>1. Cardinality(Ahead(rows[BoardOf(wr)],
                            [score |-> wr.seen, at |-> wr.seenAt])) \in Nat
      BY <1>10, WriterAtWork, RankType DEF CountForWriter
    <3> QED BY <3>1
  <2>2. /\ writer' = [writer EXCEPT ![w] = WindowDone(wr, rank)]
        /\ wr.pc = "count" /\ UNCHANGED <<rows, history>>
    BY <1>10 DEF CountForWriter
  <2> HIDE DEF rank
  <2> QED BY <2>1, <2>2 DEF EndsWindow, Shapes
<1>11. CASE InsertWithoutReply(w) \/ WriterFails(w)
  BY <1>11 DEF InsertWithoutReply, WriterFails, GivesUp, Shapes
<1> QED BY <1>1, <1>2, <1>3, <1>4, <1>6, <1>7, <1>8, <1>9, <1>10, <1>11
        DEF WriterStep, Shapes

\* Every step of the service, seen from the writes.
LEMMA StepShape ==
    ASSUME ShapeInv, [Next]_vars
    PROVE  \/ \E w \in Writers : Shapes(w)
           \/ UNCHANGED <<writer, rows, history>>
           \/ Restart
<1>1. ASSUME NEW r \in Readers,
             \/ \E p \in Askers, t \in Windows, n \in AskedTopN : AskList(r, p, t, n)
             \/ \E p \in Askers, t \in Windows, num \in PageNums, size \in PageSizes :
                   AskPage(r, p, t, num, size)
             \/ ReaderStep(r)
             \/ ReaderFails(r)
      PROVE  UNCHANGED <<writer, rows, history>>
  BY <1>1 DEF AskList, AskPage, ReaderStep, ReadCache, ReadTopN, PutCache, RankForReader,
              SelectOwnForReader, CountForReader, ReaderFails
<1>2. CASE Tick \/ UNCHANGED vars
  BY <1>2 DEF Tick, vars
<1> QED BY <1>1, <1>2, WriterShape DEF ShapeInv, Next

-----------------------------------------------------------------------------
(* What a reply says is in the store *)

\* A write keeps the better of the two scores: nothing else.
LEMMA MergeScore ==
    ASSUME NEW old \in Row, NEW e \in Row, e.score >= 0
    PROVE  Merge(old, e).score = Larger(old.score, e.score)
BY DEF Merge, MemoryMerge, SqlMerge, Larger, Row, Score

\* Reported says what it was told, and leaves the request as it is.
LEMMA ReportedFields ==
    ASSUME NEW wr \in WriterState, NEW seen \in Score
    PROVE  LET x == Reported(wr, seen)
           IN  /\ x.pc = "get" /\ x.best = Larger(seen, wr.score)
               /\ x.player = wr.player /\ x.score = wr.score /\ x.at = wr.at
               /\ x.targets = wr.targets /\ x.i = wr.i
               /\ BoardOf(x) = BoardOf(wr)
BY DEF Reported, Best, EntryOf, BoardOf, Larger, WriterState

LEMMA WindowDoneFields ==
    ASSUME NEW wr \in WriterState, NEW rank
    PROVE  LET x == WindowDone(wr, rank)
           IN  /\ x.player = wr.player /\ x.score = wr.score /\ x.at = wr.at
               /\ x.targets = wr.targets
               /\ \/ wr.i < Len(wr.targets) /\ x.pc = "upsert" /\ x.i = wr.i + 1
                  \/ ~(wr.i < Len(wr.targets)) /\ x.pc = "ok" /\ x.i = wr.i /\ x.best = wr.best
BY DEF WindowDone, WriterState

\* What one request has been promised by the store table.
Kept(wr, table) ==
    /\ wr.pc \notin {"idle", "failed"} =>
          \A k \in Stored(wr) : table[BoardAt[wr.targets[k]][wr.at]][wr.player].score >= wr.score
    /\ wr.pc \in AfterStore => /\ wr.score <= wr.best
                               /\ wr.best <= table[BoardOf(wr)][wr.player].score

WritesKept == \A w \in Writers : Kept(writer[w], rows)

LEMMA KeptMeans == WritesKept <=> StoredBeforeReply /\ ReportedBestIsReal
BY DEF WritesKept, Kept, StoredBeforeReply, ReportedBestIsReal

\* The boards of a write in progress, and the scores on them.
LEMMA BoardsOfWrite ==
    ASSUME NEW wr \in WriterState, NEW table \in [Boards -> [Players -> Row]], AtWork(wr, table)
    PROVE  \A k \in 1..Len(wr.targets) :
               LET b == BoardAt[wr.targets[k]][wr.at]
               IN  b \in Boards /\ table[b][wr.player].score \in Int
<1> TAKE k \in 1..Len(wr.targets)
<1>1. wr.targets[k] \in Windows
  BY TargetsAssumption DEF AtWork
<1>2. BoardAt[wr.targets[k]][wr.at] \in Boards
  BY <1>1, BoardsAssumption DEF WriterState
<1> QED BY <1>2 DEF AtWork, Row, Score

\* No other write takes a promise back: scores only rise.
LEMMA KeptRises ==
    ASSUME TypeOK, WriterInv, NEW v \in Writers, Kept(writer[v], rows),
           NEW table \in [Boards -> [Players -> Row]],
           \A b \in Boards, p \in Players : table[b][p].score >= rows[b][p].score
    PROVE  Kept(writer[v], table)
<1> DEFINE wr == writer[v]
<1>1. SUFFICES ASSUME wr.pc \notin {"idle", "failed"}
               PROVE  Kept(wr, table)
  BY DEF Kept, AfterStore
<1>2. /\ AtWork(wr, rows) /\ AtWork(wr, table)
      /\ wr \in WriterState /\ rows \in [Boards -> [Players -> Row]]
      /\ wr.player \in Players /\ wr.score \in Int
  <2>1. AtWork(wr, rows) /\ AtWork(wr, table)
    BY <1>1, StaysAtWork DEF WriterInv
  <2>2. wr \in WriterState /\ wr.player \in Players
    BY <1>1, WriterAtWork
  <2>3. rows \in [Boards -> [Players -> Row]]
    BY DEF TypeOK
  <2>4. wr.score \in Int
    BY <2>2 DEF WriterState
  <2> QED BY <2>1, <2>2, <2>3, <2>4
<1> DEFINE at(k) == BoardAt[wr.targets[k]][wr.at]
<1>3. ASSUME NEW k \in 1..Len(wr.targets)
      PROVE  /\ rows[at(k)][wr.player].score \in Int
             /\ table[at(k)][wr.player].score \in Int
             /\ table[at(k)][wr.player].score >= rows[at(k)][wr.player].score
  BY <1>2, BoardsOfWrite
<1>4. ASSUME NEW k \in Stored(wr)
      PROVE  table[at(k)][wr.player].score >= wr.score
  <2>1. k \in 1..Len(wr.targets)
    BY DEF Stored
  <2>2. rows[at(k)][wr.player].score >= wr.score
    BY <1>1 DEF Kept
  <2> HIDE DEF at, wr
  <2> QED BY <1>2, <1>3, <2>1, <2>2
<1>5. ASSUME wr.pc \in AfterStore
      PROVE  wr.score <= wr.best /\ wr.best <= table[BoardOf(wr)][wr.player].score
  <2>1. wr.score <= wr.best /\ wr.best <= rows[at(wr.i)][wr.player].score /\ BoardOf(wr) = at(wr.i)
    BY <1>5 DEF Kept, BoardOf
  <2>2. wr.i \in 1..Len(wr.targets) /\ wr.best \in Int
    BY <1>2 DEF AtWork, WriterState, Score
  <2> HIDE DEF at, wr
  <2> QED BY <1>3, <2>1, <2>2
<1> QED BY <1>4, <1>5 DEF Kept

\* A write that has just stored its entry may say so.
LEMMA KeptByRecord ==
    ASSUME ShapeInv, WritesKept, NEW w \in Writers, Records(w)
    PROVE  Kept(writer'[w], rows')
<1> DEFINE wr == writer[w]
           b == BoardOf(wr)
           p == wr.player
           e == EntryOf(wr)
<1>1. /\ wr \in WriterState /\ b \in Boards /\ p \in Players
      /\ e \in Row /\ rows[b][p] \in Row /\ AtWork(wr, rows)
  BY WriterAtWork DEF ShapeInv, Records, WriterInv
<1>2. PICK seen \in Score : /\ seen <= rows[b][p].score
                            /\ writer' = [writer EXCEPT ![w] = Reported(wr, seen)]
  BY DEF Records
<1> DEFINE x == Reported(wr, seen)
<1>3. /\ x.pc = "get" /\ x.best = Larger(seen, wr.score)
      /\ x.player = p /\ x.score = wr.score /\ x.at = wr.at
      /\ x.targets = wr.targets /\ x.i = wr.i /\ BoardOf(x) = b
  BY <1>1, <1>2, ReportedFields
<1>4. writer'[w] = x
  BY <1>2 DEF ShapeInv, TypeOK
<1>5. rows'[b][p].score = Larger(rows[b][p].score, wr.score)
  <2>1. rows'[b][p] = Merge(rows[b][p], e)
    BY <1>1 DEF Records, StoreEntry, ShapeInv, TypeOK
  <2>2. e.score = wr.score /\ e.score >= 0
    BY <1>1 DEF EntryOf, WriterState
  <2> QED BY <1>1, <2>1, <2>2, MergeScore
<1>6. rows[b][p].score \in Int /\ wr.score \in Int /\ seen \in Int
  BY <1>1, <1>2 DEF Row, Score, WriterState
<1>7. /\ wr.score <= x.best /\ x.best <= rows'[b][p].score
      /\ wr.score <= rows'[b][p].score
  BY <1>2, <1>3, <1>5, <1>6 DEF Larger
<1>8. Kept(wr, rows')
  <2>1. wr.pc \notin {"idle", "failed"} /\ StoreEntry(wr)
    BY DEF Records
  <2> QED BY <2>1, StoreEffect, KeptRises DEF ShapeInv, WritesKept
<1>9. ASSUME NEW k \in Stored(x)
      PROVE  rows'[BoardAt[x.targets[k]][x.at]][p].score >= wr.score
  <2>1. CASE k \in Stored(wr)
    BY <1>3, <1>8, <2>1 DEF Kept, Records
  <2>2. CASE k \notin Stored(wr)
    <3>1. k = wr.i
      BY <1>3, <2>2 DEF Stored
    <3>2. BoardAt[x.targets[k]][x.at] = b
      BY <1>3, <3>1 DEF BoardOf
    <3>3. rows'[b][p].score \in Int
      BY <1>5, <1>6 DEF Larger
    <3> QED BY <1>6, <1>7, <3>2, <3>3
  <2> QED BY <2>1, <2>2
<1> HIDE DEF x, wr, b, p, e
<1> QED BY <1>3, <1>4, <1>7, <1>9 DEF Kept

LEMMA KeptByMove ==
    ASSUME ShapeInv, WritesKept, NEW w \in Writers, Moves(w)
    PROVE  Kept(writer'[w], rows')
<1>1. PICK x : MovesOn(writer[w], x) /\ writer' = [writer EXCEPT ![w] = x]
  BY DEF Moves
<1>2. writer'[w] = x /\ UNCHANGED rows
  BY <1>1 DEF Moves, ShapeInv, TypeOK
<1>3. Stored(x) = Stored(writer[w]) /\ BoardOf(x) = BoardOf(writer[w])
  BY <1>1 DEF MovesOn, Stored, BoardOf, AfterStore
<1>4. Kept(writer[w], rows)
  BY DEF WritesKept
<1>5. /\ x.pc \in AfterStore => writer[w].pc \in AfterStore
      /\ writer[w].pc \notin {"idle", "failed"}
  BY <1>1 DEF MovesOn, AfterStore
<1>6. Kept(x, rows)
  BY <1>1, <1>3, <1>4, <1>5 DEF Kept, MovesOn
<1> QED BY <1>2, <1>6

LEMMA KeptByWindow ==
    ASSUME ShapeInv, WritesKept, NEW w \in Writers, EndsWindow(w)
    PROVE  Kept(writer'[w], rows')
<1> DEFINE wr == writer[w]
<1>1. PICK rank \in Nat : writer' = [writer EXCEPT ![w] = WindowDone(wr, rank)]
  BY DEF EndsWindow
<1> DEFINE x == WindowDone(wr, rank)
<1>2. /\ wr \in WriterState /\ wr.pc \in AfterStore
      /\ wr.pc \notin {"idle", "failed"} /\ wr.i \in Nat /\ Len(wr.targets) \in Nat
  BY DEF EndsWindow, ShapeInv, TypeOK, WriterState, AfterStore
<1>3. /\ x.player = wr.player /\ x.score = wr.score /\ x.at = wr.at
      /\ x.targets = wr.targets
      /\ \/ wr.i < Len(wr.targets) /\ x.pc = "upsert" /\ x.i = wr.i + 1
         \/ ~(wr.i < Len(wr.targets)) /\ x.pc = "ok" /\ x.i = wr.i /\ x.best = wr.best
  BY <1>2, WindowDoneFields
<1>4. writer'[w] = x /\ UNCHANGED rows
  BY <1>1 DEF EndsWindow, ShapeInv, TypeOK
<1>5. Kept(wr, rows)
  BY DEF WritesKept
<1> HIDE DEF x, wr
<1>6. Stored(x) = Stored(wr)
  BY <1>2, <1>3 DEF Stored, AfterStore
<1>7. x.pc \in AfterStore => x.best = wr.best /\ BoardOf(x) = BoardOf(wr)
  BY <1>3 DEF AfterStore, BoardOf
<1>8. Kept(x, rows)
  BY <1>2, <1>3, <1>5, <1>6, <1>7 DEF Kept
<1> QED BY <1>4, <1>8

LEMMA WritesKeptInit == Init => WritesKept
BY DEF Init, WritesKept, Kept, IdleWriters, IdleWriter, AfterStore

LEMMA WritesKeptStep ==
    ASSUME ShapeInv, WritesKept, [Next]_vars
    PROVE  WritesKept'
<1>1. CASE Restart
  BY <1>1 DEF Restart, WritesKept, Kept, IdleWriters, IdleWriter, AfterStore
<1>2. CASE UNCHANGED <<writer, rows, history>>
  BY <1>2 DEF WritesKept, Kept, BoardOf, Stored
<1>3. ASSUME NEW w \in Writers, Shapes(w)
      PROVE  WritesKept'
  <2>1. /\ rows' \in [Boards -> [Players -> Row]]
        /\ \A b \in Boards, p \in Players : rows'[b][p].score >= rows[b][p].score
    <3>1. CASE UNCHANGED rows
      BY <3>1, ScoresStay DEF ShapeInv
    <3>2. CASE StoreEntry(writer[w]) /\ writer[w].pc \in {"upsert", "exec"}
      BY <3>2, StoreEffect DEF ShapeInv
    <3> QED BY <1>3, <3>1, <3>2 DEF Shapes, Accepts, Records, Moves, EndsWindow, GivesUp
  <2>2. \A v \in Writers \ {w} : writer'[v] = writer[v]
    BY <1>3 DEF Shapes, Accepts, Records, Moves, EndsWindow, GivesUp, ShapeInv, TypeOK
  <2>3. \A v \in Writers \ {w} : Kept(writer'[v], rows')
    BY <2>1, <2>2, KeptRises DEF ShapeInv, WritesKept
  <2>4. Kept(writer'[w], rows')
    <3>1. CASE Accepts(w)
      <4>1. writer'[w].pc = "upsert" /\ writer'[w].i = 1
        BY <3>1 DEF Accepts, ShapeInv, TypeOK
      <4>2. Stored(writer'[w]) = {}
        BY <4>1 DEF Stored, AfterStore
      <4> QED BY <4>1, <4>2 DEF Kept, AfterStore
    <3>2. CASE GivesUp(w)
      <4>1. writer'[w].pc = "failed"
        BY <3>2 DEF GivesUp, IdleWriter, ShapeInv, TypeOK
      <4> QED BY <4>1 DEF Kept, AfterStore
    <3> QED BY <1>3, <3>1, <3>2, KeptByRecord, KeptByMove, KeptByWindow DEF Shapes
  <2> QED BY <2>3, <2>4 DEF WritesKept
<1> QED BY <1>1, <1>2, <1>3, StepShape

LEMMA WritesAlwaysKept == Spec => [](ShapeInv /\ WritesKept)
<1>1. Init => ShapeInv /\ WritesKept
  BY InitialShape, WritesKeptInit
<1>2. ShapeInv /\ WritesKept /\ [Next]_vars => ShapeInv' /\ WritesKept'
  BY ShapePreserved, WritesKeptStep
<1> QED BY <1>1, <1>2, PTL DEF Spec

\* A write that goes on to its next window, or is answered with success, has
\* left its score on the boards of all windows before (service.go
\* UpsertMaxScore): no other write and no failure takes it away again.
THEOREM StoredBeforeEveryReply == Spec => []StoredBeforeReply
<1>1. ShapeInv /\ WritesKept => StoredBeforeReply
  BY KeptMeans
<1> QED BY <1>1, WritesAlwaysKept, PTL

\* best_score in a reply is at least the score submitted and at most the stored
\* one, although over MySQL it is computed from an older SELECT (mysql.go
\* UpsertMax).
THEOREM ReportedBestIsAlwaysReal == Spec => []ReportedBestIsReal
<1>1. ShapeInv /\ WritesKept => ReportedBestIsReal
  BY KeptMeans
<1> QED BY <1>1, WritesAlwaysKept, PTL

-----------------------------------------------------------------------------
(* The store holds the best submission *)

\* What a row has to do with the pairs h stored in its place.
RowHeld(row, h) ==
    /\ \A x \in h : x[1] <= row.score
    /\ row.score >= 0 => \E x \in h : x[1] = row.score
    /\ Backend = "memory" /\ row.score >= 0 => <<row.score, row.at>> \in h

RowsHeld == \A b \in Boards, p \in Players : RowHeld(rows[b][p], history[b][p])

\* Only the memory store keeps time and score together (compare SqlMerge).
LEMMA RowsHeldMeans ==
    /\ RowsHeld => ScoreIsBestSubmission
    /\ RowsHeld /\ Backend = "memory" => RowIsASubmission
BY DEF RowsHeld, RowHeld, ScoreIsBestSubmission, RowIsASubmission

LEMMA MergeHeld ==
    ASSUME NEW old \in Row, NEW e \in Row, e.score >= 0,
           NEW h \in SUBSET (Nat \X Times), RowHeld(old, h)
    PROVE  RowHeld(Merge(old, e), h \union {<<e.score, e.at>>})
<1> DEFINE new == Merge(old, e)
           g   == h \union {<<e.score, e.at>>}
<1>1. new.score = Larger(old.score, e.score) /\ new \in Row
  BY MergeScore, MergeType
<1>2. old.score \in Int /\ e.score \in Int
  BY DEF Row, Score
<1>3. \A x \in g : x[1] <= new.score
  <2> TAKE x \in g
  <2>1. CASE x \in h
    <3>1. x[1] \in Int /\ x[1] <= old.score
      BY <2>1 DEF RowHeld
    <3> QED BY <1>1, <1>2, <3>1 DEF Larger
  <2>2. CASE x = <<e.score, e.at>>
    BY <1>1, <1>2, <2>2 DEF Larger
  <2> QED BY <2>1, <2>2
<1>4. new.score >= 0 => \E x \in g : x[1] = new.score
  <2>1. CASE old.score < e.score
    <3>1. new.score = e.score
      BY <1>1, <2>1 DEF Larger
    <3>2. <<e.score, e.at>> \in g /\ <<e.score, e.at>>[1] = e.score
      OBVIOUS
    <3> QED BY <3>1, <3>2
  <2>2. CASE ~(old.score < e.score)
    <3>1. new.score = old.score
      BY <1>1, <2>2 DEF Larger
    <3> QED BY <3>1 DEF RowHeld
  <2> QED BY <2>1, <2>2
<1>5. ASSUME Backend = "memory", new.score >= 0
      PROVE  <<new.score, new.at>> \in g
  <2>1. CASE old.score < e.score
    BY <1>5, <2>1 DEF Merge, MemoryMerge
  <2>2. CASE ~(old.score < e.score)
    <3>1. new.score = old.score /\ new.at = old.at
      BY <1>5, <2>2 DEF Merge, MemoryMerge, Row
    <3> QED BY <1>5, <3>1 DEF RowHeld
  <2> QED BY <2>1, <2>2
<1> HIDE DEF new, g
<1>6. RowHeld(new, g)
  BY <1>3, <1>4, <1>5 DEF RowHeld
<1> QED BY <1>6 DEF new, g

LEMMA EmptyHeld ==
    ASSUME rows' = EmptyRows, history' = NoHistory
    PROVE  RowsHeld'
BY DEF RowsHeld, RowHeld, EmptyRows, NoHistory, NoRow

LEMMA RowsHeldInit == Init => RowsHeld
BY DEF Init, RowsHeld, RowHeld, EmptyRows, NoHistory, NoRow

LEMMA RowsHeldStep ==
    ASSUME ShapeInv, RowsHeld, [Next]_vars
    PROVE  RowsHeld'
<1>1. CASE UNCHANGED <<rows, history>>
  BY <1>1 DEF RowsHeld
<1>2. CASE Restart
  <2>1. CASE Backend = "memory"
    BY <1>2, <2>1, EmptyHeld DEF Restart
  <2>2. CASE Backend # "memory"
    BY <1>1, <1>2, <2>2 DEF Restart
  <2> QED BY <2>1, <2>2
<1>3. ASSUME NEW w \in Writers, StoreEntry(writer[w]), writer[w].pc \in {"upsert", "exec"}
      PROVE  RowsHeld'
  <2> DEFINE wr == writer[w]
             b  == BoardOf(wr)
             p  == wr.player
             e  == EntryOf(wr)
  <2>1. /\ wr \in WriterState /\ b \in Boards /\ p \in Players
        /\ e \in Row /\ rows[b][p] \in Row
    BY <1>3, WriterAtWork DEF ShapeInv
  <2>2. /\ e.score >= 0 /\ e.score = wr.score /\ e.at = wr.at
        /\ history[b][p] \in SUBSET (Nat \X Times)
        /\ rows \in [Boards -> [Players -> Row]]
        /\ history \in [Boards -> [Players -> SUBSET (Nat \X Times)]]
    BY <2>1 DEF EntryOf, WriterState, ShapeInv, TypeOK
  <2>3. RowHeld(rows[b][p], history[b][p])
    BY <2>1 DEF RowsHeld
  <2>4. RowHeld(Merge(rows[b][p], e), history[b][p] \union {<<e.score, e.at>>})
    BY <2>1, <2>2, <2>3, MergeHeld
  <2>5. /\ rows' = [rows EXCEPT ![b][p] = Merge(rows[b][p], e)]
        /\ history' = [history EXCEPT ![b][p] = history[b][p] \union {<<e.score, e.at>>}]
    BY <1>3, <2>2 DEF StoreEntry
  <2> HIDE DEF wr, b, p, e
  <2>6. ASSUME NEW c \in Boards, NEW q \in Players
        PROVE  RowHeld(rows'[c][q], history'[c][q])
    <3>1. CASE c = b /\ q = p
      BY <2>1, <2>2, <2>4, <2>5, <3>1
    <3>2. CASE ~(c = b /\ q = p)
      <4>1. rows'[c][q] = rows[c][q] /\ history'[c][q] = history[c][q]
        BY <2>1, <2>2, <2>5, <3>2
      <4> QED BY <4>1 DEF RowsHeld
    <3> QED BY <3>1, <3>2
  <2> QED BY <2>6 DEF RowsHeld
<1>4. ASSUME NEW w \in Writers, Shapes(w)
      PROVE  RowsHeld'
  BY <1>1, <1>3, <1>4 DEF Shapes, Accepts, Records, Moves, EndsWindow, GivesUp
<1> QED BY <1>1, <1>2, <1>4, StepShape

LEMMA RowsAlwaysHeld == Spec => [](ShapeInv /\ RowsHeld)
<1>1. Init => ShapeInv /\ RowsHeld
  BY InitialShape, RowsHeldInit
<1>2. ShapeInv /\ RowsHeld /\ [Next]_vars => ShapeInv' /\ RowsHeld'
  BY ShapePreserved, RowsHeldStep
<1> QED BY <1>1, <1>2, PTL DEF Spec

\* The stored score is the best of all that have reached the store, and one of
\* them: no two overlapping writes lose the better one (UpsertMax, both stores).
THEOREM ScoreIsAlwaysBest == Spec => []ScoreIsBestSubmission
<1>1. ShapeInv /\ RowsHeld => ScoreIsBestSubmission
  BY RowsHeldMeans
<1> QED BY <1>1, RowsAlwaysHeld, PTL

\* With the memory store the time of a row is the time of a submission of its
\* score (memory.go UpsertMax); over MySQL it is not.
THEOREM MemoryRowsAreSubmissions == Spec => [](Backend = "memory" => RowIsASubmission)
<1>1. ShapeInv /\ RowsHeld => (Backend = "memory" => RowIsASubmission)
  BY RowsHeldMeans
<1> QED BY <1>1, RowsAlwaysHeld, PTL

-----------------------------------------------------------------------------
(* Over MySQL a payload stays *)

\* A row that is not there has no payload.
AbsentAreBare ==
    \A b \in Boards, p \in Players : rows[b][p].score < 0 => rows[b][p].extra = NoExtra

\* A write leaves a row behind, and the payload of an older one.
LEMMA MergeKeepsPayload ==
    ASSUME Backend = "mysql", NEW old \in Row, NEW e \in Row, e.score >= 0,
           old.score < 0 => old.extra = NoExtra
    PROVE  /\ ~(Merge(old, e).score < 0)
           /\ old.extra # NoExtra => Merge(old, e).extra # NoExtra
<1>1. Merge(old, e).score = Larger(old.score, e.score)
  BY MergeScore
<1>2. old.score \in Int /\ e.score \in Int
  BY DEF Row, Score
<1>3. ~(Merge(old, e).score < 0)
  BY <1>1, <1>2 DEF Larger
<1>4. Merge(old, e) = SqlMerge(old, e)
  BY DEF Merge
<1>5. CASE old.score < 0
  BY <1>3, <1>5
<1>6. CASE ~(old.score < 0)
  <2>1. Merge(old, e).extra = IF e.extra # NoExtra THEN e.extra ELSE old.extra
    BY <1>4, <1>6 DEF SqlMerge
  <2> QED BY <1>3, <2>1
<1> QED BY <1>5, <1>6

LEMMA PayloadStep ==
    ASSUME Backend = "mysql", ShapeInv, AbsentAreBare, [Next]_vars
    PROVE  /\ AbsentAreBare'
           /\ \A b \in Boards, p \in Players :
                 rows[b][p].extra # NoExtra => rows'[b][p].extra # NoExtra
<1>1. CASE UNCHANGED rows
  BY <1>1 DEF AbsentAreBare
<1>2. ASSUME NEW w \in Writers, StoreEntry(writer[w]), writer[w].pc \in {"upsert", "exec"}
      PROVE  /\ AbsentAreBare'
             /\ \A b \in Boards, p \in Players :
                   rows[b][p].extra # NoExtra => rows'[b][p].extra # NoExtra
  <2> DEFINE wr  == writer[w]
             b   == BoardOf(wr)
             p   == wr.player
             e   == EntryOf(wr)
             new == Merge(rows[b][p], e)
  <2>1. /\ wr \in WriterState /\ b \in Boards /\ p \in Players
        /\ e \in Row /\ rows[b][p] \in Row
        /\ rows \in [Boards -> [Players -> Row]]
    BY <1>2, WriterAtWork DEF ShapeInv, TypeOK
  <2>2. e.score >= 0
    BY <2>1 DEF EntryOf, WriterState
  <2>3. rows' = [rows EXCEPT ![b][p] = new]
    BY <1>2 DEF StoreEntry
  <2>4. /\ ~(new.score < 0)
        /\ rows[b][p].extra # NoExtra => new.extra # NoExtra
    BY <2>1, <2>2, MergeKeepsPayload DEF AbsentAreBare
  <2> HIDE DEF wr, b, p, e, new
  <2>5. \A c \in Boards, q \in Players :
          rows'[c][q] = IF c = b /\ q = p THEN new ELSE rows[c][q]
    BY <2>1, <2>3
  <2> QED BY <2>4, <2>5 DEF AbsentAreBare
<1>3. CASE Restart
  BY <1>1, <1>3 DEF Restart
<1>4. ASSUME NEW w \in Writers, Shapes(w)
      PROVE  UNCHANGED rows \/ (StoreEntry(writer[w]) /\ writer[w].pc \in {"upsert", "exec"})
  BY <1>4 DEF Shapes, Accepts, Records, Moves, EndsWindow, GivesUp
<1> QED BY <1>1, <1>2, <1>3, <1>4, StepShape

\* Over MySQL no write takes the nickname and avatar of a row away, whatever
\* its score, and neither does a restart (mysql.go UpsertMax).
THEOREM PayloadIsNeverWiped == Backend = "mysql" => (Spec => ExtraNeverWiped)
<1> SUFFICES ASSUME Backend = "mysql" PROVE Spec => ExtraNeverWiped
  OBVIOUS
<1>1. Init => AbsentAreBare
  BY DEF Init, EmptyRows, NoRow, AbsentAreBare
<1>2. ShapeInv /\ AbsentAreBare /\ [Next]_vars => AbsentAreBare'
  BY PayloadStep
<1>3. ShapeInv /\ AbsentAreBare /\ [Next]_vars =>
          [\A b \in Boards, p \in Players :
              rows[b][p].extra # NoExtra => rows'[b][p].extra # NoExtra]_rows
  BY PayloadStep
<1> QED BY <1>1, <1>2, <1>3, InitialShape, ShapePreserved, PTL DEF Spec, ExtraNeverWiped

-----------------------------------------------------------------------------
(* Over MySQL a time stays *)

LEMMA SqlTimeStays ==
    ASSUME Backend = "mysql", NEW old \in Row, NEW e \in Row, old.score >= 0
    PROVE  Merge(old, e).at = old.at
<1> DEFINE score == IF e.score > old.score THEN e.score ELSE old.score
<1>1. old.score \in Int /\ e.score \in Int
  BY DEF Row, Score
<1>2. ~(e.score > score) /\ ~(old.score < 0)
  BY <1>1
<1> HIDE DEF score
<1>3. Merge(old, e).at = IF e.score > score THEN e.at ELSE old.at
  BY <1>2 DEF Merge, SqlMerge, score
<1> QED BY <1>2, <1>3

\* Over MySQL a row keeps the time of the write that made it: no better score
\* moves it, so players with equal scores stand in the order of their first
\* writes and not of these scores (mysql.go:57-58).
THEOREM SqlTimesNeverMove ==
    Backend = "mysql" =>
        (Spec => [][\A b \in Boards, p \in Players :
                       rows[b][p].score >= 0 => rows'[b][p].at = rows[b][p].at]_rows)
<1> DEFINE Stays == \A b \in Boards, p \in Players :
                       rows[b][p].score >= 0 => rows'[b][p].at = rows[b][p].at
<1> SUFFICES ASSUME Backend = "mysql" PROVE Spec => [][Stays]_rows
  OBVIOUS
<1>1. ASSUME ShapeInv, NEW w \in Writers, StoreEntry(writer[w]),
             writer[w].pc \in {"upsert", "exec"}
      PROVE  Stays
  <2> DEFINE wr  == writer[w]
             b   == BoardOf(wr)
             p   == wr.player
             new == Merge(rows[b][p], EntryOf(wr))
  <2>1. /\ b \in Boards /\ p \in Players /\ EntryOf(wr) \in Row /\ rows[b][p] \in Row
        /\ rows \in [Boards -> [Players -> Row]]
    BY <1>1, WriterAtWork DEF ShapeInv, TypeOK
  <2>2. rows' = [rows EXCEPT ![b][p] = new]
    BY <1>1 DEF StoreEntry
  <2>3. rows[b][p].score >= 0 => new.at = rows[b][p].at
    BY <2>1, SqlTimeStays
  <2> HIDE DEF wr, b, p, new
  <2>4. \A c \in Boards, q \in Players :
          rows'[c][q] = IF c = b /\ q = p THEN new ELSE rows[c][q]
    BY <2>1, <2>2
  <2> QED BY <2>3, <2>4
<1>2. ASSUME ShapeInv, [Next]_vars
      PROVE  [Stays]_rows
  <2>1. CASE Restart
    BY <2>1 DEF Restart
  <2>2. ASSUME NEW w \in Writers, Shapes(w)
        PROVE  UNCHANGED rows \/ (StoreEntry(writer[w]) /\ writer[w].pc \in {"upsert", "exec"})
    BY <2>2 DEF Shapes, Accepts, Records, Moves, EndsWindow, GivesUp
  <2> QED BY <1>1, <1>2, <2>1, <2>2, StepShape
<1> QED BY <1>2, InitialShape, ShapePreserved, PTL DEF Spec

-----------------------------------------------------------------------------
(* The service implements MaxScores *)

BestScores == [b \in Boards |-> [p \in Players |-> rows[b][p].score]]
JobsOf == [w \in Writers |-> JobOf(writer[w])]

\* The windows a write has still to store.
Open(wr) == (1..Len(wr.targets)) \ Stored(wr)

LEMMA JobFields ==
    ASSUME NEW wr
    PROVE  /\ wr.pc \in Finished => JobOf(wr) = [Promise!NoJob EXCEPT !.st = wr.pc]
           /\ wr.pc \notin Finished =>
                 JobOf(wr) = [st |-> "busy", player |-> wr.player,
                              score |-> wr.score, left |-> LeftBoards(wr)]
BY DEF JobOf, Promise!NoJob

\* Different windows of a write have different boards.
LEMMA WindowsApart ==
    ASSUME NEW wr \in WriterState, wr.targets \in WriteTargets,
           NEW k \in 1..Len(wr.targets), NEW m \in 1..Len(wr.targets),
           BoardAt[wr.targets[k]][wr.at] = BoardAt[wr.targets[m]][wr.at]
    PROVE  k = m
<1>1. wr.targets[k] \in Windows /\ wr.targets[m] \in Windows /\ wr.at \in Times
  BY TargetsAssumption DEF WriterState
<1>2. wr.targets[k] = wr.targets[m]
  BY <1>1, BoardsAssumption
<1> QED BY <1>2, TargetsAssumption

\* Storing the entry of a window takes its board, and no other, off the list.
LEMMA RecordLeaves ==
    ASSUME NEW wr \in WriterState, AtWork(wr, rows), wr.pc \in {"upsert", "exec"},
           NEW x, x.pc = "get", x.i = wr.i, x.targets = wr.targets, x.at = wr.at
    PROVE  /\ BoardOf(wr) \in LeftBoards(wr)
           /\ LeftBoards(x) = LeftBoards(wr) \ {BoardOf(wr)}
<1> DEFINE at(k) == BoardAt[wr.targets[k]][wr.at]
           all == 1..Len(wr.targets)
<1>1. wr.i \in all /\ wr.targets \in WriteTargets /\ wr.i \in Nat
  BY DEF AtWork, WriterState
<1>2. Open(wr) = {k \in all : k >= wr.i} /\ Open(x) = {k \in all : k > wr.i}
  BY <1>1 DEF Open, Stored, AfterStore
<1>3. LeftBoards(wr) = {at(k) : k \in Open(wr)} /\ LeftBoards(x) = {at(k) : k \in Open(x)}
  BY DEF LeftBoards, Open
<1>4. BoardOf(wr) = at(wr.i)
  BY DEF BoardOf
<1>5. \A k, m \in all : at(k) = at(m) => k = m
  BY <1>1, WindowsApart
<1>6. \A k \in all : k >= wr.i <=> k > wr.i \/ k = wr.i
  BY <1>1
<1>7. ~(wr.i > wr.i)
  BY <1>1
<1> HIDE DEF at, all
<1>8. wr.i \in Open(wr) /\ \A k \in Open(wr) : k \in Open(x) <=> k # wr.i
  BY <1>1, <1>2, <1>6, <1>7
<1>9. Open(x) \subseteq Open(wr) /\ Open(wr) \subseteq all
  BY <1>1, <1>2, <1>6
<1> HIDE DEF Open
<1>10. at(wr.i) \in LeftBoards(wr)
  BY <1>3, <1>8
<1>11. ASSUME NEW b
       PROVE  b \in LeftBoards(x) <=> b \in LeftBoards(wr) /\ b # at(wr.i)
  <2>1. ASSUME b \in LeftBoards(x)
        PROVE  b \in LeftBoards(wr) /\ b # at(wr.i)
    <3>1. PICK k \in Open(x) : b = at(k)
      BY <1>3, <2>1
    <3>2. k \in all /\ k # wr.i
      BY <1>8, <1>9
    <3> QED BY <1>1, <1>3, <1>5, <1>9, <3>1, <3>2
  <2>2. ASSUME b \in LeftBoards(wr), b # at(wr.i)
        PROVE  b \in LeftBoards(x)
    <3>1. PICK k \in Open(wr) : b = at(k)
      BY <1>3, <2>2
    <3> QED BY <1>3, <1>8, <2>2, <3>1
  <2> QED BY <2>1, <2>2
<1> QED BY <1>4, <1>10, <1>11

LEMMA WindowLeaves ==
    ASSUME NEW wr \in WriterState, AtWork(wr, rows), wr.pc \in {"rank", "count"},
           NEW rank \in Nat
    PROVE  LET x == WindowDone(wr, rank)
           IN  \/ /\ x.pc = "upsert" /\ x.player = wr.player /\ x.score = wr.score
                  /\ LeftBoards(x) = LeftBoards(wr)
               \/ x.pc = "ok" /\ LeftBoards(wr) = {}
<1> DEFINE x == WindowDone(wr, rank)
<1>1. wr.i \in 1..Len(wr.targets) /\ wr.i \in Nat /\ Len(wr.targets) \in Nat
  BY DEF AtWork, WriterState
<1>2. /\ x.player = wr.player /\ x.score = wr.score /\ x.at = wr.at
      /\ x.targets = wr.targets
      /\ \/ wr.i < Len(wr.targets) /\ x.pc = "upsert" /\ x.i = wr.i + 1
         \/ ~(wr.i < Len(wr.targets)) /\ x.pc = "ok" /\ x.i = wr.i /\ x.best = wr.best
  BY WindowDoneFields
<1> HIDE DEF x
<1>3. CASE wr.i < Len(wr.targets)
  <2>1. Stored(x) = Stored(wr)
    BY <1>1, <1>2, <1>3 DEF Stored, AfterStore
  <2> QED BY <1>2, <1>3, <2>1 DEF LeftBoards, x
<1>4. CASE ~(wr.i < Len(wr.targets))
  <2>1. Stored(wr) = 1..Len(wr.targets)
    BY <1>1, <1>4 DEF Stored, AfterStore
  <2>2. LeftBoards(wr) = {}
    BY <2>1 DEF LeftBoards
  <2> QED BY <1>2, <1>4, <2>2 DEF x
<1> QED BY <1>3, <1>4

\* An entry in the store raises one score of the promise.
LEMMA StoreRaises ==
    ASSUME ShapeInv, NEW w \in Writers, writer[w].pc \in {"upsert", "exec"},
           StoreEntry(writer[w])
    PROVE  BestScores' = [BestScores EXCEPT ![BoardOf(writer[w])][writer[w].player] =
                            IF @ < writer[w].score THEN writer[w].score ELSE @]
<1> DEFINE wr == writer[w]
           b  == BoardOf(wr)
           p  == wr.player
           s  == wr.score
           e  == EntryOf(wr)
<1>1. /\ wr \in WriterState /\ b \in Boards /\ p \in Players
      /\ e \in Row /\ rows[b][p] \in Row
  BY WriterAtWork DEF ShapeInv
<1>2. e.score >= 0 /\ e.score = s /\ rows \in [Boards -> [Players -> Row]]
  BY <1>1 DEF EntryOf, WriterState, ShapeInv, TypeOK
<1>3. rows' = [rows EXCEPT ![b][p] = Merge(rows[b][p], e)]
  BY DEF StoreEntry
<1>4. Merge(rows[b][p], e).score = IF rows[b][p].score < s THEN s ELSE rows[b][p].score
  BY <1>1, <1>2, MergeScore DEF Larger
<1> HIDE DEF wr, b, p, s, e
<1>5. ASSUME NEW c \in Boards, NEW q \in Players
      PROVE  rows'[c][q].score = IF c = b /\ q = p
                                 THEN IF rows[b][p].score < s THEN s ELSE rows[b][p].score
                                 ELSE rows[c][q].score
  BY <1>1, <1>2, <1>3, <1>4
<1>6. BestScores' = [BestScores EXCEPT ![b][p] = IF @ < s THEN s ELSE @]
  <2> DEFINE new(c, q) == IF c = b /\ q = p
                          THEN IF rows[b][p].score < s THEN s ELSE rows[b][p].score
                          ELSE rows[c][q].score
  <2>1. BestScores' = [c \in Boards |-> [q \in Players |-> new(c, q)]]
    BY <1>5 DEF BestScores
  <2>2. [BestScores EXCEPT ![b][p] = IF @ < s THEN s ELSE @]
          = [c \in Boards |-> [q \in Players |-> new(c, q)]]
    <3>1. BestScores[b][p] = rows[b][p].score
      BY <1>1 DEF BestScores
    <3>2. \A c \in Boards : BestScores[c] = [q \in Players |-> rows[c][q].score]
      BY DEF BestScores
    <3>3. [BestScores[b] EXCEPT ![p] = IF @ < s THEN s ELSE @] = [q \in Players |-> new(b, q)]
      BY <1>1, <3>1, <3>2, ZenonT(40)
    <3>4. \A c \in Boards \ {b} : BestScores[c] = [q \in Players |-> new(c, q)]
      BY <3>2
    <3>5. BestScores = [c \in Boards |-> BestScores[c]]
      BY DEF BestScores
    <3> HIDE DEF new
    <3> QED BY <1>1, <3>3, <3>4, <3>5
  <2> QED BY <2>1, <2>2
<1> QED BY <1>6 DEF wr, b, p, s

\* A step of one request is a step of its job.
LEMMA JobStep ==
    ASSUME ShapeInv, NEW w \in Writers, NEW x, writer' = [writer EXCEPT ![w] = x]
    PROVE  JobsOf' = [JobsOf EXCEPT ![w] = JobOf(x)] /\ JobsOf[w] = JobOf(writer[w])
BY DEF JobsOf, ShapeInv, TypeOK

\* The promise in terms of BestScores and JobsOf.
LEMMA PromiseSteps ==
    /\ \A w \in Writers, p \in Players, s \in Scores, boards \in SUBSET Boards :
          Promise!Accept(w, p, s, boards) <=>
              /\ JobsOf[w].st # "busy"
              /\ boards # {}
              /\ JobsOf' = [JobsOf EXCEPT ![w] = [st |-> "busy", player |-> p,
                                                  score |-> s, left |-> boards]]
              /\ UNCHANGED BestScores
    /\ \A w \in Writers, b \in Boards :
          /\ Promise!Record(w, b) <=>
                /\ JobsOf[w].st = "busy"
                /\ b \in JobsOf[w].left
                /\ BestScores' = [BestScores EXCEPT ![b][JobsOf[w].player] =
                                     IF @ < JobsOf[w].score THEN JobsOf[w].score ELSE @]
                /\ JobsOf' = [JobsOf EXCEPT ![w].left = @ \ {b}]
          /\ Promise!RecordUnconfirmed(w, b) <=>
                /\ JobsOf[w].st = "busy"
                /\ b \in JobsOf[w].left
                /\ BestScores' = [BestScores EXCEPT ![b][JobsOf[w].player] =
                                     IF @ < JobsOf[w].score THEN JobsOf[w].score ELSE @]
                /\ JobsOf' = [JobsOf EXCEPT ![w] = [Promise!NoJob EXCEPT !.st = "failed"]]
    /\ \A w \in Writers :
          /\ Promise!Confirm(w) <=>
                /\ JobsOf[w].st = "busy"
                /\ JobsOf[w].left = {}
                /\ JobsOf' = [JobsOf EXCEPT ![w] = [Promise!NoJob EXCEPT !.st = "ok"]]
                /\ UNCHANGED BestScores
          /\ Promise!Fail(w) <=>
                /\ JobsOf[w].st = "busy"
                /\ JobsOf' = [JobsOf EXCEPT ![w] = [Promise!NoJob EXCEPT !.st = "failed"]]
                /\ UNCHANGED BestScores
BY DEF Promise!Accept, Promise!Record, Promise!RecordUnconfirmed, Promise!Confirm,
       Promise!Fail, Promise!Raise, JobsOf, BestScores

\* Each shape of a write is a step of its job, or invisible.
LEMMA ShapeIsStep ==
    ASSUME ShapeInv, NEW w \in Writers, Shapes(w)
    PROVE  \/ \E p \in Players, s \in Scores, boards \in SUBSET Boards :
                 Promise!Accept(w, p, s, boards)
           \/ \E b \in Boards : Promise!Record(w, b) \/ Promise!RecordUnconfirmed(w, b)
           \/ Promise!Confirm(w)
           \/ Promise!Fail(w)
           \/ UNCHANGED BestScores /\ UNCHANGED JobsOf
<1> DEFINE wr == writer[w]
           b  == BoardOf(wr)
           busy == [st |-> "busy", player |-> wr.player, score |-> wr.score,
                    left |-> LeftBoards(wr)]
<1>0. wr \in WriterState /\ JobsOf[w] = JobOf(wr) /\ JobsOf = [JobsOf EXCEPT ![w] = JobOf(wr)]
  BY DEF ShapeInv, TypeOK, JobsOf
<1>1. ASSUME wr.pc \notin Finished
      PROVE  /\ JobsOf[w] = busy /\ AtWork(wr, rows) /\ b \in Boards
             /\ JobsOf[w].st = "busy" /\ JobsOf[w].left = LeftBoards(wr)
             /\ JobsOf[w].player = wr.player /\ JobsOf[w].score = wr.score
  <2>1. JobsOf[w] = busy
    BY <1>0, <1>1, JobFields
  <2>2. AtWork(wr, rows) /\ b \in Boards
    BY <1>1, WriterAtWork DEF Finished, ShapeInv, WriterInv
  <2> QED BY <2>1, <2>2
<1>2. UNCHANGED rows => UNCHANGED BestScores
  BY DEF BestScores
<1>3. CASE Accepts(w)
  <2>1. PICK p \in Players, s \in Scores, t \in WriteTargets, x \in WriterState :
            /\ x.pc = "upsert" /\ x.i = 1
            /\ x.player = p /\ x.score = s /\ x.targets = t
            /\ writer' = [writer EXCEPT ![w] = x]
    BY <1>3 DEF Accepts
  <2>2. Stored(x) = {} /\ Len(t) \in Nat /\ 1 \in 1..Len(t)
    BY <2>1, TargetsAssumption DEF Stored, AfterStore
  <2>3. AtWork(x, rows)
    BY <2>1, <2>2 DEF AtWork
  <2>4. LeftBoards(x) \subseteq Boards /\ LeftBoards(x) # {}
    <3>1. LeftBoards(x) = {BoardAt[t[k]][x.at] : k \in 1..Len(t)}
      BY <2>1, <2>2 DEF LeftBoards
    <3>2. \A k \in 1..Len(t) : BoardAt[t[k]][x.at] \in Boards
      BY <2>1, TargetsAssumption, BoardsAssumption DEF WriterState
    <3> QED BY <2>2, <3>1, <3>2
  <2>5. JobOf(x) = [st |-> "busy", player |-> p, score |-> s, left |-> LeftBoards(x)]
    BY <2>1, JobFields DEF Finished
  <2>6. JobsOf' = [JobsOf EXCEPT ![w] = JobOf(x)]
    BY <2>1, JobStep
  <2>7. JobsOf[w].st # "busy"
    BY <1>0, <1>3 DEF Accepts, Finished, JobOf
  <2>8. Promise!Accept(w, p, s, LeftBoards(x))
    BY <1>2, <1>3, <2>4, <2>5, <2>6, <2>7, PromiseSteps DEF Accepts
  <2> QED BY <2>4, <2>8
<1>4. CASE Records(w)
  <2>1. PICK seen \in Score : writer' = [writer EXCEPT ![w] = Reported(wr, seen)]
    BY <1>4 DEF Records
  <2> DEFINE x == Reported(wr, seen)
  <2>2. /\ x.pc = "get" /\ x.player = wr.player /\ x.score = wr.score /\ x.at = wr.at
        /\ x.targets = wr.targets /\ x.i = wr.i
    BY <1>0, ReportedFields
  <2>3. JobsOf' = [JobsOf EXCEPT ![w] = JobOf(x)]
    BY <2>1, JobStep
  <2>4. wr.pc \in {"upsert", "exec"} /\ StoreEntry(wr) /\ wr.pc \notin Finished
    BY <1>4 DEF Records, Finished
  <2> HIDE DEF x
  <2>5. b \in LeftBoards(wr) /\ LeftBoards(x) = LeftBoards(wr) \ {b}
    BY <1>0, <1>1, <2>2, <2>4, RecordLeaves
  <2>6. JobOf(x) = [busy EXCEPT !.left = @ \ {b}]
    <3>1. JobOf(x) = [st |-> "busy", player |-> x.player, score |-> x.score,
                      left |-> LeftBoards(x)]
      BY <2>2, JobFields DEF Finished
    <3> QED BY <2>2, <2>5, <3>1
  <2>7. JobsOf' = [JobsOf EXCEPT ![w].left = @ \ {b}]
    BY <1>1, <2>3, <2>4, <2>6
  <2>8. BestScores' = [BestScores EXCEPT ![b][wr.player] =
                          IF @ < wr.score THEN wr.score ELSE @]
    BY <2>4, StoreRaises
  <2>9. PICK c \in Boards : c = b
    BY <1>1, <2>4
  <2>10. Promise!Record(w, c)
    <3> HIDE DEF b, wr, busy
    <3> QED BY <1>1, <2>4, <2>5, <2>7, <2>8, <2>9, PromiseSteps DEF wr
  <2> QED BY <2>10
<1>5. CASE Moves(w)
  <2>1. PICK x : MovesOn(wr, x) /\ writer' = [writer EXCEPT ![w] = x]
    BY <1>5 DEF Moves
  <2>2. wr.pc \notin Finished /\ x.pc \notin Finished
    BY <2>1 DEF MovesOn, AfterStore, Finished
  <2>3. LeftBoards(x) = LeftBoards(wr)
    BY <2>1 DEF MovesOn, LeftBoards, Stored, AfterStore
  <2>4. JobOf(x) = JobOf(wr)
    BY <2>1, <2>2, <2>3, JobFields DEF MovesOn
  <2>5. UNCHANGED JobsOf
    BY <1>0, <2>1, <2>4, JobStep
  <2> QED BY <1>2, <1>5, <2>5 DEF Moves
<1>6. CASE EndsWindow(w)
  <2>1. PICK rank \in Nat : writer' = [writer EXCEPT ![w] = WindowDone(wr, rank)]
    BY <1>6 DEF EndsWindow
  <2> DEFINE x == WindowDone(wr, rank)
  <2>2. wr.pc \in {"rank", "count"} /\ wr.pc \notin Finished
    BY <1>6 DEF EndsWindow, Finished
  <2>3. \/ /\ x.pc = "upsert" /\ x.player = wr.player /\ x.score = wr.score
           /\ LeftBoards(x) = LeftBoards(wr)
        \/ x.pc = "ok" /\ LeftBoards(wr) = {}
    BY <1>0, <1>1, <2>2, WindowLeaves
  <2>4. JobsOf' = [JobsOf EXCEPT ![w] = JobOf(x)]
    BY <2>1, JobStep
  <2> HIDE DEF x
  <2>5. CASE /\ x.pc = "upsert" /\ x.player = wr.player /\ x.score = wr.score
             /\ LeftBoards(x) = LeftBoards(wr)
    <3>1. JobOf(x) = JobOf(wr)
      BY <2>2, <2>5, JobFields DEF Finished
    <3>2. UNCHANGED JobsOf
      BY <1>0, <2>4, <3>1
    <3> QED BY <1>2, <1>6, <3>2 DEF EndsWindow
  <2>6. CASE x.pc = "ok" /\ LeftBoards(wr) = {}
    <3>1. JobOf(x) = [Promise!NoJob EXCEPT !.st = "ok"]
      BY <2>6, JobFields DEF Finished
    <3>2. Promise!Confirm(w)
      BY <1>1, <1>2, <1>6, <2>2, <2>4, <2>6, <3>1, PromiseSteps DEF EndsWindow
    <3> QED BY <3>2
  <2> QED BY <2>3, <2>5, <2>6
<1>7. CASE GivesUp(w)
  <2> DEFINE x == [IdleWriter EXCEPT !.pc = "failed"]
  <2>1. writer' = [writer EXCEPT ![w] = x] /\ wr.pc \notin Finished
    BY <1>7 DEF GivesUp, Finished
  <2>2. x.pc = "failed"
    BY DEF IdleWriter
  <2> HIDE DEF x
  <2>3. JobsOf' = [JobsOf EXCEPT ![w] = [Promise!NoJob EXCEPT !.st = "failed"]]
    <3>1. JobOf(x) = [Promise!NoJob EXCEPT !.st = "failed"]
      BY <2>2, JobFields DEF Finished
    <3>2. JobsOf' = [JobsOf EXCEPT ![w] = JobOf(x)]
      BY <2>1, JobStep
    <3> QED BY <3>1, <3>2
  <2>4. CASE UNCHANGED rows
    <3>1. Promise!Fail(w)
      BY <1>1, <1>2, <2>1, <2>3, <2>4, PromiseSteps
    <3> QED BY <3>1
  <2>5. CASE wr.pc = "exec" /\ StoreEntry(wr)
    <3>1. b \in LeftBoards(wr)
      <4> DEFINE y == [wr EXCEPT !.pc = "get"]
      <4>1. y.pc = "get" /\ y.i = wr.i /\ y.targets = wr.targets /\ y.at = wr.at
        BY <1>0 DEF WriterState
      <4> HIDE DEF y
      <4> QED BY <1>0, <1>1, <2>1, <2>5, <4>1, RecordLeaves
    <3>2. BestScores' = [BestScores EXCEPT ![b][wr.player] =
                            IF @ < wr.score THEN wr.score ELSE @]
      BY <2>5, StoreRaises
    <3>3. PICK c \in Boards : c = b
      BY <1>1, <2>1
    <3>4. Promise!RecordUnconfirmed(w, c)
      <4> HIDE DEF b, wr, busy
      <4> QED BY <1>1, <2>1, <2>3, <3>1, <3>2, <3>3, PromiseSteps DEF wr
    <3> QED BY <3>4
  <2> QED BY <1>7, <2>4, <2>5 DEF GivesUp
<1> QED BY <1>3, <1>4, <1>5, <1>6, <1>7 DEF Shapes

\* Initial states map to initial states, a restart to a crash.
LEMMA PromiseInit == Init => Promise!AbsInit
BY DEF Init, Promise!AbsInit, Promise!NoScores, Promise!NoJob, EmptyRows, NoRow,
       IdleWriters, IdleWriter, JobOf, Finished

LEMMA RestartIsCrash == Restart => Promise!Crash
<1> SUFFICES ASSUME Restart PROVE Promise!Crash
  OBVIOUS
<1>1. JobsOf' = [w \in Writers |-> Promise!NoJob]
  BY DEF Restart, JobsOf, Promise!NoJob, IdleWriters, IdleWriter, JobOf, Finished
<1>2. BestScores' = IF Backend = "mysql" THEN BestScores ELSE Promise!NoScores
  <2>1. CASE Backend = "memory"
    BY <2>1 DEF Restart, BestScores, Promise!NoScores, EmptyRows, NoRow
  <2>2. CASE Backend = "mysql"
    BY <2>2 DEF Restart, BestScores
  <2> QED BY <2>1, <2>2, BackendAssumption
<1> QED BY <1>1, <1>2 DEF Promise!Crash, JobsOf, BestScores

LEMMA StepKeepsPromise ==
    ASSUME ShapeInv, [Next]_vars
    PROVE  Promise!AbsNext \/ (UNCHANGED BestScores /\ UNCHANGED JobsOf)
<1>1. CASE UNCHANGED <<writer, rows, history>>
  BY <1>1 DEF BestScores, JobsOf
<1>2. CASE Restart
  BY <1>2, RestartIsCrash DEF Promise!AbsNext
<1>3. ASSUME NEW w \in Writers, Shapes(w)
      PROVE  Promise!AbsNext \/ (UNCHANGED BestScores /\ UNCHANGED JobsOf)
  BY <1>3, ShapeIsStep DEF Promise!AbsNext
<1> QED BY <1>1, <1>2, <1>3, StepShape

LEMMA ShapeHolds == Spec => []ShapeInv
BY InitialShape, ShapePreserved, PTL DEF Spec

\* The service, with either store, implements MaxScores: scores only rise, an
\* answered write is on the boards of all its windows, a failed one on some,
\* and only a memory store forgets (service.go UpsertMaxScore).
THEOREM ImplementsMaxScores == Spec => KeepsPromise
<1>1. ShapeInv /\ [Next]_vars => [Promise!AbsNext]_<<BestScores, JobsOf>>
  BY StepKeepsPromise
<1> QED BY <1>1, PromiseInit, ShapeHolds, PTL DEF Spec, KeepsPromise, Promise!AbsSpec,
           BestScores, JobsOf
=============================================================================
