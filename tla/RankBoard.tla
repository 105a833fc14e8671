------------------------------ MODULE RankBoard ------------------------------
(***************************************************************************)
(* One score board as the two stores keep it: what a write does to a row,  *)
(* which lists a TopN query may return and which rank a player has.        *)
(* The operators are pure; Leaderboard builds the running service on them. *)
(*                                                                         *)
(* A board is a function from players to rows.  A row with a negative      *)
(* score stands for "no row": the service refuses negative scores          *)
(* (service.go:244, service.go:678), so the stores never hold one.         *)
(***************************************************************************)
EXTENDS Integers, Sequences, FiniteSets

\* The empty Extra payload (nickname and avatar of a score write).
NoExtra == ""

NoRow == [score |-> -1, at |-> 0, extra |-> NoExtra]

Larger(a, b) == IF a < b THEN b ELSE a

Smaller(a, b) == IF a < b THEN a ELSE b

\* Fault: rows that do not exist are listed too (an outer join).
ListedPlayers(board) == DOMAIN board

Present(board) == {p \in DOMAIN board : board[p].score >= 0}

-----------------------------------------------------------------------------
(* Writing: e is the entry of the request, old the row it meets. *)

\* Fault: the last write wins.
LastWins(old, e) == e

\* Fault: a better score keeps the time of the row it replaces.
KeepsTime(old, e) ==
    IF old.score < e.score THEN [e EXCEPT !.at = old.at] ELSE old

\* The row the memory store leaves behind: a better entry replaces the row as
\* a whole, any other entry may only refresh the display payload.
MemoryMerge(old, e) ==
    IF old.score < e.score THEN e
    ELSE IF e.extra # NoExtra THEN [old EXCEPT !.extra = e.extra]
    ELSE old

\* Fault: the payload is assigned without looking whether it is empty.
SqlAssignsExtra(old, e) ==
    IF e.score > old.score THEN e ELSE [old EXCEPT !.extra = e.extra]

\* The row INSERT ... ON DUPLICATE KEY UPDATE leaves behind.  MySQL evaluates
\* the assignments from left to right and a column read by a later one has its
\* new value: updated_at is compared with the score already raised.
SqlMerge(old, e) ==
    LET score == IF e.score > old.score THEN e.score ELSE old.score
    IN  IF old.score < 0 THEN e
        ELSE [score |-> score,
              at    |-> IF e.score > score THEN e.at ELSE old.at,
              extra |-> IF e.extra # NoExtra THEN e.extra ELSE old.extra]

\* What UpsertMax reports, from the score it saw before writing (-1: no row).
Updated(seen, e) == seen < e.score \/ e.extra # NoExtra

\* Fault: the score found is reported, not the score kept.
BestBefore(seen, e) == seen

Best(seen, e) == IF seen < e.score THEN e.score ELSE seen

-----------------------------------------------------------------------------
(* Reading *)

\* Row a stands before row b: higher score, or the same score reached earlier.
Outranks(a, b) == a.score > b.score \/ (a.score = b.score /\ a.at < b.at)

\* Fault: rows that are equal count as better.
AheadOrLevel(board, row) == {p \in Present(board) : ~Outranks(row, board[p])}

\* Fault: equal scores share a rank although the list orders them by time.
AheadByScore(board, row) == {p \in Present(board) : board[p].score > row.score}

\* The players a given (score, at) has to stand behind.
Ahead(board, row) == {p \in Present(board) : Outranks(board[p], row)}

\* 1 + the number of rows strictly better, 0 for a player without a row.
RankOf(board, p) ==
    IF board[p].score < 0 THEN 0 ELSE 1 + Cardinality(Ahead(board, board[p]))

ToCompact(board, p) ==
    [p |-> p, s |-> board[p].score, x |-> board[p].extra]

Compacts(board) == {ToCompact(board, p) : p \in Present(board)}

\* The lists TopN may return: the n best rows in order.  Rows equal in score
\* and time come in any order: the memory store sorts a Go map's random order
\* and the query leaves ties to the database.
TopNLists(board, n) ==
    LET k == Smaller(n, Cardinality(Present(board)))
    IN  {l \in [1..k -> Compacts(board)] :
            \A i \in 1..k :
                /\ \A j \in 1..k : l[i].p = l[j].p => i = j
                /\ \A q \in Present(board) :
                      Outranks(board[q], board[l[i].p])
                          => \E j \in 1..(i - 1) : l[j].p = q}

\* The score HotItem keeps to decide whether a write may enter the list.
TopScoreMin(list) == IF list = <<>> THEN 0 ELSE list[Len(list)].s
=============================================================================
