------------------------------ MODULE Periods ------------------------------
(***************************************************************************)
(* Leaderboard on the boards of the program: BoardAt[window][time] is the  *)
(* key of the period the day of that time is in.                           *)
(***************************************************************************)
EXTENDS LeaderboardProps, Calendar

CONSTANTS
    App, Board, Zone, Channel,  \* texts of the one game and channel
    DayAt                       \* DayAt[time]: the day, in the zone of the board

AllWindows == {"day", "week", "month", "all"}

ASSUME DaysAssumption == DayAt \in [Times -> Nat]
ASSUME TextsAssumption == /\ Windows \subseteq AllWindows
                          /\ {App, Board, Zone, Channel} \subseteq Seq(STRING)
ASSUME KeysAssumption ==
    \A v \in Windows, t \in Times :
        BoardAt[v][t] = BoardKey(App, Board, Zone, PeriodKey(v, DayAt[t]), Channel)

\* Days d and e in the same period, said without keys: weeks begin on Mondays,
\* and two days are in one month if no month begins after the first of them.
SamePeriod(window, d, e) ==
    CASE window = "day"   -> d = e
      [] window = "week"  -> d \div 7 = e \div 7
      [] window = "month" -> \A x \in (Smaller(d, e) + 1)..Larger(d, e) : DayOfMonth(x) # 1
      [] window = "all"   -> TRUE

TimesOfOnePeriod ==
    [v \in Windows |-> {x \in Times \X Times : SamePeriod(v, DayAt[x[1]], DayAt[x[2]])}]

\* All scores on a board were submitted in the same period, and all scores of a
\* period are on the same board, also where the year ends in the middle of a
\* week (domain.go PeriodKey, service.go:256).
BoardsArePeriods ==
    \A v \in Windows, s, t \in Times, p, q \in Players :
        LET b == BoardAt[v][s]
            c == BoardAt[v][t]
        IN  \A h \in history[b][p], g \in history[c][q] :
                b = c <=> <<h[2], g[2]>> \in TimesOfOnePeriod[v]
=============================================================================
