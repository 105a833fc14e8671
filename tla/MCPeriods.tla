----------------------------- MODULE MCPeriods -----------------------------
(* The instance of Periods for TLC. *)
EXTENDS Periods, TLC

TwoWindows == {"week", "month"}
WeekOrBoth == {<<"week", "month">>, <<"week">>}

Parking == <<"parking">>
Endless == <<"endless">>
TikTok == <<"tiktok_minis">>
NoZone == Blank

\* Wednesday 31 December 2025, the day after it, in the same week but another
\* month and year, and Monday 5 January, in the same month but another week.
NewYear == 0 :> FirstDay(2026) - 1 @@ 1 :> FirstDay(2026) @@ 2 :> FirstDay(2026) + 4

KeyOf(v, t) == BoardKey(Parking, Endless, NoZone, PeriodKey(v, NewYear[t]), TikTok)
KeysOf(v) == 0 :> KeyOf(v, 0) @@ 1 :> KeyOf(v, 1) @@ 2 :> KeyOf(v, 2)
BoardKeys == [week |-> KeysOf("week"), month |-> KeysOf("month")]
KeysInUse == UNION {{BoardKeys[v][t] : t \in 0..2} : v \in TwoWindows}
\* TLC evaluates what a .cfg substitutes at each use, the definitions above once.
AcrossNewYear == BoardKeys
NewYearBoards == KeysInUse

Interchangeable == Permutations(Players) \union Permutations(Writers)
=============================================================================
