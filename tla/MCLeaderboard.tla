---------------------------- MODULE MCLeaderboard ----------------------------
(* Instances of Leaderboard for TLC. *)
EXTENDS LeaderboardProps, TLC

OneWindow == {"week"}
WeekOnly == [v \in OneWindow |-> [t \in Times |-> v]]

JustWeek == <<"week">>

WeekTargets == {JustWeek}

Interchangeable ==
    Permutations(Players) \union Permutations(Writers) \union Permutations(Readers)
=============================================================================
