------------------------------ MODULE MaxScores ------------------------------
(***************************************************************************)
(* What the leaderboard promises to those who write scores: every player's *)
(* score on a board only rises, and a request that is answered with        *)
(* success has left its score on every board it names.  A request that     *)
(* fails may have left it on some of them.  Only a store without           *)
(* persistence forgets, and it forgets everything.                         *)
(***************************************************************************)
EXTENDS Integers

CONSTANTS Players, NoPlayer, Boards, Scores, Jobs, Persistent

VARIABLES
    best,   \* best[b][p]: the best score of p on b, -1 without one
    job     \* job[j]: a write request; left holds the boards still to be written

NoJob == [st |-> "idle", player |-> NoPlayer, score |-> 0, left |-> {}]

NoScores == [b \in Boards |-> [p \in Players |-> -1]]

AbsInit ==
    /\ best = NoScores
    /\ job = [j \in Jobs |-> NoJob]

Accept(j, p, s, boards) ==
    /\ job[j].st # "busy"
    /\ boards # {}
    /\ job' = [job EXCEPT ![j] = [st |-> "busy", player |-> p, score |-> s, left |-> boards]]
    /\ UNCHANGED best

Raise(b, p, s) == best' = [best EXCEPT ![b][p] = IF @ < s THEN s ELSE @]

Record(j, b) ==
    /\ job[j].st = "busy"
    /\ b \in job[j].left
    /\ Raise(b, job[j].player, job[j].score)
    /\ job' = [job EXCEPT ![j].left = @ \ {b}]

\* The score is recorded but the request fails: its client cannot know.
RecordUnconfirmed(j, b) ==
    /\ job[j].st = "busy"
    /\ b \in job[j].left
    /\ Raise(b, job[j].player, job[j].score)
    /\ job' = [job EXCEPT ![j] = [NoJob EXCEPT !.st = "failed"]]

Confirm(j) ==
    /\ job[j].st = "busy"
    /\ job[j].left = {}
    /\ job' = [job EXCEPT ![j] = [NoJob EXCEPT !.st = "ok"]]
    /\ UNCHANGED best

Fail(j) ==
    /\ job[j].st = "busy"
    /\ job' = [job EXCEPT ![j] = [NoJob EXCEPT !.st = "failed"]]
    /\ UNCHANGED best

Crash ==
    /\ job' = [j \in Jobs |-> NoJob]
    /\ best' = IF Persistent THEN best ELSE NoScores

AbsNext ==
    \/ \E j \in Jobs :
          \/ \E p \in Players, s \in Scores, boards \in SUBSET Boards : Accept(j, p, s, boards)
          \/ \E b \in Boards : Record(j, b) \/ RecordUnconfirmed(j, b)
          \/ Confirm(j)
          \/ Fail(j)
    \/ Crash

AbsSpec == AbsInit /\ [][AbsNext]_<<best, job>>
=============================================================================
