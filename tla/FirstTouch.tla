------------------------------ MODULE FirstTouch ------------------------------
(***************************************************************************)
(* What registration promises: the first registration of an account fixes  *)
(* its promotion click id and its time, every registration is answered     *)
(* with these, and at most one of them is told that the account is new.    *)
(***************************************************************************)
CONSTANTS Keys, NoKey, Clients, Marks, NoMark

VARIABLES
    persistent, \* whether accounts outlive a crash; it never changes
    first,  \* first[k]: the mark an account was registered with
    ask     \* ask[c]: the registration c is waiting for or was answered

NoAsk == [st |-> "none", key |-> NoKey, want |-> NoMark, new |-> FALSE, got |-> NoMark]

AbsInit ==
    /\ persistent \in BOOLEAN
    /\ first = [k \in Keys |-> NoMark]
    /\ ask = [c \in Clients |-> NoAsk]

\* A registration begins, or the client turns to something else.
Begin(c, k, m) ==
    /\ ask[c].st # "waiting"
    /\ ask' = [ask EXCEPT ![c] = [NoAsk EXCEPT !.st = "waiting", !.key = k, !.want = m]]
    /\ UNCHANGED first

Leave(c) == ask' = [ask EXCEPT ![c] = NoAsk] /\ UNCHANGED first

\* The client's registration is the first; it may not come to know.
Claim(c) ==
    LET k == ask[c].key
        m == ask[c].want
    IN  /\ ask[c].st = "waiting"
        /\ first[k] = NoMark
        /\ first' = [first EXCEPT ![k] = m]
        /\ \/ UNCHANGED ask
           \/ ask' = [ask EXCEPT ![c] = [@ EXCEPT !.st = "answered", !.new = TRUE, !.got = m]]

AnswerOld(c) ==
    /\ ask[c].st = "waiting"
    /\ first[ask[c].key] # NoMark
    /\ ask' = [ask EXCEPT ![c] = [@ EXCEPT !.st = "answered", !.got = first[ask[c].key]]]
    /\ UNCHANGED first

Crash ==
    /\ ask' = [c \in Clients |-> NoAsk]
    /\ first' = IF persistent THEN first ELSE [k \in Keys |-> NoMark]

AbsNext ==
    /\ \/ \E c \in Clients :
             \/ \E k \in Keys, m \in Marks : Begin(c, k, m)
             \/ Leave(c) \/ Claim(c) \/ AnswerOld(c)
       \/ Crash
    /\ UNCHANGED persistent

AbsSpec == AbsInit /\ [][AbsNext]_<<persistent, first, ask>>
=============================================================================
