---------------------------- MODULE AccountsProps ----------------------------
(***************************************************************************)
(* The correctness properties of Accounts.                                 *)
(***************************************************************************)
EXTENDS Accounts

\* Types; a token lives for TTL at most (auth.go Issue).
StateTypes ==
    /\ now \in Times
    /\ accounts \in [Keys -> Account]
    /\ client \in [Clients -> Request]
    /\ session \in [Clients -> Session]
    /\ used \in [DOMAIN Budget -> Nat]

TypeOK == StateTypes /\ backend \in Backends

\* The click id and the time of an account are those of its first registration
\* and never change after it, whatever registers again or updates the profile
\* later (docs/register.md: click_id is first touch).
FirstTouchKept ==
    [][\A k \in Keys : Exists(accounts[k]) /\ Exists(accounts'[k]) =>
          /\ Shown(accounts'[k]).click = Shown(accounts[k]).click
          /\ accounts'[k].at = accounts[k].at]_accounts

Registered(req) == req.pc = "ok" /\ req.kind = "register"

\* Of all registrations of one account only one is answered with is_new.
OneIsNew ==
    \A c, d \in {e \in Clients : Registered(client[e]) /\ client[e].new} :
        client[c].key = client[d].key => c = d

\* A registration answered with success has an account behind it, and whoever
\* asks is told the same click id and time.
Agrees(req, acc) ==
    Registered(req) => /\ Exists(acc)
                       /\ req.since = acc.at
                       /\ req.shown.click = Shown(acc).click

AnswersAgree == \A c \in Clients : Agrees(client[c], Mine(c))

\* A token names an account the store has, also after a restart (mysql).
SessionNamesAccount ==
    backend = "mysql" => \A c \in Clients : session[c].exp > 0 => Exists(accounts[session[c].key])

\* A name or an avatar of an account changes only into one that a request in
\* progress asks for: fields an update leaves empty stay (store.go UpdateProfile).
Asked(k, x, value) ==
    \E c \in Clients : /\ client[c].pc \in {"apply", "write"}
                       /\ client[c].key = k
                       /\ client[c].fields[x] = value
                       /\ value # Empty

EmptyFieldsStay ==
    [][\A k \in Keys, x \in {"name", "avatar"} :
          Exists(accounts[k]) /\ Exists(accounts'[k]) =>
              \/ Shown(accounts'[k])[x] = Shown(accounts[k])[x]
              \/ Asked(k, x, Shown(accounts'[k])[x])]_accounts

\* The memory store keeps them under its lock; over MySQL two updates that
\* overlap may undo each other (memory.go UpdateProfile).
MemoryFieldsStay ==
    [][\A k \in Keys, x \in {"name", "avatar"} :
          backend = "memory" /\ Exists(accounts[k]) /\ Exists(accounts'[k]) =>
              \/ Shown(accounts'[k])[x] = Shown(accounts[k])[x]
              \/ Asked(k, x, Shown(accounts'[k])[x])]_accounts

-----------------------------------------------------------------------------
(* What registrations are promised, as the abstract specification FirstTouch *)

NoKeyAsked == "no key"
NoMarkYet == [click |-> "none", at |-> -1]

MarkOf(acc) == IF Exists(acc) THEN [click |-> Shown(acc).click, at |-> acc.at] ELSE NoMarkYet

AskOf(req) ==
    LET want == MarkOf(NewAccount(req))
        ask  == [st |-> "waiting", key |-> req.key, want |-> want, new |-> FALSE, got |-> NoMarkYet]
    IN  IF req.pc \in {"report", "insert", "reselect"} THEN ask
        ELSE IF Registered(req)
        THEN [ask EXCEPT !.st = "answered", !.new = req.new,
                         !.got = [click |-> req.shown.click, at |-> req.since]]
        ELSE [st |-> "none", key |-> NoKeyAsked, want |-> NoMarkYet, new |-> FALSE, got |-> NoMarkYet]

Promise == INSTANCE FirstTouch WITH
    NoKey      <- NoKeyAsked,
    NoMark     <- NoMarkYet,
    Marks      <- [click : Clicks, at : Times],
    persistent <- (backend = "mysql"),
    first      <- [k \in Keys |-> MarkOf(accounts[k])],
    ask        <- [c \in Clients |-> AskOf(client[c])]

\* Registration keeps the promise with either store (service.go Register).
KeepsFirstTouch == Promise!AbsSpec

-----------------------------------------------------------------------------
(* The inductive invariant the proofs of AccountsProofs use *)

\* Profile fields on their way into an account carry no click id, and the row a
\* MySQL update has read differs from the stored one in name and avatar only.
UpdateKept(req, acc) ==
    /\ req.pc \in {"check", "fetch", "apply", "write"} => req.kind # "register"
    /\ req.pc \in {"apply", "write"} => req.fields.click = Empty
    /\ req.pc = "write" => /\ Exists(acc)
                           /\ req.read.at = acc.at
                           /\ req.read.extra.click = acc.extra.click

UpdateKeepsClick == \A c \in Clients : UpdateKept(client[c], Mine(c))

AccountsInv == StateTypes /\ UpdateKeepsClick /\ AnswersAgree /\ OneIsNew
=============================================================================
