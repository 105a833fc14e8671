------------------------------ MODULE Accounts ------------------------------
(***************************************************************************)
(* Player accounts: registration, login, and the nickname and avatar of a  *)
(* profile, for concurrent requests over one account store.                *)
(*                                                                         *)
(* With the memory store every call is one step under a lock.  With MySQL  *)
(* ReportRegister is SELECT, INSERT and, when the INSERT fails, another    *)
(* SELECT; UpdateProfile is SELECT and UPDATE; nothing holds a lock in     *)
(* between, any statement may fail, and one that fails may have taken      *)
(* effect.  Sessions are signed tokens that the clients keep: they survive *)
(* a restart of the process.                                               *)
(***************************************************************************)
EXTENDS Integers, FiniteSets

CONSTANTS
    Backends,           \* stores the process may be started with (RANK_STORE)
    Keys,               \* (channel, open_id) pairs of one app
    Clients,            \* players' devices
    Names, Avatars, Clicks,     \* field values, the empty one included
    RegisterFields,     \* the fields registration requests carry
    ExtraFields,        \* the fields their extra_json carries
    UpdateFields,       \* what profile updates and the platform deliver
    TTL,                \* life of a session
    MaxNow, MaxRequests, MaxFaults, MaxRestarts     \* bounds

Empty == ""
Times == 0..MaxNow
Budget == [request |-> MaxRequests, fault |-> MaxFaults, restart |-> MaxRestarts]

\* The display fields of an account; click is the promotion click id.
Profile == [name : Names, avatar : Avatars, click : Clicks]
Blank == [name |-> Empty, avatar |-> Empty, click |-> Empty]

ASSUME BackendAssumption == Backends \subseteq {"memory", "mysql"}
ASSUME KeysAssumption == Keys # {}
ASSUME FieldsAssumption ==
    /\ Blank \in Profile
    /\ RegisterFields \union ExtraFields \union UpdateFields \subseteq Profile
    /\ \A f \in UpdateFields : f # Blank /\ f.click = Empty
ASSUME BoundsAssumption == /\ MaxNow \in Nat /\ TTL \in Nat \ {0}
                           /\ Budget \in [DOMAIN Budget -> Nat]

VARIABLES
    backend,    \* the store: chosen at the start, the same after a restart
    now,        \* the wall clock
    accounts,   \* accounts[k]: the row of player_register
    client,     \* client[c]: the request c has sent last
    session,    \* session[c]: the token c holds
    used        \* how much of each bound has been used

vars == <<backend, now, accounts, client, session, used>>

-----------------------------------------------------------------------------
(* Accounts *)

\* col: the columns; extra: the same fields inside extra_json; at: the time of
\* registration, -1 for a row that does not exist.
Account == [col : Profile, extra : Profile, at : Times \union {-1}]
NoAccount == [col |-> Blank, extra |-> Blank, at |-> -1]
Exists(acc) == acc.at >= 0

\* The fields of f, and those of g where f has none.
FirstNonEmpty(a, b) == IF a # Empty THEN a ELSE b
Over(f, g) == [name   |-> FirstNonEmpty(f.name, g.name),
               avatar |-> FirstNonEmpty(f.avatar, g.avatar),
               click  |-> FirstNonEmpty(f.click, g.click)]

\* What clients are shown: the column, or else the field of extra_json.
Shown(acc) == Over(acc.col, acc.extra)

\* A row as MySQL reads hand it out: empty columns are filled from extra_json.
Hydrated(acc) == [acc EXCEPT !.col = Shown(acc)]

NewAccount(req) ==
    [col |-> req.fields, extra |-> Over(req.fields, req.extra), at |-> req.at]

\* Fault: registering again replaces the account.
Replaced(acc, req) == NewAccount(req)

\* The account after a registration: the first one stays.
Attributed(acc, req) == IF Exists(acc) THEN acc ELSE NewAccount(req)

\* Fault: every field is assigned, also one the update does not name.
AssignsAll(acc, f) == [acc EXCEPT !.col = [f EXCEPT !.click = acc.col.click]]

\* memory: the fields named by the update change.
MemoryUpdate(acc, f) == [acc EXCEPT !.col = Over(f, acc.col)]

\* Fault: extra_json is built from the update alone.
SqlDropsExtra(acc, read, f) ==
    [acc EXCEPT !.col.name = Over(f, read.col).name,
                !.col.avatar = Over(f, read.col).avatar, !.extra = f]

\* mysql: name, avatar and extra_json are written as computed from the row read
\* before, whatever the row holds now; click id and time are not touched.
SqlUpdate(acc, read, f) ==
    [acc EXCEPT !.col.name = Over(f, read.col).name,
                !.col.avatar = Over(f, read.col).avatar,
                !.extra = Over(f, read.extra)]

\* Fault: the table has no primary key.
NeverDuplicate(acc) == FALSE

\* INSERT is refused by the primary key.
IsDuplicate(acc) == Exists(acc)

-----------------------------------------------------------------------------
(* Requests and sessions *)

Finished == {"idle", "ok", "failed", "need_register"}
PC == Finished \union {"report", "insert", "reselect", "check", "fetch", "apply", "write"}
Kinds == {"none", "register", "login", "update", "sync", "view"}

Request ==
    [pc : PC, kind : Kinds, key : Keys, fields : Profile, extra : Profile, at : Times,
     read : Account, new : BOOLEAN, shown : Profile, since : Times \union {-1}]

Idle == [pc |-> "idle", kind |-> "none", key |-> CHOOSE k \in Keys : TRUE,
         fields |-> Blank, extra |-> Blank, at |-> 0, read |-> NoAccount,
         new |-> FALSE, shown |-> Blank, since |-> -1]

\* exp = 0: no token.
Session == [key : Keys, exp : 0..(MaxNow + TTL)]
NoSession == [key |-> CHOOSE k \in Keys : TRUE, exp |-> 0]

Valid(s) == s.exp > now

Spend(kind) == /\ used[kind] < Budget[kind]
               /\ used' = [used EXCEPT ![kind] = @ + 1]

Send(c, kind, key, pc, fields, extra) ==
    /\ client[c].pc \in Finished
    /\ Spend("request")
    /\ client' = [client EXCEPT ![c] =
                    [Idle EXCEPT !.pc = pc, !.kind = kind, !.key = key,
                                 !.fields = fields, !.extra = extra, !.at = now]]
    /\ UNCHANGED <<now, accounts, session>>

Fail(c) == client' = [client EXCEPT ![c].pc = "failed"]

\* The row a request is about, and its new contents.
Mine(c) == accounts[client[c].key]
Write(c, acc) == accounts' = [accounts EXCEPT ![client[c].key] = acc]

\* Fault: the answer repeats the request.
EchoRequest(req, new, acc) ==
    [req EXCEPT !.pc = "ok", !.new = new, !.shown = req.fields, !.since = req.at]

\* Fault: everybody is told to be new.
AlwaysNew(req, new, acc) ==
    [req EXCEPT !.pc = "ok", !.new = TRUE, !.shown = Shown(acc), !.since = acc.at]

\* The answer to a registration: what the account shows, with the name and the
\* avatar of the request where the account has none.
Answer(req, new, acc) ==
    [req EXCEPT !.pc = "ok", !.new = new, !.since = acc.at,
                !.shown = [Over(Shown(acc), req.fields) EXCEPT !.click = Shown(acc).click]]

Show(req, acc) == [req EXCEPT !.pc = "ok", !.shown = Shown(acc), !.since = acc.at]

-----------------------------------------------------------------------------
(* Registration *)

Register(c, k, fields, extra) == Send(c, "register", k, "report", fields, extra)

RegisterInMemory(c) ==
    LET req == client[c]
        acc == Attributed(Mine(c), req)
    IN  /\ backend = "memory"
        /\ req.pc = "report"
        /\ Write(c, acc)
        /\ client' = [client EXCEPT ![c] = Answer(req, ~Exists(Mine(c)), acc)]
        /\ UNCHANGED <<now, session, used>>

SelectAccount(c) ==
    /\ backend = "mysql"
    /\ client[c].pc = "report"
    /\ client' = [client EXCEPT ![c] = IF Exists(Mine(c)) THEN Answer(@, FALSE, Mine(c))
                                       ELSE [@ EXCEPT !.pc = "insert"]]
    /\ UNCHANGED <<now, accounts, session, used>>

InsertAccount(c) ==
    LET req == client[c]
    IN  /\ req.pc = "insert"
        /\ ~IsDuplicate(Mine(c))
        /\ Write(c, NewAccount(req))
        /\ client' = [client EXCEPT ![c] = Answer(req, TRUE, NewAccount(req))]
        /\ UNCHANGED <<now, session, used>>

\* Another registration came first: the primary key refuses the row.
InsertRefused(c) ==
    /\ client[c].pc = "insert"
    /\ IsDuplicate(Mine(c))
    /\ client' = [client EXCEPT ![c].pc = "reselect"]
    /\ UNCHANGED <<now, accounts, session, used>>

\* The INSERT returns an error for another reason, and has taken effect or not.
InsertFails(c) ==
    /\ client[c].pc = "insert"
    /\ Spend("fault")
    /\ \/ UNCHANGED accounts
       \/ ~IsDuplicate(Mine(c)) /\ Write(c, NewAccount(client[c]))
    /\ client' = [client EXCEPT ![c].pc = "reselect"]
    /\ UNCHANGED <<now, session>>

\* After a failed INSERT an account that is there is taken for somebody else's.
SelectAgain(c) ==
    /\ client[c].pc = "reselect"
    /\ IF Exists(Mine(c)) THEN client' = [client EXCEPT ![c] = Answer(@, FALSE, Mine(c))]
                          ELSE Fail(c)
    /\ UNCHANGED <<now, accounts, session, used>>

-----------------------------------------------------------------------------
(* Login and profiles *)

\* Fault: a session is issued for whoever asks.
AnyoneLogsIn(acc) == TRUE

MayLogIn(acc) == Exists(acc)

\* Fault: seconds are taken for milliseconds.
ExpiryInMillis(t) == t + 1000 * TTL

Expiry(t) == t + TTL

\* One call to the store: the account is there or the client has to register.
Login(c, k) ==
    /\ client[c].pc \in Finished
    /\ Spend("request")
    /\ LET req == [Idle EXCEPT !.kind = "login", !.key = k, !.at = now]
       IN  \/ /\ MayLogIn(accounts[k])
              /\ client' = [client EXCEPT ![c] = Show(req, accounts[k])]
              /\ session' = [session EXCEPT ![c] = [key |-> k, exp |-> Expiry(now)]]
           \/ /\ ~MayLogIn(accounts[k])
              /\ client' = [client EXCEPT ![c] = [req EXCEPT !.pc = "need_register"]]
              /\ UNCHANGED session
    /\ UNCHANGED <<now, accounts>>

\* Profile requests take the account from a token that has not expired.
UpdateProfile(c, f) ==
    Valid(session[c]) /\ Send(c, "update", session[c].key, "apply", f, Blank)

SyncProfile(c) ==
    Valid(session[c]) /\ Send(c, "sync", session[c].key, "check", Blank, Blank)

ViewProfile(c) ==
    /\ Valid(session[c])
    /\ client[c].pc \in Finished
    /\ Spend("request")
    /\ LET req == [Idle EXCEPT !.kind = "view", !.key = session[c].key, !.at = now]
           acc == accounts[req.key]
       IN  client' = [client EXCEPT ![c] = IF Exists(acc) THEN Show(req, acc)
                                           ELSE [req EXCEPT !.pc = "failed"]]
    /\ UNCHANGED <<now, accounts, session>>

\* A sync looks the account up, asks the platform and then updates.
CheckAccount(c) ==
    /\ client[c].pc = "check"
    /\ IF Exists(Mine(c)) THEN client' = [client EXCEPT ![c].pc = "fetch"] ELSE Fail(c)
    /\ UNCHANGED <<now, accounts, session, used>>

Fetch(c, f) ==
    /\ client[c].pc = "fetch"
    /\ client' = [client EXCEPT ![c].pc = "apply", ![c].fields = f]
    /\ UNCHANGED <<now, accounts, session, used>>

\* Fault: the token is believed, and the account it names is written.
UpdatesAnyway(c) ==
    /\ backend = "memory"
    /\ client[c].pc = "apply"
    /\ Write(c, [MemoryUpdate(Mine(c), client[c].fields) EXCEPT !.at = 0])
    /\ client' = [client EXCEPT ![c] = Show(@, accounts'[@.key])]
    /\ UNCHANGED <<now, session, used>>

UpdateInMemory(c) ==
    LET req == client[c]
        acc == MemoryUpdate(Mine(c), req.fields)
    IN  /\ backend = "memory"
        /\ req.pc = "apply"
        /\ IF Exists(Mine(c))
           THEN Write(c, acc) /\ client' = [client EXCEPT ![c] = Show(req, acc)]
           ELSE Fail(c) /\ UNCHANGED accounts
        /\ UNCHANGED <<now, session, used>>

ReadAccount(c) ==
    /\ backend = "mysql"
    /\ client[c].pc = "apply"
    /\ IF Exists(Mine(c))
       THEN client' = [client EXCEPT ![c].pc = "write", ![c].read = Hydrated(Mine(c))]
       ELSE Fail(c)
    /\ UNCHANGED <<now, accounts, session, used>>

WriteAccount(c) ==
    LET req == client[c]
    IN  /\ req.pc = "write"
        /\ Write(c, SqlUpdate(Mine(c), req.read, req.fields))
        /\ client' = [client EXCEPT ![c] = Show(req, SqlUpdate(req.read, req.read, req.fields))]
        /\ UNCHANGED <<now, session, used>>

\* The UPDATE takes effect but returns an error.
WriteWithoutReply(c) ==
    /\ client[c].pc = "write"
    /\ Spend("fault")
    /\ Write(c, SqlUpdate(Mine(c), client[c].read, client[c].fields))
    /\ Fail(c)
    /\ UNCHANGED <<now, session>>

\* Any other call fails without effect: a statement, or the platform.
RequestFails(c) ==
    /\ \/ backend = "mysql" /\ client[c].pc \in {"report", "reselect", "check", "apply", "write"}
       \/ client[c].pc = "fetch"
    /\ Spend("fault")
    /\ Fail(c)
    /\ UNCHANGED <<now, accounts, session>>

-----------------------------------------------------------------------------
(* The environment, and the specification *)

Tick == /\ now < MaxNow
        /\ now' = now + 1
        /\ UNCHANGED <<accounts, client, session, used>>

\* The memory store forgets the accounts, the clients keep their tokens.
Restart ==
    /\ Spend("restart")
    /\ client' = [c \in Clients |-> Idle]
    /\ accounts' = IF backend = "memory" THEN [k \in Keys |-> NoAccount] ELSE accounts
    /\ UNCHANGED <<now, session>>

Init ==
    /\ backend \in Backends
    /\ now = 0
    /\ accounts = [k \in Keys |-> NoAccount]
    /\ client = [c \in Clients |-> Idle]
    /\ session = [c \in Clients |-> NoSession]
    /\ used = [kind \in DOMAIN Budget |-> 0]

RegisterStep(c) ==
    \/ RegisterInMemory(c)
    \/ SelectAccount(c)
    \/ InsertAccount(c)
    \/ InsertRefused(c)
    \/ InsertFails(c)
    \/ SelectAgain(c)

ProfileStep(c) ==
    \/ CheckAccount(c)
    \/ \E f \in UpdateFields : Fetch(c, f)
    \/ UpdateInMemory(c)
    \/ ReadAccount(c)
    \/ WriteAccount(c)
    \/ WriteWithoutReply(c)

Step ==
    \/ \E c \in Clients :
          \/ \E k \in Keys, fields \in RegisterFields, extra \in ExtraFields :
                Register(c, k, fields, extra)
          \/ \E k \in Keys : Login(c, k)
          \/ \E f \in UpdateFields : UpdateProfile(c, f)
          \/ SyncProfile(c)
          \/ ViewProfile(c)
          \/ RegisterStep(c)
          \/ ProfileStep(c)
          \/ RequestFails(c)
    \/ Tick
    \/ Restart

Next == Step /\ UNCHANGED backend

Spec == Init /\ [][Next]_vars
=============================================================================
