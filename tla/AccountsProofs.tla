--------------------------- MODULE AccountsProofs ---------------------------
(***************************************************************************)
(* Proofs about Accounts, for either store and every number of accounts,   *)
(* clients, requests, failures and restarts.                               *)
(***************************************************************************)
EXTENDS AccountsProps, TLAPS

\* Overlaying profile fields gives profile fields.
LEMMA OverType ==
    ASSUME NEW f \in Profile, NEW g \in Profile
    PROVE  Over(f, g) \in Profile
BY DEF Over, FirstNonEmpty, Profile

LEMMA AccountTypes ==
    /\ Blank \in Profile
    /\ NoAccount \in Account
    /\ \A acc \in Account : Shown(acc) \in Profile /\ Hydrated(acc) \in Account
<1>1. Blank \in Profile
  BY FieldsAssumption
<1>2. NoAccount \in Account
  BY <1>1 DEF NoAccount, Account
<1>3. ASSUME NEW acc \in Account
      PROVE  Shown(acc) \in Profile /\ Hydrated(acc) \in Account
  <2>1. acc.col \in Profile /\ acc.extra \in Profile
    BY DEF Account
  <2>2. Shown(acc) \in Profile
    BY <2>1, OverType DEF Shown
  <2> QED BY <2>2 DEF Hydrated, Account
<1> QED BY <1>1, <1>2, <1>3

\* An update leaves the click id and the time of an account alone.
LEMMA UpdateTypes ==
    ASSUME NEW acc \in Account, NEW read \in Account, NEW f \in Profile
    PROVE  MemoryUpdate(acc, f) \in Account /\ SqlUpdate(acc, read, f) \in Account
<1>1. /\ acc.col \in Profile /\ acc.extra \in Profile
      /\ read.col \in Profile /\ read.extra \in Profile
  BY DEF Account
<1>2. /\ Over(f, acc.col) \in Profile /\ Over(f, read.col) \in Profile
      /\ Over(f, read.extra) \in Profile
  BY <1>1, OverType
<1> DEFINE new == Over(f, read.col)
<1>3. new.name \in Names /\ new.avatar \in Avatars
  BY <1>2 DEF Profile
<1> HIDE DEF new
<1>4. [acc.col EXCEPT !.name = new.name, !.avatar = new.avatar] \in Profile
  BY <1>1, <1>3 DEF Profile
<1>5. SqlUpdate(acc, read, f) \in Account
  <2>1. SqlUpdate(acc, read, f) =
          [acc EXCEPT !.col.name = new.name, !.col.avatar = new.avatar,
                      !.extra = Over(f, read.extra)]
    BY DEF SqlUpdate, new
  <2> DEFINE extra == Over(f, read.extra)
  <2>2. extra \in Profile
    BY <1>2
  <2> HIDE DEF extra
  <2>3. SqlUpdate(acc, read, f) =
          [acc EXCEPT !.col = [acc.col EXCEPT !.name = new.name, !.avatar = new.avatar],
                      !.extra = extra]
    BY <2>1, <1>1 DEF Account, Profile, extra
  <2> QED BY <1>4, <2>2, <2>3 DEF Account
<1>6. MemoryUpdate(acc, f) \in Account
  BY <1>2 DEF MemoryUpdate, Account
<1> QED BY <1>5, <1>6

LEMMA RequestTypes ==
    ASSUME NEW req \in Request
    PROVE  /\ NewAccount(req) \in Account
           /\ \A acc \in Account : Attributed(acc, req) \in Account
           /\ \A acc \in Account, new \in BOOLEAN : Answer(req, new, acc) \in Request
           /\ \A acc \in Account : Show(req, acc) \in Request
<1>1. req.fields \in Profile /\ req.extra \in Profile /\ req.at \in Times
  BY DEF Request
<1>2. NewAccount(req) \in Account
  BY <1>1, OverType DEF NewAccount, Account
<1>3. \A acc \in Account : Attributed(acc, req) \in Account
  BY <1>2 DEF Attributed
<1>4. ASSUME NEW acc \in Account, NEW new \in BOOLEAN
      PROVE  Answer(req, new, acc) \in Request
  <2> DEFINE shown == [Over(Shown(acc), req.fields) EXCEPT !.click = Shown(acc).click]
  <2>1. Shown(acc) \in Profile /\ Over(Shown(acc), req.fields) \in Profile
    BY <1>1, AccountTypes, OverType
  <2>2. shown \in Profile
    BY <2>1 DEF Profile
  <2>3. Answer(req, new, acc) = [req EXCEPT !.pc = "ok", !.new = new, !.since = acc.at,
                                            !.shown = shown]
    BY DEF Answer
  <2> HIDE DEF shown
  <2> QED BY <2>2, <2>3 DEF Request, PC, Finished, Account
<1>5. ASSUME NEW acc \in Account
      PROVE  Show(req, acc) \in Request
  <2> DEFINE shown == Shown(acc)
  <2>1. shown \in Profile
    BY AccountTypes
  <2>2. Show(req, acc) = [req EXCEPT !.pc = "ok", !.shown = shown, !.since = acc.at]
    BY DEF Show
  <2> HIDE DEF shown
  <2> QED BY <2>1, <2>2 DEF Request, PC, Finished, Account
<1> QED BY <1>2, <1>3, <1>4, <1>5

LEMMA IdleType == Idle \in Request /\ NoSession \in Session
<1>1. (CHOOSE k \in Keys : TRUE) \in Keys
  BY KeysAssumption
<1>2. 0 \in Times /\ 0 \in 0..(MaxNow + TTL)
  BY BoundsAssumption DEF Times
<1> QED BY <1>1, <1>2, AccountTypes DEF Idle, Request, NoSession, Session, PC, Finished, Kinds

-----------------------------------------------------------------------------
(* Types *)

\* Spending from a bound keeps the counters natural numbers.
LEMMA SpendType ==
    ASSUME used \in [DOMAIN Budget -> Nat], NEW kind \in DOMAIN Budget, Spend(kind)
    PROVE  used' \in [DOMAIN Budget -> Nat]
BY DEF Spend

LEMMA BudgetKinds == DOMAIN Budget = {"request", "fault", "restart"}
BY DEF Budget

LEMMA RequestTyped ==
    ASSUME StateTypes, NEW c \in Clients
    PROVE  /\ client[c] \in Request
           /\ client[c].key \in Keys
           /\ Mine(c) \in Account
           /\ session[c] \in Session
BY DEF StateTypes, Request, Mine

\* Sending a request is well typed.
LEMMA SendTypes ==
    ASSUME StateTypes, NEW c \in Clients, NEW kind \in Kinds, NEW key \in Keys, NEW pc \in PC,
           NEW fields \in Profile, NEW extra \in Profile,
           Send(c, kind, key, pc, fields, extra)
    PROVE  StateTypes'
<1>1. [Idle EXCEPT !.pc = pc, !.kind = kind, !.key = key,
                   !.fields = fields, !.extra = extra, !.at = now] \in Request
  BY IdleType DEF Request, StateTypes
<1>2. used' \in [DOMAIN Budget -> Nat]
  BY SpendType, BudgetKinds DEF Send, StateTypes
<1> QED BY <1>1, <1>2 DEF Send, StateTypes

\* So is moving a request on, with or without a new row.
LEMMA MoveTypes ==
    ASSUME StateTypes, NEW c \in Clients, NEW req \in Request,
           client' = [client EXCEPT ![c] = req],
           \/ UNCHANGED accounts
           \/ \E acc \in Account : Write(c, acc),
           used' \in [DOMAIN Budget -> Nat],
           UNCHANGED <<now, session>>
    PROVE  StateTypes'
<1>1. accounts' \in [Keys -> Account]
  BY RequestTyped DEF StateTypes, Write
<1> QED BY <1>1 DEF StateTypes

\* Every step of a registration keeps the types.
LEMMA RegisterStepTypes ==
    ASSUME StateTypes, NEW c \in Clients, RegisterStep(c)
    PROVE  StateTypes'
<1> DEFINE req == client[c]
           acc == Mine(c)
<1>1. /\ req \in Request /\ acc \in Account
      /\ NewAccount(req) \in Account /\ Attributed(acc, req) \in Account
  BY RequestTyped, RequestTypes
<1>2. \A pc \in PC : [req EXCEPT !.pc = pc] \in Request
  BY <1>1 DEF Request
<1>3. \A a \in Account, new \in BOOLEAN : Answer(req, new, a) \in Request
  BY <1>1, RequestTypes
<1>4. used \in [DOMAIN Budget -> Nat]
  BY DEF StateTypes
<1>5. {"insert", "reselect", "failed"} \subseteq PC
  BY DEF PC, Finished
<1>a. (~Exists(acc)) \in BOOLEAN
  BY DEF Exists
<1> HIDE DEF req, acc
<1>6. CASE RegisterInMemory(c)
  <2>1. client' = [client EXCEPT ![c] = Answer(req, ~Exists(acc), Attributed(acc, req))]
    BY <1>6 DEF RegisterInMemory, req, acc
  <2>2. Write(c, Attributed(acc, req)) /\ UNCHANGED <<now, session, used>>
    BY <1>6 DEF RegisterInMemory, req, acc
  <2>3. Answer(req, ~Exists(acc), Attributed(acc, req)) \in Request
    BY <1>1, <1>3, <1>a
  <2> QED BY <1>1, <1>4, <2>1, <2>2, <2>3, MoveTypes
<1>7. CASE SelectAccount(c)
  <2>1. CASE Exists(acc)
    <3>1. client' = [client EXCEPT ![c] = Answer(req, FALSE, acc)]
      BY <1>7, <2>1 DEF SelectAccount, req, acc
    <3> QED BY <1>7, <3>1, <1>1, <1>3, <1>4, MoveTypes DEF SelectAccount
  <2>2. CASE ~Exists(acc)
    <3>1. client' = [client EXCEPT ![c] = [req EXCEPT !.pc = "insert"]]
      BY <1>7, <2>2 DEF SelectAccount, req, acc
    <3> QED BY <1>7, <3>1, <1>2, <1>4, <1>5, MoveTypes DEF SelectAccount
  <2> QED BY <2>1, <2>2
<1>8. CASE InsertAccount(c)
  <2>1. /\ client' = [client EXCEPT ![c] = Answer(req, TRUE, NewAccount(req))]
        /\ Write(c, NewAccount(req)) /\ UNCHANGED <<now, session, used>>
    BY <1>8 DEF InsertAccount, req
  <2> QED BY <1>1, <1>3, <1>4, <2>1, MoveTypes
<1>9. CASE InsertRefused(c)
  <2>1. client' = [client EXCEPT ![c] = [req EXCEPT !.pc = "reselect"]]
    BY <1>9 DEF InsertRefused, req
  <2> QED BY <1>9, <2>1, <1>2, <1>4, <1>5, MoveTypes DEF InsertRefused
<1>10. CASE InsertFails(c)
  <2>1. client' = [client EXCEPT ![c] = [req EXCEPT !.pc = "reselect"]]
    BY <1>10 DEF InsertFails, req
  <2>2. used' \in [DOMAIN Budget -> Nat]
    BY <1>10, <1>4, SpendType, BudgetKinds DEF InsertFails
  <2>3. UNCHANGED accounts \/ Write(c, NewAccount(req))
    BY <1>10 DEF InsertFails, req
  <2> QED BY <1>10, <1>1, <2>1, <2>2, <2>3, <1>2, <1>5, MoveTypes DEF InsertFails
<1>11. CASE SelectAgain(c)
  <2>1. CASE Exists(acc)
    <3>1. client' = [client EXCEPT ![c] = Answer(req, FALSE, acc)]
      BY <1>11, <2>1 DEF SelectAgain, req, acc
    <3> QED BY <1>11, <3>1, <1>1, <1>3, <1>4, MoveTypes DEF SelectAgain
  <2>2. CASE ~Exists(acc)
    <3>1. client' = [client EXCEPT ![c] = [req EXCEPT !.pc = "failed"]]
      BY <1>11, <2>2 DEF SelectAgain, Fail, req, acc
    <3> QED BY <1>11, <3>1, <1>2, <1>4, <1>5, MoveTypes DEF SelectAgain
  <2> QED BY <2>1, <2>2
<1> QED BY <1>6, <1>7, <1>8, <1>9, <1>10, <1>11 DEF RegisterStep

\* Every step of a profile update or a sync keeps the types.
LEMMA ProfileStepTypes ==
    ASSUME StateTypes, NEW c \in Clients, ProfileStep(c)
    PROVE  StateTypes'
<1> DEFINE req == client[c]
           acc == Mine(c)
<1>1. /\ req \in Request /\ acc \in Account
      /\ req.fields \in Profile /\ req.read \in Account
  BY RequestTyped DEF Request
<1>2. \A pc \in PC : [req EXCEPT !.pc = pc] \in Request
  BY <1>1 DEF Request
<1>3. \A a \in Account : Show(req, a) \in Request
  BY <1>1, RequestTypes
<1>4. used \in [DOMAIN Budget -> Nat]
  BY DEF StateTypes
<1>5. {"fetch", "apply", "write", "failed"} \subseteq PC
  BY DEF PC, Finished
<1>6. Fail(c) <=> client' = [client EXCEPT ![c] = [req EXCEPT !.pc = "failed"]]
  BY DEF Fail, req
<1> HIDE DEF req, acc
<1>7. CASE CheckAccount(c)
  <2>1. CASE Exists(acc)
    <3>1. client' = [client EXCEPT ![c] = [req EXCEPT !.pc = "fetch"]]
      BY <1>7, <2>1 DEF CheckAccount, req, acc
    <3> QED BY <1>7, <3>1, <1>2, <1>4, <1>5, MoveTypes DEF CheckAccount
  <2>2. CASE ~Exists(acc)
    <3>1. Fail(c)
      BY <1>7, <2>2 DEF CheckAccount, acc
    <3> QED BY <1>7, <3>1, <1>2, <1>4, <1>5, <1>6, MoveTypes DEF CheckAccount
  <2> QED BY <2>1, <2>2
<1>8. ASSUME NEW f \in UpdateFields, Fetch(c, f)
      PROVE  StateTypes'
  <2>1. [req EXCEPT !.pc = "apply", !.fields = f] \in Request
    BY <1>1, <1>5, FieldsAssumption DEF Request
  <2>2. client' = [client EXCEPT ![c] = [req EXCEPT !.pc = "apply", !.fields = f]]
    BY <1>8 DEF Fetch, req
  <2> QED BY <1>8, <1>4, <2>1, <2>2, MoveTypes DEF Fetch
<1>9. CASE UpdateInMemory(c)
  <2> DEFINE new == MemoryUpdate(acc, req.fields)
  <2>1. new \in Account
    BY <1>1, UpdateTypes
  <2>2. UNCHANGED <<now, session, used>>
    BY <1>9 DEF UpdateInMemory
  <2>3. CASE Exists(acc)
    <3>1. Write(c, new) /\ client' = [client EXCEPT ![c] = Show(req, new)]
      BY <1>9, <2>3 DEF UpdateInMemory, req, acc, new
    <3> HIDE DEF new
    <3> QED BY <2>1, <2>2, <3>1, <1>3, <1>4, MoveTypes
  <2>4. CASE ~Exists(acc)
    <3>1. Fail(c) /\ UNCHANGED accounts
      BY <1>9, <2>4 DEF UpdateInMemory, acc
    <3> QED BY <2>2, <3>1, <1>2, <1>4, <1>5, <1>6, MoveTypes
  <2> QED BY <2>3, <2>4
<1>10. CASE ReadAccount(c)
  <2>1. CASE Exists(acc)
    <3>1. [req EXCEPT !.pc = "write", !.read = Hydrated(acc)] \in Request
      BY <1>1, <1>5, AccountTypes DEF Request
    <3>2. client' = [client EXCEPT ![c] = [req EXCEPT !.pc = "write", !.read = Hydrated(acc)]]
      BY <1>10, <2>1 DEF ReadAccount, req, acc
    <3> QED BY <1>10, <3>1, <3>2, <1>4, MoveTypes DEF ReadAccount
  <2>2. CASE ~Exists(acc)
    <3>1. Fail(c)
      BY <1>10, <2>2 DEF ReadAccount, acc
    <3> QED BY <1>10, <3>1, <1>2, <1>4, <1>5, <1>6, MoveTypes DEF ReadAccount
  <2> QED BY <2>1, <2>2
<1>11. CASE WriteAccount(c)
  <2> DEFINE new  == SqlUpdate(acc, req.read, req.fields)
             view == SqlUpdate(req.read, req.read, req.fields)
  <2>1. new \in Account /\ view \in Account
    BY <1>1, UpdateTypes
  <2>2. /\ Write(c, new) /\ client' = [client EXCEPT ![c] = Show(req, view)]
        /\ UNCHANGED <<now, session, used>>
    BY <1>11 DEF WriteAccount, req, acc
  <2> HIDE DEF new, view
  <2> QED BY <2>1, <2>2, <1>3, <1>4, MoveTypes
<1>12. CASE WriteWithoutReply(c)
  <2> DEFINE new == SqlUpdate(acc, req.read, req.fields)
  <2>1. new \in Account
    BY <1>1, UpdateTypes
  <2>2. Write(c, new) /\ Fail(c) /\ UNCHANGED <<now, session>>
    BY <1>12 DEF WriteWithoutReply, req, acc
  <2>3. used' \in [DOMAIN Budget -> Nat]
    BY <1>12, <1>4, SpendType, BudgetKinds DEF WriteWithoutReply
  <2> HIDE DEF new
  <2> QED BY <2>1, <2>2, <2>3, <1>2, <1>5, <1>6, MoveTypes
<1> QED BY <1>7, <1>8, <1>9, <1>10, <1>11, <1>12 DEF ProfileStep

\* Logging in and looking at a profile keep the types.
LEMMA LoginTypes ==
    ASSUME StateTypes, NEW c \in Clients,
           (\E k \in Keys : Login(c, k)) \/ ViewProfile(c)
    PROVE  StateTypes'
<1>1. CASE ViewProfile(c)
  <2> DEFINE req == [Idle EXCEPT !.kind = "view", !.key = session[c].key, !.at = now]
             acc == accounts[req.key]
  <2>1. req \in Request
    BY IdleType, RequestTyped DEF Request, Kinds, Session, StateTypes
  <2>2. acc \in Account
    BY <2>1 DEF Request, StateTypes
  <2>3. Show(req, acc) \in Request /\ [req EXCEPT !.pc = "failed"] \in Request
    <3>1. Show(req, acc) \in Request
      BY <2>1, <2>2, RequestTypes
    <3> HIDE DEF req
    <3> QED BY <3>1, <2>1 DEF Request, PC, Finished
  <2>4. /\ client' = [client EXCEPT ![c] = IF Exists(acc) THEN Show(req, acc)
                                             ELSE [req EXCEPT !.pc = "failed"]]
        /\ UNCHANGED <<now, accounts, session>>
    BY <1>1 DEF ViewProfile
  <2>5. used' \in [DOMAIN Budget -> Nat]
    BY <1>1, SpendType, BudgetKinds DEF ViewProfile, StateTypes
  <2> HIDE DEF req, acc
  <2> QED BY <2>3, <2>4, <2>5 DEF StateTypes
<1>2. ASSUME NEW k \in Keys, Login(c, k)
      PROVE  StateTypes'
  <2> DEFINE req == [Idle EXCEPT !.kind = "login", !.key = k, !.at = now]
  <2>1. req \in Request /\ accounts[k] \in Account
    BY IdleType DEF Request, Kinds, StateTypes
  <2>2. Show(req, accounts[k]) \in Request /\ [req EXCEPT !.pc = "need_register"] \in Request
    <3>1. Show(req, accounts[k]) \in Request
      BY <2>1, RequestTypes
    <3> HIDE DEF req
    <3> QED BY <3>1, <2>1 DEF Request, PC, Finished
  <2>3. used' \in [DOMAIN Budget -> Nat]
    BY <1>2, SpendType, BudgetKinds DEF Login, StateTypes
  <2>4. [key |-> k, exp |-> Expiry(now)] \in Session
    BY BoundsAssumption DEF Session, Expiry, Times, StateTypes
  <2>5. /\ UNCHANGED <<now, accounts>>
        /\ \/ /\ client' = [client EXCEPT ![c] = Show(req, accounts[k])]
              /\ session' = [session EXCEPT ![c] = [key |-> k, exp |-> Expiry(now)]]
           \/ /\ client' = [client EXCEPT ![c] = [req EXCEPT !.pc = "need_register"]]
              /\ UNCHANGED session
    BY <1>2 DEF Login
  <2> HIDE DEF req
  <2> QED BY <2>2, <2>3, <2>4, <2>5 DEF StateTypes
<1> QED BY <1>1, <1>2

\* Type correctness is inductive.
LEMMA TypeInit == Init => StateTypes
BY IdleType, AccountTypes, BoundsAssumption DEF Init, StateTypes, Times

LEMMA TypeStep ==
    ASSUME StateTypes, [Next]_vars
    PROVE  StateTypes'
<1>1. ASSUME NEW c \in Clients, NEW k \in Keys, NEW fields \in RegisterFields,
             NEW extra \in ExtraFields, Register(c, k, fields, extra)
      PROVE  StateTypes'
  BY <1>1, SendTypes, FieldsAssumption DEF Register, Kinds, PC
<1>2. ASSUME NEW c \in Clients, NEW f \in UpdateFields, UpdateProfile(c, f)
      PROVE  StateTypes'
  <2>1. session[c].key \in Keys
    BY RequestTyped DEF Session
  <2> QED BY <1>2, <2>1, SendTypes, FieldsAssumption DEF UpdateProfile, Kinds, PC
<1>3. ASSUME NEW c \in Clients, SyncProfile(c)
      PROVE  StateTypes'
  <2>1. session[c].key \in Keys
    BY RequestTyped DEF Session
  <2> QED BY <1>3, <2>1, SendTypes, FieldsAssumption DEF SyncProfile, Kinds, PC
<1>4. ASSUME NEW c \in Clients, RequestFails(c)
      PROVE  StateTypes'
  <2>1. used' \in [DOMAIN Budget -> Nat]
    BY <1>4, SpendType, BudgetKinds DEF RequestFails, StateTypes
  <2>2. [client[c] EXCEPT !.pc = "failed"] \in Request
    BY RequestTyped DEF Request, PC, Finished
  <2> QED BY <1>4, <2>1, <2>2, MoveTypes DEF RequestFails, Fail
<1>5. CASE Tick
  BY <1>5, BoundsAssumption DEF Tick, StateTypes, Times
<1>6. CASE Restart
  BY <1>6, IdleType, AccountTypes, SpendType, BudgetKinds DEF Restart, StateTypes
<1>7. CASE UNCHANGED vars
  BY <1>7 DEF vars, StateTypes
<1> QED BY <1>1, <1>2, <1>3, <1>4, <1>5, <1>6, <1>7,
           RegisterStepTypes, ProfileStepTypes, LoginTypes DEF Next, Step

\* Every reachable state is well typed, and no token lives longer than TTL.
THEOREM AccountsTypeCorrect == Spec => []TypeOK
<1>1. Init => TypeOK
  BY TypeInit DEF Init, TypeOK
<1>2. TypeOK /\ [Next]_vars => TypeOK'
  BY TypeStep DEF TypeOK, Next, vars
<1> QED BY <1>1, <1>2, PTL DEF Spec

-----------------------------------------------------------------------------
(* Registration *)

\* What identifies the first registration of an account stays in its row.
MarkKept(old, new) ==
    Exists(old) => /\ Exists(new)
                   /\ new.at = old.at
                   /\ new.col.click = old.col.click
                   /\ new.extra.click = old.extra.click

MarksKept == \A k \in Keys : MarkKept(accounts[k], accounts'[k])

\* The click id an account shows is made of the two that stay.
LEMMA MarkShown ==
    ASSUME NEW old, NEW new, Exists(old), MarkKept(old, new)
    PROVE  Shown(new).click = Shown(old).click
BY DEF MarkKept, Shown, Over

\* An update leaves the click id and the time of an account alone.
LEMMA UpdateMark ==
    ASSUME NEW acc \in Account, NEW f \in Profile, f.click = Empty
    PROVE  /\ MarkKept(acc, MemoryUpdate(acc, f))
           /\ \A read \in Account :
                 read.extra.click = acc.extra.click => MarkKept(acc, SqlUpdate(acc, read, f))
<1>1. acc.col \in Profile /\ acc.extra \in Profile
  BY DEF Account
<1>2. MarkKept(acc, MemoryUpdate(acc, f))
  BY <1>1 DEF MarkKept, MemoryUpdate, Over, FirstNonEmpty, Exists, Account
<1>3. ASSUME NEW read \in Account, read.extra.click = acc.extra.click
      PROVE  MarkKept(acc, SqlUpdate(acc, read, f))
  BY <1>1, <1>3 DEF MarkKept, SqlUpdate, Over, FirstNonEmpty, Exists, Account, Profile
<1> QED BY <1>2, <1>3

\* The steps of one client: what it takes to keep the invariant.
LEMMA StepKeeps ==
    ASSUME StateTypes, UpdateKeepsClick, AnswersAgree, OneIsNew,
           NEW c \in Clients, NEW req \in Request,
           client' = [client EXCEPT ![c] = req],
           MarksKept,
           UpdateKept(req, accounts'[req.key]),
           Agrees(req, accounts'[req.key]),
           Registered(req) /\ req.new =>
               \A d \in Clients \ {c} :
                  ~(Registered(client[d]) /\ client[d].new /\ client[d].key = req.key)
    PROVE  UpdateKeepsClick' /\ AnswersAgree' /\ OneIsNew'
<1>1. /\ client'[c] = req
      /\ \A d \in Clients \ {c} : client'[d] = client[d]
  BY DEF StateTypes
<1>2. ASSUME NEW d \in Clients \ {c}
      PROVE  /\ UpdateKept(client[d], accounts'[client[d].key])
             /\ Agrees(client[d], accounts'[client[d].key])
  <2> DEFINE old == accounts[client[d].key]
             new == accounts'[client[d].key]
  <2>1. MarkKept(old, new)
    BY RequestTyped DEF MarksKept
  <2>2. UpdateKept(client[d], old) /\ Agrees(client[d], old)
    BY DEF UpdateKeepsClick, AnswersAgree, Mine
  <2> HIDE DEF old, new
  <2>3. UpdateKept(client[d], new)
    BY <2>1, <2>2 DEF UpdateKept, MarkKept
  <2>4. Agrees(client[d], new)
    BY <2>1, <2>2, MarkShown DEF Agrees, MarkKept
  <2> QED BY <2>3, <2>4 DEF new
<1>3. UpdateKeepsClick' /\ AnswersAgree'
  BY <1>1, <1>2 DEF UpdateKeepsClick, AnswersAgree, Mine
<1>4. OneIsNew'
  BY <1>1 DEF OneIsNew
<1> QED BY <1>3, <1>4

\* A write to one row keeps all marks if it keeps the mark of that row.
LEMMA WriteKeeps ==
    ASSUME StateTypes, NEW c \in Clients, NEW new \in Account,
           Write(c, new), MarkKept(Mine(c), new)
    PROVE  MarksKept /\ accounts'[client[c].key] = new
BY RequestTyped DEF Write, MarksKept, MarkKept, Mine, StateTypes

LEMMA NoWriteKeeps ==
    ASSUME UNCHANGED accounts
    PROVE  MarksKept
BY DEF MarksKept, MarkKept

\* An answer is about the account it is made from.
LEMMA AnswerAgrees ==
    ASSUME NEW req \in Request, NEW acc \in Account, NEW new \in BOOLEAN, Exists(acc)
    PROVE  LET ans == Answer(req, new, acc)
           IN  /\ ans \in Request
               /\ Agrees(ans, acc)
               /\ UpdateKept(ans, acc)
               /\ ans.key = req.key
               /\ ans.new = new
<1> DEFINE over  == Over(Shown(acc), req.fields)
           shown == [over EXCEPT !.click = Shown(acc).click]
           ans   == Answer(req, new, acc)
<1>1. req.fields \in Profile /\ Shown(acc) \in Profile
  BY AccountTypes DEF Request
<1>2. over \in Profile
  BY <1>1, OverType
<1>3. shown.click = Shown(acc).click
  BY <1>2 DEF Profile
<1>4. ans = [req EXCEPT !.pc = "ok", !.new = new, !.since = acc.at, !.shown = shown]
  BY DEF Answer
<1> HIDE DEF shown, over
<1>5. /\ ans.pc = "ok" /\ ans.since = acc.at /\ ans.shown = shown
      /\ ans.key = req.key /\ ans.new = new
  BY <1>4 DEF Request
<1>6. ans \in Request
  BY RequestTypes
<1> HIDE DEF ans
<1>7. Agrees(ans, acc) /\ UpdateKept(ans, acc)
  BY <1>3, <1>5 DEF Agrees, UpdateKept
<1> QED BY <1>5, <1>6, <1>7 DEF ans

\* Whoever has been answered has an account behind the answer: while there is
\* no account, nobody has been told to be new.
LEMMA NobodyNewYet ==
    ASSUME AnswersAgree, NEW k \in Keys, ~Exists(accounts[k])
    PROVE  \A d \in Clients : ~(Registered(client[d]) /\ client[d].new /\ client[d].key = k)
BY DEF AnswersAgree, Agrees, Mine

LEMMA RegisterStepKeeps ==
    ASSUME StateTypes, UpdateKeepsClick, AnswersAgree, OneIsNew, NEW c \in Clients, RegisterStep(c)
    PROVE  UpdateKeepsClick' /\ AnswersAgree' /\ OneIsNew' /\ MarksKept
<1> DEFINE req == client[c]
           acc == Mine(c)
           k   == client[c].key
<1>1. /\ req \in Request /\ acc \in Account /\ k \in Keys
      /\ NewAccount(req) \in Account /\ Attributed(acc, req) \in Account
  BY RequestTyped, RequestTypes
<1>2. acc = accounts[k] /\ req.key = k
  BY DEF Mine
<1>3. Exists(NewAccount(req)) /\ Exists(Attributed(acc, req))
  BY <1>1, BoundsAssumption DEF NewAccount, Attributed, Exists, Request, Times
<1>4. ASSUME NEW pc \in {"insert", "reselect", "failed"}, MarksKept,
             client' = [client EXCEPT ![c] = [req EXCEPT !.pc = pc]]
      PROVE  UpdateKeepsClick' /\ AnswersAgree' /\ OneIsNew' /\ MarksKept
  <2> DEFINE new == [req EXCEPT !.pc = pc]
  <2>1. new \in Request
    BY <1>1 DEF Request, PC, Finished
  <2>2. new.pc = pc
    BY <1>1 DEF Request
  <2> HIDE DEF new
  <2>3. /\ UpdateKept(new, accounts'[new.key])
        /\ Agrees(new, accounts'[new.key]) /\ ~Registered(new)
    BY <2>2 DEF UpdateKept, Agrees, Registered
  <2>4. client' = [client EXCEPT ![c] = new]
    BY <1>4 DEF new
  <2> QED BY <1>4, <2>1, <2>3, <2>4, StepKeeps
<1>5. ASSUME NEW a \in Account, NEW new \in BOOLEAN, Exists(a), MarksKept,
             accounts'[k] = a,
             client' = [client EXCEPT ![c] = Answer(req, new, a)],
             new => ~Exists(acc)
      PROVE  UpdateKeepsClick' /\ AnswersAgree' /\ OneIsNew' /\ MarksKept
  <2> DEFINE ans == Answer(req, new, a)
  <2>1. /\ ans \in Request /\ Agrees(ans, a) /\ UpdateKept(ans, a)
        /\ ans.key = k /\ ans.new = new
    BY <1>1, <1>5, AnswerAgrees
  <2>2. client' = [client EXCEPT ![c] = ans]
    BY <1>5
  <2> HIDE DEF ans, req, acc, k
  <2>3. ans.new => \A d \in Clients \ {c} :
                      ~(Registered(client[d]) /\ client[d].new /\ client[d].key = k)
    BY <1>1, <1>2, <1>5, <2>1, NobodyNewYet
  <2> QED BY <1>5, <2>1, <2>2, <2>3, StepKeeps
<1>6. ASSUME ~Exists(acc), Write(c, NewAccount(req))
      PROVE  MarksKept /\ accounts'[k] = NewAccount(req)
  BY <1>1, <1>6, WriteKeeps DEF MarkKept
<1> HIDE DEF req, acc, k
<1>7. CASE RegisterInMemory(c)
  <2>1. /\ client' = [client EXCEPT ![c] = Answer(req, ~Exists(acc), Attributed(acc, req))]
        /\ Write(c, Attributed(acc, req))
    BY <1>7 DEF RegisterInMemory, req, acc
  <2>2. MarkKept(acc, Attributed(acc, req))
    BY DEF MarkKept, Attributed
  <2>3. MarksKept /\ accounts'[k] = Attributed(acc, req)
    BY <1>1, <2>1, <2>2, WriteKeeps DEF acc, k
  <2>4. (~Exists(acc)) \in BOOLEAN
    BY DEF Exists
  <2> QED BY <1>1, <1>3, <1>5, <2>1, <2>3, <2>4
<1>8. CASE SelectAccount(c)
  <2>1. MarksKept /\ accounts'[k] = acc
    BY <1>2, <1>8, NoWriteKeeps DEF SelectAccount
  <2>2. CASE Exists(acc)
    <3>1. client' = [client EXCEPT ![c] = Answer(req, FALSE, acc)]
      BY <1>8, <2>2 DEF SelectAccount, req, acc
    <3> QED BY <1>1, <1>5, <2>1, <2>2, <3>1
  <2>3. CASE ~Exists(acc)
    <3>1. client' = [client EXCEPT ![c] = [req EXCEPT !.pc = "insert"]]
      BY <1>8, <2>3 DEF SelectAccount, req, acc
    <3> QED BY <1>4, <2>1, <3>1
  <2> QED BY <2>2, <2>3
<1>9. CASE InsertAccount(c)
  <2>1. /\ client' = [client EXCEPT ![c] = Answer(req, TRUE, NewAccount(req))]
        /\ Write(c, NewAccount(req)) /\ ~Exists(acc)
    BY <1>9 DEF InsertAccount, IsDuplicate, req, acc
  <2> QED BY <1>1, <1>3, <1>5, <1>6, <2>1
<1>10. CASE InsertRefused(c)
  <2>1. client' = [client EXCEPT ![c] = [req EXCEPT !.pc = "reselect"]] /\ MarksKept
    BY <1>10, NoWriteKeeps DEF InsertRefused, req
  <2> QED BY <1>4, <2>1
<1>11. CASE InsertFails(c)
  <2>1. client' = [client EXCEPT ![c] = [req EXCEPT !.pc = "reselect"]]
    BY <1>11 DEF InsertFails, req
  <2>2. UNCHANGED accounts \/ (~Exists(acc) /\ Write(c, NewAccount(req)))
    BY <1>11 DEF InsertFails, IsDuplicate, req, acc
  <2>3. MarksKept
    BY <1>6, <2>2, NoWriteKeeps
  <2> QED BY <1>4, <2>1, <2>3
<1>12. CASE SelectAgain(c)
  <2>1. MarksKept /\ accounts'[k] = acc
    BY <1>2, <1>12, NoWriteKeeps DEF SelectAgain
  <2>2. CASE Exists(acc)
    <3>1. client' = [client EXCEPT ![c] = Answer(req, FALSE, acc)]
      BY <1>12, <2>2 DEF SelectAgain, req, acc
    <3> QED BY <1>1, <1>5, <2>1, <2>2, <3>1
  <2>3. CASE ~Exists(acc)
    <3>1. client' = [client EXCEPT ![c] = [req EXCEPT !.pc = "failed"]]
      BY <1>12, <2>3 DEF SelectAgain, Fail, req, acc
    <3> QED BY <1>4, <2>1, <3>1
  <2> QED BY <2>2, <2>3
<1> QED BY <1>7, <1>8, <1>9, <1>10, <1>11, <1>12 DEF RegisterStep

\* Sending a request, and giving one up, leave the accounts alone.
LEMMA QuietKeeps ==
    ASSUME StateTypes, UpdateKeepsClick, AnswersAgree, OneIsNew, NEW c \in Clients,
           NEW req \in Request,
           client' = [client EXCEPT ![c] = req], UNCHANGED accounts,
           ~Registered(req), UpdateKept(req, accounts[req.key])
    PROVE  UpdateKeepsClick' /\ AnswersAgree' /\ OneIsNew' /\ MarksKept
<1>1. MarksKept
  BY NoWriteKeeps
<1>2. Agrees(req, accounts'[req.key])
  BY DEF Agrees
<1> QED BY <1>1, <1>2, StepKeeps

LEMMA SendKeeps ==
    ASSUME StateTypes, UpdateKeepsClick, AnswersAgree, OneIsNew, NEW c \in Clients,
           NEW kind \in Kinds, NEW key \in Keys, NEW pc \in {"report", "check", "apply"},
           NEW fields \in Profile, NEW extra \in Profile,
           Send(c, kind, key, pc, fields, extra),
           pc # "report" => kind # "register",
           pc = "apply" => fields.click = Empty
    PROVE  UpdateKeepsClick' /\ AnswersAgree' /\ OneIsNew' /\ MarksKept
<1> DEFINE req == [Idle EXCEPT !.pc = pc, !.kind = kind, !.key = key,
                               !.fields = fields, !.extra = extra, !.at = now]
<1>1. req \in Request
  BY IdleType DEF Request, PC, StateTypes
<1>2. req.pc = pc /\ req.kind = kind /\ req.fields = fields
  BY IdleType DEF Request
<1>3. client' = [client EXCEPT ![c] = req] /\ UNCHANGED accounts
  BY DEF Send
<1> HIDE DEF req
<1> QED BY <1>1, <1>2, <1>3, QuietKeeps DEF Registered, UpdateKept

LEMMA ProfileStepKeeps ==
    ASSUME StateTypes, UpdateKeepsClick, AnswersAgree, OneIsNew, NEW c \in Clients, ProfileStep(c)
    PROVE  UpdateKeepsClick' /\ AnswersAgree' /\ OneIsNew' /\ MarksKept
<1> DEFINE req == client[c]
           acc == Mine(c)
           k   == client[c].key
<1>1. /\ req \in Request /\ acc \in Account /\ k \in Keys
      /\ req.fields \in Profile /\ req.read \in Account
  BY RequestTyped DEF Request
<1>2. acc = accounts[k] /\ req.key = k
  BY DEF Mine
<1>3. UpdateKept(req, acc)
  BY DEF UpdateKeepsClick
<1>4. ASSUME NEW new \in Request, new.key = k, ~Registered(new), MarksKept,
             UpdateKept(new, accounts'[k]),
             client' = [client EXCEPT ![c] = new]
      PROVE  UpdateKeepsClick' /\ AnswersAgree' /\ OneIsNew' /\ MarksKept
  BY <1>4, StepKeeps DEF Agrees
<1>5. ASSUME NEW a \in Account, req.kind # "register", MarksKept,
             client' = [client EXCEPT ![c] = Show(req, a)]
      PROVE  UpdateKeepsClick' /\ AnswersAgree' /\ OneIsNew' /\ MarksKept
  <2> DEFINE shown == Shown(a)
             new   == Show(req, a)
  <2>1. new = [req EXCEPT !.pc = "ok", !.shown = shown, !.since = a.at]
    BY DEF Show
  <2>2. new \in Request
    BY <1>1, RequestTypes
  <2> HIDE DEF shown
  <2>3. new.pc = "ok" /\ new.kind = req.kind /\ new.key = k
    BY <1>1, <2>1 DEF Request
  <2>4. client' = [client EXCEPT ![c] = new]
    BY <1>5
  <2> HIDE DEF new, req
  <2> QED BY <1>4, <1>5, <2>2, <2>3, <2>4 DEF Registered, UpdateKept
<1>6. ASSUME Fail(c), MarksKept
      PROVE  UpdateKeepsClick' /\ AnswersAgree' /\ OneIsNew' /\ MarksKept
  <2> DEFINE new == [req EXCEPT !.pc = "failed"]
  <2>1. new \in Request /\ new.pc = "failed" /\ new.key = k
    BY <1>1 DEF Request, PC, Finished
  <2>2. client' = [client EXCEPT ![c] = new]
    BY <1>6 DEF Fail
  <2> HIDE DEF new
  <2> QED BY <1>4, <1>6, <2>1, <2>2 DEF Registered, UpdateKept
<1> HIDE DEF req, acc, k
<1>7. CASE CheckAccount(c)
  <2>1. MarksKept
    BY <1>7, NoWriteKeeps DEF CheckAccount
  <2>2. CASE Exists(acc)
    <3> DEFINE new == [req EXCEPT !.pc = "fetch"]
    <3>1. client' = [client EXCEPT ![c] = new] /\ req.pc = "check"
      BY <1>7, <2>2 DEF CheckAccount, req, acc
    <3>2. /\ new \in Request /\ new.pc = "fetch" /\ new.key = k
          /\ new.kind = req.kind
      BY <1>1, <1>2 DEF Request, PC
    <3> HIDE DEF new
    <3> QED BY <1>3, <1>4, <2>1, <3>1, <3>2 DEF Registered, UpdateKept
  <2>3. CASE ~Exists(acc)
    BY <1>6, <1>7, <2>1, <2>3 DEF CheckAccount, acc
  <2> QED BY <2>2, <2>3
<1>8. ASSUME NEW f \in UpdateFields, Fetch(c, f)
      PROVE  UpdateKeepsClick' /\ AnswersAgree' /\ OneIsNew' /\ MarksKept
  <2> DEFINE new == [req EXCEPT !.pc = "apply", !.fields = f]
  <2>1. MarksKept
    BY <1>8, NoWriteKeeps DEF Fetch
  <2>2. client' = [client EXCEPT ![c] = new] /\ req.pc = "fetch"
    BY <1>8 DEF Fetch, req
  <2>3. /\ new \in Request /\ new.pc = "apply" /\ new.key = k
        /\ new.kind = req.kind /\ new.fields = f
    BY <1>1, <1>2, FieldsAssumption DEF Request, PC
  <2> HIDE DEF new
  <2> QED BY <1>3, <1>4, <2>1, <2>2, <2>3, FieldsAssumption DEF Registered, UpdateKept
<1>9. CASE UpdateInMemory(c)
  <2> DEFINE new == MemoryUpdate(acc, req.fields)
  <2>1. CASE Exists(acc)
    <3>1. Write(c, new) /\ client' = [client EXCEPT ![c] = Show(req, new)] /\ req.pc = "apply"
      BY <1>9, <2>1 DEF UpdateInMemory, req, acc, new
    <3>2. req.fields.click = Empty /\ req.kind # "register"
      BY <1>3, <3>1 DEF UpdateKept
    <3>3. new \in Account /\ MarkKept(acc, new)
      BY <1>1, <3>2, UpdateTypes, UpdateMark
    <3> HIDE DEF new
    <3>4. MarksKept
      BY <3>1, <3>3, WriteKeeps DEF acc
    <3> QED BY <1>5, <3>1, <3>2, <3>3, <3>4
  <2>2. CASE ~Exists(acc)
    <3>1. Fail(c) /\ MarksKept
      BY <1>9, <2>2, NoWriteKeeps DEF UpdateInMemory, acc
    <3> QED BY <1>6, <3>1
  <2> QED BY <2>1, <2>2
<1>10. CASE ReadAccount(c)
  <2>1. MarksKept
    BY <1>10, NoWriteKeeps DEF ReadAccount
  <2>2. CASE Exists(acc)
    <3> DEFINE read == Hydrated(acc)
               new  == [req EXCEPT !.pc = "write", !.read = read]
    <3>1. client' = [client EXCEPT ![c] = new] /\ req.pc = "apply" /\ UNCHANGED accounts
      BY <1>10, <2>2 DEF ReadAccount, req, acc
    <3>2. /\ read \in Account /\ read.at = acc.at
          /\ read.extra.click = acc.extra.click
      BY <1>1, AccountTypes DEF Hydrated, Account
    <3> HIDE DEF read
    <3>3. /\ new \in Request /\ new.pc = "write" /\ new.key = k
          /\ new.kind = req.kind /\ new.fields = req.fields /\ new.read = read
      BY <1>1, <1>2, <3>2 DEF Request, PC
    <3> HIDE DEF new
    <3>4. UpdateKept(new, acc)
      BY <1>3, <2>2, <3>1, <3>2, <3>3 DEF UpdateKept
    <3> QED BY <1>2, <1>4, <2>1, <3>1, <3>3, <3>4 DEF Registered
  <2>3. CASE ~Exists(acc)
    BY <1>6, <1>10, <2>1, <2>3 DEF ReadAccount, acc
  <2> QED BY <2>2, <2>3
<1>11. ASSUME req.pc = "write", Write(c, SqlUpdate(acc, req.read, req.fields))
       PROVE  MarksKept /\ req.kind # "register"
  <2> DEFINE new == SqlUpdate(acc, req.read, req.fields)
  <2>1. /\ req.fields.click = Empty /\ req.kind # "register"
        /\ req.read.extra.click = acc.extra.click
    BY <1>3, <1>11 DEF UpdateKept
  <2>2. new \in Account /\ MarkKept(acc, new)
    BY <1>1, <2>1, UpdateTypes, UpdateMark
  <2>3. Write(c, new)
    BY <1>11
  <2> HIDE DEF new
  <2> QED BY <2>1, <2>2, <2>3, WriteKeeps DEF acc
<1>12. CASE WriteAccount(c)
  <2> DEFINE view == SqlUpdate(req.read, req.read, req.fields)
  <2>1. /\ Write(c, SqlUpdate(acc, req.read, req.fields)) /\ req.pc = "write"
        /\ client' = [client EXCEPT ![c] = Show(req, view)]
    BY <1>12 DEF WriteAccount, req, acc
  <2>2. view \in Account
    BY <1>1, UpdateTypes
  <2> HIDE DEF view
  <2> QED BY <1>5, <1>11, <2>1, <2>2
<1>13. CASE WriteWithoutReply(c)
  <2>1. Write(c, SqlUpdate(acc, req.read, req.fields)) /\ req.pc = "write" /\ Fail(c)
    BY <1>13 DEF WriteWithoutReply, req, acc
  <2> QED BY <1>6, <1>11, <2>1
<1> QED BY <1>7, <1>8, <1>9, <1>10, <1>12, <1>13 DEF ProfileStep

LEMMA LoginKeeps ==
    ASSUME StateTypes, UpdateKeepsClick, AnswersAgree, OneIsNew, NEW c \in Clients,
           (\E k \in Keys : Login(c, k)) \/ ViewProfile(c)
    PROVE  UpdateKeepsClick' /\ AnswersAgree' /\ OneIsNew' /\ MarksKept
<1>1. ASSUME NEW kind \in {"login", "view"}, NEW key \in Keys, UNCHANGED accounts,
             LET req == [Idle EXCEPT !.kind = kind, !.key = key, !.at = now]
             IN  \/ client' = [client EXCEPT ![c] = Show(req, accounts[key])]
                 \/ \E pc \in {"need_register", "failed"} :
                       client' = [client EXCEPT ![c] = [req EXCEPT !.pc = pc]]
      PROVE  UpdateKeepsClick' /\ AnswersAgree' /\ OneIsNew' /\ MarksKept
  <2> DEFINE req   == [Idle EXCEPT !.kind = kind, !.key = key, !.at = now]
             shown == Shown(accounts[key])
             done  == Show(req, accounts[key])
  <2>1. req \in Request /\ req.kind = kind /\ accounts[key] \in Account
    BY IdleType DEF Request, Kinds, StateTypes
  <2>2. done \in Request
    BY <2>1, RequestTypes
  <2>3. done = [req EXCEPT !.pc = "ok", !.shown = shown, !.since = accounts[key].at]
    BY DEF Show
  <2> HIDE DEF req, shown, done
  <2>4. done.pc = "ok" /\ done.kind = kind
    BY <2>1, <2>3 DEF Request
  <2>5. ASSUME NEW pc \in {"need_register", "failed"}
        PROVE  [req EXCEPT !.pc = pc] \in Request /\ [req EXCEPT !.pc = pc].pc = pc
    BY <2>1 DEF Request, PC, Finished
  <2>6. CASE client' = [client EXCEPT ![c] = done]
    BY <1>1, <2>2, <2>4, <2>6, QuietKeeps DEF Registered, UpdateKept
  <2>7. ASSUME NEW pc \in {"need_register", "failed"},
               client' = [client EXCEPT ![c] = [req EXCEPT !.pc = pc]]
        PROVE  UpdateKeepsClick' /\ AnswersAgree' /\ OneIsNew' /\ MarksKept
    <3> DEFINE new == [req EXCEPT !.pc = pc]
    <3>1. new \in Request /\ new.pc = pc /\ client' = [client EXCEPT ![c] = new]
      BY <2>5, <2>7
    <3> HIDE DEF new
    <3> QED BY <1>1, <3>1, QuietKeeps DEF Registered, UpdateKept
  <2> QED BY <1>1, <2>6, <2>7 DEF req, done
<1>2. ASSUME NEW k \in Keys, Login(c, k)
      PROVE  UpdateKeepsClick' /\ AnswersAgree' /\ OneIsNew' /\ MarksKept
  BY <1>1, <1>2 DEF Login
<1>3. CASE ViewProfile(c)
  <2> DEFINE key == session[c].key
             req == [Idle EXCEPT !.kind = "view", !.key = key, !.at = now]
  <2>1. key \in Keys
    BY RequestTyped DEF Session
  <2>2. req.key = key
    BY IdleType DEF Request
  <2> QED BY <1>1, <1>3, <2>1, <2>2 DEF ViewProfile
<1> QED BY <1>2, <1>3

LEMMA RequestFailsKeeps ==
    ASSUME StateTypes, UpdateKeepsClick, AnswersAgree, OneIsNew, NEW c \in Clients, RequestFails(c)
    PROVE  UpdateKeepsClick' /\ AnswersAgree' /\ OneIsNew' /\ MarksKept
<1> DEFINE new == [client[c] EXCEPT !.pc = "failed"]
<1>1. new \in Request /\ new.pc = "failed"
  BY RequestTyped DEF Request, PC, Finished
<1>2. client' = [client EXCEPT ![c] = new] /\ UNCHANGED accounts
  BY DEF RequestFails, Fail
<1> HIDE DEF new
<1> QED BY <1>1, <1>2, QuietKeeps DEF Registered, UpdateKept

LEMMA RestartKeeps ==
    ASSUME StateTypes, Restart
    PROVE  UpdateKeepsClick' /\ AnswersAgree' /\ OneIsNew'
<1>1. \A c \in Clients : client'[c] = Idle
  BY DEF Restart
<1>2. Idle.pc = "idle"
  BY DEF Idle
<1> QED BY <1>1, <1>2
        DEF UpdateKeepsClick, UpdateKept, AnswersAgree, Agrees, OneIsNew, Registered, Mine

\* The three facts about the inductive invariant, and the marks on the way.
LEMMA InvInit == Init => AccountsInv
<1>1. SUFFICES ASSUME Init
               PROVE  UpdateKeepsClick /\ AnswersAgree /\ OneIsNew
  BY TypeInit DEF AccountsInv
<1>2. \A c \in Clients : client[c] = Idle
  BY <1>1 DEF Init
<1>3. Idle.pc = "idle"
  BY DEF Idle
<1> QED BY <1>2, <1>3
        DEF UpdateKeepsClick, UpdateKept, AnswersAgree, Agrees, OneIsNew, Registered, Mine

LEMMA InvStep ==
    ASSUME AccountsInv, [Next]_vars
    PROVE  AccountsInv' /\ (MarksKept \/ Restart)
<1> USE DEF AccountsInv
<1>1. StateTypes'
  BY TypeStep
<1>2. ASSUME NEW c \in Clients, NEW k \in Keys, NEW fields \in RegisterFields,
             NEW extra \in ExtraFields, Register(c, k, fields, extra)
      PROVE  UpdateKeepsClick' /\ AnswersAgree' /\ OneIsNew' /\ MarksKept
  BY <1>2, SendKeeps, FieldsAssumption DEF Register, Kinds
<1>3. ASSUME NEW c \in Clients, NEW f \in UpdateFields, UpdateProfile(c, f)
      PROVE  UpdateKeepsClick' /\ AnswersAgree' /\ OneIsNew' /\ MarksKept
  <2>1. session[c].key \in Keys
    BY RequestTyped DEF Session
  <2> QED BY <1>3, <2>1, SendKeeps, FieldsAssumption DEF UpdateProfile, Kinds
<1>4. ASSUME NEW c \in Clients, SyncProfile(c)
      PROVE  UpdateKeepsClick' /\ AnswersAgree' /\ OneIsNew' /\ MarksKept
  <2>1. session[c].key \in Keys
    BY RequestTyped DEF Session
  <2> QED BY <1>4, <2>1, SendKeeps, FieldsAssumption DEF SyncProfile, Kinds
<1>5. CASE Tick \/ UNCHANGED vars
  <2>1. UNCHANGED <<accounts, client>>
    BY <1>5 DEF Tick, vars
  <2>2. UpdateKeepsClick' /\ AnswersAgree' /\ OneIsNew'
    BY <2>1 DEF UpdateKeepsClick, AnswersAgree, OneIsNew, Mine
  <2> QED BY <1>1, <2>1, <2>2, NoWriteKeeps
<1>6. CASE Restart
  BY <1>1, <1>6, RestartKeeps
<1>7. ASSUME NEW c \in Clients,
             \/ RegisterStep(c) \/ ProfileStep(c) \/ RequestFails(c)
             \/ \E k \in Keys : Login(c, k)
             \/ ViewProfile(c)
      PROVE  UpdateKeepsClick' /\ AnswersAgree' /\ OneIsNew' /\ MarksKept
  BY <1>7, RegisterStepKeeps, ProfileStepKeeps, LoginKeeps, RequestFailsKeeps
<1>8. \/ \E c \in Clients :
          \/ \E k \in Keys, fields \in RegisterFields, extra \in ExtraFields :
                Register(c, k, fields, extra)
          \/ \E f \in UpdateFields : UpdateProfile(c, f)
          \/ SyncProfile(c)
          \/ RegisterStep(c) \/ ProfileStep(c) \/ RequestFails(c)
          \/ \E k \in Keys : Login(c, k)
          \/ ViewProfile(c)
      \/ Tick \/ Restart \/ UNCHANGED vars
  BY DEF Next, Step
<1>9. UpdateKeepsClick' /\ AnswersAgree' /\ OneIsNew' /\ (MarksKept \/ Restart)
  <2>1. CASE \E c \in Clients, k \in Keys, fields \in RegisterFields, extra \in ExtraFields :
                Register(c, k, fields, extra)
    BY <1>2, <2>1
  <2>2. CASE \E c \in Clients, f \in UpdateFields : UpdateProfile(c, f)
    BY <1>3, <2>2
  <2>3. CASE \E c \in Clients : SyncProfile(c)
    BY <1>4, <2>3
  <2>4. CASE \E c \in Clients :
                \/ RegisterStep(c) \/ ProfileStep(c) \/ RequestFails(c)
                \/ \E k \in Keys : Login(c, k)
                \/ ViewProfile(c)
    BY <1>7, <2>4
  <2> QED BY <1>5, <1>6, <1>8, <2>1, <2>2, <2>3, <2>4
<1> QED BY <1>1, <1>9

\* The inductive invariant: types, the account an update has read still has its
\* click id and time (UpdateProfile of mysql.go), and the answers agree.
THEOREM InvHolds == Spec => []AccountsInv
<1>1. AccountsInv /\ [Next]_vars => AccountsInv'
  BY InvStep
<1> QED BY <1>1, InvInit, PTL DEF Spec

\* Every registration answered with success has an account behind it and is
\* told its first click id and time (Register, ReportRegister of both stores).
THEOREM AnswersAlwaysAgree == Spec => []AnswersAgree
<1>1. AccountsInv => AnswersAgree
  BY DEF AccountsInv
<1> QED BY <1>1, InvHolds, PTL

\* No two clients are both told that they registered an account first.
THEOREM OnlyOneIsNew == Spec => []OneIsNew
<1>1. AccountsInv => OneIsNew
  BY DEF AccountsInv
<1> QED BY <1>1, InvHolds, PTL

\* The click id and the time of an account never change.
THEOREM FirstTouchIsKept == Spec => FirstTouchKept
<1>1. ASSUME AccountsInv, [Next]_vars
      PROVE  [\A k \in Keys : Exists(accounts[k]) /\ Exists(accounts'[k]) =>
                 /\ Shown(accounts'[k]).click = Shown(accounts[k]).click
                 /\ accounts'[k].at = accounts[k].at]_accounts
  <2>1. CASE MarksKept
    <3>1. ASSUME NEW k \in Keys, Exists(accounts[k])
          PROVE  /\ Shown(accounts'[k]).click = Shown(accounts[k]).click
                 /\ accounts'[k].at = accounts[k].at
      <4>1. MarkKept(accounts[k], accounts'[k])
        BY <2>1 DEF MarksKept
      <4> QED BY <3>1, <4>1, MarkShown DEF MarkKept
    <3> QED BY <3>1
  <2>2. CASE Restart /\ backend = "memory"
    <3>1. \A k \in Keys : ~Exists(accounts'[k])
      BY <2>2 DEF Restart, NoAccount, Exists
    <3> QED BY <3>1
  <2>3. CASE Restart /\ backend # "memory"
    BY <2>3 DEF Restart
  <2> QED BY <1>1, <2>1, <2>2, <2>3, InvStep
<1> QED BY <1>1, InvHolds, PTL DEF Spec, FirstTouchKept

-----------------------------------------------------------------------------
(* Sessions *)

\* A token changes hands only at a login, which has just found its account.
LEMMA SessionMoves ==
    ASSUME [Next]_vars
    PROVE  \/ UNCHANGED session
           \/ \E c \in Clients, k \in Keys : Login(c, k)
<1>1. ASSUME NEW c \in Clients, RegisterStep(c)
      PROVE  UNCHANGED session
  BY <1>1 DEF RegisterStep, RegisterInMemory, SelectAccount, InsertAccount, InsertRefused,
              InsertFails, SelectAgain
<1>2. ASSUME NEW c \in Clients, ProfileStep(c)
      PROVE  UNCHANGED session
  BY <1>2 DEF ProfileStep, CheckAccount, Fetch, UpdateInMemory, ReadAccount, WriteAccount,
              WriteWithoutReply
<1>3. ASSUME NEW c \in Clients, NEW kind, NEW key, NEW pc, NEW fields, NEW extra,
             Send(c, kind, key, pc, fields, extra)
      PROVE  UNCHANGED session
  BY <1>3 DEF Send
<1>4. ASSUME NEW c \in Clients,
             \/ \E k \in Keys, fields \in RegisterFields, extra \in ExtraFields :
                   Register(c, k, fields, extra)
             \/ \E f \in UpdateFields : UpdateProfile(c, f)
             \/ SyncProfile(c)
      PROVE  UNCHANGED session
  BY <1>3, <1>4 DEF Register, UpdateProfile, SyncProfile
<1>5. ASSUME NEW c \in Clients, ViewProfile(c) \/ RequestFails(c)
      PROVE  UNCHANGED session
  BY <1>5 DEF ViewProfile, RequestFails
<1>6. CASE Tick \/ Restart \/ UNCHANGED vars
  BY <1>6 DEF Tick, Restart, vars
<1> QED BY <1>1, <1>2, <1>4, <1>5, <1>6 DEF Next, Step

LEMMA SessionStep ==
    ASSUME AccountsInv, SessionNamesAccount, [Next]_vars
    PROVE  SessionNamesAccount'
<1>1. UNCHANGED backend
  BY DEF Next, vars
<1>2. SUFFICES ASSUME backend = "mysql", NEW c \in Clients, session'[c].exp > 0
               PROVE  Exists(accounts'[session'[c].key])
  BY <1>1 DEF SessionNamesAccount
\* No account goes away: only the memory store forgets them.
<1>3. ASSUME NEW k \in Keys, Exists(accounts[k])
      PROVE  Exists(accounts'[k])
  <2>1. CASE MarksKept
    BY <1>3, <2>1 DEF MarksKept, MarkKept
  <2>2. CASE Restart
    BY <1>2, <1>3, <2>2 DEF Restart
  <2> QED BY <2>1, <2>2, InvStep
<1>4. session \in [Clients -> Session] /\ session[c].key \in Keys
  BY DEF AccountsInv, StateTypes, Session
<1>5. CASE session'[c] = session[c]
  BY <1>2, <1>3, <1>4, <1>5 DEF SessionNamesAccount
<1>6. ASSUME NEW d \in Clients, NEW k \in Keys, Login(d, k), session'[c] # session[c]
      PROVE  Exists(accounts'[session'[c].key])
  <2>1. /\ session' = [session EXCEPT ![d] = [key |-> k, exp |-> Expiry(now)]]
        /\ MayLogIn(accounts[k])
    BY <1>6 DEF Login
  <2>2. session'[c].key = k
    BY <1>4, <1>6, <2>1
  <2> QED BY <1>3, <2>1, <2>2 DEF MayLogIn
<1> QED BY <1>5, <1>6, SessionMoves

\* Over MySQL every token issued names an account the store has, also after a
\* restart of the process (service.go Login, auth.go Issue).
THEOREM SessionsNameAccounts == Spec => []SessionNamesAccount
<1>1. Init => SessionNamesAccount
  <2>1. SUFFICES ASSUME Init, NEW c \in Clients
                 PROVE  ~(session[c].exp > 0)
    BY DEF SessionNamesAccount
  <2>2. session[c].exp = 0
    BY <2>1 DEF Init, NoSession
  <2> QED BY <2>2
<1>2. AccountsInv /\ SessionNamesAccount /\ [Next]_vars => SessionNamesAccount'
  BY SessionStep
<1> QED BY <1>1, <1>2, InvHolds, PTL DEF Spec

-----------------------------------------------------------------------------
\* Updates in memory.

\* The statements of MySQL a request never waits for in memory.
OnlyMySQL == {"insert", "reselect", "write"}

MemoryPCs == backend = "memory" => \A c \in Clients : client[c].pc \notin OnlyMySQL

\* Where a field may come from.
FieldsMove ==
    \A k \in Keys, x \in {"name", "avatar"} :
        Exists(accounts[k]) /\ Exists(accounts'[k]) =>
            \/ Shown(accounts'[k])[x] = Shown(accounts[k])[x]
            \/ Asked(k, x, Shown(accounts'[k])[x])

\* An update changes a field into the one it names, or not.
LEMMA UpdateShows ==
    ASSUME NEW acc \in Account, NEW f \in Profile, NEW x \in {"name", "avatar"}
    PROVE  \/ Shown(MemoryUpdate(acc, f))[x] = Shown(acc)[x]
           \/ Shown(MemoryUpdate(acc, f))[x] = f[x] /\ f[x] # Empty
<1> DEFINE col == Over(f, acc.col)
           new == MemoryUpdate(acc, f)
<1>1. new.col = col /\ new.extra = acc.extra
  BY DEF MemoryUpdate, Account
<1>2. /\ Shown(new) = Over(col, acc.extra)
      /\ Shown(acc) = Over(acc.col, acc.extra)
  BY <1>1 DEF Shown
<1>3. CASE x = "name"
  <2>1. Shown(new).name = FirstNonEmpty(FirstNonEmpty(f.name, acc.col.name), acc.extra.name)
    BY <1>2 DEF Over
  <2>2. Shown(acc).name = FirstNonEmpty(acc.col.name, acc.extra.name)
    BY <1>2 DEF Over
  <2> QED BY <1>3, <2>1, <2>2 DEF FirstNonEmpty
<1>4. CASE x = "avatar"
  <2>1. Shown(new).avatar = FirstNonEmpty(FirstNonEmpty(f.avatar, acc.col.avatar), acc.extra.avatar)
    BY <1>2 DEF Over
  <2>2. Shown(acc).avatar = FirstNonEmpty(acc.col.avatar, acc.extra.avatar)
    BY <1>2 DEF Over
  <2> QED BY <1>4, <2>1, <2>2 DEF FirstNonEmpty
<1> QED BY <1>3, <1>4

\* Answers are final.
LEMMA AnswersEnd ==
    ASSUME NEW req \in Request, NEW acc \in Account, NEW new \in BOOLEAN
    PROVE  Answer(req, new, acc).pc = "ok" /\ Show(req, acc).pc = "ok"
BY DEF Answer, Show, Request

LEMMA MemoryPcStays ==
    ASSUME AccountsInv, MemoryPCs, backend = "memory", NEW c \in Clients, NEW req,
           client' = [client EXCEPT ![c] = req], req.pc \notin OnlyMySQL
    PROVE  \A d \in Clients : client'[d].pc \notin OnlyMySQL
BY DEF MemoryPCs, AccountsInv, StateTypes

LEMMA MemoryRegister ==
    ASSUME AccountsInv, MemoryPCs, backend = "memory", NEW c \in Clients, RegisterStep(c)
    PROVE  (\A d \in Clients : client'[d].pc \notin OnlyMySQL) /\ FieldsMove
<1> DEFINE req == client[c]
           acc == Mine(c)
           new == Attributed(acc, req)
<1>1. req \in Request /\ acc \in Account /\ new \in Account /\ req.key \in Keys
  BY RequestTyped, RequestTypes DEF AccountsInv
<1>2. RegisterInMemory(c)
  BY DEF RegisterStep, SelectAccount, InsertAccount, InsertRefused, InsertFails, SelectAgain,
         MemoryPCs, OnlyMySQL
<1>3. /\ accounts' = [accounts EXCEPT ![req.key] = new]
      /\ client' = [client EXCEPT ![c] = Answer(req, ~Exists(acc), new)]
  BY <1>2 DEF RegisterInMemory, Write
<1>4. Answer(req, ~Exists(acc), new).pc = "ok"
  BY <1>1, AnswersEnd DEF Exists
<1>5. Exists(acc) => new = acc
  BY DEF Attributed
<1>6. accounts \in [Keys -> Account] /\ acc = accounts[req.key]
  BY DEF AccountsInv, StateTypes, Mine
<1> HIDE DEF req, acc, new
<1>7. \A k \in Keys : Exists(accounts[k]) => accounts'[k] = accounts[k]
  BY <1>1, <1>3, <1>5, <1>6
<1> QED BY <1>3, <1>4, <1>7, MemoryPcStays DEF OnlyMySQL, FieldsMove

LEMMA MemoryProfile ==
    ASSUME AccountsInv, MemoryPCs, backend = "memory", NEW c \in Clients, ProfileStep(c)
    PROVE  (\A d \in Clients : client'[d].pc \notin OnlyMySQL) /\ FieldsMove
<1> DEFINE req == client[c]
           acc == Mine(c)
<1>1. /\ req \in Request /\ acc \in Account /\ req.key \in Keys /\ req.fields \in Profile
      /\ accounts \in [Keys -> Account] /\ acc = accounts[req.key]
  BY RequestTyped DEF AccountsInv, StateTypes, Mine, Request
<1>2. ASSUME NEW pc \in {"fetch", "failed"}, UNCHANGED accounts,
             client' = [client EXCEPT ![c] = [req EXCEPT !.pc = pc]]
      PROVE  (\A d \in Clients : client'[d].pc \notin OnlyMySQL) /\ FieldsMove
  <2> DEFINE new == [req EXCEPT !.pc = pc]
  <2>1. new.pc = pc
    BY <1>1 DEF Request
  <2>2. client' = [client EXCEPT ![c] = new]
    BY <1>2
  <2> HIDE DEF new
  <2> QED BY <1>2, <2>1, <2>2, MemoryPcStays DEF OnlyMySQL, FieldsMove
<1>3. CASE CheckAccount(c)
  BY <1>2, <1>3 DEF CheckAccount, Fail
<1>4. ASSUME NEW f \in UpdateFields, Fetch(c, f)
      PROVE  (\A d \in Clients : client'[d].pc \notin OnlyMySQL) /\ FieldsMove
  <2> DEFINE new == [req EXCEPT !.pc = "apply", !.fields = f]
  <2>1. new.pc = "apply"
    BY <1>1 DEF Request
  <2>2. client' = [client EXCEPT ![c] = new] /\ UNCHANGED accounts
    BY <1>4 DEF Fetch
  <2> HIDE DEF new
  <2> QED BY <2>1, <2>2, MemoryPcStays DEF OnlyMySQL, FieldsMove
<1>5. CASE UpdateInMemory(c)
  <2> DEFINE new == MemoryUpdate(acc, req.fields)
  <2>1. CASE Exists(acc)
    <3>1. /\ accounts' = [accounts EXCEPT ![req.key] = new]
          /\ client' = [client EXCEPT ![c] = Show(req, new)] /\ req.pc = "apply"
      BY <1>5, <2>1 DEF UpdateInMemory, Write
    <3>2. new \in Account
      BY <1>1, UpdateTypes
    <3>3. Show(req, new).pc = "ok"
      BY <1>1, <3>2, AnswersEnd
    <3>4. \A x \in {"name", "avatar"} :
            \/ Shown(new)[x] = Shown(acc)[x]
            \/ Shown(new)[x] = req.fields[x] /\ req.fields[x] # Empty
      BY <1>1, UpdateShows
    <3>5. \A x \in {"name", "avatar"} :
            req.fields[x] # Empty => Asked(req.key, x, req.fields[x])
      BY <3>1 DEF Asked
    <3> HIDE DEF new, req, acc
    <3>6. ASSUME NEW k \in Keys, NEW x \in {"name", "avatar"}
          PROVE  \/ Shown(accounts'[k])[x] = Shown(accounts[k])[x]
                 \/ Asked(k, x, Shown(accounts'[k])[x])
      <4>1. CASE k = req.key
        <5>1. accounts'[k] = new /\ accounts[k] = acc
          BY <1>1, <3>1, <4>1
        <5> QED BY <3>4, <3>5, <4>1, <5>1
      <4>2. CASE k # req.key
        BY <1>1, <3>1, <4>2
      <4> QED BY <4>1, <4>2
    <3> QED BY <3>1, <3>3, <3>6, MemoryPcStays DEF OnlyMySQL, FieldsMove
  <2>2. CASE ~Exists(acc)
    BY <1>2, <1>5, <2>2 DEF UpdateInMemory, Fail
  <2> QED BY <2>1, <2>2
<1> QED BY <1>3, <1>4, <1>5
        DEF ProfileStep, ReadAccount, WriteAccount, WriteWithoutReply, MemoryPCs, OnlyMySQL

LEMMA MemoryOther ==
    ASSUME AccountsInv, MemoryPCs, backend = "memory", NEW c \in Clients,
           \/ \E k \in Keys, fields \in RegisterFields, extra \in ExtraFields :
                 Register(c, k, fields, extra)
           \/ \E f \in UpdateFields : UpdateProfile(c, f)
           \/ SyncProfile(c)
           \/ \E k \in Keys : Login(c, k)
           \/ ViewProfile(c)
           \/ RequestFails(c)
    PROVE  (\A d \in Clients : client'[d].pc \notin OnlyMySQL) /\ FieldsMove
<1>1. UNCHANGED accounts => FieldsMove
  BY DEF FieldsMove
<1>2. ASSUME NEW kind, NEW key, NEW pc \in {"report", "check", "apply"}, NEW fields, NEW extra,
             Send(c, kind, key, pc, fields, extra)
      PROVE  (\A d \in Clients : client'[d].pc \notin OnlyMySQL) /\ FieldsMove
  <2> DEFINE new == [Idle EXCEPT !.pc = pc, !.kind = kind, !.key = key,
                                 !.fields = fields, !.extra = extra, !.at = now]
  <2>1. new.pc = pc
    BY DEF Idle
  <2>2. client' = [client EXCEPT ![c] = new] /\ UNCHANGED accounts
    BY <1>2 DEF Send
  <2> HIDE DEF new
  <2> QED BY <1>1, <2>1, <2>2, MemoryPcStays DEF OnlyMySQL
<1>3. ASSUME NEW kind \in {"login", "view"}, NEW key \in Keys, UNCHANGED accounts,
             LET req == [Idle EXCEPT !.kind = kind, !.key = key, !.at = now]
             IN  \/ client' = [client EXCEPT ![c] = Show(req, accounts[key])]
                 \/ \E pc \in {"need_register", "failed"} :
                       client' = [client EXCEPT ![c] = [req EXCEPT !.pc = pc]]
      PROVE  (\A d \in Clients : client'[d].pc \notin OnlyMySQL) /\ FieldsMove
  <2> DEFINE req  == [Idle EXCEPT !.kind = kind, !.key = key, !.at = now]
             done == Show(req, accounts[key])
  <2>1. req \in Request /\ accounts[key] \in Account
    BY IdleType DEF Request, Kinds, AccountsInv, StateTypes
  <2>2. done.pc = "ok"
    BY <2>1, AnswersEnd
  <2>3. \A pc \in PC : [req EXCEPT !.pc = pc].pc = pc
    BY <2>1 DEF Request
  <2> HIDE DEF req
  <2>4. CASE client' = [client EXCEPT ![c] = done]
    <3> HIDE DEF done
    <3> QED BY <1>1, <1>3, <2>2, <2>4, MemoryPcStays DEF OnlyMySQL
  <2>5. ASSUME NEW pc \in {"need_register", "failed"},
               client' = [client EXCEPT ![c] = [req EXCEPT !.pc = pc]]
        PROVE  (\A d \in Clients : client'[d].pc \notin OnlyMySQL) /\ FieldsMove
    <3> DEFINE new == [req EXCEPT !.pc = pc]
    <3>1. new.pc = pc
      BY <2>3 DEF PC, Finished
    <3>2. client' = [client EXCEPT ![c] = new]
      BY <2>5
    <3> HIDE DEF new
    <3> QED BY <1>1, <1>3, <3>1, <3>2, MemoryPcStays DEF OnlyMySQL
  <2> QED BY <1>3, <2>4, <2>5 DEF req
<1>4. ASSUME NEW k \in Keys, Login(c, k)
      PROVE  (\A d \in Clients : client'[d].pc \notin OnlyMySQL) /\ FieldsMove
  BY <1>3, <1>4 DEF Login
<1>5. CASE ViewProfile(c)
  <2> DEFINE key == session[c].key
             req == [Idle EXCEPT !.kind = "view", !.key = key, !.at = now]
  <2>1. key \in Keys
    BY RequestTyped DEF Session, AccountsInv
  <2>2. req.key = key
    BY IdleType DEF Request
  <2> QED BY <1>3, <1>5, <2>1, <2>2 DEF ViewProfile
<1>6. CASE RequestFails(c)
  <2> DEFINE new == [client[c] EXCEPT !.pc = "failed"]
  <2>1. new.pc = "failed"
    BY RequestTyped DEF Request, AccountsInv
  <2>2. client' = [client EXCEPT ![c] = new] /\ UNCHANGED accounts
    BY <1>6 DEF RequestFails, Fail
  <2> HIDE DEF new
  <2> QED BY <1>1, <2>1, <2>2, MemoryPcStays DEF OnlyMySQL
<1> QED BY <1>2, <1>4, <1>5, <1>6 DEF Register, UpdateProfile, SyncProfile

LEMMA MemoryStep ==
    ASSUME AccountsInv, MemoryPCs, [Next]_vars
    PROVE  MemoryPCs' /\ (backend = "memory" => FieldsMove)
<1> SUFFICES ASSUME backend = "memory"
             PROVE  (\A d \in Clients : client'[d].pc \notin OnlyMySQL) /\ FieldsMove
  BY DEF MemoryPCs, Next, vars
<1>1. CASE Tick \/ UNCHANGED vars
  BY <1>1 DEF Tick, vars, FieldsMove, MemoryPCs
<1>2. CASE Restart
  <2>1. \A k \in Keys : ~Exists(accounts'[k])
    BY <1>2 DEF Restart, NoAccount, Exists
  <2> QED BY <1>2, <2>1 DEF Restart, Idle, OnlyMySQL, FieldsMove
<1> QED BY <1>1, <1>2, MemoryRegister, MemoryProfile, MemoryOther DEF Next, Step

\* With the memory store a name or an avatar changes only into the one that an
\* update in progress names: its lock keeps two updates from undoing each other
\* (memory.go UpdateProfile).
THEOREM MemoryKeepsFields == Spec => MemoryFieldsStay
<1>1. Init => MemoryPCs
  BY DEF Init, MemoryPCs, Idle, OnlyMySQL
<1>2. AccountsInv /\ MemoryPCs /\ [Next]_vars => MemoryPCs'
  BY MemoryStep
<1>3. AccountsInv /\ MemoryPCs /\ [Next]_vars =>
        [\A k \in Keys, x \in {"name", "avatar"} :
            backend = "memory" /\ Exists(accounts[k]) /\ Exists(accounts'[k]) =>
                \/ Shown(accounts'[k])[x] = Shown(accounts[k])[x]
                \/ Asked(k, x, Shown(accounts'[k])[x])]_accounts
  BY MemoryStep DEF FieldsMove
<1> QED BY <1>1, <1>2, <1>3, InvHolds, PTL DEF Spec, MemoryFieldsStay

-----------------------------------------------------------------------------
\* Updates over MySQL.

\* No two requests are between the SELECT and the UPDATE of the same account.
OneUpdate ==
    \A c, d \in Clients :
        client[c].pc = "write" /\ client[d].pc = "write" /\ client[c].key = client[d].key => c = d

\* Then what an update has read is still there when it writes.
ReadIsCurrent ==
    \A c \in Clients : client[c].pc = "write" => client[c].read = Hydrated(Mine(c))

\* An update computed from the row it changes changes a field into the one it
\* names, or not.
LEMMA SqlUpdateShows ==
    ASSUME NEW acc \in Account, NEW f \in Profile, NEW x \in {"name", "avatar"}
    PROVE  \/ Shown(SqlUpdate(acc, Hydrated(acc), f))[x] = Shown(acc)[x]
           \/ Shown(SqlUpdate(acc, Hydrated(acc), f))[x] = f[x] /\ f[x] # Empty
<1> DEFINE new  == SqlUpdate(acc, Hydrated(acc), f)
           read == Hydrated(acc)
<1>1. read.col = Shown(acc) /\ read.extra = acc.extra
  BY DEF Hydrated, Account
<1>2. /\ new.col.name = Over(f, read.col).name /\ new.col.avatar = Over(f, read.col).avatar
      /\ new.extra = Over(f, read.extra)
  BY DEF SqlUpdate, Account, Profile
<1>3. /\ Shown(new).name = FirstNonEmpty(new.col.name, new.extra.name)
      /\ Shown(new).avatar = FirstNonEmpty(new.col.avatar, new.extra.avatar)
      /\ Shown(acc).name = FirstNonEmpty(acc.col.name, acc.extra.name)
      /\ Shown(acc).avatar = FirstNonEmpty(acc.col.avatar, acc.extra.avatar)
  BY DEF Shown, Over
<1> HIDE DEF new, read
<1>4. CASE x = "name"
  <2>1. /\ new.col.name = FirstNonEmpty(f.name, Shown(acc).name)
        /\ new.extra.name = FirstNonEmpty(f.name, acc.extra.name)
    BY <1>1, <1>2 DEF Over
  <2> QED BY <1>3, <1>4, <2>1 DEF FirstNonEmpty, new
<1>5. CASE x = "avatar"
  <2>1. /\ new.col.avatar = FirstNonEmpty(f.avatar, Shown(acc).avatar)
        /\ new.extra.avatar = FirstNonEmpty(f.avatar, acc.extra.avatar)
    BY <1>1, <1>2 DEF Over
  <2> QED BY <1>3, <1>5, <2>1 DEF FirstNonEmpty, new
<1> QED BY <1>4, <1>5

\* A request does not come to its UPDATE but by its SELECT.
LEMMA NotWriting ==
    ASSUME StateTypes, NEW c \in Clients,
           \/ \E k \in Keys, fields \in RegisterFields, extra \in ExtraFields :
                 Register(c, k, fields, extra)
           \/ \E f \in UpdateFields : UpdateProfile(c, f)
           \/ SyncProfile(c)
           \/ \E k \in Keys : Login(c, k)
           \/ ViewProfile(c)
           \/ RegisterStep(c)
           \/ ProfileStep(c) /\ ~ReadAccount(c)
           \/ RequestFails(c)
    PROVE  /\ client'[c].pc # "write"
           /\ \A d \in Clients \ {c} : client'[d] = client[d]
<1> DEFINE req == client[c]
           Quiet == /\ client'[c].pc # "write"
                    /\ \A d \in Clients \ {c} : client'[d] = client[d]
<1>0. client \in [Clients -> Request] /\ req \in Request /\ Mine(c) \in Account
  BY RequestTyped DEF StateTypes
<1>1. ASSUME NEW new, client' = [client EXCEPT ![c] = new], new.pc # "write"
      PROVE  Quiet
  BY <1>0, <1>1
<1>2. ASSUME NEW r \in Request, NEW acc, NEW new \in BOOLEAN,
             \/ client' = [client EXCEPT ![c] = Answer(r, new, acc)]
             \/ client' = [client EXCEPT ![c] = Show(r, acc)]
      PROVE  Quiet
  <2>1. Answer(r, new, acc).pc = "ok"
    BY DEF Answer, Request
  <2>2. Show(r, acc).pc = "ok"
    BY DEF Show, Request
  <2> QED BY <1>0, <1>2, <2>1, <2>2
<1>3. ASSUME NEW r \in Request, NEW pc \in PC \ {"write"},
             client' = [client EXCEPT ![c] = [r EXCEPT !.pc = pc]]
      PROVE  Quiet
  <2>1. [r EXCEPT !.pc = pc].pc = pc
    BY DEF Request
  <2> QED BY <1>0, <1>3, <2>1
<1>4. Fail(c) => Quiet
  BY <1>0, <1>3 DEF Fail, PC, Finished
<1>5. ASSUME NEW kind, NEW key, NEW pc \in {"report", "check", "apply"}, NEW fields, NEW extra,
             Send(c, kind, key, pc, fields, extra)
      PROVE  Quiet
  <2> DEFINE new == [Idle EXCEPT !.pc = pc, !.kind = kind, !.key = key,
                                 !.fields = fields, !.extra = extra, !.at = now]
  <2>1. new.pc = pc
    BY DEF Idle
  <2>2. client' = [client EXCEPT ![c] = new]
    BY <1>5 DEF Send
  <2> HIDE DEF new
  <2> QED BY <1>1, <2>1, <2>2
<1>6. CASE RegisterStep(c)
  <2>1. CASE RegisterInMemory(c)
    BY <1>0, <1>2, <2>1 DEF RegisterInMemory, Exists
  <2>2. CASE SelectAccount(c)
    BY <1>0, <1>2, <1>3, <2>2 DEF SelectAccount, PC
  <2>3. CASE InsertAccount(c)
    BY <1>0, <1>2, <2>3 DEF InsertAccount
  <2>4. CASE InsertRefused(c) \/ InsertFails(c)
    BY <1>0, <1>3, <2>4 DEF InsertRefused, InsertFails, PC
  <2>5. CASE SelectAgain(c)
    BY <1>0, <1>2, <1>4, <2>5 DEF SelectAgain
  <2> QED BY <1>6, <2>1, <2>2, <2>3, <2>4, <2>5 DEF RegisterStep
<1>7. CASE ProfileStep(c) /\ ~ReadAccount(c)
  <2>1. CASE CheckAccount(c)
    BY <1>0, <1>3, <1>4, <2>1 DEF CheckAccount, PC
  <2>2. ASSUME NEW f \in UpdateFields, Fetch(c, f)
        PROVE  Quiet
    <3> DEFINE new == [req EXCEPT !.pc = "apply", !.fields = f]
    <3>1. new.pc = "apply"
      BY <1>0 DEF Request
    <3>2. client' = [client EXCEPT ![c] = new]
      BY <2>2 DEF Fetch
    <3> HIDE DEF new
    <3> QED BY <1>1, <3>1, <3>2
  <2>3. CASE UpdateInMemory(c)
    BY <1>0, <1>2, <1>4, <2>3 DEF UpdateInMemory
  <2>4. CASE WriteAccount(c)
    BY <1>0, <1>2, <2>4 DEF WriteAccount
  <2>5. CASE WriteWithoutReply(c)
    BY <1>4, <2>5 DEF WriteWithoutReply
  <2> QED BY <1>7, <2>1, <2>2, <2>3, <2>4, <2>5 DEF ProfileStep
<1>8. ASSUME NEW kind \in {"login", "view"}, NEW key \in Keys
      PROVE  [Idle EXCEPT !.kind = kind, !.key = key, !.at = now] \in Request
  BY IdleType DEF Request, Kinds, StateTypes
<1>9. ASSUME NEW k \in Keys, Login(c, k)
      PROVE  Quiet
  BY <1>2, <1>3, <1>8, <1>9 DEF Login, PC, Finished
<1>10. CASE ViewProfile(c)
  <2>1. session[c].key \in Keys
    BY RequestTyped DEF Session
  <2> QED BY <1>2, <1>3, <1>8, <1>10, <2>1 DEF ViewProfile, PC, Finished
<1>11. CASE RequestFails(c)
  BY <1>4, <1>11 DEF RequestFails
<1> QED BY <1>5, <1>6, <1>7, <1>9, <1>10, <1>11 DEF Register, UpdateProfile, SyncProfile

\* A step that leaves the row of every update in progress alone.
LEMMA ReadStaysCurrent ==
    ASSUME StateTypes, ReadIsCurrent, NEW c \in Clients, client'[c].pc # "write",
           \A d \in Clients \ {c} : client'[d] = client[d],
           \A d \in Clients \ {c} : client[d].pc = "write" =>
              accounts'[client[d].key] = accounts[client[d].key]
    PROVE  ReadIsCurrent'
<1> SUFFICES ASSUME NEW d \in Clients, client'[d].pc = "write"
             PROVE  client'[d].read = Hydrated(accounts'[client'[d].key])
  BY DEF ReadIsCurrent, Mine
<1>1. d # c /\ client'[d] = client[d]
  OBVIOUS
<1> QED BY <1>1 DEF ReadIsCurrent, Mine

LEMMA SqlClientStep ==
    ASSUME AccountsInv, ReadIsCurrent, OneUpdate, backend = "mysql", NEW c \in Clients,
           \/ \E k \in Keys, fields \in RegisterFields, extra \in ExtraFields :
                 Register(c, k, fields, extra)
           \/ \E f \in UpdateFields : UpdateProfile(c, f)
           \/ SyncProfile(c)
           \/ \E k \in Keys : Login(c, k)
           \/ ViewProfile(c)
           \/ RegisterStep(c)
           \/ ProfileStep(c)
           \/ RequestFails(c)
    PROVE  ReadIsCurrent' /\ FieldsMove
<1> DEFINE req == client[c]
           acc == Mine(c)
<1>0. /\ req \in Request /\ acc \in Account /\ req.key \in Keys /\ req.fields \in Profile
      /\ accounts \in [Keys -> Account] /\ client \in [Clients -> Request]
      /\ acc = accounts[req.key] /\ StateTypes
  BY RequestTyped DEF AccountsInv, StateTypes, Mine, Request
<1>1. CASE ReadAccount(c)
  <2>1. UNCHANGED accounts
    BY <1>1 DEF ReadAccount
  <2>2. FieldsMove
    BY <2>1 DEF FieldsMove
  <2>3. \A d \in Clients \ {c} : client'[d] = client[d]
    BY <1>0, <1>1 DEF ReadAccount, Fail
  <2>4. client'[c].pc = "write" =>
           client'[c].read = Hydrated(acc) /\ client'[c].key = req.key
    <3> DEFINE new  == [req EXCEPT !.pc = "write", !.read = Hydrated(acc)]
               fail == [req EXCEPT !.pc = "failed"]
    <3>1. client'[c] = new \/ client'[c] = fail
      BY <1>0, <1>1 DEF ReadAccount, Fail
    <3>2. new.read = Hydrated(acc) /\ new.key = req.key /\ fail.pc = "failed"
      BY <1>0 DEF Request
    <3> HIDE DEF new, fail
    <3> QED BY <3>1, <3>2
  <2>5. ReadIsCurrent'
    BY <1>0, <2>1, <2>3, <2>4 DEF ReadIsCurrent, Mine
  <2> QED BY <2>2, <2>5
<1> SUFFICES ASSUME ~ReadAccount(c)
             PROVE  ReadIsCurrent' /\ FieldsMove
  BY <1>1
<1>2. /\ client'[c].pc # "write"
      /\ \A d \in Clients \ {c} : client'[d] = client[d]
  BY <1>0, NotWriting
<1>3. CASE UNCHANGED accounts
  BY <1>0, <1>2, <1>3, ReadStaysCurrent DEF FieldsMove
<1>4. ASSUME ~Exists(acc), NEW new, Write(c, new)
      PROVE  ReadIsCurrent' /\ FieldsMove
  <2>1. accounts' = [accounts EXCEPT ![req.key] = new]
    BY <1>4 DEF Write
  <2>2. \A k \in Keys : Exists(accounts[k]) => accounts'[k] = accounts[k]
    BY <1>0, <1>4, <2>1
  <2>3. \A d \in Clients : client[d].pc = "write" =>
           client[d].key \in Keys /\ Exists(accounts[client[d].key])
    BY RequestTyped DEF AccountsInv, UpdateKeepsClick, UpdateKept, Mine
  <2> QED BY <1>0, <1>2, <2>2, <2>3, ReadStaysCurrent DEF FieldsMove
<1>5. ASSUME req.pc = "write", Write(c, SqlUpdate(acc, req.read, req.fields))
      PROVE  ReadIsCurrent' /\ FieldsMove
  <2> DEFINE new == SqlUpdate(acc, Hydrated(acc), req.fields)
  <2>1. req.read = Hydrated(acc)
    BY <1>5 DEF ReadIsCurrent
  <2>2. accounts' = [accounts EXCEPT ![req.key] = new]
    BY <1>5, <2>1 DEF Write
  <2>3. \A x \in {"name", "avatar"} :
           \/ Shown(new)[x] = Shown(acc)[x]
           \/ Shown(new)[x] = req.fields[x] /\ req.fields[x] # Empty
    BY <1>0, SqlUpdateShows
  <2>4. \A x \in {"name", "avatar"} :
           req.fields[x] # Empty => Asked(req.key, x, req.fields[x])
    BY <1>5 DEF Asked
  <2>5. \A d \in Clients \ {c} : client[d].pc = "write" =>
           client[d].key \in Keys /\ client[d].key # req.key
    BY <1>5, RequestTyped DEF OneUpdate, AccountsInv
  <2> HIDE DEF new, req, acc
  <2>6. FieldsMove
    <3> SUFFICES ASSUME NEW k \in Keys, NEW x \in {"name", "avatar"}
                 PROVE  \/ Shown(accounts'[k])[x] = Shown(accounts[k])[x]
                        \/ Asked(k, x, Shown(accounts'[k])[x])
      BY DEF FieldsMove
    <3>1. CASE k = req.key
      <4>1. accounts'[k] = new /\ accounts[k] = acc
        BY <1>0, <2>2, <3>1
      <4> QED BY <2>3, <2>4, <3>1, <4>1
    <3>2. CASE k # req.key
      BY <1>0, <2>2, <3>2
    <3> QED BY <3>1, <3>2
  <2>7. \A d \in Clients \ {c} : client[d].pc = "write" =>
           accounts'[client[d].key] = accounts[client[d].key]
    BY <1>0, <2>2, <2>5
  <2>8. ReadIsCurrent'
    BY <1>0, <1>2, <2>7, ReadStaysCurrent
  <2> QED BY <2>6, <2>8
<1>6. CASE RegisterStep(c)
  <2>1. CASE InsertAccount(c) \/ InsertFails(c)
    BY <1>3, <1>4, <2>1 DEF InsertAccount, InsertFails, IsDuplicate
  <2>2. CASE SelectAccount(c) \/ InsertRefused(c) \/ SelectAgain(c)
    BY <1>3, <2>2 DEF SelectAccount, InsertRefused, SelectAgain
  <2> QED BY <1>6, <2>1, <2>2 DEF RegisterStep, RegisterInMemory
<1>7. CASE ProfileStep(c)
  <2>1. CASE WriteAccount(c) \/ WriteWithoutReply(c)
    BY <1>5, <2>1 DEF WriteAccount, WriteWithoutReply
  <2>2. CASE CheckAccount(c) \/ \E f \in UpdateFields : Fetch(c, f)
    BY <1>3, <2>2 DEF CheckAccount, Fetch
  <2> QED BY <1>7, <2>1, <2>2 DEF ProfileStep, UpdateInMemory
<1> QED BY <1>3, <1>6, <1>7
        DEF Register, UpdateProfile, SyncProfile, Login, ViewProfile, RequestFails, Send

LEMMA FieldsStep ==
    ASSUME AccountsInv, MemoryPCs, ReadIsCurrent, OneUpdate, backend \in Backends, [Next]_vars
    PROVE  ReadIsCurrent' /\ FieldsMove
<1>1. CASE backend = "memory"
  <2>1. MemoryPCs' /\ FieldsMove /\ backend' = "memory"
    BY <1>1, MemoryStep DEF Next, vars
  <2> QED BY <2>1 DEF MemoryPCs, OnlyMySQL, ReadIsCurrent
<1>2. CASE backend = "mysql"
  <2>1. CASE Tick \/ UNCHANGED vars
    BY <2>1 DEF Tick, vars, FieldsMove, ReadIsCurrent, Mine
  <2>2. CASE Restart
    BY <1>2, <2>2 DEF Restart, Idle, FieldsMove, ReadIsCurrent
  <2> QED BY <1>2, <2>1, <2>2, SqlClientStep DEF Next, Step
<1> QED BY <1>1, <1>2, BackendAssumption

\* Updates over MySQL lose nothing unless two of the same account overlap: while
\* at most one request at a time is between the SELECT and the UPDATE of an
\* account, a name or an avatar changes only into one that a request asks for
\* (mysql UpdateProfile).
THEOREM OneUpdateLosesNothing == Spec /\ []OneUpdate => EmptyFieldsStay
<1>1. Init => MemoryPCs /\ ReadIsCurrent /\ backend \in Backends
  BY DEF Init, MemoryPCs, ReadIsCurrent, Idle, OnlyMySQL
<1>2. AccountsInv /\ MemoryPCs /\ [Next]_vars => MemoryPCs'
  BY MemoryStep
<1>3. AccountsInv /\ MemoryPCs /\ ReadIsCurrent /\ OneUpdate /\ backend \in Backends
         /\ [Next]_vars => ReadIsCurrent' /\ (backend \in Backends)'
  BY FieldsStep DEF Next, vars
<1>4. AccountsInv /\ MemoryPCs /\ ReadIsCurrent /\ OneUpdate /\ backend \in Backends
         /\ [Next]_vars =>
        [\A k \in Keys, x \in {"name", "avatar"} :
            Exists(accounts[k]) /\ Exists(accounts'[k]) =>
                \/ Shown(accounts'[k])[x] = Shown(accounts[k])[x]
                \/ Asked(k, x, Shown(accounts'[k])[x])]_accounts
  BY FieldsStep DEF FieldsMove
<1> QED BY <1>1, <1>2, <1>3, <1>4, InvHolds, PTL DEF Spec, EmptyFieldsStay
=============================================================================
