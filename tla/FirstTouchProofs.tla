-------------------------- MODULE FirstTouchProofs --------------------------
(***************************************************************************)
(* Registration implements FirstTouch: every step of Accounts, over either *)
(* store, is one of its steps or a stutter.                                *)
(***************************************************************************)
EXTENDS AccountsProofs

\* The abstract state, and the forms an abstract request takes.
MarksOf == [k \in Keys |-> MarkOf(accounts[k])]
AsksOf  == [c \in Clients |-> AskOf(client[c])]

Waiting == {"report", "insert", "reselect"}

Ask(st, key, want, new, got) ==
    [st |-> st, key |-> key, want |-> want, new |-> new, got |-> got]

NoAskYet == Ask("none", NoKeyAsked, NoMarkYet, FALSE, NoMarkYet)
AskedFor(k, m) == Ask("waiting", k, m, FALSE, NoMarkYet)
Told(k, m, isNew, mark) == Ask("answered", k, m, isNew, mark)

LEMMA AskCases ==
    ASSUME NEW req
    PROVE  /\ req.pc \in Waiting => AskOf(req) = AskedFor(req.key, MarkOf(NewAccount(req)))
           /\ req.pc \notin Waiting /\ ~Registered(req) => AskOf(req) = NoAskYet
           /\ Registered(req) =>
                 AskOf(req) = Told(req.key, MarkOf(NewAccount(req)), req.new,
                                   [click |-> req.shown.click, at |-> req.since])
BY DEF AskOf, Registered, Waiting, Ask, AskedFor, NoAskYet, Told

\* A registration that is waiting is one.
WaitersRegister == \A c \in Clients : client[c].pc \in Waiting => client[c].kind = "register"

-----------------------------------------------------------------------------
(* The abstract actions in terms of MarksOf and AsksOf *)

Begun(k, m) == [Promise!NoAsk EXCEPT !.st = "waiting", !.key = k, !.want = m]
Claimed(ask, m) == [ask EXCEPT !.st = "answered", !.new = TRUE, !.got = m]
Answered(ask, m) == [ask EXCEPT !.st = "answered", !.got = m]

LEMMA PromiseSteps ==
    ASSUME NEW c \in Clients
    PROVE  /\ \A k \in Keys, m \in [click : Clicks, at : Times] :
                 Promise!Begin(c, k, m) <=>
                    /\ AsksOf[c].st # "waiting"
                    /\ AsksOf' = [AsksOf EXCEPT ![c] = Begun(k, m)]
                    /\ UNCHANGED MarksOf
           /\ Promise!Leave(c) <=>
                    AsksOf' = [AsksOf EXCEPT ![c] = Promise!NoAsk] /\ UNCHANGED MarksOf
           /\ Promise!Claim(c) <=>
                    /\ AsksOf[c].st = "waiting"
                    /\ MarksOf[AsksOf[c].key] = NoMarkYet
                    /\ MarksOf' = [MarksOf EXCEPT ![AsksOf[c].key] = AsksOf[c].want]
                    /\ \/ UNCHANGED AsksOf
                       \/ AsksOf' = [AsksOf EXCEPT ![c] = Claimed(@, AsksOf[c].want)]
           /\ Promise!AnswerOld(c) <=>
                    /\ AsksOf[c].st = "waiting"
                    /\ MarksOf[AsksOf[c].key] # NoMarkYet
                    /\ AsksOf' = [AsksOf EXCEPT ![c] = Answered(@, MarksOf[AsksOf[c].key])]
                    /\ UNCHANGED MarksOf
BY DEF Promise!Begin, Promise!Leave, Promise!Claim, Promise!AnswerOld, AsksOf, MarksOf,
       Begun, Claimed, Answered

LEMMA AskForms ==
    /\ \A k, m : Begun(k, m) = AskedFor(k, m)
    /\ \A k, m, mark : Claimed(AskedFor(k, m), mark) = Told(k, m, TRUE, mark)
    /\ \A k, m, mark : Answered(AskedFor(k, m), mark) = Told(k, m, FALSE, mark)
    /\ \A k, m : /\ AskedFor(k, m).st = "waiting"
                 /\ AskedFor(k, m).key = k
                 /\ AskedFor(k, m).want = m
    /\ Promise!NoAsk = NoAskYet
<1> SUFFICES ASSUME NEW k, NEW m, NEW mark
             PROVE  /\ Begun(k, m) = AskedFor(k, m)
                    /\ Claimed(AskedFor(k, m), mark) = Told(k, m, TRUE, mark)
                    /\ Answered(AskedFor(k, m), mark) = Told(k, m, FALSE, mark)
                    /\ AskedFor(k, m).st = "waiting"
                    /\ AskedFor(k, m).key = k
                    /\ AskedFor(k, m).want = m
                    /\ Promise!NoAsk = NoAskYet
  BY ZenonT(40)
<1>1. Promise!NoAsk = NoAskYet
  BY DEF Promise!NoAsk, NoAskYet, Ask
<1>2. PICK yes, no : yes = TRUE /\ no = FALSE
  OBVIOUS
<1> DEFINE none == NoAskYet
           ask  == AskedFor(k, m)
           x    == [none EXCEPT !.st = "waiting", !.key = k, !.want = m]
           y    == [ask EXCEPT !.st = "answered", !.new = yes, !.got = mark]
           z    == [ask EXCEPT !.st = "answered", !.got = mark]
           Fields(st, key, want, new, got) ==
               [st : {st}, key : {key}, want : {want}, new : {new}, got : {got}]
<1>3. /\ none \in Fields("none", NoKeyAsked, NoMarkYet, no, NoMarkYet)
      /\ ask \in Fields("waiting", k, m, no, NoMarkYet)
  BY <1>2 DEF NoAskYet, AskedFor, Ask
<1>4. ask.st = "waiting" /\ ask.key = k /\ ask.want = m
  BY DEF AskedFor, Ask
<1> HIDE DEF none, ask
<1>5. /\ x \in Fields("waiting", k, m, no, NoMarkYet)
      /\ y \in Fields("answered", k, m, yes, mark)
      /\ z \in Fields("answered", k, m, no, mark)
  BY <1>3
<1> HIDE DEF x, y, z
<1>6. /\ x = Ask("waiting", k, m, no, NoMarkYet)
      /\ y = Ask("answered", k, m, yes, mark)
      /\ z = Ask("answered", k, m, no, mark)
  BY <1>5 DEF Ask
<1>7. x = AskedFor(k, m) /\ y = Told(k, m, TRUE, mark) /\ z = Told(k, m, FALSE, mark)
  BY <1>2, <1>6, Zenon DEF AskedFor, Told
<1>8. Claimed(ask, mark) = y /\ Answered(ask, mark) = z /\ Begun(k, m) = x
  BY <1>1, <1>2, Zenon DEF Claimed, Answered, Begun, x, y, z, none
<1> QED BY <1>1, <1>4, <1>7, <1>8, Zenon DEF ask

\* A registration begins.
LEMMA BeginStep ==
    ASSUME NEW c \in Clients, NEW k \in Keys, NEW m \in [click : Clicks, at : Times],
           AsksOf[c].st # "waiting",
           AsksOf' = [AsksOf EXCEPT ![c] = AskedFor(k, m)],
           UNCHANGED MarksOf
    PROVE  Promise!Begin(c, k, m)
BY AskForms, PromiseSteps

\* The first one is stored, and answered or not.
LEMMA ClaimStep ==
    ASSUME NEW c \in Clients, NEW k \in Keys, NEW m,
           AsksOf[c] = AskedFor(k, m), MarksOf[k] = NoMarkYet,
           MarksOf' = [MarksOf EXCEPT ![k] = m],
           UNCHANGED AsksOf \/ AsksOf' = [AsksOf EXCEPT ![c] = Told(k, m, TRUE, m)]
    PROVE  Promise!Claim(c)
<1>1. Claimed(AsksOf[c], m) = Told(k, m, TRUE, m)
  BY AskForms
<1>2. AsksOf[c].st = "waiting" /\ AsksOf[c].key = k /\ AsksOf[c].want = m
  BY AskForms
<1> QED BY <1>1, <1>2, PromiseSteps

\* A later one is answered.
LEMMA AnswerOldStep ==
    ASSUME NEW c \in Clients, NEW k \in Keys, NEW m,
           AsksOf[c] = AskedFor(k, m), MarksOf[k] # NoMarkYet, UNCHANGED MarksOf,
           AsksOf' = [AsksOf EXCEPT ![c] = Told(k, m, FALSE, MarksOf[k])]
    PROVE  Promise!AnswerOld(c)
<1>1. PICK mark : mark = MarksOf[k]
  OBVIOUS
<1>2. Answered(AskedFor(k, m), mark) = Told(k, m, FALSE, mark)
  BY AskForms, Zenon
<1>3. Answered(AsksOf[c], MarksOf[k]) = Told(k, m, FALSE, MarksOf[k])
  BY <1>1, <1>2, Zenon
<1>4. AsksOf[c].st = "waiting" /\ AsksOf[c].key = k
  BY AskForms
<1> QED BY <1>3, <1>4, PromiseSteps

-----------------------------------------------------------------------------
(* The steps of one client, seen from the registrations *)

\* c has nothing to do with a registration after the step.
Leaves(c, req) ==
    /\ req.pc \notin Waiting /\ ~Registered(req)
    /\ MarksKept
    /\ \A k \in Keys : Exists(accounts'[k]) => Exists(accounts[k])

\* A registration that has arrived, and one whose statement has been refused.
Arrives(c, req) ==
    /\ client[c].pc \in Finished
    /\ req.pc = "report" /\ req.kind = "register"
    /\ UNCHANGED accounts

GoesOn(c, req) ==
    /\ client[c].pc \in Waiting
    /\ \E pc \in Waiting : req = [client[c] EXCEPT !.pc = pc]
    /\ \/ UNCHANGED accounts
       \/ ~Exists(Mine(c)) /\ Write(c, NewAccount(client[c]))

\* The two answers.
IsFirst(c, req) ==
    /\ client[c].pc \in Waiting
    /\ ~Exists(Mine(c)) /\ Write(c, NewAccount(client[c]))
    /\ req = Answer(client[c], TRUE, NewAccount(client[c]))

IsLate(c, req) ==
    /\ client[c].pc \in Waiting
    /\ Exists(Mine(c)) /\ UNCHANGED accounts
    /\ req = Answer(client[c], FALSE, Mine(c))

Forms(c, req) ==
    Leaves(c, req) \/ Arrives(c, req) \/ GoesOn(c, req) \/ IsFirst(c, req) \/ IsLate(c, req)

\* c takes a step of one of these forms.
Moves(c) ==
    \E req \in Request : client' = [client EXCEPT ![c] = req] /\ Forms(c, req)

-----------------------------------------------------------------------------
(* Every step of a client has one of the forms *)

LEMMA FormOfRegister ==
    ASSUME AccountsInv, WaitersRegister, NEW c \in Clients, RegisterStep(c)
    PROVE  Moves(c)
<1> DEFINE req == client[c]
           acc == Mine(c)
<1>1. /\ req \in Request /\ acc \in Account /\ req.key \in Keys
      /\ NewAccount(req) \in Account /\ accounts \in [Keys -> Account]
  BY RequestTyped, RequestTypes DEF AccountsInv, StateTypes
<1>2. \A pc \in PC : [req EXCEPT !.pc = pc] \in Request
  BY <1>1 DEF Request
<1>3. \A a \in Account, new \in BOOLEAN : Answer(req, new, a) \in Request
  BY <1>1, RequestTypes
<1>4. Waiting \subseteq PC
  BY DEF Waiting, PC
\* An answer, to the first registration or to a later one.
<1>5. ASSUME req.pc \in Waiting, ~Exists(acc), Write(c, NewAccount(req)),
             client' = [client EXCEPT ![c] = Answer(req, TRUE, NewAccount(req))]
      PROVE  Moves(c)
  BY <1>1, <1>3, <1>5 DEF Moves, Forms, IsFirst
<1>6. ASSUME req.pc \in Waiting, Exists(acc), UNCHANGED accounts,
             client' = [client EXCEPT ![c] = Answer(req, FALSE, acc)]
      PROVE  Moves(c)
  BY <1>1, <1>3, <1>6 DEF Moves, Forms, IsLate
<1>7. ASSUME NEW pc \in Waiting, req.pc \in Waiting,
             client' = [client EXCEPT ![c] = [req EXCEPT !.pc = pc]],
             UNCHANGED accounts \/ (~Exists(acc) /\ Write(c, NewAccount(req)))
      PROVE  Moves(c)
  <2>1. GoesOn(c, [req EXCEPT !.pc = pc])
    BY <1>7 DEF GoesOn
  <2> QED BY <1>2, <1>4, <1>7, <2>1 DEF Moves, Forms
<1> HIDE DEF req, acc
<1>8. CASE RegisterInMemory(c)
  <2>1. /\ client' = [client EXCEPT ![c] = Answer(req, ~Exists(acc), Attributed(acc, req))]
        /\ Write(c, Attributed(acc, req)) /\ req.pc \in Waiting
    BY <1>8 DEF RegisterInMemory, Waiting, req, acc
  <2>2. CASE Exists(acc)
    <3>1. Attributed(acc, req) = acc
      BY <2>2 DEF Attributed
    <3>2. UNCHANGED accounts
      BY <1>1, <2>1, <3>1 DEF Write, Mine, req, acc
    <3>3. client' = [client EXCEPT ![c] = Answer(req, FALSE, acc)]
      <4>1. PICK new : new = ~Exists(acc)
        OBVIOUS
      <4>2. client' = [client EXCEPT ![c] = Answer(req, new, acc)]
        BY <2>1, <3>1, <4>1, Zenon
      <4>3. PICK no : no = FALSE
        OBVIOUS
      <4>4. new = no
        BY <2>2, <4>1, <4>3
      <4>5. Answer(req, FALSE, acc) = Answer(req, new, acc)
        BY <4>3, <4>4, Zenon
      <4> QED BY <4>2, <4>5
    <3> QED BY <1>6, <2>1, <2>2, <3>2, <3>3
  <2>3. CASE ~Exists(acc)
    <3>1. Attributed(acc, req) = NewAccount(req)
      BY <2>3 DEF Attributed
    <3>2. client' = [client EXCEPT ![c] = Answer(req, TRUE, NewAccount(req))]
      <4>1. PICK new : new = ~Exists(acc)
        OBVIOUS
      <4>2. client' = [client EXCEPT ![c] = Answer(req, new, NewAccount(req))]
        BY <2>1, <3>1, <4>1, Zenon
      <4>3. PICK yes : yes = TRUE
        OBVIOUS
      <4>4. new = yes
        BY <2>3, <4>1, <4>3
      <4>5. Answer(req, TRUE, NewAccount(req)) = Answer(req, new, NewAccount(req))
        BY <4>3, <4>4, Zenon
      <4> QED BY <4>2, <4>5
    <3> QED BY <1>5, <2>1, <2>3, <3>1, <3>2
  <2> QED BY <2>2, <2>3
<1>9. CASE SelectAccount(c)
  <2>1. req.pc \in Waiting /\ UNCHANGED accounts
    BY <1>9 DEF SelectAccount, Waiting, req
  <2>2. CASE Exists(acc)
    <3>1. client' = [client EXCEPT ![c] = Answer(req, FALSE, acc)]
      BY <1>9, <2>2 DEF SelectAccount, req, acc
    <3> QED BY <1>6, <2>1, <2>2, <3>1
  <2>3. CASE ~Exists(acc)
    <3>1. client' = [client EXCEPT ![c] = [req EXCEPT !.pc = "insert"]]
      BY <1>9, <2>3 DEF SelectAccount, req, acc
    <3> QED BY <1>7, <2>1, <3>1 DEF Waiting
  <2> QED BY <2>2, <2>3
<1>10. CASE InsertAccount(c)
  BY <1>5, <1>10 DEF InsertAccount, IsDuplicate, Waiting, req, acc
<1>11. CASE InsertRefused(c)
  <2>1. /\ client' = [client EXCEPT ![c] = [req EXCEPT !.pc = "reselect"]]
        /\ req.pc \in Waiting /\ UNCHANGED accounts
    BY <1>11 DEF InsertRefused, Waiting, req
  <2> QED BY <1>7, <2>1 DEF Waiting
<1>12. CASE InsertFails(c)
  <2>1. /\ client' = [client EXCEPT ![c] = [req EXCEPT !.pc = "reselect"]]
        /\ req.pc \in Waiting
        /\ UNCHANGED accounts \/ (~Exists(acc) /\ Write(c, NewAccount(req)))
    BY <1>12 DEF InsertFails, IsDuplicate, Waiting, req, acc
  <2> QED BY <1>7, <2>1 DEF Waiting
<1>13. CASE SelectAgain(c)
  <2>1. req.pc \in Waiting /\ UNCHANGED accounts
    BY <1>13 DEF SelectAgain, Waiting, req
  <2>2. CASE Exists(acc)
    <3>1. client' = [client EXCEPT ![c] = Answer(req, FALSE, acc)]
      BY <1>13, <2>2 DEF SelectAgain, req, acc
    <3> QED BY <1>6, <2>1, <2>2, <3>1
  <2>3. CASE ~Exists(acc)
    <3> DEFINE new == [req EXCEPT !.pc = "failed"]
    <3>1. client' = [client EXCEPT ![c] = new]
      BY <1>13, <2>3 DEF SelectAgain, Fail, req, acc
    <3>2. new \in Request /\ new.pc = "failed"
      BY <1>1 DEF Request, PC, Finished
    <3> HIDE DEF new
    <3>3. Leaves(c, new)
      BY <2>1, <3>2, NoWriteKeeps DEF Leaves, Waiting, Registered
    <3> QED BY <3>1, <3>2, <3>3 DEF Moves, Forms
  <2> QED BY <2>2, <2>3
<1> QED BY <1>8, <1>9, <1>10, <1>11, <1>12, <1>13 DEF RegisterStep

\* A request that is not a registration and has changed at most an account that
\* was there before.
LEMMA LeavingMoves ==
    ASSUME NEW c \in Clients, NEW req \in Request, client' = [client EXCEPT ![c] = req],
           req.pc \notin Waiting, ~Registered(req), MarksKept,
           \A k \in Keys : Exists(accounts'[k]) => Exists(accounts[k])
    PROVE  Moves(c)
BY DEF Moves, Forms, Leaves

LEMMA FormOfProfile ==
    ASSUME AccountsInv, NEW c \in Clients, ProfileStep(c)
    PROVE  Moves(c)
<1> DEFINE req == client[c]
           acc == Mine(c)
<1>1. /\ req \in Request /\ acc \in Account /\ req.key \in Keys
      /\ req.fields \in Profile /\ req.read \in Account
      /\ accounts \in [Keys -> Account]
  BY RequestTyped DEF AccountsInv, StateTypes, Request
<1>2. UpdateKept(req, acc) /\ acc = accounts[req.key]
  BY DEF AccountsInv, UpdateKeepsClick, Mine
<1>3. MarksKept
  BY ProfileStepKeeps DEF AccountsInv
\* It keeps its kind and goes on, and writes to an account it has found.
<1>4. ASSUME NEW new \in Request, client' = [client EXCEPT ![c] = new],
             req.pc \in {"check", "fetch", "apply", "write"},
             new.pc \in {"fetch", "apply", "write", "failed", "ok"}, new.kind = req.kind,
             UNCHANGED accounts \/ (Exists(acc) /\ \E a : Write(c, a))
      PROVE  Moves(c)
  <2>1. new.pc \notin Waiting /\ ~Registered(new)
    BY <1>2, <1>4 DEF UpdateKept, Waiting, Registered
  <2>2. \A k \in Keys : Exists(accounts'[k]) => Exists(accounts[k])
    <3>1. CASE UNCHANGED accounts
      BY <3>1
    <3>2. ASSUME Exists(acc), NEW a, Write(c, a), NEW k \in Keys
          PROVE  Exists(accounts'[k]) => Exists(accounts[k])
      BY <1>1, <1>2, <3>2 DEF Write
    <3> QED BY <1>4, <3>1, <3>2
  <2> QED BY <1>3, <1>4, <2>1, <2>2, LeavingMoves
\* The ways a step changes its request.
<1>5. \A pc \in PC : /\ [req EXCEPT !.pc = pc] \in Request
                     /\ [req EXCEPT !.pc = pc].pc = pc
                     /\ [req EXCEPT !.pc = pc].kind = req.kind
  BY <1>1 DEF Request
<1>6. ASSUME NEW a \in Account
      PROVE  Show(req, a) \in Request /\ Show(req, a).pc = "ok" /\ Show(req, a).kind = req.kind
  <2> DEFINE shown == Shown(a)
  <2>1. Show(req, a) = [req EXCEPT !.pc = "ok", !.shown = shown, !.since = a.at]
    BY DEF Show
  <2>2. Show(req, a) \in Request
    BY <1>1, RequestTypes
  <2> HIDE DEF shown
  <2> QED BY <1>1, <2>1, <2>2 DEF Request
<1>7. {"fetch", "apply", "write", "failed"} \subseteq PC
  BY DEF PC, Finished
<1>8. Fail(c) <=> client' = [client EXCEPT ![c] = [req EXCEPT !.pc = "failed"]]
  BY DEF Fail
<1> HIDE DEF req, acc
<1>9. CASE CheckAccount(c)
  <2>1. PICK pc \in {"fetch", "failed"} : client' = [client EXCEPT ![c] = [req EXCEPT !.pc = pc]]
    BY <1>8, <1>9 DEF CheckAccount, req
  <2>2. req.pc = "check" /\ UNCHANGED accounts
    BY <1>9 DEF CheckAccount, req
  <2> QED BY <1>4, <1>5, <1>7, <2>1, <2>2
<1>10. ASSUME NEW f \in UpdateFields, Fetch(c, f)
       PROVE  Moves(c)
  <2> DEFINE new == [req EXCEPT !.pc = "apply", !.fields = f]
  <2>1. client' = [client EXCEPT ![c] = new] /\ req.pc = "fetch" /\ UNCHANGED accounts
    BY <1>10 DEF Fetch, req
  <2>2. new \in Request /\ new.pc = "apply" /\ new.kind = req.kind
    BY <1>1, <1>7, FieldsAssumption DEF Request
  <2> HIDE DEF new
  <2> QED BY <1>4, <2>1, <2>2
<1>11. CASE UpdateInMemory(c)
  <2> DEFINE new == MemoryUpdate(acc, req.fields)
  <2>1. new \in Account /\ req.pc = "apply"
    BY <1>1, <1>11, UpdateTypes DEF UpdateInMemory, req
  <2>2. CASE Exists(acc)
    <3>1. Write(c, new) /\ client' = [client EXCEPT ![c] = Show(req, new)]
      BY <1>11, <2>2 DEF UpdateInMemory, req, acc
    <3> HIDE DEF new
    <3> QED BY <1>4, <1>6, <2>1, <2>2, <3>1
  <2>3. CASE ~Exists(acc)
    <3>1. Fail(c) /\ UNCHANGED accounts
      BY <1>11, <2>3 DEF UpdateInMemory, acc
    <3> QED BY <1>4, <1>5, <1>7, <1>8, <2>1, <3>1
  <2> QED BY <2>2, <2>3
<1>12. CASE ReadAccount(c)
  <2>1. req.pc = "apply" /\ UNCHANGED accounts
    BY <1>12 DEF ReadAccount, req
  <2>2. CASE Exists(acc)
    <3> DEFINE read == Hydrated(acc)
               new  == [req EXCEPT !.pc = "write", !.read = read]
    <3>1. client' = [client EXCEPT ![c] = new]
      BY <1>12, <2>2 DEF ReadAccount, req, acc
    <3>2. read \in Account
      BY <1>1, AccountTypes
    <3> HIDE DEF read
    <3>3. new \in Request /\ new.pc = "write" /\ new.kind = req.kind
      BY <1>1, <1>7, <3>2 DEF Request
    <3> HIDE DEF new
    <3> QED BY <1>4, <2>1, <3>1, <3>3
  <2>3. CASE ~Exists(acc)
    <3>1. Fail(c)
      BY <1>12, <2>3 DEF ReadAccount, acc
    <3> QED BY <1>4, <1>5, <1>7, <1>8, <2>1, <3>1
  <2> QED BY <2>2, <2>3
<1>13. CASE WriteAccount(c)
  <2> DEFINE view == SqlUpdate(req.read, req.read, req.fields)
  <2>1. /\ \E a : Write(c, a)
        /\ req.pc = "write" /\ client' = [client EXCEPT ![c] = Show(req, view)]
    BY <1>13 DEF WriteAccount, req
  <2>2. view \in Account /\ Exists(acc)
    BY <1>1, <1>2, <2>1, UpdateTypes DEF UpdateKept
  <2> HIDE DEF view
  <2> QED BY <1>4, <1>6, <2>1, <2>2
<1>14. CASE WriteWithoutReply(c)
  <2>1. (\E a : Write(c, a)) /\ req.pc = "write" /\ Fail(c)
    BY <1>14 DEF WriteWithoutReply, req
  <2>2. Exists(acc)
    BY <1>2, <2>1 DEF UpdateKept
  <2> QED BY <1>4, <1>5, <1>7, <1>8, <2>1, <2>2
<1> QED BY <1>9, <1>10, <1>11, <1>12, <1>13, <1>14 DEF ProfileStep

\* A new request: a registration arrives, anything else leaves.
LEMMA FormOfSend ==
    ASSUME AccountsInv, NEW c \in Clients, NEW kind \in Kinds, NEW key \in Keys,
           NEW pc \in PC, NEW fields \in Profile, NEW extra \in Profile,
           Send(c, kind, key, pc, fields, extra),
           \/ pc = "report" /\ kind = "register"
           \/ pc \in {"check", "apply"} /\ kind # "register"
    PROVE  Moves(c)
<1> DEFINE req == [Idle EXCEPT !.pc = pc, !.kind = kind, !.key = key,
                               !.fields = fields, !.extra = extra, !.at = now]
<1>1. /\ client' = [client EXCEPT ![c] = req] /\ UNCHANGED accounts
      /\ client[c].pc \in Finished
  BY DEF Send
<1>2. req \in Request /\ req.pc = pc /\ req.kind = kind
  BY IdleType DEF Request, AccountsInv, StateTypes
<1> HIDE DEF req
<1>3. CASE pc = "report" /\ kind = "register"
  BY <1>1, <1>2, <1>3 DEF Moves, Forms, Arrives
<1>4. CASE pc \in {"check", "apply"} /\ kind # "register"
  BY <1>1, <1>2, <1>4, LeavingMoves, NoWriteKeeps DEF Waiting, Registered
<1> QED BY <1>3, <1>4

\* A request that is answered at once, and one that fails.
LEMMA FormOfLogin ==
    ASSUME AccountsInv, NEW c \in Clients, (\E k \in Keys : Login(c, k)) \/ ViewProfile(c)
    PROVE  Moves(c)
<1>1. ASSUME NEW kind \in {"login", "view"}, NEW key \in Keys, UNCHANGED accounts,
             LET req == [Idle EXCEPT !.kind = kind, !.key = key, !.at = now]
             IN  \/ client' = [client EXCEPT ![c] = Show(req, accounts[key])]
                 \/ \E pc \in {"need_register", "failed"} :
                       client' = [client EXCEPT ![c] = [req EXCEPT !.pc = pc]]
      PROVE  Moves(c)
  <2> DEFINE req   == [Idle EXCEPT !.kind = kind, !.key = key, !.at = now]
             shown == Shown(accounts[key])
             done  == Show(req, accounts[key])
  <2>1. req \in Request /\ req.kind = kind /\ accounts[key] \in Account
    BY IdleType DEF Request, Kinds, AccountsInv, StateTypes
  <2>2. done \in Request
    BY <2>1, RequestTypes
  <2>3. done = [req EXCEPT !.pc = "ok", !.shown = shown, !.since = accounts[key].at]
    BY DEF Show
  <2> HIDE DEF req, shown, done
  <2>4. done.pc = "ok" /\ done.kind = kind
    BY <2>1, <2>3 DEF Request
  <2>5. CASE client' = [client EXCEPT ![c] = done]
    BY <1>1, <2>2, <2>4, <2>5, LeavingMoves, NoWriteKeeps DEF Registered, Waiting
  <2>6. ASSUME NEW pc \in {"need_register", "failed"},
               client' = [client EXCEPT ![c] = [req EXCEPT !.pc = pc]]
        PROVE  Moves(c)
    <3> DEFINE new == [req EXCEPT !.pc = pc]
    <3>1. new \in Request /\ new.pc = pc
      BY <2>1 DEF Request, PC, Finished
    <3>2. client' = [client EXCEPT ![c] = new]
      BY <2>6
    <3> HIDE DEF new
    <3> QED BY <1>1, <3>1, <3>2, LeavingMoves, NoWriteKeeps DEF Registered, Waiting
  <2> QED BY <1>1, <2>5, <2>6 DEF req, done
<1>2. ASSUME NEW k \in Keys, Login(c, k)
      PROVE  Moves(c)
  BY <1>1, <1>2 DEF Login
<1>3. CASE ViewProfile(c)
  <2> DEFINE key == session[c].key
             req == [Idle EXCEPT !.kind = "view", !.key = key, !.at = now]
  <2>1. key \in Keys
    BY RequestTyped DEF Session, AccountsInv
  <2>2. req.key = key
    BY IdleType DEF Request
  <2> QED BY <1>1, <1>3, <2>1, <2>2 DEF ViewProfile
<1> QED BY <1>2, <1>3

LEMMA FormOfFailure ==
    ASSUME AccountsInv, NEW c \in Clients, RequestFails(c)
    PROVE  Moves(c)
<1> DEFINE new == [client[c] EXCEPT !.pc = "failed"]
<1>1. new \in Request /\ new.pc = "failed"
  BY RequestTyped DEF Request, PC, Finished, AccountsInv
<1>2. client' = [client EXCEPT ![c] = new] /\ UNCHANGED accounts
  BY DEF RequestFails, Fail
<1> HIDE DEF new
<1> QED BY <1>1, <1>2, LeavingMoves, NoWriteKeeps DEF Registered, Waiting

LEMMA StepForm ==
    ASSUME AccountsInv, WaitersRegister, [Next]_vars
    PROVE  \/ \E c \in Clients : Moves(c)
           \/ Restart
           \/ UNCHANGED <<accounts, client>>
<1>1. ASSUME NEW c \in Clients, NEW k \in Keys, NEW fields \in RegisterFields,
             NEW extra \in ExtraFields, Register(c, k, fields, extra)
      PROVE  Moves(c)
  BY <1>1, FormOfSend, FieldsAssumption DEF Register, Kinds, PC
<1>2. ASSUME NEW c \in Clients, NEW f \in UpdateFields, UpdateProfile(c, f)
      PROVE  Moves(c)
  <2>1. session[c].key \in Keys
    BY RequestTyped DEF Session, AccountsInv
  <2> QED BY <1>2, <2>1, FormOfSend, FieldsAssumption DEF UpdateProfile, Kinds, PC
<1>3. ASSUME NEW c \in Clients, SyncProfile(c)
      PROVE  Moves(c)
  <2>1. session[c].key \in Keys
    BY RequestTyped DEF Session, AccountsInv
  <2> QED BY <1>3, <2>1, FormOfSend, FieldsAssumption DEF SyncProfile, Kinds, PC
<1>4. CASE Tick \/ UNCHANGED vars
  BY <1>4 DEF Tick, vars
<1> QED BY <1>1, <1>2, <1>3, <1>4, FormOfRegister, FormOfProfile, FormOfLogin, FormOfFailure
        DEF Next, Step

-----------------------------------------------------------------------------
(* Every form is an abstract step or a stutter *)

LEMMA MarkFacts ==
    ASSUME NEW acc \in Account
    PROVE  /\ Exists(acc) => /\ MarkOf(acc) \in [click : Clicks, at : Times]
                             /\ MarkOf(acc) # NoMarkYet
           /\ ~Exists(acc) => MarkOf(acc) = NoMarkYet
<1>1. Shown(acc).click \in Clicks /\ (Exists(acc) => acc.at \in Times)
  BY AccountTypes, BoundsAssumption DEF Profile, Account, Exists, Times
<1>2. CASE Exists(acc)
  <2> DEFINE mark == [click |-> Shown(acc).click, at |-> acc.at]
  <2>1. MarkOf(acc) = mark
    BY <1>2 DEF MarkOf
  <2>2. mark \in [click : Clicks, at : Times]
    BY <1>1, <1>2
  <2>3. mark.at >= 0 /\ NoMarkYet.at = -1
    BY <1>2 DEF Exists, NoMarkYet
  <2>4. mark # NoMarkYet
    BY <2>3
  <2> QED BY <1>2, <2>1, <2>2, <2>4
<1>3. CASE ~Exists(acc)
  BY <1>3 DEF MarkOf
<1> QED BY <1>2, <1>3

LEMMA NewMark ==
    ASSUME NEW req \in Request
    PROVE  NewAccount(req) \in Account /\ Exists(NewAccount(req))
BY RequestTypes, BoundsAssumption DEF NewAccount, Exists, Request, Times

\* An answer gives the mark of the account it is made from.
LEMMA AnswerAsk ==
    ASSUME NEW req \in Request, req.kind = "register", NEW acc \in Account, Exists(acc),
           NEW new \in BOOLEAN
    PROVE  AskOf(Answer(req, new, acc))
             = Told(req.key, MarkOf(NewAccount(req)), new, MarkOf(acc))
<1> DEFINE over  == Over(Shown(acc), req.fields)
           shown == [over EXCEPT !.click = Shown(acc).click]
           ans   == Answer(req, new, acc)
<1>1. over \in Profile
  BY AccountTypes, OverType DEF Request
<1>2. shown.click = Shown(acc).click
  BY <1>1 DEF Profile
<1>3. ans = [req EXCEPT !.pc = "ok", !.new = new, !.since = acc.at, !.shown = shown]
  BY DEF Answer
<1> HIDE DEF shown, over
<1>4. /\ ans.pc = "ok" /\ ans.since = acc.at /\ ans.shown = shown /\ ans.kind = req.kind
      /\ ans.key = req.key /\ ans.new = new /\ ans.fields = req.fields
      /\ ans.extra = req.extra /\ ans.at = req.at
  BY <1>3 DEF Request
<1> HIDE DEF ans
<1>5. NewAccount(ans) = NewAccount(req)
  BY <1>4 DEF NewAccount
<1>6. [click |-> ans.shown.click, at |-> ans.since] = MarkOf(acc)
  BY <1>2, <1>4 DEF MarkOf
<1>7. Registered(ans)
  BY <1>4 DEF Registered
<1>8. AskOf(ans) = Told(ans.key, MarkOf(NewAccount(ans)), ans.new,
                        [click |-> ans.shown.click, at |-> ans.since])
  BY <1>7, AskCases, Zenon
<1>9. /\ ans.key = req.key /\ ans.new = new
  BY <1>4
<1> QED BY <1>5, <1>6, <1>8, <1>9, Zenon DEF ans

LEMMA MarksStay ==
    ASSUME MarksKept, \A k \in Keys : Exists(accounts'[k]) => Exists(accounts[k])
    PROVE  UNCHANGED MarksOf
<1>1. ASSUME NEW k \in Keys
      PROVE  MarkOf(accounts'[k]) = MarkOf(accounts[k])
  <2>1. MarkKept(accounts[k], accounts'[k])
    BY DEF MarksKept
  <2>2. CASE Exists(accounts[k])
    <3>1. /\ Exists(accounts'[k]) /\ accounts'[k].at = accounts[k].at
          /\ Shown(accounts'[k]).click = Shown(accounts[k]).click
      BY <2>1, <2>2, MarkShown DEF MarkKept
    <3> QED BY <2>2, <3>1 DEF MarkOf
  <2>3. CASE ~Exists(accounts[k])
    BY <2>3 DEF MarkOf
  <2> QED BY <2>2, <2>3
<1> QED BY <1>1 DEF MarksOf

LEMMA MarkWritten ==
    ASSUME AccountsInv, NEW k \in Keys, NEW a, accounts' = [accounts EXCEPT ![k] = a]
    PROVE  MarksOf' = [MarksOf EXCEPT ![k] = MarkOf(a)]
BY DEF MarksOf, AccountsInv, StateTypes

LEMMA AskMoved ==
    ASSUME AccountsInv, NEW c \in Clients, NEW x, client' = [client EXCEPT ![c] = x]
    PROVE  AsksOf' = [AsksOf EXCEPT ![c] = AskOf(x)] /\ AsksOf[c] = AskOf(client[c])
BY DEF AsksOf, AccountsInv, StateTypes

ClientStep(c) ==
    \/ \E k \in Keys, m \in [click : Clicks, at : Times] : Promise!Begin(c, k, m)
    \/ Promise!Leave(c) \/ Promise!Claim(c) \/ Promise!AnswerOld(c)
    \/ UNCHANGED MarksOf /\ UNCHANGED AsksOf

LEMMA FormIsStep ==
    ASSUME AccountsInv, WaitersRegister, NEW c \in Clients, NEW x \in Request,
           client' = [client EXCEPT ![c] = x], Forms(c, x)
    PROVE  ClientStep(c) /\ (x.pc \in Waiting => x.kind = "register")
<1> DEFINE req  == client[c]
           acc  == Mine(c)
           want == MarkOf(NewAccount(req))
           k    == req.key
<1>1. /\ req \in Request /\ acc \in Account /\ k \in Keys /\ acc = accounts[k]
      /\ NewAccount(req) \in Account /\ Exists(NewAccount(req))
  BY RequestTyped, NewMark DEF AccountsInv, Mine
<1>2. AsksOf' = [AsksOf EXCEPT ![c] = AskOf(x)] /\ AsksOf[c] = AskOf(req)
  BY AskMoved
<1>3. ASSUME req.pc \in Waiting
      PROVE  /\ req.kind = "register" /\ AsksOf[c] = AskedFor(k, want)
             /\ AskOf(req) = AskedFor(k, want)
  BY <1>2, <1>3, AskCases DEF WaitersRegister
<1>4. MarksOf[k] = MarkOf(acc) /\ AsksOf = [AsksOf EXCEPT ![c] = AsksOf[c]]
  BY <1>1 DEF MarksOf, AsksOf
<1>5. ASSUME UNCHANGED accounts
      PROVE  UNCHANGED MarksOf
  BY <1>5 DEF MarksOf
<1>6. ASSUME ~Exists(acc), Write(c, NewAccount(req))
      PROVE  MarksOf' = [MarksOf EXCEPT ![k] = want] /\ MarksOf[k] = NoMarkYet
  <2>1. accounts' = [accounts EXCEPT ![k] = NewAccount(req)]
    BY <1>6 DEF Write
  <2> QED BY <1>1, <1>4, <1>6, <2>1, MarkWritten, MarkFacts
<1> HIDE DEF req, acc, want, k
<1>7. CASE Leaves(c, x)
  <2>1. AskOf(x) = NoAskYet
    BY <1>7, AskCases DEF Leaves
  <2>2. UNCHANGED MarksOf
    BY <1>7, MarksStay DEF Leaves
  <2>3. AsksOf' = [AsksOf EXCEPT ![c] = Promise!NoAsk]
    BY <1>2, <2>1, AskForms
  <2> QED BY <1>7, <2>2, <2>3, PromiseSteps DEF Leaves, ClientStep
<1>8. CASE Arrives(c, x)
  <2> DEFINE m == MarkOf(NewAccount(x))
  <2>1. m \in [click : Clicks, at : Times] /\ x.key \in Keys
    BY NewMark, MarkFacts DEF Request
  <2>2. AskOf(x) = AskedFor(x.key, m)
    BY <1>8, AskCases DEF Arrives, Waiting
  <2>3. AsksOf[c].st # "waiting"
    BY <1>2, <1>8 DEF Arrives, Finished, AskOf, req
  <2>4. UNCHANGED MarksOf
    BY <1>5, <1>8 DEF Arrives
  <2> HIDE DEF m
  <2>5. Promise!Begin(c, x.key, m)
    BY <1>2, <2>1, <2>2, <2>3, <2>4, BeginStep
  <2> QED BY <1>8, <2>1, <2>5 DEF Arrives, ClientStep
<1>9. CASE GoesOn(c, x)
  <2>1. PICK pc \in Waiting : x = [req EXCEPT !.pc = pc]
    BY <1>9 DEF GoesOn, req
  <2>2. /\ x.pc \in Waiting /\ x.key = k /\ x.kind = req.kind
        /\ x.fields = req.fields /\ x.extra = req.extra /\ x.at = req.at
    BY <1>1, <2>1 DEF Request, k
  <2>3. NewAccount(x) = NewAccount(req)
    BY <2>2 DEF NewAccount
  <2>4. req.pc \in Waiting
    BY <1>9 DEF GoesOn, req
  <2>5. AskOf(x) = AskedFor(k, want)
    BY <2>2, <2>3, AskCases DEF want
  <2>6. UNCHANGED AsksOf
    BY <1>2, <1>3, <1>4, <2>4, <2>5
  <2>7. CASE UNCHANGED accounts
    BY <1>3, <1>5, <2>2, <2>4, <2>6, <2>7 DEF ClientStep
  <2>8. CASE ~Exists(acc) /\ Write(c, NewAccount(req))
    <3>1. Promise!Claim(c)
      BY <1>1, <1>3, <1>6, <2>4, <2>6, <2>8, ClaimStep
    <3> QED BY <1>3, <2>2, <2>4, <3>1 DEF ClientStep
  <2> QED BY <1>9, <2>7, <2>8 DEF GoesOn, req, acc
<1>10. CASE IsFirst(c, x)
  <2>1. /\ req.pc \in Waiting /\ ~Exists(acc) /\ Write(c, NewAccount(req))
        /\ x = Answer(req, TRUE, NewAccount(req))
    BY <1>10 DEF IsFirst, req, acc
  <2>2. AskOf(x) = Told(k, want, TRUE, want)
    BY <1>1, <1>3, <2>1, AnswerAsk DEF k, want
  <2>3. AsksOf' = [AsksOf EXCEPT ![c] = Told(k, want, TRUE, want)]
    BY <1>2, <2>2, Zenon
  <2>4. Promise!Claim(c)
    BY <1>1, <1>3, <1>6, <2>1, <2>3, ClaimStep
  <2>5. x.pc = "ok"
    BY <1>1, <2>1 DEF Answer, Request
  <2> QED BY <2>4, <2>5 DEF ClientStep, Waiting
<1>11. CASE IsLate(c, x)
  <2>1. /\ req.pc \in Waiting /\ Exists(acc) /\ UNCHANGED accounts
        /\ x = Answer(req, FALSE, acc)
    BY <1>11 DEF IsLate, req, acc
  <2>2. AskOf(x) = Told(k, want, FALSE, MarkOf(acc))
    BY <1>1, <1>3, <2>1, AnswerAsk DEF k, want
  <2>3. AsksOf' = [AsksOf EXCEPT ![c] = Told(k, want, FALSE, MarksOf[k])]
    BY <1>2, <1>4, <2>2, Zenon
  <2>4. MarksOf[k] # NoMarkYet
    BY <1>1, <1>4, <2>1, MarkFacts
  <2>5. Promise!AnswerOld(c)
    BY <1>1, <1>3, <1>5, <2>1, <2>3, <2>4, AnswerOldStep
  <2>6. x.pc = "ok"
    BY <1>1, <2>1 DEF Answer, Request
  <2> QED BY <2>5, <2>6 DEF ClientStep, Waiting
<1> QED BY <1>7, <1>8, <1>9, <1>10, <1>11 DEF Forms

\* A restart is a crash: the memory store forgets its accounts.
LEMMA RestartIsCrash ==
    ASSUME AccountsInv, Restart, backend \in Backends
    PROVE  Promise!Crash
<1>1. \A c \in Clients : client'[c] = Idle
  BY DEF Restart
<1>2. AskOf(Idle) = Promise!NoAsk
  BY DEF AskOf, Idle, Registered, Promise!NoAsk
<1>3. AsksOf' = [c \in Clients |-> Promise!NoAsk]
  BY <1>1, <1>2 DEF AsksOf
<1>4. MarksOf' = IF backend = "mysql" THEN MarksOf ELSE [k \in Keys |-> NoMarkYet]
  <2>1. CASE backend = "memory"
    <3>1. \A k \in Keys : MarkOf(accounts'[k]) = NoMarkYet
      BY <2>1 DEF Restart, NoAccount, MarkOf, Exists
    <3> QED BY <2>1, <3>1 DEF MarksOf
  <2>2. CASE backend = "mysql"
    BY <2>2 DEF Restart, MarksOf
  <2> QED BY <2>1, <2>2, BackendAssumption
<1> QED BY <1>3, <1>4 DEF Promise!Crash, MarksOf, AsksOf

LEMMA StepIsPromised ==
    ASSUME AccountsInv, backend \in Backends, WaitersRegister, [Next]_vars
    PROVE  /\ WaitersRegister'
           /\ [Promise!AbsNext]_<<(backend = "mysql"), MarksOf, AsksOf>>
<1>1. UNCHANGED backend
  BY DEF Next, vars
<1>2. CASE UNCHANGED <<accounts, client>>
  BY <1>1, <1>2 DEF WaitersRegister, MarksOf, AsksOf
<1>3. CASE Restart
  <2>1. Promise!AbsNext
    BY <1>1, <1>3, RestartIsCrash DEF Promise!AbsNext
  <2>2. WaitersRegister'
    BY <1>3 DEF Restart, WaitersRegister, Idle, Waiting
  <2> QED BY <2>1, <2>2
<1>4. ASSUME NEW c \in Clients, Moves(c)
      PROVE  /\ WaitersRegister'
             /\ [Promise!AbsNext]_<<(backend = "mysql"), MarksOf, AsksOf>>
  <2>1. PICK x \in Request : client' = [client EXCEPT ![c] = x] /\ Forms(c, x)
    BY <1>4 DEF Moves
  <2>2. ClientStep(c) /\ (x.pc \in Waiting => x.kind = "register")
    BY <2>1, FormIsStep
  <2>3. WaitersRegister'
    BY <2>1, <2>2 DEF WaitersRegister, AccountsInv, StateTypes
  <2>4. CASE UNCHANGED MarksOf /\ UNCHANGED AsksOf
    BY <1>1, <2>3, <2>4
  <2>5. CASE \/ \E k \in Keys, m \in [click : Clicks, at : Times] : Promise!Begin(c, k, m)
             \/ Promise!Leave(c) \/ Promise!Claim(c) \/ Promise!AnswerOld(c)
    <3>1. Promise!AbsNext
      BY <1>1, <2>5 DEF Promise!AbsNext
    <3> QED BY <2>3, <3>1
  <2> QED BY <2>2, <2>4, <2>5 DEF ClientStep
<1> QED BY <1>2, <1>3, <1>4, StepForm

LEMMA PromiseInit == Init => WaitersRegister /\ Promise!AbsInit
<1> SUFFICES ASSUME Init PROVE WaitersRegister /\ Promise!AbsInit
  OBVIOUS
<1>1. WaitersRegister
  BY DEF Init, WaitersRegister, Idle, Waiting
<1>2. AskOf(Idle) = Promise!NoAsk
  BY DEF AskOf, Idle, Registered, Promise!NoAsk
<1>3. AsksOf = [c \in Clients |-> Promise!NoAsk]
  BY <1>2 DEF Init, AsksOf
<1>4. MarksOf = [k \in Keys |-> NoMarkYet]
  BY DEF Init, MarksOf, NoAccount, MarkOf, Exists
<1> QED BY <1>1, <1>3, <1>4 DEF Promise!AbsInit, MarksOf, AsksOf

\* Registration, over either store, with failures, lost answers and restarts,
\* implements FirstTouch: the first registration fixes click id and time, every
\* answer gives these, and at most one says that the account is new
\* (service.go Register, ReportRegister of both stores).
THEOREM ImplementsFirstTouch == Spec => KeepsFirstTouch
<1>1. TypeOK => backend \in Backends
  BY DEF TypeOK
<1>2. AccountsInv /\ backend \in Backends /\ WaitersRegister /\ [Next]_vars =>
          /\ WaitersRegister'
          /\ [Promise!AbsNext]_<<(backend = "mysql"), MarksOf, AsksOf>>
  BY StepIsPromised
<1> QED BY <1>1, <1>2, PromiseInit, InvHolds, AccountsTypeCorrect, PTL
        DEF Spec, KeepsFirstTouch, Promise!AbsSpec, MarksOf, AsksOf
=============================================================================
