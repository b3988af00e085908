---------------------------- MODULE AccountsProofs ----------------------------
(***************************************************************************)
(* The safety properties of Accounts, for any numbers of clients, names,   *)
(* organizations, subjects, accounts, states and codes, and whatever the   *)
(* identity providers report.  The argument has three layers.              *)
(*                                                                         *)
(* TInv: types, and which answer a request has at which point.             *)
(*                                                                         *)
(* FInv: an open transaction holds exactly the rows of the statements      *)
(* behind it, accounts committed or not differ in every unique key (a      *)
(* statement waits for a row that would collide, so two transactions never *)
(* hold rows that collide), and the id a registration drew is its own.     *)
(*                                                                         *)
(* SInv: a login flow is at one place, nothing has begun with a state that *)
(* was not drawn, and a callback works for the subject who signed in with  *)
(* its nonce.                                                              *)
(***************************************************************************)
EXTENDS Accounts, TLAPS

Tied == {"tenant_members", "org_members", "visibility_groups", "visibility_group_members"}

(* The tables registration writes, as a set.                               *)
LEMMA TheTables == TableNames = {"organizations", "tenants", "users"} \union Tied
<1>1. Tables = <<"organizations", "tenants", "users", "tenant_members", "org_members",
                 "visibility_groups", "visibility_group_members">>
  BY DEF Tables
<1>2. DOMAIN Tables = 1 .. 7
  BY <1>1
<1>3. TableNames = {Tables[i] : i \in 1 .. 7}
  BY <1>2 DEF TableNames, Range
<1>4. 1 .. 7 = {1, 2, 3, 4, 5, 6, 7}
  OBVIOUS
<1> QED
  BY <1>1, <1>3, <1>4 DEF Tied

(* The place of a table in that order; the commit comes last.              *)
Order(t) ==
    CASE t = "organizations" -> 1
      [] t = "tenants" -> 2
      [] t = "users" -> 3
      [] t = "tenant_members" -> 4
      [] t = "org_members" -> 5
      [] t = "visibility_groups" -> 6
      [] t = "visibility_group_members" -> 7
      [] t = "commit" -> 8

(* After(t) is the table that follows t.                                   *)
LEMMA NextTable ==
    ASSUME NEW t \in TableNames
    PROVE  /\ After(t) \in (TableNames \ {"organizations"}) \union {"commit"}
           /\ Order(After(t)) = Order(t) + 1
<1>1. Tables = <<"organizations", "tenants", "users", "tenant_members", "org_members",
                 "visibility_groups", "visibility_group_members">>
  BY DEF Tables
<1>2. PICK i \in 1 .. 7 : Tables[i] = t /\ \A j \in 1 .. 7 : Tables[j] = t => j = i
  <2>1. \A i, j \in 1 .. 7 : Tables[i] = Tables[j] => i = j
    BY <1>1
  <2>2. DOMAIN Tables = 1 .. 7
    BY <1>1
  <2> QED
    BY <2>1, <2>2 DEF TableNames, Range
<1> DEFINE k == CHOOSE j \in 1 .. 7 : Tables[j] = t
<1>3. After(t) = IF k = 7 THEN "commit" ELSE Tables[k + 1]
  BY DEF After
<1>4. k = i
  BY <1>2
<1> HIDE DEF k
<1>5. i \in {1, 2, 3, 4, 5, 6, 7}
  BY <1>2
<1> QED
  BY <1>1, <1>2, <1>3, <1>4, <1>5, TheTables DEF Tied, Order

-----------------------------------------------------------------------------
(* Types, and one answer per request.                                      *)

DbOK ==
    /\ RowsOK(db) /\ \A c \in Clients : RowsOK(trx[c])
    /\ nextUser \in 1 .. (MaxUserId + 1) /\ DOMAIN trx = Clients

ReqOK == creq \in [Clients -> Requests] /\ DOMAIN sent = Clients

SsoOK ==
    /\ DOMAIN pendingStates \subseteq 1 .. (nextState - 1)
    /\ pendingStates \in [DOMAIN pendingStates -> [org : SsoOrgs, late : BOOLEAN]]
    /\ DOMAIN pendingAppCodes \subseteq 1 .. (nextCode - 1)
    /\ pendingAppCodes \in [DOMAIN pendingAppCodes -> [user : Ids, flow : States, late : BOOLEAN]]
    /\ nextState \in 1 .. (MaxState + 1) /\ nextCode \in 1 .. (MaxCode + 1)
    /\ authenticated \in [States -> Identities \union {NULL}]
    /\ redeemed \subseteq States

(* The account a request has created or found is there.                    *)
UserKnown(c) ==
    LET r == creq[c] IN
    /\ r.op = "register" /\ r.pc \in Tied \union {"commit"} => r.user \in Ids
    /\ r.pc \in {"rename", "issue"} => \E u \in db["users"] : u.id = r.user /\ u.ext = r.ext

(* Which answer a request has been given.                                  *)
Answers(c) ==
    LET r == creq[c] IN
    /\ r = None => sent[c] = <<>>
    /\ r.pc \notin {"rollback", "done"} => sent[c] = <<>>
    /\ r.pc = "rollback" => sent[c] = <<"refused">>
    /\ r.pc = "done" /\ r # None => sent[c] \in {<<"created">>, <<"refused">>, <<"answered">>}

TInv ==
    /\ DbOK /\ ReqOK /\ SsoOK
    /\ \A c \in Clients : UserKnown(c) /\ Answers(c)

(* What a request that is at a given point looks like.                     *)
LEMMA ReqShapes ==
    ASSUME TInv, NEW c \in Clients
    PROVE  /\ creq[c] \in Requests
           /\ creq[c].op = "register" =>
                creq[c] \in [op : {"register"}, pc : TableNames \union {"commit", "rollback", "done"},
                             name : Names, email : Emails, user : Ids \union {NULL}]
           /\ creq[c].pc \in TableNames \union {"commit", "rollback"} => creq[c].op = "register"
           /\ creq[c].pc = "provider" => creq[c] \in [op : {"sso"}, pc : {"provider"}, state : States, org : SsoOrgs]
           /\ creq[c].pc \in {"lookup", "enroll", "rename", "issue"} =>
                creq[c] \in [op : {"sso"}, pc : {"lookup", "enroll", "rename", "issue"}, state : States,
                             org : SsoOrgs, name : Names, email : Emails \union {NoEmail}, ext : Identities,
                             user : Ids \union {NULL}]
<1>1. creq[c] \in Requests
  BY DEF TInv, ReqOK
<1> QED
  BY <1>1, TheTables DEF Requests, Tied

(* No account goes, and nothing of it changes but the name of one without  *)
(* a password.                                                             *)
AccountsKept ==
    \A u \in db["users"] : \E v \in db'["users"] :
        v.id = u.id /\ v.email = u.email /\ v.org = u.org /\ v.ext = u.ext /\ v.hash = u.hash /\ (u.hash => v = u)

(* Only the request of c is under way in this step.                        *)
LEMMA OneRequest ==
    ASSUME TInv, AccountsKept, NEW c \in Clients,
           \A d \in Clients \ {c} : creq'[d] = creq[d] /\ sent'[d] = sent[d],
           UserKnown(c)', Answers(c)'
    PROVE  \A d \in Clients : UserKnown(d)' /\ Answers(d)'
<1>1. SUFFICES ASSUME NEW d \in Clients, d # c PROVE UserKnown(d)' /\ Answers(d)'
  OBVIOUS
<1>2. UserKnown(d) /\ Answers(d) /\ creq'[d] = creq[d] /\ sent'[d] = sent[d]
  BY <1>1 DEF TInv
<1>3. UserKnown(d)'
  BY <1>2 DEF UserKnown, AccountsKept
<1>4. Answers(d)'
  BY <1>2 DEF Answers
<1> QED
  BY <1>3, <1>4

(* TInv holds at the start.                                                *)
LEMMA TypesInit == Init => TInv
<1> SUFFICES ASSUME Init PROVE TInv
  OBVIOUS
<1>1. DbOK
  BY AccountsAssumption, TheTables DEF Init, DbOK, RowsOK, NoRows, Tied
<1>2. None \in Requests
  BY DEF None, Requests
<1>3. ReqOK
  BY <1>2 DEF Init, ReqOK
<1>4. SsoOK
  BY AccountsAssumption DEF Init, SsoOK, NULL
<1>5. ASSUME NEW c \in Clients PROVE UserKnown(c) /\ Answers(c)
  BY DEF Init, UserKnown, Answers, None, Tied
<1> QED
  BY <1>1, <1>3, <1>4, <1>5 DEF TInv

(* Parts of TInv that a step leaves alone.                                 *)
LEMMA UsersUntouched == db' = db => AccountsKept
BY DEF AccountsKept

LEMMA SsoUntouched == SsoOK /\ UNCHANGED ssoVars => SsoOK'
BY DEF SsoOK, ssoVars

LEMMA DbUntouched == DbOK /\ UNCHANGED dbVars => DbOK'
BY DEF DbOK, dbVars

(* Each action keeps TInv, one lemma per action from here on.              *)
LEMMA TypesRegister ==
    ASSUME TInv, NEW c \in Clients, Register(c)
    PROVE  TInv'
<1>1. PICK f \in Forms :
          Begin(c, [op |-> "register", pc |-> "organizations", name |-> f[1], email |-> f[2], user |-> NULL])
  BY DEF Register
<1> DEFINE r == [op |-> "register", pc |-> "organizations", name |-> f[1], email |-> f[2], user |-> NULL]
<1>2. r \in Requests
  BY AccountsAssumption, TheTables DEF Requests
<1>3. creq' = [creq EXCEPT ![c] = r] /\ sent' = [sent EXCEPT ![c] = <<>>]
  BY <1>1 DEF Begin
<1>4. ReqOK' /\ creq'[c] = r /\ sent'[c] = <<>>
  BY <1>2, <1>3 DEF TInv, ReqOK
<1>5. UserKnown(c)' /\ Answers(c)'
  BY <1>4 DEF UserKnown, Answers, Tied, None
<1>6. UNCHANGED <<dbVars, ssoVars>>
  BY DEF Register
<1> QED
  BY <1>3, <1>4, <1>5, <1>6, OneRequest, UsersUntouched, SsoUntouched, DbUntouched DEF TInv, dbVars, ReqOK

(* Leaving a request over, or a transaction to be rolled back.             *)
LEMMA TypesOver ==
    ASSUME TInv, NEW c \in Clients, Over(c), creq[c].pc \notin {"rollback", "done"}
    PROVE  ReqOK' /\ UserKnown(c)' /\ Answers(c)' /\ \A d \in Clients \ {c} : creq'[d] = creq[d] /\ sent'[d] = sent[d]
<1>1. creq' = [creq EXCEPT ![c] = [op |-> "sso", pc |-> "done"]] /\ sent[c] = <<>>
      /\ sent' = [sent EXCEPT ![c] = IF @ = <<>> THEN <<"answered">> ELSE @]
  BY DEF Over, Respond, TInv, Answers
<1>2. [op |-> "sso", pc |-> "done"] \in Requests
  BY DEF Requests
<1>3. ReqOK' /\ creq'[c] = [op |-> "sso", pc |-> "done"] /\ sent'[c] = <<"answered">>
  BY <1>1, <1>2 DEF TInv, ReqOK
<1>4. UserKnown(c)' /\ Answers(c)'
  BY <1>3 DEF UserKnown, Answers, None
<1> QED
  BY <1>1, <1>3, <1>4 DEF TInv, ReqOK

LEMMA TypesFail ==
    ASSUME TInv, NEW c \in Clients, Fail(c, "refused"), creq[c].op = "register", creq[c].pc \in TableNames
    PROVE  ReqOK' /\ UserKnown(c)' /\ Answers(c)' /\ \A d \in Clients \ {c} : creq'[d] = creq[d] /\ sent'[d] = sent[d]
<1>1. creq[c].pc \notin {"rollback", "done"}
  BY TheTables DEF Tied
<1>2. creq' = [creq EXCEPT ![c].pc = "rollback"] /\ sent[c] = <<>>
      /\ sent' = [sent EXCEPT ![c] = IF @ = <<>> THEN <<"refused">> ELSE @]
  BY <1>1 DEF Fail, GoTo, Respond, TInv, Answers
<1>3. creq'[c] = [creq[c] EXCEPT !.pc = "rollback"] /\ sent'[c] = <<"refused">>
      /\ \A d \in Clients \ {c} : creq'[d] = creq[d] /\ sent'[d] = sent[d]
  BY <1>2 DEF TInv, ReqOK
<1>4. creq'[c] \in Requests /\ creq'[c].pc = "rollback"
  BY <1>3, ReqShapes DEF Requests
<1>5. ReqOK'
  BY <1>2, <1>3, <1>4 DEF TInv, ReqOK
<1>6. UserKnown(c)' /\ Answers(c)'
  BY <1>3, <1>4 DEF UserKnown, Answers, None, Tied
<1> QED
  BY <1>3, <1>5, <1>6

(* The row a statement inserts is one of its table.                        *)
LEMMA RowIsTyped ==
    ASSUME TInv, NEW c \in Clients, creq[c].op = "register", NEW t \in TableNames, creq[c].pc = t,
           t = "users" => nextUser \in Ids
    PROVE  /\ t \in {"organizations", "tenants"} => RowFor(creq[c], t) \in Names
           /\ t = "users" => RowFor(creq[c], t) \in UserRows
           /\ t \in Tied => RowFor(creq[c], t) \in Names \X Ids
<1> DEFINE r == creq[c]
<1>1. r.name \in Names /\ r.email \in Emails /\ (t \in Tied => r.user \in Ids)
  BY ReqShapes DEF TInv, UserKnown
<1> HIDE DEF r
<1>2. t \in {"organizations", "tenants"} => RowFor(r, t) \in Names
  BY <1>1 DEF RowFor
<1>3. ASSUME t = "users" PROVE RowFor(r, t) \in UserRows
  <2>1. RowFor(r, t) = [id |-> nextUser, name |-> r.name, email |-> r.email, org |-> r.name,
                        ext |-> NULL, hash |-> TRUE]
    BY <1>3 DEF RowFor
  <2>2. nextUser \in Ids /\ r.name \in Names \union SsoOrgs /\ r.email \in Emails \union {NoEmail}
        /\ NULL \in Identities \union {NULL} /\ TRUE \in BOOLEAN
    BY <1>1, <1>3
  <2>3. [id |-> nextUser, name |-> r.name, email |-> r.email, org |-> r.name, ext |-> NULL, hash |-> TRUE]
          \in UserRows
    BY <1>1, <2>2 DEF UserRows
  <2> QED
    BY <2>1, <2>3
<1>4. ASSUME t \in Tied PROVE RowFor(r, t) \in Names \X Ids
  <2>1. RowFor(r, t) = <<r.name, r.user>>
    BY <1>4 DEF RowFor, Tied
  <2> QED
    BY <1>1, <1>4, <2>1
<1> QED
  BY <1>2, <1>3, <1>4 DEF r

LEMMA TypesStatement ==
    ASSUME TInv, NEW c \in Clients, Statement(c)
    PROVE  TInv'
<1> DEFINE r == creq[c]
           t == r.pc
           row == RowFor(r, t)
<1>1. r.op = "register" /\ t \in TableNames /\ UNCHANGED ssoVars
  BY DEF Statement
<1>2. SsoOK'
  BY <1>1, SsoUntouched DEF TInv
<1>3. CASE Fail(c, "refused") /\ UNCHANGED dbVars
  BY <1>1, <1>2, <1>3, TypesFail, OneRequest, UsersUntouched, DbUntouched DEF TInv, dbVars
<1>4. CASE /\ t = "users" => nextUser \in Ids
           /\ trx' = [trx EXCEPT ![c][t] = @ \union {row}]
           /\ nextUser' = IF t = "users" THEN nextUser + 1 ELSE nextUser
           /\ creq' = [creq EXCEPT ![c].pc = After(t), ![c].user = IF t = "users" THEN nextUser ELSE @]
           /\ UNCHANGED <<db, sent>>
  <2>1. /\ t \in {"organizations", "tenants"} => row \in Names
        /\ t = "users" => row \in UserRows
        /\ t \in Tied => row \in Names \X Ids
    BY <1>1, <1>4, RowIsTyped
  <2>2. DbOK'
    <3>1. trx'[c] = [trx[c] EXCEPT ![t] = @ \union {row}] /\ DOMAIN trx' = Clients
          /\ \A d \in Clients \ {c} : trx'[d] = trx[d]
      BY <1>4 DEF TInv, DbOK
    <3>2. RowsOK(trx[c])
      BY DEF TInv, DbOK
    <3> HIDE DEF row, t, r
    <3>3. RowsOK(trx'[c])
      BY <1>1, <2>1, <3>1, <3>2, TheTables DEF RowsOK, Tied
    <3>4. nextUser' \in 1 .. (MaxUserId + 1)
      BY <1>4, AccountsAssumption DEF TInv, DbOK, Ids
    <3> QED
      BY <1>4, <3>1, <3>3, <3>4 DEF TInv, DbOK
  <2>3. r \in [op : {"register"}, pc : TableNames \union {"commit", "rollback", "done"},
               name : Names, email : Emails, user : Ids \union {NULL}]
    BY <1>1, ReqShapes
  <2>4. creq'[c] = [r EXCEPT !.pc = After(t), !.user = IF t = "users" THEN nextUser ELSE @]
        /\ \A d \in Clients \ {c} : creq'[d] = creq[d]
    BY <1>4 DEF TInv, ReqOK
  <2>5. After(t) \in (TableNames \ {"organizations"}) \union {"commit"} /\ Order(After(t)) = Order(t) + 1
    BY <1>1, NextTable
  <2>6. (t = "users" \/ t \in Tied => r.user \in Ids \/ t = "users") /\ (t \in Tied => r.user \in Ids)
    BY <1>1 DEF TInv, UserKnown
  <2>7. After(t) \in Tied \union {"commit"} => t \in Tied \union {"users"}
    BY <1>1, <2>5, TheTables DEF Order, Tied
  <2> HIDE DEF r, t, row
  <2> DEFINE s == creq'[c]
             new == IF t = "users" THEN nextUser ELSE r.user
             p   == After(t)
  <2>12. s = [r EXCEPT !.pc = p, !.user = new] /\ p \in TableNames \union {"commit"} /\ new \in Ids \union {NULL}
    <3>1. [r EXCEPT !.user = IF t = "users" THEN nextUser ELSE @] = [r EXCEPT !.user = new]
      BY <2>3
    <3>2. new \in Ids \union {NULL}
      BY <1>4, <2>3
    <3> QED
      BY <2>3, <2>4, <2>5, <3>1, <3>2
  <2> HIDE DEF s, new, p
  <2>13. s.op = "register" /\ s.pc = p /\ s.user = new
         /\ s \in [op : {"register"}, pc : TableNames \union {"commit", "rollback", "done"},
                    name : Names, email : Emails, user : Ids \union {NULL}]
    BY <2>3, <2>12
  <2>8. s.op = "register" /\ s.pc = After(t) /\ s.user = (IF t = "users" THEN nextUser ELSE r.user)
        /\ s \in [op : {"register"}, pc : TableNames \union {"commit", "rollback", "done"},
                  name : Names, email : Emails, user : Ids \union {NULL}]
    BY <2>13 DEF new, p
  <2> USE DEF s
  <2>9. ReqOK'
    BY <1>4, <2>8 DEF TInv, ReqOK, Requests
  <2>10. UserKnown(c)'
    BY <1>4, <2>5, <2>6, <2>7, <2>8, TheTables DEF UserKnown, Tied
  <2>11. Answers(c)'
    <3>1. sent[c] = <<>>
      BY <1>1, TheTables DEF TInv, Answers, r, t, Tied
    <3>2. s.pc \notin {"rollback", "done"}
      BY <2>5, <2>8, TheTables DEF Tied
    <3> QED
      BY <1>4, <3>1, <3>2 DEF Answers, None
  <2> QED
    BY <1>2, <1>4, <2>2, <2>4, <2>9, <2>10, <2>11, OneRequest, UsersUntouched DEF TInv
<1> QED
  BY <1>3, <1>4 DEF Statement

(* A registration is over, by commit or by rollback.                       *)
LEMMA TypesEnd ==
    ASSUME TInv, NEW c \in Clients, creq[c].pc \in {"commit", "rollback"},
           NEW code \in {"created", "refused"}, Respond(c, code), GoTo(c, "done")
    PROVE  ReqOK' /\ UserKnown(c)' /\ Answers(c)' /\ \A d \in Clients \ {c} : creq'[d] = creq[d] /\ sent'[d] = sent[d]
<1>1. sent[c] \in {<<>>, <<"refused">>}
  BY DEF TInv, Answers
<1>2. sent'[c] \in {<<"created">>, <<"refused">>} /\ DOMAIN sent' = Clients
  BY <1>1 DEF Respond, TInv, ReqOK
<1>3. creq'[c] = [creq[c] EXCEPT !.pc = "done"] /\ \A d \in Clients \ {c} : creq'[d] = creq[d] /\ sent'[d] = sent[d]
  BY DEF Respond, GoTo, TInv, ReqOK
<1>4. creq'[c] \in Requests /\ creq'[c].pc = "done" /\ creq'[c].op = "register"
  BY <1>3, ReqShapes DEF Requests
<1>5. ReqOK'
  BY <1>2, <1>4 DEF GoTo, TInv, ReqOK
<1>6. UserKnown(c)' /\ Answers(c)'
  BY <1>2, <1>4 DEF UserKnown, Answers, None, Tied
<1> QED
  BY <1>3, <1>5, <1>6

LEMMA TypesRollback ==
    ASSUME TInv, NEW c \in Clients, Rollback(c)
    PROVE  TInv'
<1>1. DbOK'
  BY TheTables DEF Rollback, TInv, DbOK, RowsOK, NoRows, Tied
<1> QED
  BY <1>1, TypesEnd, OneRequest, UsersUntouched, SsoUntouched DEF TInv, Rollback, At

LEMMA TypesCommit ==
    ASSUME TInv, NEW c \in Clients, Commit(c)
    PROVE  TInv'
<1>1. PICK committed \in BOOLEAN :
          /\ db' = IF committed THEN [t \in TableNames |-> db[t] \union trx[c][t]] ELSE db
          /\ Respond(c, IF committed THEN "created" ELSE "refused")
  BY DEF Commit
<1>2. At(c, "commit") /\ GoTo(c, "done") /\ trx' = [trx EXCEPT ![c] = NoRows] /\ UNCHANGED <<nextUser, ssoVars>>
  BY DEF Commit
<1>3. RowsOK(db')
  <2>1. RowsOK(db) /\ RowsOK(trx[c])
    BY DEF TInv, DbOK
  <2> QED
    BY <1>1, <2>1, TheTables DEF RowsOK, Tied
<1>4. RowsOK(NoRows)
  BY TheTables DEF RowsOK, NoRows, Tied
<1>5. DbOK'
  BY <1>2, <1>3, <1>4 DEF TInv, DbOK
<1>6. AccountsKept
  BY <1>1, TheTables DEF AccountsKept
<1> QED
  BY <1>1, <1>2, <1>5, <1>6, TypesEnd, OneRequest, SsoUntouched DEF TInv, At

LEMMA TypesInitiate ==
    ASSUME TInv, NEW c \in Clients, Initiate(c)
    PROVE  TInv'
<1>1. PICK o \in SsoOrgs :
          pendingStates' = Unexpired([s \in DOMAIN pendingStates \union {nextState} |->
                  IF s = nextState THEN [org |-> o, late |-> FALSE] ELSE pendingStates[s]])
  BY DEF Initiate
<1>2. nextState \in States /\ nextState' = nextState + 1
      /\ UNCHANGED <<dbVars, creq, sent, pendingAppCodes, nextCode, authenticated, redeemed>>
  BY DEF Initiate
<1> DEFINE P == [s \in DOMAIN pendingStates \union {nextState} |->
                  IF s = nextState THEN [org |-> o, late |-> FALSE] ELSE pendingStates[s]]
<1>3. P \in [DOMAIN pendingStates \union {nextState} -> [org : SsoOrgs, late : BOOLEAN]]
  BY DEF TInv, SsoOK
<1>4. DOMAIN P = DOMAIN pendingStates \union {nextState}
  OBVIOUS
<1> HIDE DEF P
<1>5. pendingStates' \in [DOMAIN pendingStates' -> [org : SsoOrgs, late : BOOLEAN]]
      /\ DOMAIN pendingStates' \subseteq DOMAIN pendingStates \union {nextState}
  BY <1>1, <1>3, <1>4 DEF Unexpired, Restrict, P
<1>6. nextState' \in 1 .. (MaxState + 1) /\ DOMAIN pendingStates' \subseteq 1 .. (nextState' - 1)
  BY <1>2, <1>5, AccountsAssumption DEF TInv, SsoOK, States
<1>7. SsoOK'
  BY <1>2, <1>5, <1>6 DEF TInv, SsoOK
<1>8. \A d \in Clients : (UserKnown(d) /\ Answers(d))'
  BY <1>2 DEF TInv, UserKnown, Answers, dbVars
<1> QED
  BY <1>2, <1>7, <1>8, DbUntouched DEF TInv, ReqOK

LEMMA TypesSignIn ==
    ASSUME TInv, NEW s \in States, NEW i \in Identities, SignIn(s, i)
    PROVE  TInv'
<1>1. SsoOK'
  BY DEF SignIn, TInv, SsoOK
<1>2. \A d \in Clients : (UserKnown(d) /\ Answers(d))'
  BY DEF SignIn, TInv, UserKnown, Answers, dbVars
<1> QED
  BY <1>1, <1>2, DbUntouched DEF SignIn, TInv, ReqOK

LEMMA TypesCallback ==
    ASSUME TInv, NEW c \in Clients, Callback(c)
    PROVE  TInv'
<1>1. PICK s \in DOMAIN pendingStates :
          /\ pendingStates' = Restrict(pendingStates, DOMAIN pendingStates \ {s})
          /\ Begin(c, [op |-> "sso", pc |-> "provider", state |-> s, org |-> pendingStates[s].org])
  BY DEF Callback
<1>2. UNCHANGED <<dbVars, pendingAppCodes, nextState, nextCode, authenticated, redeemed>>
  BY DEF Callback
<1> DEFINE r == [op |-> "sso", pc |-> "provider", state |-> s, org |-> pendingStates[s].org]
<1>3. s \in States /\ pendingStates[s].org \in SsoOrgs
  BY AccountsAssumption DEF TInv, SsoOK, States
<1>4. r \in Requests
  BY <1>3 DEF Requests
<1>5. creq' = [creq EXCEPT ![c] = r] /\ sent' = [sent EXCEPT ![c] = <<>>]
  BY <1>1 DEF Begin
<1>6. ReqOK' /\ creq'[c] = r /\ sent'[c] = <<>> /\ \A d \in Clients \ {c} : creq'[d] = creq[d] /\ sent'[d] = sent[d]
  BY <1>4, <1>5 DEF TInv, ReqOK
<1>7. UserKnown(c)' /\ Answers(c)'
  BY <1>6 DEF UserKnown, Answers, None
<1>8. SsoOK'
  BY <1>1, <1>2 DEF TInv, SsoOK, Restrict
<1> QED
  BY <1>2, <1>6, <1>7, <1>8, OneRequest, UsersUntouched, DbUntouched DEF TInv, dbVars

LEMMA TypesProviderAnswers ==
    ASSUME TInv, NEW c \in Clients, ProviderAnswers(c)
    PROVE  TInv'
<1>1. PICK s \in States \ {x \in States : authenticated[x] = NULL} : \E f \in Profiles[authenticated[s]] :
          creq' = [creq EXCEPT ![c] = [op |-> "sso", pc |-> "lookup", state |-> creq[c].state,
                                       org |-> creq[c].org, name |-> f[1], email |-> f[2],
                                       ext |-> authenticated[s], user |-> NULL]]
  BY DEF ProviderAnswers
<1>2. PICK f \in Profiles[authenticated[s]] :
          creq' = [creq EXCEPT ![c] = [op |-> "sso", pc |-> "lookup", state |-> creq[c].state,
                                       org |-> creq[c].org, name |-> f[1], email |-> f[2],
                                       ext |-> authenticated[s], user |-> NULL]]
  BY <1>1
<1> DEFINE r == [op |-> "sso", pc |-> "lookup", state |-> creq[c].state,
                 org |-> creq[c].org, name |-> f[1], email |-> f[2],
                 ext |-> authenticated[s], user |-> NULL]
<1>3. authenticated[s] \in Identities
  BY DEF TInv, SsoOK
<1>4. f \in Names \X (Emails \union {NoEmail})
  BY <1>3, AccountsAssumption
<1>5. creq[c].state \in States /\ creq[c].org \in SsoOrgs /\ sent[c] = <<>>
  BY ReqShapes DEF ProviderAnswers, At, TInv, Answers
<1>6. r \in Requests
  BY <1>3, <1>4, <1>5 DEF Requests
<1>7. UNCHANGED <<dbVars, sent, ssoVars>>
  BY DEF ProviderAnswers
<1>8. ReqOK' /\ creq'[c] = r /\ \A d \in Clients \ {c} : creq'[d] = creq[d]
  BY <1>2, <1>6, <1>7 DEF TInv, ReqOK
<1>9. UserKnown(c)' /\ Answers(c)'
  BY <1>5, <1>7, <1>8 DEF UserKnown, Answers, None
<1> QED
  BY <1>7, <1>8, <1>9, OneRequest, UsersUntouched, DbUntouched, SsoUntouched DEF TInv, dbVars

LEMMA TypesProviderRefused ==
    ASSUME TInv, NEW c \in Clients, ProviderRefused(c)
    PROVE  TInv'
BY TypesOver, OneRequest, UsersUntouched, DbUntouched, SsoUntouched DEF ProviderRefused, At, TInv, dbVars

LEMMA TypesDbError ==
    ASSUME TInv, NEW c \in Clients, DbError(c)
    PROVE  TInv'
<1>1. ReqOK' /\ UserKnown(c)' /\ Answers(c)' /\ \A d \in Clients \ {c} : creq'[d] = creq[d] /\ sent'[d] = sent[d]
  BY TypesOver, TypesFail DEF DbError
<1> QED
  BY <1>1, OneRequest, UsersUntouched, DbUntouched, SsoUntouched DEF DbError, TInv, dbVars

(* An SSO request past the provider goes on, without an answer.            *)
LEMMA TypesOnwards ==
    ASSUME TInv, NEW c \in Clients, creq[c].pc \in {"lookup", "enroll", "rename", "issue"},
           NEW p \in {"enroll", "rename", "issue"}, NEW u \in Ids \union {NULL},
           creq' = [creq EXCEPT ![c].pc = p, ![c].user = u], sent' = sent,
           p \in {"rename", "issue"} => \E v \in db'["users"] : v.id = u /\ v.ext = creq[c].ext
    PROVE  ReqOK' /\ UserKnown(c)' /\ Answers(c)' /\ \A d \in Clients \ {c} : creq'[d] = creq[d] /\ sent'[d] = sent[d]
<1>1. creq[c] \in [op : {"sso"}, pc : {"lookup", "enroll", "rename", "issue"}, state : States,
                   org : SsoOrgs, name : Names, email : Emails \union {NoEmail}, ext : Identities,
                   user : Ids \union {NULL}]
  BY ReqShapes
<1>2. creq'[c] = [creq[c] EXCEPT !.pc = p, !.user = u] /\ \A d \in Clients \ {c} : creq'[d] = creq[d]
  BY DEF TInv, ReqOK
<1> DEFINE s == creq'[c]
           r == creq[c]
<1>8. s = [r EXCEPT !.pc = p, !.user = u]
  BY <1>2
<1> HIDE DEF s, r
<1>9. s \in [op : {"sso"}, pc : {"lookup", "enroll", "rename", "issue"}, state : States,
             org : SsoOrgs, name : Names, email : Emails \union {NoEmail}, ext : Identities,
             user : Ids \union {NULL}]
      /\ s.pc = p /\ s.user = u /\ s.ext = r.ext /\ s.op = "sso"
  <2>1. r \in [op : {"sso"}, pc : {"lookup", "enroll", "rename", "issue"}, state : States,
               org : SsoOrgs, name : Names, email : Emails \union {NoEmail}, ext : Identities,
               user : Ids \union {NULL}]
    BY <1>1 DEF r
  <2> QED
    BY <1>8, <2>1
<1> USE DEF s, r
<1>3. s \in [op : {"sso"}, pc : {"lookup", "enroll", "rename", "issue"}, state : States,
             org : SsoOrgs, name : Names, email : Emails \union {NoEmail}, ext : Identities,
             user : Ids \union {NULL}]
      /\ s.pc = p /\ s.user = u /\ s.ext = creq[c].ext /\ s.op = "sso"
  BY <1>9
<1>4. ReqOK'
  BY <1>2, <1>3 DEF TInv, ReqOK, Requests
<1>5. UserKnown(c)'
  BY <1>3 DEF UserKnown
<1>6. sent[c] = <<>>
  BY DEF TInv, Answers
<1>7. Answers(c)'
  BY <1>3, <1>6 DEF Answers, None
<1> QED
  BY <1>2, <1>4, <1>5, <1>7

LEMMA GoToKeepsUser ==
    ASSUME TInv, NEW c \in Clients, creq[c].pc \in {"lookup", "enroll", "rename", "issue"}, NEW p, GoTo(c, p)
    PROVE  creq' = [creq EXCEPT ![c].pc = p, ![c].user = creq[c].user] /\ creq[c].user \in Ids \union {NULL}
<1>1. creq[c] \in [op : {"sso"}, pc : {"lookup", "enroll", "rename", "issue"}, state : States,
                   org : SsoOrgs, name : Names, email : Emails \union {NoEmail}, ext : Identities,
                   user : Ids \union {NULL}]
  BY ReqShapes
<1>2. [creq[c] EXCEPT !.pc = p] = [creq[c] EXCEPT !.pc = p, !.user = creq[c].user]
  BY <1>1
<1> QED
  BY <1>1, <1>2 DEF GoTo

LEMMA TypesLookup ==
    ASSUME TInv, NEW c \in Clients, Lookup(c)
    PROVE  TInv'
<1> DEFINE r == creq[c]
           found == {u \in db["users"] : u.org = r.org /\ u.ext = r.ext}
<1>1. r.pc = "lookup" /\ UNCHANGED <<dbVars, ssoVars>>
  BY DEF Lookup, At
<1>2. ReqOK' /\ UserKnown(c)' /\ Answers(c)' /\ \A d \in Clients \ {c} : creq'[d] = creq[d] /\ sent'[d] = sent[d]
  <2>1. CASE GoTo(c, "enroll") /\ UNCHANGED sent
    BY <1>1, <2>1, GoToKeepsUser, TypesOnwards
  <2>2. CASE Over(c)
    BY <1>1, <2>2, TypesOver
  <2>3. ASSUME NEW u \in found, creq' = [creq EXCEPT ![c].pc = "rename", ![c].user = u.id], UNCHANGED sent
        PROVE  ReqOK' /\ UserKnown(c)' /\ Answers(c)' /\ \A d \in Clients \ {c} : creq'[d] = creq[d] /\ sent'[d] = sent[d]
    <3>1. u \in db["users"] /\ db' = db /\ u.ext = r.ext
      BY <1>1 DEF dbVars
    <3>2. u.id \in Ids
      BY <3>1 DEF TInv, DbOK, RowsOK, UserRows
    <3> DEFINE n == u.id
    <3>3. \E v \in db'["users"] : v.id = n /\ v.ext = creq[c].ext
      BY <3>1
    <3>4. creq' = [creq EXCEPT ![c].pc = "rename", ![c].user = n] /\ n \in Ids \union {NULL}
      BY <2>3, <3>2
    <3> HIDE DEF n, found
    <3> QED
      BY <1>1, <2>3, <3>3, <3>4, TypesOnwards
  <2> QED
    BY <2>1, <2>2, <2>3 DEF Lookup
<1> QED
  BY <1>1, <1>2, OneRequest, UsersUntouched, DbUntouched, SsoUntouched DEF TInv, dbVars

(* purgeExpiredAppCodes only takes codes away.                             *)
LEMMA PurgedCodes ==
    ASSUME TInv, pendingAppCodes' = Unexpired(pendingAppCodes)
    PROVE  /\ DOMAIN pendingAppCodes' \subseteq DOMAIN pendingAppCodes
           /\ pendingAppCodes' \in [DOMAIN pendingAppCodes' -> [user : Ids, flow : States, late : BOOLEAN]]
           /\ \A k \in DOMAIN pendingAppCodes' : pendingAppCodes'[k] = pendingAppCodes[k]
BY DEF Unexpired, Restrict, TInv, SsoOK

LEMMA TypesEnroll ==
    ASSUME TInv, NEW c \in Clients, Enroll(c)
    PROVE  TInv' /\ AccountsKept
<1> DEFINE r == creq[c]
           row == NewAccount(r)
<1>1. r.pc = "enroll" /\ UNCHANGED <<pendingStates, nextState, nextCode, authenticated, redeemed>>
  BY DEF Enroll, At
<1>2. CASE Over(c) /\ UNCHANGED <<dbVars, pendingAppCodes>>
  <2>1. UNCHANGED ssoVars
    BY <1>1, <1>2 DEF ssoVars
  <2> QED
    BY <1>1, <1>2, <2>1, TypesOver, OneRequest, UsersUntouched, DbUntouched, SsoUntouched DEF TInv, dbVars
<1>3. CASE /\ nextUser \in Ids
           /\ db' = [db EXCEPT !["users"] = @ \union {row}] /\ nextUser' = nextUser + 1
           /\ creq' = [creq EXCEPT ![c].pc = "issue", ![c].user = nextUser]
           /\ pendingAppCodes' = Unexpired(pendingAppCodes)
           /\ UNCHANGED <<trx, sent>>
  <2>1. row \in UserRows /\ row.id = nextUser /\ row.ext = r.ext
    <3>1. r.name \in Names /\ r.email \in Emails \union {NoEmail} /\ r.org \in Names \union SsoOrgs
          /\ r.ext \in Identities \union {NULL} /\ FALSE \in BOOLEAN
      BY <1>1, ReqShapes
    <3> HIDE DEF r
    <3>2. [id |-> nextUser, name |-> r.name, email |-> r.email, org |-> r.org, ext |-> r.ext, hash |-> FALSE] \in UserRows
      BY <1>3, <3>1 DEF UserRows
    <3> QED
      BY <3>2 DEF NewAccount
  <2>2. RowsOK(db)
    BY DEF TInv, DbOK
  <2> HIDE DEF row
  <2>3. RowsOK(db') /\ db'["users"] = db["users"] \union {row}
    BY <1>3, <2>1, <2>2, TheTables DEF RowsOK, Tied
  <2>4. nextUser' \in 1 .. (MaxUserId + 1)
    BY <1>3, AccountsAssumption DEF TInv, DbOK, Ids
  <2>5. DbOK'
    BY <1>3, <2>3, <2>4 DEF TInv, DbOK
  <2>6. AccountsKept
    BY <2>3 DEF AccountsKept
  <2>7. SsoOK'
    BY <1>1, <1>3, PurgedCodes DEF TInv, SsoOK
  <2>8. \E v \in db'["users"] : v.id = nextUser /\ v.ext = creq[c].ext
    BY <2>1, <2>3
  <2>9. ReqOK' /\ UserKnown(c)' /\ Answers(c)' /\ \A d \in Clients \ {c} : creq'[d] = creq[d] /\ sent'[d] = sent[d]
    BY <1>1, <1>3, <2>8, TypesOnwards
  <2> QED
    BY <2>5, <2>6, <2>7, <2>9, OneRequest DEF TInv
<1> QED
  BY <1>2, <1>3 DEF Enroll

(* The account whose name is updated is there, and has this request's      *)
(* subject; with one account per id it keeps everything but its name.      *)
LEMMA RenamedRow ==
    ASSUME TInv, NEW c \in Clients, creq[c].pc = "rename"
    PROVE  \E v \in db["users"] : /\ v.id = creq[c].user /\ v \in UserRows
                                  /\ Renamed(creq[c]) = [v EXCEPT !.name = creq[c].name]
<1> DEFINE w == CHOOSE v \in db["users"] : v.id = creq[c].user
<1>1. \E u \in db["users"] : u.id = creq[c].user
  BY DEF TInv, UserKnown
<1>2. w \in db["users"] /\ w.id = creq[c].user
  BY <1>1
<1>3. Renamed(creq[c]) = [w EXCEPT !.name = creq[c].name]
  BY DEF Renamed
<1>4. w \in UserRows
  BY <1>2 DEF TInv, DbOK, RowsOK
<1> HIDE DEF w
<1> QED
  BY <1>2, <1>3, <1>4

(* Ids of accounts are their own.                                          *)
OneRowPerId(users) == \A u, v \in users : u.id = v.id => u = v

(* An account has no password or no subject.                               *)
Either(users) == \A u \in users : u.hash <=> u.ext = NULL

LEMMA TypesRename ==
    ASSUME TInv, NEW c \in Clients, Rename(c), OneRowPerId(db["users"]), Either(db["users"])
    PROVE  TInv' /\ AccountsKept
<1> DEFINE r == creq[c]
           row == Renamed(r)
           others == {u \in db["users"] : u.id # row.id}
<1>1. r.pc = "rename" /\ UNCHANGED <<trx, nextUser, pendingStates, nextState, nextCode, authenticated, redeemed>>
  BY DEF Rename, At
<1>2. CASE Over(c) /\ UNCHANGED <<db, pendingAppCodes>>
  <2>1. UNCHANGED ssoVars /\ UNCHANGED dbVars
    BY <1>1, <1>2 DEF ssoVars, dbVars
  <2> QED
    BY <1>1, <1>2, <2>1, TypesOver, OneRequest, UsersUntouched, DbUntouched, SsoUntouched DEF TInv
<1>3. CASE /\ db' = [db EXCEPT !["users"] = others \union {row}]
           /\ pendingAppCodes' = Unexpired(pendingAppCodes)
           /\ GoTo(c, "issue") /\ UNCHANGED sent
  <2>1. PICK v \in db["users"] : v.id = r.user /\ v \in UserRows /\ row = [v EXCEPT !.name = r.name]
    BY <1>1, RenamedRow
  <2>2. r.name \in Names /\ r.ext \in Identities /\ r.user \in Ids
    BY <1>1, <2>1, ReqShapes DEF UserRows
  <2>3. row \in UserRows /\ row.id = v.id /\ row.email = v.email /\ row.org = v.org
        /\ row.ext = v.ext /\ row.hash = v.hash
    <3> HIDE DEF row, r
    <3> QED
      BY <2>1, <2>2 DEF UserRows
  <2>4. RowsOK(db)
    BY DEF TInv, DbOK
  <2>5. v.ext = r.ext
    BY <1>1, <2>1 DEF TInv, UserKnown, OneRowPerId
  <2>6. ~v.hash
    BY <2>1, <2>2, <2>5, AccountsAssumption DEF Either
  <2> HIDE DEF row, r
  <2>7. RowsOK(db') /\ db'["users"] = others \union {row}
    BY <1>3, <2>3, <2>4, TheTables DEF RowsOK, Tied
  <2>8. DbOK'
    BY <1>1, <2>7 DEF TInv, DbOK
  <2>9. AccountsKept
    <3>1. ASSUME NEW u \in db["users"]
          PROVE  \E x \in db'["users"] : /\ x.id = u.id /\ x.email = u.email /\ x.org = u.org
                                         /\ x.ext = u.ext /\ x.hash = u.hash /\ (u.hash => x = u)
      <4>1. CASE u = v
        BY <2>3, <2>6, <2>7, <4>1
      <4>2. CASE u # v
        <5>1. u \in others
          BY <2>1, <2>3, <4>2 DEF OneRowPerId
        <5> QED
          BY <2>7, <5>1
      <4> QED
        BY <4>1, <4>2
    <3> QED
      BY <3>1 DEF AccountsKept
  <2>10. SsoOK'
    BY <1>1, <1>3, PurgedCodes DEF TInv, SsoOK
  <2>11. \E x \in db'["users"] : x.id = creq[c].user /\ x.ext = creq[c].ext
    BY <2>1, <2>3, <2>5, <2>7 DEF r
  <2>12. ReqOK' /\ UserKnown(c)' /\ Answers(c)' /\ \A d \in Clients \ {c} : creq'[d] = creq[d] /\ sent'[d] = sent[d]
    BY <1>1, <1>3, <2>11, GoToKeepsUser, TypesOnwards DEF r
  <2> QED
    BY <2>8, <2>9, <2>10, <2>12, OneRequest DEF TInv
<1> QED
  BY <1>2, <1>3 DEF Rename

LEMMA TypesIssueCode ==
    ASSUME TInv, NEW c \in Clients, IssueCode(c)
    PROVE  TInv'
<1> DEFINE r == creq[c]
<1>1. r.pc = "issue" /\ nextCode \in Codes /\ nextCode' = nextCode + 1 /\ Over(c)
      /\ UNCHANGED <<dbVars, pendingStates, nextState, authenticated, redeemed>>
  BY DEF IssueCode, At
<1>2. pendingAppCodes' = [k \in DOMAIN pendingAppCodes \union {nextCode} |->
              IF k = nextCode THEN [user |-> r.user, flow |-> r.state, late |-> FALSE] ELSE pendingAppCodes[k]]
  BY DEF IssueCode
<1>3. r.user \in Ids /\ r.state \in States
  BY <1>1, ReqShapes DEF TInv, UserKnown, DbOK, RowsOK, UserRows
<1> HIDE DEF r
<1>4. DOMAIN pendingAppCodes' = DOMAIN pendingAppCodes \union {nextCode}
      /\ pendingAppCodes' \in [DOMAIN pendingAppCodes' -> [user : Ids, flow : States, late : BOOLEAN]]
  <2>1. [user |-> r.user, flow |-> r.state, late |-> FALSE] \in [user : Ids, flow : States, late : BOOLEAN]
    BY <1>3
  <2> DEFINE x == [user |-> r.user, flow |-> r.state, late |-> FALSE]
  <2> HIDE DEF x
  <2>2. x \in [user : Ids, flow : States, late : BOOLEAN]
        /\ pendingAppCodes' = [k \in DOMAIN pendingAppCodes \union {nextCode} |-> IF k = nextCode THEN x ELSE pendingAppCodes[k]]
    BY <1>2, <2>1 DEF x
  <2> QED
    BY <2>2 DEF TInv, SsoOK
<1>5. nextCode' \in 1 .. (MaxCode + 1) /\ DOMAIN pendingAppCodes' \subseteq 1 .. (nextCode' - 1)
  BY <1>1, <1>4, AccountsAssumption DEF TInv, SsoOK, Codes
<1>6. SsoOK'
  BY <1>1, <1>4, <1>5 DEF TInv, SsoOK
<1> QED
  BY <1>1, <1>6, TypesOver, OneRequest, UsersUntouched, DbUntouched DEF TInv, dbVars, r

LEMMA TypesExchange ==
    ASSUME TInv, NEW c \in Clients, Exchange(c)
    PROVE  TInv'
<1>1. PICK k \in DOMAIN pendingAppCodes :
          /\ redeemed' = IF pendingAppCodes[k].late THEN redeemed ELSE redeemed \union {pendingAppCodes[k].flow}
          /\ pendingAppCodes' = Unexpired(Restrict(pendingAppCodes, DOMAIN pendingAppCodes \ {k}))
  BY DEF Exchange
<1>2. UNCHANGED <<dbVars, creq, sent, pendingStates, nextState, nextCode, authenticated>>
  BY DEF Exchange
<1>3. /\ DOMAIN pendingAppCodes' \subseteq DOMAIN pendingAppCodes
      /\ pendingAppCodes' \in [DOMAIN pendingAppCodes' -> [user : Ids, flow : States, late : BOOLEAN]]
  BY <1>1 DEF Unexpired, Restrict, TInv, SsoOK
<1>4. redeemed' \subseteq States
  BY <1>1 DEF TInv, SsoOK
<1>7. DOMAIN pendingAppCodes' \subseteq 1 .. (nextCode' - 1)
  <2>1. DOMAIN pendingAppCodes \subseteq 1 .. (nextCode - 1)
    BY DEF TInv, SsoOK
  <2> QED
    BY <1>2, <1>3, <2>1
<1>9. /\ DOMAIN pendingStates' \subseteq 1 .. (nextState' - 1)
      /\ pendingStates' \in [DOMAIN pendingStates' -> [org : SsoOrgs, late : BOOLEAN]]
      /\ nextState' \in 1 .. (MaxState + 1) /\ nextCode' \in 1 .. (MaxCode + 1)
      /\ authenticated' \in [States -> Identities \union {NULL}]
  BY <1>2 DEF TInv, SsoOK
<1>5. SsoOK'
  BY <1>3, <1>4, <1>7, <1>9 DEF SsoOK
<1>6. \A d \in Clients : (UserKnown(d) /\ Answers(d))'
  BY <1>2 DEF TInv, UserKnown, Answers, dbVars
<1> QED
  BY <1>2, <1>5, <1>6, DbUntouched DEF TInv, ReqOK

LEMMA TypesExpire ==
    ASSUME TInv, Expire
    PROVE  TInv'
<1>1. SsoOK'
  BY DEF Expire, TInv, SsoOK
<1>2. \A d \in Clients : (UserKnown(d) /\ Answers(d))'
  BY DEF Expire, TInv, UserKnown, Answers, dbVars
<1> QED
  BY <1>1, <1>2, DbUntouched DEF Expire, TInv, ReqOK

-----------------------------------------------------------------------------
(* Accounts and what their transactions hold.                              *)

LEMMA Orders ==
    /\ Order("organizations") = 1 /\ Order("users") = 3 /\ Order("commit") = 8
    /\ \A t \in TableNames : Order(t) \in 1 .. 7
    /\ \A s, t \in TableNames : Order(s) = Order(t) => s = t
    /\ \A t \in TableNames : Order(t) < 3 => t \in {"organizations", "tenants"}
<1>1. /\ Order("organizations") = 1 /\ Order("tenants") = 2 /\ Order("users") = 3
      /\ Order("tenant_members") = 4 /\ Order("org_members") = 5 /\ Order("visibility_groups") = 6
      /\ Order("visibility_group_members") = 7 /\ Order("commit") = 8
  BY DEF Order
<1> QED
  BY <1>1, TheTables DEF Tied

(* The row of table t that belongs to registration r.                      *)
RowOf(r, t) ==
    CASE t \in {"organizations", "tenants"} -> r.name
      [] t = "users" -> [id |-> r.user, name |-> r.name, email |-> r.email,
                         org |-> r.name, ext |-> NULL, hash |-> TRUE]
      [] OTHER -> <<r.name, r.user>>

(* A transaction holds the rows of the tables before the one it is at; one *)
(* that is rolled back, some of them; all others, none.                    *)
TrxOK(c) ==
    LET r == creq[c] IN
    \A t \in TableNames :
        IF r.op = "register" /\ r.pc \in TableNames \union {"commit"}
          THEN trx[c][t] = IF Order(t) < Order(r.pc) THEN {RowOf(r, t)} ELSE {}
        ELSE IF r.pc = "rollback" THEN trx[c][t] \subseteq {RowOf(r, t)}
        ELSE trx[c][t] = {}

AllUsers == db["users"] \union UNION {trx[c]["users"] : c \in Clients}

UsersOK ==
    /\ \A u \in AllUsers : u.id < nextUser /\ (u.hash <=> u.ext = NULL)
    /\ \A u, v \in AllUsers : u # v => ~SameUser(u, v) /\ u.id # v.id

(* An owner is a member of the organization named like it alone.           *)
MembersOK ==
    \A m \in db["tenant_members"] : \E u \in db["users"] : u.hash /\ u.id = m[2] /\ u.org = m[1]

(* A registration does not take the name of an organization it finds.      *)
OrgsOK ==
    /\ SsoOrgs \subseteq db["organizations"]
    /\ \A c \in Clients : trx[c]["organizations"] \intersect SsoOrgs = {}

(* Once answered 201 the account is there; before, nobody else has its id. *)
Mine(c) ==
    LET r == creq[c] IN
    r.op = "register" =>
        IF r.pc = "done" /\ sent[c] = <<"created">>
          THEN RowOf(r, "users") \in db["users"] /\ <<r.name, r.user>> \in db["tenant_members"]
          ELSE /\ r.user < nextUser
               /\ \A u \in db["users"] : u.id # r.user
               /\ \A d \in Clients \ {c} : \A u \in trx[d]["users"] : u.id # r.user

FInv ==
    /\ TInv /\ UsersOK /\ MembersOK /\ AllOrNothing /\ OrgsOK
    /\ \A c \in Clients : TrxOK(c) /\ Mine(c)

(* Accounts, committed or not, are rows with an id.                        *)
LEMMA UserTypes ==
    ASSUME TInv
    PROVE  /\ nextUser \in Nat /\ nextUser >= 1 /\ Ids \subseteq Nat /\ NULL \notin Ids
           /\ \A u \in AllUsers : u \in UserRows /\ u.id \in Ids
           /\ \A c \in Clients : trx[c]["users"] \subseteq AllUsers
           /\ db["users"] \subseteq AllUsers
<1>1. nextUser \in Nat /\ nextUser >= 1 /\ Ids \subseteq Nat /\ NULL \notin Ids
  BY AccountsAssumption DEF TInv, DbOK, Ids, NULL
<1>2. \A u \in AllUsers : u \in UserRows
  BY DEF TInv, DbOK, RowsOK, AllUsers
<1>3. \A u \in UserRows : u.id \in Ids
  BY DEF UserRows
<1> QED
  BY <1>1, <1>2, <1>3 DEF AllUsers

(* What FInv says of the committed accounts.                               *)
LEMMA FInvAccounts ==
    ASSUME FInv
    PROVE  OneRowPerId(db["users"]) /\ Either(db["users"])
BY DEF FInv, UsersOK, AllUsers, OneRowPerId, Either

(* Requests other than the one of this step.                               *)
LEMMA MineOthers ==
    ASSUME TInv, NEW d \in Clients, Mine(d), creq'[d] = creq[d], sent'[d] = sent[d], AccountsKept,
           db["tenant_members"] \subseteq db'["tenant_members"], nextUser' \in Nat, nextUser <= nextUser',
           \A u \in db'["users"] : \/ \E v \in db["users"] : v.id = u.id
                                   \/ u.id = nextUser
                                   \/ \E e \in Clients \ {d} : \E v \in trx[e]["users"] : v.id = u.id,
           \A e \in Clients \ {d} : \A u \in trx'[e]["users"] : u \in trx[e]["users"] \/ u.id = nextUser
    PROVE  Mine(d)'
<1> DEFINE r == creq[d]
<1>1. SUFFICES ASSUME r.op = "register"
               PROVE  IF r.pc = "done" /\ sent[d] = <<"created">>
                        THEN RowOf(r, "users") \in db'["users"] /\ <<r.name, r.user>> \in db'["tenant_members"]
                        ELSE /\ r.user < nextUser'
                             /\ \A u \in db'["users"] : u.id # r.user
                             /\ \A e \in Clients \ {d} : \A u \in trx'[e]["users"] : u.id # r.user
  BY DEF Mine
<1>2. CASE r.pc = "done" /\ sent[d] = <<"created">>
  <2>1. RowOf(r, "users") \in db["users"] /\ <<r.name, r.user>> \in db["tenant_members"]
    BY <1>1, <1>2 DEF Mine
  <2>2. RowOf(r, "users").hash
    BY DEF RowOf
  <2> QED
    BY <1>2, <2>1, <2>2 DEF AccountsKept
<1>3. CASE ~(r.pc = "done" /\ sent[d] = <<"created">>)
  <2>1. /\ r.user < nextUser
        /\ \A u \in db["users"] : u.id # r.user
        /\ \A e \in Clients \ {d} : \A u \in trx[e]["users"] : u.id # r.user
    BY <1>1, <1>3 DEF Mine
  <2>2. r.user \in Nat /\ nextUser \in Nat
    BY <1>1, ReqShapes, UserTypes DEF NULL
  <2> HIDE DEF r
  <2>3. r.user < nextUser' /\ r.user # nextUser
    BY <2>1, <2>2
  <2> QED
    BY <1>3, <2>1, <2>3
<1> QED
  BY <1>2, <1>3

(* Steps that leave the tables alone.                                      *)
LEMMA TablesAlone ==
    ASSUME FInv, TInv', UNCHANGED dbVars, NEW c \in Clients,
           \A d \in Clients \ {c} : creq'[d] = creq[d] /\ sent'[d] = sent[d],
           TrxOK(c)', Mine(c)'
    PROVE  FInv'
<1>1. UNCHANGED <<db, trx, nextUser>>
  BY DEF dbVars
<1>2. UsersOK' /\ MembersOK' /\ AllOrNothing' /\ OrgsOK'
  <2>1. AllUsers' = AllUsers
    BY <1>1 DEF AllUsers
  <2>2. UsersOK'
    BY <1>1, <2>1 DEF FInv, UsersOK
  <2>3. MembersOK'
    BY <1>1 DEF FInv, MembersOK
  <2>4. AllOrNothing'
    BY <1>1 DEF FInv, AllOrNothing
  <2>5. OrgsOK'
    BY <1>1 DEF FInv, OrgsOK
  <2> QED
    BY <2>2, <2>3, <2>4, <2>5
<1>3. ASSUME NEW d \in Clients \ {c} PROVE TrxOK(d)' /\ Mine(d)'
  <2>1. TrxOK(d)'
    BY <1>1 DEF FInv, TrxOK
  <2>2. Mine(d)'
    BY <1>1 DEF FInv, Mine
  <2> QED
    BY <2>1, <2>2
<1> QED
  BY <1>2, <1>3 DEF FInv

(* A request that is no registration, before and after.                    *)
LEMMA NoTransaction ==
    ASSUME FInv, TInv', UNCHANGED dbVars, NEW c \in Clients,
           \A d \in Clients \ {c} : creq'[d] = creq[d] /\ sent'[d] = sent[d],
           creq[c].pc \notin TableNames \union {"commit", "rollback"},
           creq'[c].op # "register"
    PROVE  FInv'
<1>1. \A t \in TableNames : trx'[c][t] = {}
  BY DEF FInv, TrxOK, dbVars
<1>2. creq'[c].pc # "rollback"
  <2>1. TInv' /\ c \in Clients
    OBVIOUS
  <2>2. creq'[c] \in Requests'
    BY DEF TInv, ReqOK
  <2> QED
    BY <2>2 DEF Requests
<1>3. TrxOK(c)' /\ Mine(c)'
  BY <1>1, <1>2 DEF TrxOK, Mine
<1> QED
  BY <1>3, TablesAlone

(* Register begins with an empty transaction and no id.                    *)
LEMMA StartTransaction ==
    ASSUME FInv, TInv', NEW c \in Clients, Register(c)
    PROVE  FInv'
<1>1. PICK f \in Forms :
          Begin(c, [op |-> "register", pc |-> "organizations", name |-> f[1], email |-> f[2], user |-> NULL])
  BY DEF Register
<1> DEFINE r == [op |-> "register", pc |-> "organizations", name |-> f[1], email |-> f[2], user |-> NULL]
<1>2. creq' = [creq EXCEPT ![c] = r] /\ sent' = [sent EXCEPT ![c] = <<>>] /\ creq[c].pc = "done"
  BY <1>1 DEF Begin, Done
<1>3. creq'[c] = r /\ \A d \in Clients \ {c} : creq'[d] = creq[d] /\ sent'[d] = sent[d]
  BY <1>2 DEF FInv, TInv, ReqOK
<1>4. UNCHANGED dbVars /\ UNCHANGED <<db, trx, nextUser>>
  BY DEF Register, dbVars
<1>5. \A t \in TableNames : trx'[c][t] = {}
  BY <1>2, <1>4, TheTables DEF FInv, TrxOK, Tied
<1>6. \A t \in TableNames : ~(Order(t) < Order("organizations"))
  BY Orders
<1>7. TrxOK(c)'
  <2>1. creq'[c].op = "register" /\ creq'[c].pc = "organizations"
    BY <1>3
  <2> HIDE DEF r
  <2> QED
    BY <1>5, <1>6, <2>1, TheTables DEF TrxOK
<1>8. Mine(c)'
  <2>1. r.user = 0 /\ nextUser > 0 /\ \A u \in AllUsers : u.id # 0
    BY UserTypes DEF FInv, NULL
  <2>2. creq'[c].pc = "organizations" /\ creq'[c].user = 0
    BY <1>3, <2>1
  <2> QED
    BY <1>4, <2>1, <2>2, UserTypes DEF Mine, AllUsers, FInv
<1> QED
  BY <1>3, <1>4, <1>7, <1>8, TablesAlone

(* A transaction of nobody in this step, and rows that do not change.      *)
LEMMA TrxOthers ==
    ASSUME NEW d, TrxOK(d), creq'[d] = creq[d], trx'[d] = trx[d]
    PROVE  TrxOK(d)'
BY DEF TrxOK

LEMMA SameRow ==
    ASSUME NEW r, NEW s, s.name = r.name, s.email = r.email, s.user = r.user
    PROVE  \A t : RowOf(s, t) = RowOf(r, t)
BY DEF RowOf

(* A statement that fails leaves what is written to be rolled back.        *)
LEMMA FailedTransaction ==
    ASSUME FInv, TInv', UNCHANGED dbVars, NEW c \in Clients, Fail(c, "refused"),
           creq[c].op = "register", creq[c].pc \in TableNames
    PROVE  FInv'
<1> DEFINE r == creq[c]
           s == creq'[c]
<1>1. s = [r EXCEPT !.pc = "rollback"] /\ \A d \in Clients \ {c} : creq'[d] = creq[d] /\ sent'[d] = sent[d]
  BY DEF Fail, GoTo, Respond, FInv, TInv, ReqOK
<1>2. r \in [op : {"register"}, pc : TableNames \union {"commit", "rollback", "done"},
             name : Names, email : Emails, user : Ids \union {NULL}]
  BY ReqShapes DEF FInv
<1> HIDE DEF s
<1>3. s.op = "register" /\ s.pc = "rollback" /\ s.name = r.name /\ s.email = r.email /\ s.user = r.user
  <2> HIDE DEF r
  <2> QED BY <1>1, <1>2
<1>4. \A t \in TableNames : RowOf(s, t) = RowOf(r, t)
  BY <1>3, SameRow
<1>5. TrxOK(c)'
  <2>1. TrxOK(c) /\ trx' = trx
    BY DEF FInv, dbVars
  <2>2. \A t \in TableNames : trx'[c][t] \subseteq {RowOf(r, t)}
    BY <2>1 DEF TrxOK
  <2> QED
    BY <1>3, <1>4, <2>2, TheTables DEF TrxOK, s, Tied
<1>6. Mine(c)'
  <2>1. r.pc # "done"
    BY TheTables DEF Tied
  <2>2. Mine(c) /\ UNCHANGED <<db, trx, nextUser>>
    BY DEF FInv, dbVars
  <2> QED
    BY <1>3, <2>1, <2>2 DEF Mine, s
<1> QED
  BY <1>1, <1>5, <1>6, TablesAlone

(* Accounts that go; one that comes with the next id and no collision.     *)
LEMMA UsersFewer ==
    ASSUME UsersOK, AllUsers' \subseteq AllUsers, nextUser' = nextUser
    PROVE  UsersOK'
BY DEF UsersOK

LEMMA UsersOneMore ==
    ASSUME TInv, UsersOK, NEW row, AllUsers' \subseteq AllUsers \union {row}, nextUser' = nextUser + 1,
           row.id = nextUser, row.hash <=> row.ext = NULL,
           \A u \in AllUsers : ~SameUser(u, row)
    PROVE  UsersOK'
<1>1. nextUser \in Nat /\ \A u \in AllUsers : u.id \in Nat
  BY UserTypes
<1>2. ASSUME NEW u \in AllUsers' PROVE u.id < nextUser' /\ (u.hash <=> u.ext = NULL)
  BY <1>1 DEF UsersOK
<1>3. ASSUME NEW u \in AllUsers', NEW v \in AllUsers', u # v PROVE ~SameUser(u, v) /\ u.id # v.id
  <2>1. CASE u \in AllUsers /\ v \in AllUsers
    BY <1>3, <2>1 DEF UsersOK
  <2>2. CASE u \in AllUsers /\ v = row
    BY <1>1, <2>2 DEF UsersOK
  <2>3. CASE u = row /\ v \in AllUsers
    BY <1>1, <2>3 DEF UsersOK, SameUser
  <2> QED
    BY <1>3, <2>1, <2>2, <2>3
<1> QED
  BY <1>2, <1>3 DEF UsersOK

(* One INSERT of a registration that goes through.                         *)
LEMMA Inserted ==
    ASSUME FInv, TInv', NEW c \in Clients, NEW t \in TableNames, creq[c].op = "register", creq[c].pc = t,
           ~Locked(c, t, RowFor(creq[c], t)), ~Clash(t, RowFor(creq[c], t), db),
           trx' = [trx EXCEPT ![c][t] = @ \union {RowFor(creq[c], t)}],
           nextUser' = IF t = "users" THEN nextUser + 1 ELSE nextUser,
           creq' = [creq EXCEPT ![c].pc = After(t), ![c].user = IF t = "users" THEN nextUser ELSE @],
           UNCHANGED <<db, sent>>
    PROVE  FInv'
<1> DEFINE r == creq[c]
           row == RowFor(r, t)
           s == creq'[c]
           new == IF t = "users" THEN nextUser ELSE r.user
           p == After(t)
<1>1. r \in [op : {"register"}, pc : TableNames \union {"commit", "rollback", "done"},
             name : Names, email : Emails, user : Ids \union {NULL}]
  BY ReqShapes DEF FInv
<1>2. s = [r EXCEPT !.pc = p, !.user = new] /\ \A d \in Clients \ {c} : creq'[d] = creq[d] /\ sent'[d] = sent[d]
  <2>1. [r EXCEPT !.pc = p, !.user = IF t = "users" THEN nextUser ELSE @] = [r EXCEPT !.pc = p, !.user = new]
    BY <1>1
  <2> QED
    BY <2>1 DEF FInv, TInv, ReqOK
<1>3. p \in (TableNames \ {"organizations"}) \union {"commit"} /\ Order(p) = Order(t) + 1
  BY NextTable
<1> HIDE DEF s, new, p
<1>4. s.op = "register" /\ s.pc = p /\ s.name = r.name /\ s.email = r.email /\ s.user = new
  <2> HIDE DEF r
  <2> QED BY <1>1, <1>2
<1>5. trx'[c] = [trx[c] EXCEPT ![t] = @ \union {row}] /\ \A d \in Clients \ {c} : trx'[d] = trx[d]
  BY DEF FInv, TInv, DbOK
<1>6. \A q \in TableNames : trx[c][q] = IF Order(q) < Order(t) THEN {RowOf(r, q)} ELSE {}
  BY DEF FInv, TrxOK
<1>7. row = RowOf(s, t)
  <2> HIDE DEF r
  <2>1. CASE t \in {"organizations", "tenants"}
    BY <1>4, <2>1 DEF RowFor, RowOf
  <2>2. CASE t = "users"
    <3>1. row = [id |-> nextUser, name |-> r.name, email |-> r.email, org |-> r.name, ext |-> NULL, hash |-> TRUE]
      BY <2>2 DEF RowFor
    <3>2. RowOf(s, t) = [id |-> s.user, name |-> s.name, email |-> s.email, org |-> s.name, ext |-> NULL, hash |-> TRUE]
      BY <2>2 DEF RowOf
    <3> QED
      BY <1>4, <2>2, <3>1, <3>2 DEF new
  <2>3. CASE t \in Tied
    BY <1>4, <2>3 DEF RowFor, RowOf, Tied, new
  <2> QED
    BY <2>1, <2>2, <2>3, TheTables
<1>8. ASSUME NEW q \in TableNames, Order(q) < Order(t) PROVE RowOf(s, q) = RowOf(r, q)
  <2>1. CASE t = "users"
    <3>1. q \in {"organizations", "tenants"}
      BY <1>8, <2>1, Orders, TheTables DEF Tied
    <3> QED
      BY <1>4, <3>1 DEF RowOf
  <2>2. CASE t # "users"
    BY <1>4, <2>2, SameRow DEF new
  <2> QED
    BY <2>1, <2>2
<1> HIDE DEF row, r
<1>9. ASSUME NEW q \in TableNames
      PROVE  trx'[c][q] = IF Order(q) < Order(p) THEN {RowOf(s, q)} ELSE {}
  <2>1. DOMAIN trx[c] = TableNames
    BY DEF FInv, TInv, DbOK, RowsOK
  <2>2. Order(t) \in 1 .. 7 /\ Order(q) \in 1 .. 7 /\ (Order(q) = Order(t) => q = t)
    BY Orders
  <2>3. CASE q = t
    <3>1. Order(q) < Order(p) /\ ~(Order(q) < Order(t))
      BY <1>3, <2>2, <2>3
    <3>2. trx[c][t] = {}
      BY <1>6, <2>3, <3>1
    <3>3. trx'[c][t] = trx[c][t] \union {row}
      BY <1>5, <2>1
    <3> QED
      BY <1>7, <2>3, <3>1, <3>2, <3>3
  <2>4. CASE q # t
    <3>1. trx'[c][q] = trx[c][q] /\ (Order(q) < Order(p) <=> Order(q) < Order(t))
      BY <1>3, <1>5, <2>1, <2>2, <2>4
    <3> QED
      BY <1>6, <1>8, <3>1
  <2> QED
    BY <2>3, <2>4
<1>10. TrxOK(c)'
  BY <1>3, <1>4, <1>9 DEF TrxOK, s
<1>11. \A d \in Clients \ {c} : TrxOK(d)'
  BY <1>2, <1>5, TrxOthers DEF FInv
<1>12. MembersOK' /\ AccountsKept
  BY UsersUntouched DEF FInv, MembersOK
<1>13. AllOrNothing'
  BY DEF FInv, AllOrNothing
<1>14. nextUser \in Nat /\ nextUser' \in Nat /\ nextUser <= nextUser'
  BY UserTypes DEF FInv
<1>15. trx'[c]["users"] \subseteq trx[c]["users"] \union (IF t = "users" THEN {row} ELSE {})
  BY <1>5, TheTables DEF FInv, TInv, DbOK, RowsOK
<1>16. t = "users" => row.id = nextUser /\ row.hash /\ row.ext = NULL
  BY DEF row, RowFor
<1>17. UsersOK'
  <2>1. AllUsers' \subseteq AllUsers \union (IF t = "users" THEN {row} ELSE {})
    BY <1>5, <1>15 DEF AllUsers
  <2>2. CASE t # "users"
    BY <2>1, <2>2, UsersFewer DEF FInv
  <2>3. CASE t = "users"
    <3>1. ASSUME NEW u \in db["users"] PROVE ~SameUser(u, row)
      BY <2>3 DEF Clash, row, r
    <3>2. ASSUME NEW d \in Clients \ {c}, NEW u \in trx[d]["users"] PROVE ~SameUser(u, row)
      BY <2>3 DEF Locked, Clash, row, r
    <3>3. trx[c]["users"] = {}
      BY <1>6, <2>3, Orders
    <3>4. \A u \in AllUsers : ~SameUser(u, row)
      BY <3>1, <3>2, <3>3 DEF AllUsers
    <3> QED
      BY <1>16, <2>1, <2>3, <3>4, UsersOneMore DEF FInv
  <2> QED
    BY <2>2, <2>3
<1>18. \A d \in Clients \ {c} : Mine(d)'
  <2>1. ASSUME NEW d \in Clients \ {c} PROVE Mine(d)'
    <3>1. \A e \in Clients \ {d} : \A u \in trx'[e]["users"] : u \in trx[e]["users"] \/ u.id = nextUser
      BY <1>5, <1>15, <1>16
    <3> QED
      BY <1>2, <1>12, <1>14, <3>1, MineOthers DEF FInv
  <2> QED
    BY <2>1
<1>19. Mine(c)'
  <2>1. r.op = "register" /\ r.pc # "done" /\ s.pc # "done"
    BY <1>3, <1>4, TheTables DEF Tied, r
  <2>2. /\ r.user < nextUser
        /\ \A u \in db["users"] : u.id # r.user
        /\ \A d \in Clients \ {c} : \A u \in trx[d]["users"] : u.id # r.user
    BY <2>1 DEF FInv, Mine, r
  <2>3. \A u \in AllUsers : u.id # nextUser
    BY UserTypes DEF FInv, UsersOK
  <2>4. /\ new < nextUser'
        /\ \A u \in db["users"] : u.id # new
        /\ \A d \in Clients \ {c} : \A u \in trx[d]["users"] : u.id # new
    BY <1>14, <2>2, <2>3 DEF new, AllUsers
  <2> QED
    BY <1>4, <1>5, <2>1, <2>4 DEF Mine, s
<1>20. OrgsOK'
  <2>1. t = "organizations" => row \notin db["organizations"]
    BY DEF Clash, row, r
  <2>2. trx'[c]["organizations"] \subseteq
          trx[c]["organizations"] \union (IF t = "organizations" THEN {row} ELSE {})
    BY <1>5, TheTables DEF FInv, TInv, DbOK, RowsOK
  <2> QED
    BY <1>5, <2>1, <2>2 DEF FInv, OrgsOK
<1> QED
  BY <1>10, <1>11, <1>12, <1>13, <1>17, <1>18, <1>19, <1>20 DEF FInv

(* Each action keeps FInv.                                                 *)
LEMMA StatementKeeps ==
    ASSUME FInv, TInv', NEW c \in Clients, Statement(c)
    PROVE  FInv'
<1> DEFINE r == creq[c]
           t == r.pc
           row == RowFor(r, t)
<1>1. r.op = "register" /\ t \in TableNames /\ ~Locked(c, t, row)
  BY DEF Statement
<1>2. CASE Fail(c, "refused") /\ UNCHANGED dbVars
  BY <1>1, <1>2, FailedTransaction
<1>3. CASE /\ ~Clash(t, row, db)
           /\ trx' = [trx EXCEPT ![c][t] = @ \union {row}]
           /\ nextUser' = IF t = "users" THEN nextUser + 1 ELSE nextUser
           /\ creq' = [creq EXCEPT ![c].pc = After(t), ![c].user = IF t = "users" THEN nextUser ELSE @]
           /\ UNCHANGED <<db, sent>>
  BY <1>1, <1>3, Inserted
<1> QED
  BY <1>2, <1>3 DEF Statement

LEMMA RollbackKeeps ==
    ASSUME FInv, TInv', NEW c \in Clients, Rollback(c)
    PROVE  FInv'
<1> DEFINE r == creq[c]
           s == creq'[c]
<1>1. r.pc = "rollback" /\ r.op = "register" /\ sent[c] = <<"refused">>
  BY ReqShapes DEF Rollback, At, FInv, TInv, Answers
<1>2. s = [r EXCEPT !.pc = "done"] /\ sent'[c] = <<"refused">> /\ UNCHANGED <<db, nextUser>>
      /\ \A d \in Clients \ {c} : creq'[d] = creq[d] /\ sent'[d] = sent[d]
  BY <1>1 DEF Rollback, GoTo, Respond, FInv, TInv, ReqOK
<1>3. r \in [op : {"register"}, pc : TableNames \union {"commit", "rollback", "done"},
             name : Names, email : Emails, user : Ids \union {NULL}]
  BY <1>1, ReqShapes DEF FInv
<1> HIDE DEF s
<1>4. s.op = "register" /\ s.pc = "done" /\ s.user = r.user
  <2> HIDE DEF r
  <2> QED BY <1>2, <1>3
<1>5. trx'[c] = NoRows /\ \A d \in Clients \ {c} : trx'[d] = trx[d]
  BY DEF Rollback, FInv, TInv, DbOK
<1>6. \A d \in Clients : \A t \in TableNames : trx'[d][t] \subseteq trx[d][t]
  BY <1>5 DEF NoRows
<1>7. UsersOK'
  <2>1. AllUsers' \subseteq AllUsers
    BY <1>2, <1>6, TheTables DEF AllUsers
  <2> QED
    BY <1>2, <2>1, UsersFewer DEF FInv
<1>8. MembersOK' /\ AccountsKept
  BY <1>2, UsersUntouched DEF FInv, MembersOK
<1>9. AllOrNothing'
  BY <1>2 DEF FInv, AllOrNothing
<1>10. OrgsOK'
  BY <1>2, <1>6, TheTables DEF FInv, OrgsOK
<1>11. TrxOK(c)' /\ \A d \in Clients \ {c} : TrxOK(d)'
  <2>1. \A t \in TableNames : trx'[c][t] = {}
    BY <1>5 DEF NoRows
  <2>2. TrxOK(c)'
    BY <1>4, <2>1, TheTables DEF TrxOK, s, Tied
  <2> QED
    BY <1>2, <1>5, <2>2, TrxOthers DEF FInv
<1>12. Mine(c)'
  <2>1. /\ r.user < nextUser
        /\ \A u \in db["users"] : u.id # r.user
        /\ \A d \in Clients \ {c} : \A u \in trx[d]["users"] : u.id # r.user
    BY <1>1 DEF FInv, Mine
  <2>2. sent'[c] # <<"created">>
    BY <1>2
  <2> QED
    BY <1>2, <1>4, <1>5, <2>1, <2>2 DEF Mine, s
<1>13. ASSUME NEW d \in Clients \ {c} PROVE Mine(d)'
  <2>1. \A e \in Clients \ {d} : \A u \in trx'[e]["users"] : u \in trx[e]["users"]
    BY <1>6, TheTables
  <2>2. nextUser' \in Nat /\ nextUser <= nextUser'
    BY <1>2, UserTypes DEF FInv
  <2> QED
    BY <1>2, <1>8, <2>1, <2>2, MineOthers DEF FInv
<1> QED
  BY <1>7, <1>8, <1>9, <1>10, <1>11, <1>12, <1>13 DEF FInv

(* The commit adds the rows of all tables together.                        *)
LEMMA CommitKeeps ==
    ASSUME FInv, TInv', NEW c \in Clients, Commit(c)
    PROVE  FInv'
<1> DEFINE r == creq[c]
           s == creq'[c]
           u0 == RowOf(r, "users")
<1>1. PICK committed \in BOOLEAN :
          /\ db' = IF committed THEN [t \in TableNames |-> db[t] \union trx[c][t]] ELSE db
          /\ Respond(c, IF committed THEN "created" ELSE "refused")
  BY DEF Commit
<1>2. r.pc = "commit" /\ r.op = "register" /\ sent[c] = <<>> /\ GoTo(c, "done") /\ nextUser' = nextUser
      /\ trx' = [trx EXCEPT ![c] = NoRows]
  BY ReqShapes DEF Commit, At, FInv, TInv, Answers
<1>3. s = [r EXCEPT !.pc = "done"] /\ sent'[c] = (IF committed THEN <<"created">> ELSE <<"refused">>)
      /\ \A d \in Clients \ {c} : creq'[d] = creq[d] /\ sent'[d] = sent[d]
  BY <1>1, <1>2 DEF GoTo, Respond, FInv, TInv, ReqOK
<1>4. r \in [op : {"register"}, pc : TableNames \union {"commit", "rollback", "done"},
             name : Names, email : Emails, user : Ids \union {NULL}]
  BY <1>2, ReqShapes DEF FInv
<1> HIDE DEF s
<1>5. s.op = "register" /\ s.pc = "done" /\ s.user = r.user /\ s.name = r.name /\ s.email = r.email
  <2> HIDE DEF r
  <2> QED BY <1>3, <1>4
<1>6. trx'[c] = NoRows /\ \A d \in Clients \ {c} : trx'[d] = trx[d]
  BY <1>2 DEF FInv, TInv, DbOK
<1>7. \A d \in Clients : \A t \in TableNames : trx'[d][t] \subseteq trx[d][t]
  BY <1>6 DEF NoRows
<1>8. \A t \in TableNames : trx[c][t] = {RowOf(r, t)}
  <2>1. \A t \in TableNames : Order(t) < Order("commit")
    BY Orders
  <2>2. TrxOK(c)
    BY DEF FInv
  <2> QED
    BY <1>2, <2>1, <2>2 DEF TrxOK
<1>9. \A t \in TableNames : db[t] \subseteq db'[t] /\ db'[t] \subseteq db[t] \union {RowOf(r, t)}
  BY <1>1, <1>8
<1>10. committed => \A t \in TableNames : db'[t] = db[t] \union {RowOf(r, t)}
  BY <1>1, <1>8
<1>11. u0.hash /\ u0.id = r.user /\ u0.org = r.name /\ RowOf(r, "organizations") = r.name /\ RowOf(r, "tenants") = r.name
       /\ \A t \in Tied : RowOf(r, t) = <<r.name, r.user>>
  BY DEF RowOf, Tied
<1> HIDE DEF u0
<1>12. UsersOK'
  <2>1. db'["users"] \subseteq AllUsers
    BY <1>8, <1>9, TheTables DEF AllUsers
  <2>2. AllUsers' \subseteq AllUsers
    BY <1>7, <2>1, TheTables DEF AllUsers
  <2> QED
    BY <1>2, <2>2, UsersFewer DEF FInv
<1>13. AccountsKept
  BY <1>9, TheTables DEF AccountsKept
<1>14. MembersOK'
  <2>1. CASE ~committed
    BY <1>1, <2>1 DEF FInv, MembersOK
  <2>2. CASE committed
    <3>1. db'["users"] = db["users"] \union {u0}
          /\ db'["tenant_members"] = db["tenant_members"] \union {<<r.name, r.user>>}
      BY <1>10, <1>11, <2>2, TheTables DEF u0, Tied
    <3> HIDE DEF r
    <3> QED
      BY <1>11, <3>1 DEF FInv, MembersOK
  <2> QED
    BY <2>1, <2>2
<1>15. AllOrNothing'
  <2>1. CASE ~committed
    BY <1>1, <2>1 DEF FInv, AllOrNothing
  <2>2. CASE committed
    <3>1. db'["users"] = db["users"] \union {u0} /\ db'["organizations"] = db["organizations"] \union {r.name}
          /\ db'["tenants"] = db["tenants"] \union {r.name}
          /\ \A t \in Tied : db'[t] = db[t] \union {<<r.name, r.user>>}
      BY <1>10, <1>11, <2>2, TheTables DEF u0
    <3>2. r.name \notin SsoOrgs
      BY <1>8, <1>11, TheTables DEF FInv, OrgsOK
    <3>3. {t \in TableNames : t \notin {"organizations", "tenants", "users"}} = Tied
      BY TheTables DEF Tied
    <3> HIDE DEF r
    <3>4. ASSUME NEW o \in db'["organizations"] \ SsoOrgs
          PROVE  o \in db'["tenants"] /\ \E u \in db'["users"] : u.hash /\ u.org = o /\ \A t \in Tied : <<o, u.id>> \in db'[t]
      <4>1. CASE o = r.name
        <5>1. u0 \in db'["users"] /\ \A t \in Tied : <<o, u0.id>> \in db'[t]
          BY <1>11, <3>1, <4>1
        <5> QED
          BY <1>11, <3>1, <4>1, <5>1
      <4>2. CASE o # r.name
        BY <3>1, <3>3, <4>2 DEF FInv, AllOrNothing
      <4> QED
        BY <4>1, <4>2
    <3>5. ASSUME NEW u \in db'["users"], u.hash
          PROVE  u.org \in db'["organizations"] \ SsoOrgs /\ \A t \in Tied : <<u.org, u.id>> \in db'[t]
      <4>1. CASE u = u0
        BY <1>11, <3>1, <3>2, <4>1
      <4>2. CASE u # u0
        BY <3>1, <3>3, <3>5, <4>2 DEF FInv, AllOrNothing
      <4> QED
        BY <4>1, <4>2
    <3> QED
      BY <3>3, <3>4, <3>5 DEF AllOrNothing
  <2> QED
    BY <2>1, <2>2
<1>16. OrgsOK'
  BY <1>7, <1>9, TheTables DEF FInv, OrgsOK
<1>17. TrxOK(c)' /\ \A d \in Clients \ {c} : TrxOK(d)'
  <2>1. \A t \in TableNames : trx'[c][t] = {}
    BY <1>6 DEF NoRows
  <2>2. TrxOK(c)'
    BY <1>5, <2>1, TheTables DEF TrxOK, s, Tied
  <2> QED
    BY <1>3, <1>6, <2>2, TrxOthers DEF FInv
<1>18. Mine(c)'
  <2>1. CASE committed
    <3>1. RowOf(s, "users") = u0
      BY <1>5, SameRow DEF u0
    <3>2. u0 \in db'["users"] /\ <<r.name, r.user>> \in db'["tenant_members"]
      BY <1>10, <1>11, <2>1, TheTables DEF u0, Tied
    <3> QED
      BY <1>3, <1>5, <2>1, <3>1, <3>2 DEF Mine, s
  <2>2. CASE ~committed
    <3>1. /\ r.user < nextUser
          /\ \A u \in db["users"] : u.id # r.user
          /\ \A d \in Clients \ {c} : \A u \in trx[d]["users"] : u.id # r.user
      BY <1>2 DEF FInv, Mine
    <3>2. sent'[c] # <<"created">> /\ db' = db
      BY <1>1, <1>3, <2>2
    <3> QED
      BY <1>2, <1>5, <1>6, <3>1, <3>2 DEF Mine, s
  <2> QED
    BY <2>1, <2>2
<1>19. ASSUME NEW d \in Clients \ {c} PROVE Mine(d)'
  <2>1. \A e \in Clients \ {d} : \A u \in trx'[e]["users"] : u \in trx[e]["users"]
    BY <1>7, TheTables
  <2>2. nextUser' \in Nat /\ nextUser <= nextUser'
    BY <1>2, UserTypes DEF FInv
  <2>3. \A u \in db'["users"] : u \in db["users"] \/ u \in trx[c]["users"]
    BY <1>8, <1>9, TheTables
  <2>4. db["tenant_members"] \subseteq db'["tenant_members"]
    BY <1>9, TheTables DEF Tied
  <2> QED
    BY <1>3, <1>13, <2>1, <2>2, <2>3, <2>4, MineOthers DEF FInv
<1> QED
  BY <1>12, <1>14, <1>15, <1>16, <1>17, <1>18, <1>19 DEF FInv

(* A transaction writes accounts with a password.                          *)
LEMMA WrittenHash ==
    ASSUME NEW d, TrxOK(d)
    PROVE  \A u \in trx[d]["users"] : u.hash
<1>1. RowOf(creq[d], "users").hash
  BY DEF RowOf
<1>2. trx[d]["users"] \subseteq {RowOf(creq[d], "users")}
  BY TheTables DEF TrxOK
<1> QED
  BY <1>1, <1>2

(* An SSO account is inserted outside of any transaction.                  *)
LEMMA EnrollKeeps ==
    ASSUME FInv, TInv', NEW c \in Clients, Enroll(c)
    PROVE  FInv'
<1> DEFINE r == creq[c]
           row == NewAccount(r)
<1>1. r.pc = "enroll" /\ r.ext \in Identities /\ ~Locked(c, "users", row)
  BY ReqShapes DEF Enroll, At, FInv
<1>2. r.pc \notin TableNames \union {"commit", "rollback"}
  BY <1>1, TheTables DEF Tied
<1>3. CASE Over(c) /\ UNCHANGED dbVars
  <2>1. creq'[c].op = "sso" /\ \A d \in Clients \ {c} : creq'[d] = creq[d] /\ sent'[d] = sent[d]
    BY <1>3 DEF Over, Respond, FInv, TInv, ReqOK
  <2> QED
    BY <1>2, <1>3, <2>1, NoTransaction
<1>4. CASE /\ ~Clash("users", row, db) /\ nextUser \in Ids
           /\ db' = [db EXCEPT !["users"] = @ \union {row}] /\ nextUser' = nextUser + 1
           /\ creq' = [creq EXCEPT ![c].pc = "issue", ![c].user = nextUser]
           /\ UNCHANGED <<trx, sent>>
  <2>1. row.id = nextUser /\ ~row.hash /\ row.ext # NULL /\ row.ext = r.ext
    BY <1>1, AccountsAssumption DEF NewAccount
  <2>2. trx[c]["users"] = {}
    BY <1>2, TheTables DEF FInv, TrxOK
  <2>3. \A u \in AllUsers : ~SameUser(u, row)
    BY <1>1, <1>4, <2>2 DEF AllUsers, Locked, Clash
  <2>4. \A d \in Clients \ {c} : creq'[d] = creq[d] /\ sent'[d] = sent[d]
    BY <1>4 DEF FInv, TInv, ReqOK
  <2>5. creq'[c].op # "register" /\ creq'[c].pc = "issue"
    <3>1. creq'[c] = [creq[c] EXCEPT !.pc = "issue", !.user = nextUser]
      BY <1>4 DEF FInv, TInv, ReqOK
    <3>2. creq[c] \in [op : {"sso"}, pc : {"lookup", "enroll", "rename", "issue"}, state : States,
                        org : SsoOrgs, name : Names, email : Emails \union {NoEmail}, ext : Identities,
                        user : Ids \union {NULL}]
      BY <1>1, ReqShapes DEF FInv
    <3> QED
      BY <3>1, <3>2
  <2> HIDE DEF row, r
  <2>6. /\ db'["users"] = db["users"] \union {row}
        /\ \A t \in TableNames \ {"users"} : db'[t] = db[t]
    BY <1>4, TheTables DEF FInv, TInv, DbOK, RowsOK
  <2>7. UsersOK'
    <3>1. AllUsers' \subseteq AllUsers \union {row}
      BY <1>4, <2>6 DEF AllUsers
    <3>2. TInv /\ UsersOK
      BY DEF FInv
    <3>3. row.hash <=> row.ext = NULL
      BY <2>1
    <3> QED
      BY <1>4, <2>1, <2>3, <3>1, <3>2, <3>3, UsersOneMore
  <2>8. AccountsKept
    BY <2>6 DEF AccountsKept
  <2>9. MembersOK'
    BY <2>6, TheTables DEF FInv, MembersOK, Tied
  <2>10. AllOrNothing'
    <3>1. db'["organizations"] = db["organizations"] /\ db'["tenants"] = db["tenants"]
      BY <2>6, TheTables
    <3>2. \A t \in {x \in TableNames : x \notin {"organizations", "tenants", "users"}} : db'[t] = db[t]
      BY <2>6
    <3>3. AllOrNothing
      BY DEF FInv
    <3>4. \A u \in db'["users"] : u.hash => u \in db["users"]
      BY <2>1, <2>6
    <3> QED
      BY <2>6, <3>1, <3>2, <3>3, <3>4 DEF AllOrNothing
  <2>11. OrgsOK'
    BY <1>4, <2>6, TheTables DEF FInv, OrgsOK
  <2>12. TrxOK(c)' /\ Mine(c)'
    <3>1. \A t \in TableNames : trx'[c][t] = {}
      BY <1>2, <1>4 DEF FInv, TrxOK, r
    <3> QED
      BY <2>5, <3>1 DEF TrxOK, Mine
  <2>13. \A d \in Clients \ {c} : TrxOK(d)'
    BY <1>4, <2>4, TrxOthers DEF FInv
  <2>14. ASSUME NEW d \in Clients \ {c} PROVE Mine(d)'
    <3>1. nextUser' \in Nat /\ nextUser <= nextUser'
      BY <1>4, UserTypes DEF FInv
    <3>2. db["tenant_members"] \subseteq db'["tenant_members"]
      BY <2>6, TheTables DEF Tied
    <3> QED
      BY <1>4, <2>1, <2>4, <2>6, <2>8, <3>1, <3>2, MineOthers DEF FInv
  <2> QED
    BY <2>7, <2>9, <2>10, <2>11, <2>12, <2>13, <2>14 DEF FInv
<1> QED
  BY <1>3, <1>4 DEF Enroll

(* A renamed account has no password, so no registration is about it.      *)
LEMMA RenameKeeps ==
    ASSUME FInv, TInv', NEW c \in Clients, Rename(c)
    PROVE  FInv'
<1> DEFINE r == creq[c]
           row == Renamed(r)
           others == {u \in db["users"] : u.id # row.id}
<1>1. r.pc = "rename" /\ ~Locked(c, "users", row) /\ UNCHANGED <<trx, nextUser>>
  BY DEF Rename, At
<1>2. r.pc \notin TableNames \union {"commit", "rollback"}
  BY <1>1, TheTables DEF Tied
<1>3. CASE Over(c) /\ UNCHANGED db
  <2>1. creq'[c].op = "sso" /\ \A d \in Clients \ {c} : creq'[d] = creq[d] /\ sent'[d] = sent[d]
    BY <1>3 DEF Over, Respond, FInv, TInv, ReqOK
  <2> QED
    BY <1>1, <1>2, <1>3, <2>1, NoTransaction DEF dbVars
<1>4. CASE /\ row.name \notin {u.name : u \in others}
           /\ db' = [db EXCEPT !["users"] = others \union {row}]
           /\ GoTo(c, "issue") /\ UNCHANGED sent
  <2>1. PICK v \in db["users"] : v.id = r.user /\ v \in UserRows /\ row = [v EXCEPT !.name = r.name]
    BY <1>1, RenamedRow DEF FInv
  <2>2. r.ext \in Identities
    BY <1>1, ReqShapes DEF FInv
  <2>3. row.id = v.id /\ row.email = v.email /\ row.org = v.org /\ row.ext = v.ext /\ row.hash = v.hash
    <3> HIDE DEF row, r
    <3> QED
      BY <2>1 DEF UserRows
  <2>4. v.ext = r.ext
    BY <1>1, <2>1, FInvAccounts DEF FInv, TInv, UserKnown, OneRowPerId
  <2>5. ~v.hash /\ ~row.hash
    BY <2>1, <2>2, <2>3, <2>4, FInvAccounts, AccountsAssumption DEF Either
  <2>6. creq'[c].op # "register" /\ creq'[c].pc = "issue"
        /\ \A d \in Clients \ {c} : creq'[d] = creq[d] /\ sent'[d] = sent[d]
    <3>1. creq'[c] = [creq[c] EXCEPT !.pc = "issue"] /\ \A d \in Clients \ {c} : creq'[d] = creq[d]
      BY <1>4 DEF GoTo, FInv, TInv, ReqOK
    <3>2. creq[c] \in [op : {"sso"}, pc : {"lookup", "enroll", "rename", "issue"}, state : States,
                        org : SsoOrgs, name : Names, email : Emails \union {NoEmail}, ext : Identities,
                        user : Ids \union {NULL}]
      BY <1>1, ReqShapes DEF FInv
    <3> QED
      BY <1>4, <3>1, <3>2
  <2> HIDE DEF row, r
  <2>7. /\ db'["users"] = others \union {row}
        /\ \A t \in TableNames \ {"users"} : db'[t] = db[t]
    BY <1>4, TheTables DEF FInv, TInv, DbOK, RowsOK
  <2>8. \A u \in db["users"] : u = v \/ u \in others
    BY <2>1, <2>3, FInvAccounts DEF OneRowPerId
  <2>9. trx[c]["users"] = {}
    BY <1>2, TheTables DEF FInv, TrxOK, r
  <2>10. ASSUME NEW u \in AllUsers, u # v
         PROVE  ~SameUser(u, row) /\ ~SameUser(row, u) /\ u.id # row.id
    <3>1. ~SameUser(u, v) /\ u.id # v.id
      BY <2>1, <2>10 DEF FInv, UsersOK, AllUsers
    <3>2. u.name # row.name
      <4>1. CASE u \in db["users"]
        BY <1>4, <2>8, <2>10, <4>1
      <4>2. CASE u \notin db["users"]
        BY <1>1, <2>9, <4>2 DEF AllUsers, Locked, Clash, SameUser
      <4> QED
        BY <4>1, <4>2
    <3> QED
      BY <2>3, <3>1, <3>2 DEF SameUser
  <2>11. v \notin {u \in AllUsers' : u # row}
    <3>1. v \notin others
      BY <2>3
    <3>2. \A d \in Clients : v \notin trx[d]["users"]
      <4>1. \A d \in Clients : TrxOK(d)
        BY DEF FInv
      <4> QED
        BY <2>5, <4>1, WrittenHash
    <3> QED
      BY <1>1, <2>7, <3>1, <3>2 DEF AllUsers
  <2>12. AllUsers' \subseteq (AllUsers \ {v}) \union {row}
    <3>1. AllUsers' \subseteq AllUsers \union {row}
      BY <1>1, <2>7 DEF AllUsers
    <3> QED
      BY <2>11, <3>1
  <2>13. UsersOK'
    <3>1. ASSUME NEW u \in AllUsers' PROVE u.id < nextUser' /\ (u.hash <=> u.ext = NULL)
      <4>1. v.id < nextUser /\ (v.hash <=> v.ext = NULL) /\ (u \in AllUsers => u.id < nextUser /\ (u.hash <=> u.ext = NULL))
        BY <2>1 DEF FInv, UsersOK, AllUsers
      <4> QED
        BY <1>1, <2>3, <2>12, <4>1
    <3>2. ASSUME NEW u \in AllUsers', NEW w \in AllUsers', u # w PROVE ~SameUser(u, w) /\ u.id # w.id
      <4>1. CASE u # row /\ w # row
        BY <2>12, <3>2, <4>1 DEF FInv, UsersOK
      <4>2. CASE u = row \/ w = row
        BY <2>10, <2>12, <3>2, <4>2
      <4> QED
        BY <4>1, <4>2
    <3> QED
      BY <3>1, <3>2 DEF UsersOK
  <2>14. AccountsKept
    <3>1. ASSUME NEW u \in db["users"]
          PROVE  \E x \in db'["users"] : /\ x.id = u.id /\ x.email = u.email /\ x.org = u.org
                                         /\ x.ext = u.ext /\ x.hash = u.hash /\ (u.hash => x = u)
      <4>1. CASE u = v
        BY <2>3, <2>5, <2>7, <4>1
      <4>2. CASE u # v
        BY <2>7, <2>8, <4>2
      <4> QED
        BY <4>1, <4>2
    <3> QED
      BY <3>1 DEF AccountsKept
  <2>15. \A u \in db'["users"] : u.hash => u \in db["users"]
    BY <2>5, <2>7
  <2>16. \A u \in db["users"] : u.hash => u \in db'["users"]
    BY <2>5, <2>7, <2>8
  <2>17. MembersOK'
    <3>1. db'["tenant_members"] = db["tenant_members"]
      BY <2>7, TheTables DEF Tied
    <3> QED
      BY <2>16, <3>1 DEF FInv, MembersOK
  <2>18. AllOrNothing'
    <3>1. db'["organizations"] = db["organizations"] /\ db'["tenants"] = db["tenants"]
      BY <2>7, TheTables
    <3>2. \A t \in {x \in TableNames : x \notin {"organizations", "tenants", "users"}} : db'[t] = db[t]
      BY <2>7
    <3>3. AllOrNothing
      BY DEF FInv
    <3> QED
      BY <2>15, <2>16, <3>1, <3>2, <3>3 DEF AllOrNothing
  <2>19. OrgsOK'
    BY <1>1, <2>7, TheTables DEF FInv, OrgsOK
  <2>20. TrxOK(c)' /\ Mine(c)'
    <3>1. \A t \in TableNames : trx'[c][t] = {}
      BY <1>1, <1>2 DEF FInv, TrxOK, r
    <3> QED
      BY <2>6, <3>1 DEF TrxOK, Mine
  <2>21. \A d \in Clients \ {c} : TrxOK(d)'
    BY <1>1, <2>6, TrxOthers DEF FInv
  <2>22. ASSUME NEW d \in Clients \ {c} PROVE Mine(d)'
    <3>1. nextUser' \in Nat /\ nextUser <= nextUser'
      BY <1>1, UserTypes DEF FInv
    <3>2. db["tenant_members"] \subseteq db'["tenant_members"]
      BY <2>7, TheTables DEF Tied
    <3>3. \A u \in db'["users"] : \E x \in db["users"] : x.id = u.id
      BY <2>1, <2>3, <2>7
    <3> QED
      BY <1>1, <2>6, <2>14, <3>1, <3>2, <3>3, MineOthers DEF FInv
  <2> QED
    BY <2>13, <2>17, <2>18, <2>19, <2>20, <2>21, <2>22 DEF FInv
<1> QED
  BY <1>3, <1>4 DEF Rename

(* FInv at the start.                                                      *)
LEMMA FInvInit == Init => FInv
<1> SUFFICES ASSUME Init PROVE FInv
  OBVIOUS
<1>1. TInv
  BY TypesInit
<1>2. /\ db["organizations"] = SsoOrgs /\ \A t \in TableNames \ {"organizations"} : db[t] = {}
      /\ \A c \in Clients : \A t \in TableNames : trx[c][t] = {}
  <2>1. db = [NoRows EXCEPT !["organizations"] = SsoOrgs] /\ trx = [c \in Clients |-> NoRows]
    BY DEF Init
  <2> QED
    BY <2>1, TheTables DEF NoRows
<1>3. AllUsers = {}
  BY <1>2, TheTables DEF AllUsers
<1>4. UsersOK
  BY <1>3 DEF UsersOK
<1>5. MembersOK
  BY <1>2, TheTables DEF MembersOK, Tied
<1>6. AllOrNothing
  BY <1>2, TheTables DEF AllOrNothing
<1>7. OrgsOK
  BY <1>2, TheTables DEF OrgsOK
<1>8. ASSUME NEW c \in Clients PROVE TrxOK(c) /\ Mine(c)
  <2>1. creq[c] = None
    BY DEF Init
  <2> QED
    BY <1>2, <2>1 DEF TrxOK, Mine, None
<1> QED
  BY <1>1, <1>4, <1>5, <1>6, <1>7, <1>8 DEF FInv

(* Steps of no request, or of one that is over.                            *)
LEMMA RequestsAlone ==
    ASSUME FInv, TInv', UNCHANGED dbVars, UNCHANGED creq, UNCHANGED sent
    PROVE  FInv'
<1>1. UNCHANGED <<db, trx, nextUser>>
  BY DEF dbVars
<1>2. UsersOK'
  BY <1>1 DEF FInv, UsersOK, AllUsers
<1>3. MembersOK'
  BY <1>1 DEF FInv, MembersOK
<1>4. AllOrNothing'
  BY <1>1 DEF FInv, AllOrNothing
<1>5. OrgsOK'
  BY <1>1 DEF FInv, OrgsOK
<1>6. \A c \in Clients : TrxOK(c)'
  BY <1>1 DEF FInv, TrxOK
<1>7. \A c \in Clients : Mine(c)'
  BY <1>1 DEF FInv, Mine
<1> QED
  BY <1>2, <1>3, <1>4, <1>5, <1>6, <1>7 DEF FInv

(* Steps of the SSO flow that leave the tables alone.                      *)
LEMMA SsoKeeps ==
    ASSUME FInv, TInv', UNCHANGED dbVars, NEW c \in Clients,
           creq[c].pc \in {"done", "provider", "lookup", "enroll", "rename", "issue"},
           NEW r, creq' = [creq EXCEPT ![c] = r], r.op # "register",
           \A d \in Clients \ {c} : sent'[d] = sent[d]
    PROVE  FInv'
<1>1. creq'[c].op # "register" /\ \A d \in Clients \ {c} : creq'[d] = creq[d]
  BY DEF FInv, TInv, ReqOK
<1>2. creq[c].pc \notin TableNames \union {"commit", "rollback"}
  BY TheTables DEF Tied
<1> QED
  BY <1>1, <1>2, NoTransaction

LEMMA OverKeeps ==
    ASSUME FInv, TInv', UNCHANGED dbVars, NEW c \in Clients, Over(c),
           creq[c].pc \in {"provider", "lookup", "enroll", "rename", "issue"}
    PROVE  FInv'
<1> DEFINE r == [op |-> "sso", pc |-> "done"]
<1>1. creq' = [creq EXCEPT ![c] = r] /\ \A d \in Clients \ {c} : sent'[d] = sent[d]
  BY DEF Over, Respond, FInv, TInv, ReqOK
<1>2. r.op # "register"
  OBVIOUS
<1> HIDE DEF r
<1> QED
  BY <1>1, <1>2, SsoKeeps

LEMMA LookupKeeps ==
    ASSUME FInv, TInv', NEW c \in Clients, Lookup(c)
    PROVE  FInv'
<1>1. creq[c].pc = "lookup" /\ UNCHANGED dbVars
  BY DEF Lookup, At
<1>2. creq[c].op = "sso"
  BY <1>1, ReqShapes DEF FInv
<1>3. CASE Over(c)
  BY <1>1, <1>3, OverKeeps
<1>4. CASE GoTo(c, "enroll") /\ UNCHANGED sent
  <2>1. creq' = [creq EXCEPT ![c] = [creq[c] EXCEPT !.pc = "enroll"]] /\ [creq[c] EXCEPT !.pc = "enroll"].op # "register"
    BY <1>2, <1>4, ReqShapes, <1>1 DEF GoTo, FInv
  <2> DEFINE r == [creq[c] EXCEPT !.pc = "enroll"]
  <2>2. creq' = [creq EXCEPT ![c] = r] /\ r.op # "register" /\ \A d \in Clients \ {c} : sent'[d] = sent[d]
    BY <1>4, <2>1
  <2> HIDE DEF r
  <2> QED
    BY <1>1, <2>2, SsoKeeps
<1>5. ASSUME NEW u, creq' = [creq EXCEPT ![c].pc = "rename", ![c].user = u.id], UNCHANGED sent
      PROVE  FInv'
  <2> DEFINE r == [creq[c] EXCEPT !.pc = "rename", !.user = u.id]
  <2>1. creq' = [creq EXCEPT ![c] = r] /\ r.op # "register" /\ \A d \in Clients \ {c} : sent'[d] = sent[d]
    BY <1>1, <1>2, <1>5, ReqShapes DEF FInv
  <2> HIDE DEF r
  <2> QED
    BY <1>1, <2>1, SsoKeeps
<1> QED
  BY <1>3, <1>4, <1>5 DEF Lookup

LEMMA DbErrorKeeps ==
    ASSUME FInv, TInv', NEW c \in Clients, DbError(c)
    PROVE  FInv'
BY FailedTransaction, OverKeeps DEF DbError

LEMMA ProviderKeeps ==
    ASSUME FInv, TInv', NEW c \in Clients, Provider(c)
    PROVE  FInv'
<1>1. creq[c].pc = "provider" /\ UNCHANGED dbVars
  BY DEF Provider, ProviderAnswers, ProviderRefused, At
<1>2. CASE ProviderRefused(c)
  BY <1>1, <1>2, OverKeeps DEF ProviderRefused
<1>3. CASE ProviderAnswers(c)
  <2>1. PICK s \in States \ {x \in States : authenticated[x] = NULL} : \E f \in Profiles[authenticated[s]] :
            creq' = [creq EXCEPT ![c] = [op |-> "sso", pc |-> "lookup", state |-> creq[c].state,
                                         org |-> creq[c].org, name |-> f[1], email |-> f[2],
                                         ext |-> authenticated[s], user |-> NULL]]
    BY <1>3 DEF ProviderAnswers
  <2>2. PICK f \in Profiles[authenticated[s]] :
            creq' = [creq EXCEPT ![c] = [op |-> "sso", pc |-> "lookup", state |-> creq[c].state,
                                         org |-> creq[c].org, name |-> f[1], email |-> f[2],
                                         ext |-> authenticated[s], user |-> NULL]]
    BY <2>1
  <2> DEFINE r == [op |-> "sso", pc |-> "lookup", state |-> creq[c].state,
                   org |-> creq[c].org, name |-> f[1], email |-> f[2],
                   ext |-> authenticated[s], user |-> NULL]
  <2>3. creq' = [creq EXCEPT ![c] = r] /\ r.op # "register" /\ \A d \in Clients \ {c} : sent'[d] = sent[d]
    BY <1>3, <2>2 DEF ProviderAnswers
  <2> HIDE DEF r
  <2> QED
    BY <1>1, <2>3, SsoKeeps
<1> QED
  BY <1>2, <1>3 DEF Provider

LEMMA RequestKeeps ==
    ASSUME FInv, TInv', NEW c \in Clients, Request(c)
    PROVE  FInv'
<1>1. CASE Register(c)
  BY <1>1, StartTransaction
<1>2. CASE Initiate(c) \/ Exchange(c)
  BY <1>2, RequestsAlone DEF Initiate, Exchange
<1>3. CASE Callback(c)
  <2>1. PICK s \in DOMAIN pendingStates :
            Begin(c, [op |-> "sso", pc |-> "provider", state |-> s, org |-> pendingStates[s].org])
    BY <1>3 DEF Callback
  <2> DEFINE r == [op |-> "sso", pc |-> "provider", state |-> s, org |-> pendingStates[s].org]
  <2>2. creq' = [creq EXCEPT ![c] = r] /\ r.op # "register" /\ creq[c].pc = "done" /\ UNCHANGED dbVars
    BY <1>3, <2>1 DEF Begin, Done, Callback
  <2>3. \A d \in Clients \ {c} : sent'[d] = sent[d]
    BY <2>1 DEF Begin, FInv, TInv, ReqOK
  <2> HIDE DEF r
  <2> QED
    BY <2>2, <2>3, SsoKeeps
<1> QED
  BY <1>1, <1>2, <1>3 DEF Request

LEMMA HandleKeeps ==
    ASSUME FInv, TInv', NEW c \in Clients, Handle(c)
    PROVE  FInv'
<1>1. CASE IssueCode(c)
  BY <1>1, OverKeeps DEF IssueCode, At
<1> QED
  BY <1>1, StatementKeeps, RollbackKeeps, CommitKeeps, LookupKeeps, EnrollKeeps, RenameKeeps, DbErrorKeeps
     DEF Handle

(* TInv and FInv are kept by every step.                                   *)
LEMMA TypesStep ==
    ASSUME FInv, [Next]_vars
    PROVE  TInv'
<1>1. TInv
  BY DEF FInv
<1>2. ASSUME NEW c \in Clients, Request(c) PROVE TInv'
  BY <1>1, <1>2, TypesRegister, TypesInitiate, TypesCallback, TypesExchange DEF Request
<1>3. ASSUME NEW c \in Clients, Handle(c) PROVE TInv'
  BY <1>1, <1>3, FInvAccounts, TypesStatement, TypesRollback, TypesCommit, TypesLookup, TypesEnroll,
     TypesRename, TypesIssueCode, TypesDbError DEF Handle
<1>4. ASSUME NEW c \in Clients, Provider(c) PROVE TInv'
  BY <1>1, <1>4, TypesProviderAnswers, TypesProviderRefused DEF Provider
<1>5. ASSUME NEW s \in States, NEW i \in Identities, SignIn(s, i) PROVE TInv'
  BY <1>1, <1>5, TypesSignIn
<1>6. CASE UNCHANGED vars
  <2>1. UNCHANGED dbVars /\ UNCHANGED ssoVars /\ creq' = creq /\ sent' = sent /\ db' = db
    BY <1>6 DEF vars, dbVars
  <2>2. \A d \in Clients : (UserKnown(d) /\ Answers(d))'
    BY <1>1, <2>1 DEF TInv, UserKnown, Answers
  <2> QED
    BY <1>1, <2>1, <2>2, DbUntouched, SsoUntouched DEF TInv, ReqOK
<1> QED
  BY <1>1, <1>2, <1>3, <1>4, <1>5, <1>6, TypesExpire DEF Next

LEMMA FInvStep ==
    ASSUME FInv, [Next]_vars
    PROVE  FInv'
<1>1. TInv'
  BY TypesStep
<1>2. ASSUME NEW s \in States, NEW i \in Identities, SignIn(s, i) PROVE FInv'
  BY <1>1, <1>2, RequestsAlone DEF SignIn
<1>3. CASE Expire
  BY <1>1, <1>3, RequestsAlone DEF Expire
<1>4. CASE UNCHANGED vars
  BY <1>1, <1>4, RequestsAlone DEF vars
<1> QED
  BY <1>1, <1>2, <1>3, <1>4, RequestKeeps, HandleKeeps, ProviderKeeps DEF Next

LEMMA AlwaysFInv == Spec => []FInv
<1>1. FInv /\ [Next]_vars => FInv'
  BY FInvStep
<1> QED
  BY <1>1, FInvInit, PTL DEF Spec

(* Rows, requests and one-time values are of their kind in every state.    *)
THEOREM TypeCorrect == Spec => []TypeOK
<1>1. FInv => TypeOK
  BY DEF FInv, TInv, DbOK, ReqOK, SsoOK, TypeOK
<1> QED
  BY <1>1, AlwaysFInv, PTL

(* Whichever callbacks of a request answer, it is answered once, and has   *)
(* been when it is over (respondOnce).                                     *)
THEOREM OneAnswer == Spec => []AnsweredOnce
<1>1. FInv => AnsweredOnce
  <2> SUFFICES ASSUME FInv, NEW c \in Clients
               PROVE  Len(sent[c]) <= 1 /\ (sent[c] = <<>> /\ Done(c) => creq[c] = None)
    BY DEF AnsweredOnce
  <2>1. Answers(c)
    BY DEF FInv, TInv
  <2>2. sent[c] \in {<<>>, <<"created">>, <<"refused">>, <<"answered">>}
    BY <2>1 DEF Answers
  <2>3. Done(c) /\ creq[c] # None => sent[c] # <<>>
    BY <2>1 DEF Answers, Done
  <2>4. /\ Len(<<>>) = 0 /\ Len(<<"created">>) = 1
        /\ Len(<<"refused">>) = 1 /\ Len(<<"answered">>) = 1
    OBVIOUS
  <2>5. Len(sent[c]) \in {0, 1}
    BY <2>2, <2>4
  <2>6. Len(sent[c]) <= 1
    <3>1. \A n \in {0, 1} : n <= 1
      OBVIOUS
    <3> QED
      BY Zenon, <2>5, <3>1
  <2>7. sent[c] = <<>> /\ Done(c) => creq[c] = None
    BY <2>3
  <2> QED
    BY <2>6, <2>7
<1> QED
  BY <1>1, AlwaysFInv, PTL

(* However first logins race, a subject has one account in an organization: *)
(* an INSERT that collides waits for, or fails on, the one before it.      *)
THEOREM SubjectsHaveOneAccount == Spec => []OneAccountPerSubject
<1>1. FInv => OneAccountPerSubject
  BY DEF FInv, UsersOK, AllUsers, SameUser, OneAccountPerSubject
<1> QED
  BY <1>1, AlwaysFInv, PTL

(* Wherever registrations fail or collide, an organization made by one has *)
(* its tenant and one owner with all rows, and every owner an organization. *)
THEOREM RegistrationIsAtomic == Spec => []AllOrNothing
<1>1. FInv => AllOrNothing
  BY DEF FInv
<1> QED
  BY <1>1, AlwaysFInv, PTL

(* A registration answered 201 can log in at once to the tenant promised;  *)
(* one answered otherwise left no account.                                 *)
THEOREM AnswersTell == Spec => []AnswersAreTrue
<1>1. ASSUME FInv, NEW c \in Clients, creq[c].op = "register", creq[c].pc = "done"
      PROVE  IF sent[c] = <<"created">>
               THEN Login(creq[c].email) = {[user |-> creq[c].user, tenants |-> {creq[c].name}]}
               ELSE \A u \in db["users"] : u.id # creq[c].user
  <2> DEFINE r == creq[c]
             mine == RowOf(r, "users")
             theirs(u) == {m[1] : m \in {x \in db["tenant_members"] : x[2] = u.id}}
  <2>1. CASE sent[c] # <<"created">>
    BY <1>1, <2>1 DEF FInv, Mine
  <2>2. CASE sent[c] = <<"created">>
    <3>1. mine \in db["users"] /\ <<r.name, r.user>> \in db["tenant_members"]
      BY <1>1, <2>2 DEF FInv, Mine
    <3>2. mine.id = r.user /\ mine.email = r.email /\ mine.hash /\ mine.org = r.name
      BY DEF RowOf
    <3> HIDE DEF mine, r
    <3>3. {v \in db["users"] : v.email = r.email /\ v.hash} = {mine}
      BY <1>1, <3>1, <3>2 DEF FInv, UsersOK, AllUsers, SameUser
    <3>4. \A m \in db["tenant_members"] : m[2] = r.user => m[1] = r.name
      BY <1>1, <3>1, <3>2, FInvAccounts DEF FInv, MembersOK, OneRowPerId
    <3>5. theirs(mine) = {r.name}
      BY <3>1, <3>2, <3>4
    <3>6. Login(r.email) = {[user |-> u.id, tenants |-> theirs(u)] : u \in {v \in db["users"] : v.email = r.email /\ v.hash}}
      BY DEF Login
    <3>7. Login(r.email) = {[user |-> r.user, tenants |-> {r.name}]}
      BY <3>2, <3>3, <3>5, <3>6
    <3> QED
      BY <2>2, <3>7 DEF r
  <2> QED
    BY <2>1, <2>2
<1>2. FInv => AnswersAreTrue
  BY <1>1 DEF AnswersAreTrue, Done
<1> QED
  BY <1>2, AlwaysFInv, PTL

-----------------------------------------------------------------------------
(* One-time values and the flows they belong to.                           *)

Known == {"lookup", "enroll", "rename", "issue"}

(* The request of c is past its state and has no code yet.                 *)
Busy(c, s) == creq[c].op = "sso" /\ ~Done(c) /\ creq[c].state = s

(* A subject is the one who signed in with the nonce of the flow.          *)
OwnSubject(c) == creq[c].pc \in Known => authenticated[creq[c].state] = creq[c].ext

CodesOwned ==
    \A k \in DOMAIN pendingAppCodes : \E u \in db["users"] :
        /\ u.id = pendingAppCodes[k].user /\ u.ext = authenticated[pendingAppCodes[k].flow]
        /\ u.ext # NULL /\ ~u.hash

(* Nothing has begun with a state that was not drawn.                      *)
Fresh == \A s \in States : s >= nextState => Claims(s) = {} /\ authenticated[s] = NULL

SInv ==
    /\ FInv /\ OneTokenPerFlow /\ Fresh /\ CodesOwned
    /\ \A c \in Clients : OwnSubject(c)

(* The request of c goes on with its flow, or is in none.                  *)
Onward(c) ==
    \/ creq'[c] = creq[c]
    \/ creq'[c].pc \notin Known /\ (creq'[c].op = "register" \/ creq'[c].pc = "done")
    \/ /\ creq[c].op = "sso" /\ creq[c].pc # "done" /\ creq'[c].state = creq[c].state
       /\ creq'[c].ext = authenticated[creq[c].state]

(* No step takes an account away or changes its subject or address.        *)
LEMMA KeptStep ==
    ASSUME FInv, [Next]_vars
    PROVE  AccountsKept
<1>1. CASE db' = db
  BY <1>1, UsersUntouched
<1>2. ASSUME NEW c \in Clients, Commit(c) PROVE AccountsKept
  <2>1. db["users"] \subseteq db'["users"]
    BY <1>2, TheTables DEF Commit
  <2> QED
    BY <2>1 DEF AccountsKept
<1>3. ASSUME NEW c \in Clients, Enroll(c) \/ Rename(c) PROVE AccountsKept
  BY <1>3, TypesEnroll, TypesRename, FInvAccounts DEF FInv
<1>4. ASSUME NEW c \in Clients, Handle(c) PROVE AccountsKept
  BY <1>1, <1>2, <1>3, <1>4 DEF Handle, Statement, Rollback, Lookup, IssueCode, DbError, dbVars
<1>5. ASSUME NEW c \in Clients, Request(c) \/ Provider(c) PROVE AccountsKept
  BY <1>1, <1>5 DEF Request, Register, Initiate, Callback, Exchange, Provider, ProviderAnswers,
                    ProviderRefused, dbVars
<1> QED
  BY <1>1, <1>4, <1>5 DEF Next, SignIn, Expire, vars, dbVars

(* A nonce is signed in with once.                                         *)
LEMMA SubjectsKept ==
    ASSUME TInv, [Next]_vars
    PROVE  /\ \A s \in States : authenticated[s] # NULL => authenticated'[s] = authenticated[s]
           /\ \A s \in States : s >= nextState' /\ authenticated[s] = NULL => authenticated'[s] = NULL
           /\ nextState \in Nat /\ nextState' \in Nat /\ nextState <= nextState'
<1>1. nextState \in Nat /\ States \subseteq Nat
  BY AccountsAssumption DEF TInv, SsoOK, States
<1>2. CASE authenticated' = authenticated /\ nextState' = nextState
  BY <1>1, <1>2
<1>3. ASSUME NEW c \in Clients, Initiate(c)
      PROVE  authenticated' = authenticated /\ nextState' = nextState + 1
  BY <1>3 DEF Initiate
<1>4. ASSUME NEW q \in States, NEW i \in Identities, SignIn(q, i)
      PROVE  /\ q < nextState /\ authenticated[q] = NULL /\ nextState' = nextState
             /\ authenticated' = [authenticated EXCEPT ![q] = i] /\ DOMAIN authenticated = States
  BY <1>4 DEF SignIn, TInv, SsoOK
<1>5. CASE \E q \in States, i \in Identities : SignIn(q, i)
  <2>1. PICK q \in States, i \in Identities : SignIn(q, i)
    BY <1>5
  <2>2. /\ q < nextState /\ authenticated[q] = NULL /\ nextState' = nextState
        /\ authenticated' = [authenticated EXCEPT ![q] = i] /\ DOMAIN authenticated = States
    BY <1>4, <2>1
  <2>3. \A s \in States : s # q => authenticated'[s] = authenticated[s]
    BY <2>2
  <2>4. \A s \in States : s >= nextState => s # q
    BY <1>1, <2>2
  <2> QED
    BY <1>1, <2>2, <2>3, <2>4
<1>6. ASSUME NEW c \in Clients, Request(c), ~Initiate(c)
      PROVE  authenticated' = authenticated /\ nextState' = nextState
  BY <1>6 DEF Request, Register, Callback, Exchange, ssoVars
<1>7. ASSUME NEW c \in Clients, Handle(c) \/ Provider(c)
      PROVE  authenticated' = authenticated /\ nextState' = nextState
  BY <1>7 DEF Handle, Statement, Rollback, Commit, Lookup, Enroll, Rename, IssueCode, DbError, Provider,
              ProviderAnswers, ProviderRefused, ssoVars
<1>8. CASE Expire \/ UNCHANGED vars
  BY <1>2, <1>8 DEF Expire, vars, ssoVars
<1>9. CASE authenticated' = authenticated /\ nextState' = nextState + 1
  BY <1>1, <1>9
<1> QED
  BY <1>2, <1>3, <1>5, <1>6, <1>7, <1>8, <1>9 DEF Next

(* Every action but Callback leaves its request in its flow, or in none.   *)
LEMMA OnwardRegister ==
    ASSUME TInv, NEW c \in Clients, creq[c].op = "register", NEW p, p \notin Known,
           \/ creq' = [creq EXCEPT ![c].pc = p]
           \/ \E u : creq' = [creq EXCEPT ![c].pc = p, ![c].user = u]
    PROVE  Onward(c)
<1> DEFINE r == creq[c]
           s == creq'[c]
<1>1. s = [r EXCEPT !.pc = p] \/ \E u : s = [r EXCEPT !.pc = p, !.user = u]
  BY DEF TInv, ReqOK
<1>2. r \in [op : {"register"}, pc : TableNames \union {"commit", "rollback", "done"},
             name : Names, email : Emails, user : Ids \union {NULL}]
  BY ReqShapes
<1> HIDE DEF r, s
<1>3. s.op = "register" /\ s.pc = p
  BY <1>1, <1>2
<1> QED
  BY <1>3 DEF Onward, s

LEMMA OnwardKnown ==
    ASSUME TInv, NEW c \in Clients, OwnSubject(c), creq[c].pc \in Known, NEW p,
           \/ creq' = [creq EXCEPT ![c].pc = p]
           \/ \E u : creq' = [creq EXCEPT ![c].pc = p, ![c].user = u]
    PROVE  Onward(c)
<1> DEFINE r == creq[c]
           s == creq'[c]
<1>1. s = [r EXCEPT !.pc = p] \/ \E u : s = [r EXCEPT !.pc = p, !.user = u]
  BY DEF TInv, ReqOK
<1>2. r \in [op : {"sso"}, pc : {"lookup", "enroll", "rename", "issue"}, state : States,
             org : SsoOrgs, name : Names, email : Emails \union {NoEmail}, ext : Identities,
             user : Ids \union {NULL}]
  BY ReqShapes DEF Known
<1>3. r.ext = authenticated[r.state] /\ r.op = "sso" /\ r.pc # "done"
  BY <1>2 DEF OwnSubject, Known
<1> HIDE DEF r, s
<1>4. s.state = r.state /\ s.ext = r.ext
  BY <1>1, <1>2
<1> QED
  BY <1>3, <1>4 DEF Onward, r, s

LEMMA OnwardOver ==
    ASSUME TInv, NEW c \in Clients, Over(c)
    PROVE  Onward(c)
BY DEF Over, TInv, ReqOK, Onward, Known

LEMMA OnwardRequests ==
    ASSUME SInv, NEW c \in Clients,
           Register(c) \/ Initiate(c) \/ Exchange(c) \/ Handle(c) \/ Provider(c)
    PROVE  Onward(c) /\ \A d \in Clients \ {c} : creq'[d] = creq[d]
<1>1. TInv /\ OwnSubject(c)
  BY DEF SInv, FInv
<1>2. \A d \in Clients \ {c} : creq'[d] = creq[d]
  BY <1>1 DEF TInv, ReqOK, Register, Begin, Initiate, Exchange, Handle, Statement, Fail, GoTo, Rollback, Commit,
              Lookup, Over, Enroll, Rename, IssueCode, DbError, Provider, ProviderAnswers, ProviderRefused
<1>3. CASE Register(c)
  <2>1. PICK f \in Forms :
          Begin(c, [op |-> "register", pc |-> "organizations", name |-> f[1], email |-> f[2], user |-> NULL])
    BY <1>3 DEF Register
  <2> DEFINE r == [op |-> "register", pc |-> "organizations", name |-> f[1], email |-> f[2], user |-> NULL]
  <2>2. creq'[c] = r /\ r.op = "register" /\ r.pc = "organizations"
    BY <1>1, <2>1 DEF Begin, TInv, ReqOK
  <2> HIDE DEF r
  <2> QED
    BY <1>2, <2>2 DEF Onward, Known
<1>4. CASE Initiate(c) \/ Exchange(c)
  BY <1>2, <1>4 DEF Initiate, Exchange, Onward
<1>5. CASE Statement(c)
  <2>1. creq[c].op = "register" /\ creq[c].pc \in TableNames
    BY <1>5 DEF Statement
  <2>2. After(creq[c].pc) \notin Known /\ "rollback" \notin Known
    BY <2>1, NextTable, TheTables DEF Known, Tied
  <2>3. CASE Fail(c, "refused")
    BY <1>1, <1>2, <2>1, <2>2, <2>3, OnwardRegister DEF Fail, GoTo
  <2>4. CASE \E u : creq' = [creq EXCEPT ![c].pc = After(creq[c].pc), ![c].user = u]
    BY <1>1, <1>2, <2>1, <2>2, <2>4, OnwardRegister
  <2>5. \/ Fail(c, "refused")
        \/ creq' = [creq EXCEPT ![c].pc = After(creq[c].pc),
                                ![c].user = IF creq[c].pc = "users" THEN nextUser ELSE @]
    BY <1>5 DEF Statement
  <2>6. creq' = [creq EXCEPT ![c].pc = After(creq[c].pc),
                             ![c].user = IF creq[c].pc = "users" THEN nextUser ELSE @]
        => \E u : creq' = [creq EXCEPT ![c].pc = After(creq[c].pc), ![c].user = u]
    <3> DEFINE r == creq[c]
               p == After(creq[c].pc)
               new == IF r.pc = "users" THEN nextUser ELSE r.user
    <3>1. r \in [op : {"register"}, pc : TableNames \union {"commit", "rollback", "done"},
                 name : Names, email : Emails, user : Ids \union {NULL}]
      BY <1>1, <2>1, ReqShapes
    <3>2. [r EXCEPT !.pc = p, !.user = IF r.pc = "users" THEN nextUser ELSE @] = [r EXCEPT !.pc = p, !.user = new]
      BY <3>1
    <3> QED
      BY <3>2
  <2> QED
    BY <2>3, <2>4, <2>5, <2>6
<1>6. CASE Rollback(c) \/ Commit(c)
  <2>1. creq[c].op = "register" /\ GoTo(c, "done")
    BY <1>1, <1>6, ReqShapes DEF Rollback, Commit, At
  <2>2. "done" \notin Known
    BY DEF Known
  <2> QED
    BY <1>1, <1>2, <2>1, <2>2, OnwardRegister DEF GoTo
<1>7. CASE Lookup(c) \/ Enroll(c) \/ Rename(c)
  <2>1. creq[c].pc \in Known
    BY <1>7 DEF Lookup, Enroll, Rename, At, Known
  <2>2. \/ Over(c)
        \/ \E p : creq' = [creq EXCEPT ![c].pc = p]
        \/ \E p, u : creq' = [creq EXCEPT ![c].pc = p, ![c].user = u]
    BY <1>7 DEF Lookup, Enroll, Rename, GoTo
  <2> QED
    BY <1>1, <1>2, <2>1, <2>2, OnwardOver, OnwardKnown
<1>8. CASE IssueCode(c) \/ ProviderRefused(c)
  BY <1>1, <1>2, <1>8, OnwardOver DEF IssueCode, ProviderRefused
<1>9. CASE DbError(c)
  <2>1. "rollback" \notin Known
    BY DEF Known
  <2> QED
    BY <1>1, <1>2, <1>9, <2>1, OnwardOver, OnwardRegister DEF DbError, Fail, GoTo
<1>10. CASE ProviderAnswers(c)
  <2>1. PICK s \in States \ {x \in States : authenticated[x] = NULL} : \E f \in Profiles[authenticated[s]] :
            /\ s = creq[c].state
            /\ creq' = [creq EXCEPT ![c] = [op |-> "sso", pc |-> "lookup", state |-> creq[c].state,
                                            org |-> creq[c].org, name |-> f[1], email |-> f[2],
                                            ext |-> authenticated[s], user |-> NULL]]
    BY <1>10 DEF ProviderAnswers
  <2>2. PICK f \in Profiles[authenticated[s]] :
            /\ s = creq[c].state
            /\ creq' = [creq EXCEPT ![c] = [op |-> "sso", pc |-> "lookup", state |-> creq[c].state,
                                            org |-> creq[c].org, name |-> f[1], email |-> f[2],
                                            ext |-> authenticated[s], user |-> NULL]]
    BY <2>1
  <2> DEFINE r == [op |-> "sso", pc |-> "lookup", state |-> creq[c].state, org |-> creq[c].org, name |-> f[1],
                   email |-> f[2], ext |-> authenticated[s], user |-> NULL]
  <2>3. creq'[c] = r /\ r.state = creq[c].state /\ r.ext = authenticated[creq[c].state]
    BY <1>1, <2>2 DEF TInv, ReqOK
  <2>4. creq[c].op = "sso" /\ creq[c].pc # "done"
    BY <1>1, <1>10, ReqShapes DEF ProviderAnswers, At
  <2> HIDE DEF r
  <2> QED
    BY <1>2, <2>3, <2>4 DEF Onward
<1> QED
  BY <1>3, <1>4, <1>5, <1>6, <1>7, <1>8, <1>9, <1>10 DEF Handle, Provider

(* The subject of a request stays the one of its flow.                     *)
LEMMA OwnSubjectKept ==
    ASSUME SInv, TInv', [Next]_vars, NEW c \in Clients, Onward(c)
    PROVE  OwnSubject(c)'
<1> SUFFICES ASSUME creq'[c].pc \in Known PROVE authenticated'[creq'[c].state] = creq'[c].ext
  BY DEF OwnSubject
<1>1. /\ TInv /\ OwnSubject(c)
      /\ \A s \in States : authenticated[s] # NULL => authenticated'[s] = authenticated[s]
  BY SubjectsKept DEF SInv, FInv
<1>2. creq'[c].state \in States /\ creq'[c].ext \in Identities
  <2>1. TInv' /\ c \in Clients
    OBVIOUS
  <2>2. creq'[c] \in Requests'
    BY <2>1 DEF TInv, ReqOK
  <2> QED
    BY <2>2, TheTables DEF Requests, Known, Tied
<1>3. creq'[c].ext = authenticated[creq'[c].state]
  <2>1. CASE creq'[c] = creq[c]
    BY <1>1, <2>1 DEF OwnSubject
  <2>2. CASE creq'[c].pc = "done"
    BY <2>2 DEF Known
  <2> QED
    BY <2>1, <2>2 DEF Onward
<1> QED
  BY <1>1, <1>2, <1>3, AccountsAssumption

(* What it is to be in Claims, before and after a step.                    *)
LEMMA ClaimsOf ==
    ASSUME NEW s, NEW x
    PROVE  x \in Claims(s) <=>
              \/ x = <<"state", s>> /\ s \in DOMAIN pendingStates
              \/ \E c \in Clients : x = <<"callback", c>> /\ Busy(c, s)
              \/ \E k \in DOMAIN pendingAppCodes : x = <<"code", k>> /\ pendingAppCodes[k].flow = s
              \/ x = <<"token", s>> /\ s \in redeemed
BY DEF Claims, Busy

LEMMA ClaimsNext ==
    ASSUME NEW s, NEW x
    PROVE  x \in Claims(s)' <=>
              \/ x = <<"state", s>> /\ s \in DOMAIN pendingStates'
              \/ \E c \in Clients : x = <<"callback", c>> /\ Busy(c, s)'
              \/ \E k \in DOMAIN pendingAppCodes' : x = <<"code", k>> /\ pendingAppCodes'[k].flow = s
              \/ x = <<"token", s>> /\ s \in redeemed'
BY DEF Claims, Busy

LEMMA BusyStill ==
    ASSUME NEW c, Onward(c), NEW s, Busy(c, s)'
    PROVE  Busy(c, s)
BY DEF Onward, Busy, Done

(* A step that claims nothing new.                                         *)
LEMMA ClaimsFewer ==
    ASSUME NEW s, s \in DOMAIN pendingStates' => s \in DOMAIN pendingStates,
           \A c \in Clients : Onward(c),
           \A k \in DOMAIN pendingAppCodes' :
               k \in DOMAIN pendingAppCodes /\ pendingAppCodes'[k].flow = pendingAppCodes[k].flow,
           s \in redeemed' => s \in redeemed
    PROVE  Claims(s)' \subseteq Claims(s)
<1> SUFFICES ASSUME NEW x \in Claims(s)' PROVE x \in Claims(s)
  OBVIOUS
<1>1. \A c \in Clients : Busy(c, s)' => Busy(c, s)
  BY BusyStill
<1> QED
  BY <1>1, ClaimsOf, ClaimsNext

(* What an SSO flow of this step is at, and what all other flows are at.    *)
LEMMA FlowMoves ==
    ASSUME SInv, [Next]_vars, NEW f \in States, NEW old, NEW new, f < nextState',
           old \in Claims(f) \/ Claims(f) = {}, Claims(f)' \subseteq (Claims(f) \ {old}) \union {new},
           \A s \in States \ {f} : Claims(s)' \subseteq Claims(s)
    PROVE  OneTokenPerFlow' /\ Fresh'
<1>1. \A x \in Claims(f)' : x = new
  BY DEF SInv, OneTokenPerFlow
<1>2. OneTokenPerFlow'
  BY <1>1 DEF SInv, OneTokenPerFlow
<1>3. /\ \A s \in States : s >= nextState' /\ authenticated[s] = NULL => authenticated'[s] = NULL
      /\ nextState \in Nat /\ nextState' \in Nat /\ nextState <= nextState' /\ States \subseteq Nat
  BY SubjectsKept DEF SInv, FInv, States
<1>4. ASSUME NEW s \in States, s >= nextState' PROVE Claims(s)' = {} /\ authenticated'[s] = NULL
  <2>1. s # f /\ s >= nextState
    BY <1>3, <1>4
  <2> QED
    BY <1>3, <1>4, <2>1 DEF SInv, Fresh
<1> QED
  BY <1>2, <1>4 DEF Fresh

(* A step in which no flow moves on.                                       *)
LEMMA FlowsRest ==
    ASSUME SInv, [Next]_vars, \A s \in States : Claims(s)' \subseteq Claims(s)
    PROVE  OneTokenPerFlow' /\ Fresh'
<1>1. OneTokenPerFlow'
  BY DEF SInv, OneTokenPerFlow
<1>2. /\ \A s \in States : s >= nextState' /\ authenticated[s] = NULL => authenticated'[s] = NULL
      /\ nextState \in Nat /\ nextState' \in Nat /\ nextState <= nextState' /\ States \subseteq Nat
  BY SubjectsKept DEF SInv, FInv, States
<1>3. ASSUME NEW s \in States, s >= nextState' PROVE Claims(s)' = {} /\ authenticated'[s] = NULL
  <2>1. s >= nextState
    BY <1>2, <1>3
  <2> QED
    BY <1>2, <1>3, <2>1 DEF SInv, Fresh
<1> QED
  BY <1>1, <1>3 DEF Fresh

(* Codes that stay are still owned.                                        *)
LEMMA CodesStay ==
    ASSUME SInv, [Next]_vars,
           \A k \in DOMAIN pendingAppCodes' :
               /\ k \in DOMAIN pendingAppCodes
               /\ pendingAppCodes'[k].flow = pendingAppCodes[k].flow
               /\ pendingAppCodes'[k].user = pendingAppCodes[k].user
    PROVE  CodesOwned'
<1> SUFFICES ASSUME NEW k \in DOMAIN pendingAppCodes'
             PROVE  \E u \in db'["users"] :
                        /\ u.id = pendingAppCodes'[k].user /\ u.ext = authenticated'[pendingAppCodes'[k].flow]
                        /\ u.ext # NULL /\ ~u.hash
  BY DEF CodesOwned
<1>1. pendingAppCodes[k].flow \in States
  BY DEF SInv, FInv, TInv, SsoOK
<1>2. PICK u \in db["users"] :
          /\ u.id = pendingAppCodes[k].user /\ u.ext = authenticated[pendingAppCodes[k].flow]
          /\ u.ext # NULL /\ ~u.hash
  BY DEF SInv, CodesOwned
<1>3. PICK v \in db'["users"] : v.id = u.id /\ v.ext = u.ext /\ v.hash = u.hash
  BY KeptStep DEF SInv, FInv, AccountsKept
<1> QED
  BY <1>1, <1>2, <1>3, SubjectsKept DEF SInv, FInv

(* Steps that draw no state, call back none, and issue or exchange no code. *)
LEMMA OtherSteps ==
    ASSUME SInv, TInv', FInv', [Next]_vars, \A c \in Clients : Onward(c),
           DOMAIN pendingStates' \subseteq DOMAIN pendingStates, redeemed' = redeemed,
           \A k \in DOMAIN pendingAppCodes' :
               /\ k \in DOMAIN pendingAppCodes
               /\ pendingAppCodes'[k].flow = pendingAppCodes[k].flow
               /\ pendingAppCodes'[k].user = pendingAppCodes[k].user
    PROVE  SInv'
<1>1. \A s \in States : Claims(s)' \subseteq Claims(s)
  BY ClaimsFewer
<1> QED
  BY <1>1, FlowsRest, CodesStay, OwnSubjectKept DEF SInv

(* The four steps that move a flow on: state, callback, code, token.       *)
LEMMA InitiateKeeps ==
    ASSUME SInv, TInv', FInv', NEW c \in Clients, Initiate(c)
    PROVE  SInv'
<1>0. PICK f : f = nextState
  OBVIOUS
<1> DEFINE new == <<"state", f>>
<1>1. [Next]_vars
  BY DEF Next, Request
<1>2. /\ f \in States /\ nextState' = f + 1 /\ DOMAIN pendingStates' \subseteq DOMAIN pendingStates \union {f}
      /\ UNCHANGED <<creq, pendingAppCodes, redeemed>>
  BY <1>0 DEF Initiate, Unexpired, Restrict
<1>3. f \in Nat /\ Claims(f) = {}
  <2>1. f \in Nat
    BY <1>0, AccountsAssumption DEF SInv, FInv, TInv, SsoOK
  <2> QED
    BY <1>0, <1>2, <2>1 DEF SInv, Fresh
<1>4. \A d \in Clients : Onward(d)
  BY <1>2 DEF Onward
<1>5. \A d \in Clients : \A s : Busy(d, s)' => Busy(d, s)
  BY <1>4, BusyStill
<1>6. Claims(f)' \subseteq {new}
  <2> SUFFICES ASSUME NEW x \in Claims(f)', x # new PROVE x \in Claims(f)
    BY <1>3
  <2> QED
    BY <1>2, <1>5, ClaimsOf, ClaimsNext
<1>7. ASSUME NEW s \in States \ {f} PROVE Claims(s)' \subseteq Claims(s)
  BY <1>2, <1>4, <1>7, ClaimsFewer
<1>8. f < nextState'
  BY <1>2, <1>3
<1> HIDE DEF new
<1>9. OneTokenPerFlow' /\ Fresh'
  BY <1>1, <1>2, <1>3, <1>6, <1>7, <1>8, FlowMoves
<1>10. CodesOwned'
  BY <1>1, <1>2, CodesStay
<1>11. \A d \in Clients : OwnSubject(d)'
  BY <1>1, <1>4, OwnSubjectKept
<1> QED
  BY <1>9, <1>10, <1>11 DEF SInv

LEMMA CallbackKeeps ==
    ASSUME SInv, TInv', FInv', NEW c \in Clients, Callback(c)
    PROVE  SInv'
<1>1. PICK f \in DOMAIN pendingStates :
          /\ pendingStates' = Restrict(pendingStates, DOMAIN pendingStates \ {f})
          /\ Begin(c, [op |-> "sso", pc |-> "provider", state |-> f, org |-> pendingStates[f].org])
  BY DEF Callback
<1> DEFINE old == <<"state", f>>
           new == <<"callback", c>>
           r == [op |-> "sso", pc |-> "provider", state |-> f, org |-> pendingStates[f].org]
<1>2. [Next]_vars /\ UNCHANGED <<dbVars, pendingAppCodes, nextState, nextCode, authenticated, redeemed>>
  BY DEF Next, Request, Callback
<1>3. f \in States /\ f < nextState' /\ old \in Claims(f)
  <2>1. DOMAIN pendingStates \subseteq 1 .. (nextState - 1) /\ nextState \in 1 .. (MaxState + 1)
    BY DEF SInv, FInv, TInv, SsoOK
  <2>2. f \in States /\ f < nextState'
    BY <1>2, <2>1, AccountsAssumption DEF States
  <2> QED
    BY <2>2, ClaimsOf
<1>4. creq'[c] = r /\ creq[c].pc = "done" /\ \A d \in Clients \ {c} : creq'[d] = creq[d]
  BY <1>1 DEF Begin, Done, SInv, FInv, TInv, ReqOK
<1>5. \A s : Busy(c, s)' => s = f
  BY <1>4 DEF Busy
<1>6. \A d \in Clients \ {c} : \A s : Busy(d, s)' => Busy(d, s)
  BY <1>4 DEF Busy, Done
<1>7. DOMAIN pendingStates' = DOMAIN pendingStates \ {f}
  BY <1>1 DEF Restrict
<1> HIDE DEF r
<1>8. Claims(f)' \subseteq (Claims(f) \ {old}) \union {new}
  <2> SUFFICES ASSUME NEW x \in Claims(f)', x # new PROVE x \in Claims(f) /\ x # old
    OBVIOUS
  <2>1. x \in Claims(f)
    BY <1>2, <1>6, <1>7, ClaimsOf, ClaimsNext
  <2>2. x # old
    BY <1>7, ClaimsNext
  <2> QED
    BY <2>1, <2>2
<1>9. ASSUME NEW s \in States \ {f} PROVE Claims(s)' \subseteq Claims(s)
  <2> SUFFICES ASSUME NEW x \in Claims(s)' PROVE x \in Claims(s)
    OBVIOUS
  <2> QED
    BY <1>2, <1>5, <1>6, <1>7, ClaimsOf, ClaimsNext
<1> HIDE DEF old, new
<1>10. OneTokenPerFlow' /\ Fresh'
  BY <1>2, <1>3, <1>8, <1>9, FlowMoves
<1>11. CodesOwned'
  BY <1>2, CodesStay
<1>12. \A d \in Clients \ {c} : OwnSubject(d)'
  BY <1>2, <1>4, OwnSubjectKept DEF Onward
<1>13. OwnSubject(c)'
  BY <1>4 DEF OwnSubject, Known, r
<1> QED
  BY <1>10, <1>11, <1>12, <1>13 DEF SInv

LEMMA IssueKeeps ==
    ASSUME SInv, TInv', FInv', NEW c \in Clients, IssueCode(c)
    PROVE  SInv'
<1>0. PICK f, n : f = creq[c].state /\ n = nextCode
  OBVIOUS
<1> DEFINE old == <<"callback", c>>
           new == <<"code", n>>
<1>1. /\ [Next]_vars /\ creq[c].pc = "issue" /\ n \in Codes /\ Over(c)
      /\ UNCHANGED <<dbVars, pendingStates, nextState, authenticated, redeemed>>
  BY <1>0 DEF Next, Handle, IssueCode, At
<1>2. /\ DOMAIN pendingAppCodes' = DOMAIN pendingAppCodes \union {n}
      /\ pendingAppCodes'[n].flow = f /\ pendingAppCodes'[n].user = creq[c].user
      /\ \A k \in DOMAIN pendingAppCodes : k # n => pendingAppCodes'[k] = pendingAppCodes[k]
  BY <1>0 DEF IssueCode
<1>3. n \notin DOMAIN pendingAppCodes
  BY <1>0, AccountsAssumption DEF SInv, FInv, TInv, SsoOK
<1>4. Onward(c) /\ \A d \in Clients \ {c} : creq'[d] = creq[d]
  BY OnwardRequests DEF Handle
<1>5. creq[c].op = "sso" /\ f \in States /\ creq[c].ext \in Identities
  BY <1>0, <1>1, ReqShapes DEF SInv, FInv
<1>6. old \in Claims(f) /\ ~Busy(c, f)'
  <2>1. Busy(c, f)
    BY <1>0, <1>1, <1>5 DEF Busy, Done
  <2>2. creq'[c].pc = "done"
    BY <1>1 DEF Over, SInv, FInv, TInv, ReqOK
  <2> QED
    BY <2>1, <2>2, ClaimsOf DEF Busy, Done
<1>7. f < nextState'
  <2>1. Claims(f) # {}
    BY <1>6
  <2>2. nextState \in Nat /\ States \subseteq Nat
    BY AccountsAssumption DEF SInv, FInv, TInv, SsoOK, States
  <2> QED
    BY <1>1, <1>5, <2>1, <2>2 DEF SInv, Fresh
<1>8. \A d \in Clients : \A s : Busy(d, s)' => Busy(d, s)
  BY <1>4, BusyStill DEF Onward
<1>9. Claims(f)' \subseteq (Claims(f) \ {old}) \union {new}
  <2> SUFFICES ASSUME NEW x \in Claims(f)', x # new PROVE x \in Claims(f) /\ x # old
    OBVIOUS
  <2>1. x \in Claims(f)
    BY <1>1, <1>2, <1>8, ClaimsOf, ClaimsNext
  <2>2. x # old
    BY <1>6, ClaimsNext
  <2> QED
    BY <2>1, <2>2
<1>10. ASSUME NEW s \in States \ {f} PROVE Claims(s)' \subseteq Claims(s)
  <2> SUFFICES ASSUME NEW x \in Claims(s)' PROVE x \in Claims(s)
    OBVIOUS
  <2> QED
    BY <1>1, <1>2, <1>8, ClaimsOf, ClaimsNext
<1> HIDE DEF old, new
<1>11. OneTokenPerFlow' /\ Fresh'
  BY <1>1, <1>5, <1>6, <1>7, <1>9, <1>10, FlowMoves
<1>12. CodesOwned'
  <2> SUFFICES ASSUME NEW k \in DOMAIN pendingAppCodes'
               PROVE  \E u \in db'["users"] :
                          /\ u.id = pendingAppCodes'[k].user /\ u.ext = authenticated'[pendingAppCodes'[k].flow]
                          /\ u.ext # NULL /\ ~u.hash
    BY DEF CodesOwned
  <2>1. db' = db /\ authenticated' = authenticated
    BY <1>1 DEF dbVars
  <2>2. CASE k = n
    <3>1. authenticated[f] = creq[c].ext /\ UserKnown(c)
      BY <1>0, <1>1 DEF SInv, FInv, TInv, OwnSubject, Known
    <3>2. PICK u \in db["users"] : u.id = creq[c].user /\ u.ext = creq[c].ext
      BY <1>1, <3>1 DEF UserKnown
    <3>3. u.ext # NULL /\ ~u.hash
      BY <1>5, <3>2, FInvAccounts, AccountsAssumption DEF SInv, Either
    <3> QED
      BY <1>2, <2>1, <2>2, <3>1, <3>2, <3>3
  <2>3. CASE k # n
    BY <1>2, <2>1, <2>3 DEF SInv, CodesOwned
  <2> QED
    BY <2>2, <2>3
<1>13. \A d \in Clients : OwnSubject(d)'
  BY <1>1, <1>4, OwnSubjectKept DEF Onward
<1> QED
  BY <1>11, <1>12, <1>13 DEF SInv

LEMMA ExchangeKeeps ==
    ASSUME SInv, TInv', FInv', NEW c \in Clients, Exchange(c)
    PROVE  SInv'
<1>1. PICK k \in DOMAIN pendingAppCodes :
          /\ redeemed' = IF pendingAppCodes[k].late THEN redeemed ELSE redeemed \union {pendingAppCodes[k].flow}
          /\ pendingAppCodes' = Unexpired(Restrict(pendingAppCodes, DOMAIN pendingAppCodes \ {k}))
  BY DEF Exchange
<1>0. PICK f : f = pendingAppCodes[k].flow
  OBVIOUS
<1> DEFINE old == <<"code", k>>
           new == <<"token", f>>
<1>2. [Next]_vars /\ UNCHANGED <<dbVars, creq, sent, pendingStates, nextState, nextCode, authenticated>>
  BY DEF Next, Request, Exchange
<1>3. /\ DOMAIN pendingAppCodes' \subseteq DOMAIN pendingAppCodes \ {k}
      /\ \A x \in DOMAIN pendingAppCodes' : pendingAppCodes'[x] = pendingAppCodes[x]
  BY <1>1 DEF Unexpired, Restrict
<1>4. f \in States /\ old \in Claims(f)
  <2>1. f \in States
    BY <1>0 DEF SInv, FInv, TInv, SsoOK
  <2> QED
    BY <1>0, <2>1, ClaimsOf
<1>5. redeemed' \subseteq redeemed \union {f}
  BY <1>0, <1>1
<1>6. f < nextState'
  <2>1. Claims(f) # {}
    BY <1>4
  <2>2. nextState \in Nat /\ States \subseteq Nat
    BY AccountsAssumption DEF SInv, FInv, TInv, SsoOK, States
  <2> QED
    BY <1>2, <1>4, <2>1, <2>2 DEF SInv, Fresh
<1>7. \A d \in Clients : Onward(d)
  BY <1>2 DEF Onward
<1>8. \A d \in Clients : \A s : Busy(d, s)' => Busy(d, s)
  BY <1>7, BusyStill
<1>9. Claims(f)' \subseteq (Claims(f) \ {old}) \union {new}
  <2> SUFFICES ASSUME NEW x \in Claims(f)', x # new PROVE x \in Claims(f) /\ x # old
    OBVIOUS
  <2>1. x \in Claims(f)
    BY <1>2, <1>3, <1>5, <1>8, ClaimsOf, ClaimsNext
  <2>2. x # old
    BY <1>3, ClaimsNext
  <2> QED
    BY <2>1, <2>2
<1>10. ASSUME NEW s \in States \ {f} PROVE Claims(s)' \subseteq Claims(s)
  <2> SUFFICES ASSUME NEW x \in Claims(s)' PROVE x \in Claims(s)
    OBVIOUS
  <2> QED
    BY <1>2, <1>3, <1>5, <1>8, ClaimsOf, ClaimsNext
<1> HIDE DEF old, new
<1>11. OneTokenPerFlow' /\ Fresh'
  BY <1>2, <1>4, <1>6, <1>9, <1>10, FlowMoves
<1>12. CodesOwned'
  BY <1>2, <1>3, CodesStay
<1>13. \A d \in Clients : OwnSubject(d)'
  BY <1>2, <1>7, OwnSubjectKept
<1> QED
  BY <1>11, <1>12, <1>13 DEF SInv

(* SInv at the start and after every step.                                 *)
LEMMA SInvInit == Init => SInv
<1> SUFFICES ASSUME Init PROVE SInv
  OBVIOUS
<1>1. DOMAIN pendingStates = {} /\ DOMAIN pendingAppCodes = {} /\ redeemed = {}
      /\ \A s \in States : authenticated[s] = NULL
  BY DEF Init
<1>2. \A c \in Clients : creq[c] = None
  BY DEF Init
<1>3. \A s : Claims(s) = {}
  BY <1>1, <1>2 DEF Claims, None
<1>4. \A c \in Clients : OwnSubject(c)
  BY <1>2 DEF OwnSubject, None, Known
<1> QED
  BY <1>1, <1>3, <1>4, FInvInit DEF SInv, OneTokenPerFlow, Fresh, CodesOwned

LEMMA SInvStep ==
    ASSUME SInv, [Next]_vars
    PROVE  SInv'
<1>1. FInv' /\ TInv' /\ FInv /\ TInv
  BY FInvStep DEF SInv, FInv
<1>2. ASSUME NEW c \in Clients, Request(c) PROVE SInv'
  <2>1. CASE Register(c)
    <3>1. \A d \in Clients : Onward(d)
      BY <2>1, OnwardRequests DEF Onward
    <3> QED
      BY <1>1, <2>1, <3>1, OtherSteps DEF Register, ssoVars
  <2> QED
    BY <1>1, <1>2, <2>1, InitiateKeeps, CallbackKeeps, ExchangeKeeps DEF Request
<1>3. ASSUME NEW c \in Clients, Handle(c), ~IssueCode(c) PROVE SInv'
  <2>1. \A d \in Clients : Onward(d)
    BY <1>3, OnwardRequests DEF Onward
  <2>2. pendingAppCodes' \in {pendingAppCodes, Unexpired(pendingAppCodes)}
        /\ pendingStates' = pendingStates /\ redeemed' = redeemed
    BY <1>3 DEF Handle, Statement, Rollback, Commit, Lookup, Enroll, Rename, DbError, ssoVars
  <2>3. \A k \in DOMAIN pendingAppCodes' :
            k \in DOMAIN pendingAppCodes /\ pendingAppCodes'[k] = pendingAppCodes[k]
    BY <1>1, <2>2, PurgedCodes
  <2> QED
    BY <1>1, <2>1, <2>2, <2>3, OtherSteps
<1>4. ASSUME NEW c \in Clients, Provider(c) PROVE SInv'
  <2>1. \A d \in Clients : Onward(d)
    BY <1>4, OnwardRequests DEF Onward
  <2>2. UNCHANGED ssoVars
    BY <1>4 DEF Provider, ProviderAnswers, ProviderRefused
  <2> QED
    BY <1>1, <2>1, <2>2, OtherSteps DEF ssoVars
<1>5. CASE (\E s \in States, i \in Identities : SignIn(s, i)) \/ Expire \/ UNCHANGED vars
  <2>1. creq' = creq /\ redeemed' = redeemed
    BY <1>5 DEF SignIn, Expire, vars, ssoVars
  <2>2. \A d \in Clients : Onward(d)
    BY <2>1 DEF Onward
  <2>3. DOMAIN pendingStates' = DOMAIN pendingStates /\ DOMAIN pendingAppCodes' = DOMAIN pendingAppCodes
        /\ \A k \in DOMAIN pendingAppCodes : /\ pendingAppCodes'[k].flow = pendingAppCodes[k].flow
                                             /\ pendingAppCodes'[k].user = pendingAppCodes[k].user
    BY <1>1, <1>5 DEF SignIn, Expire, vars, ssoVars, TInv, SsoOK
  <2> QED
    BY <1>1, <2>1, <2>2, <2>3, OtherSteps
<1> QED
  BY <1>1, <1>2, <1>3, <1>4, <1>5, IssueKeeps DEF Next

LEMMA AlwaysSInv == Spec => []SInv
<1>1. SInv /\ [Next]_vars => SInv'
  BY SInvStep
<1> QED
  BY <1>1, SInvInit, PTL DEF Spec

(* Whatever is retried, repeated or late, a login flow ends in one token.  *)
THEOREM FlowsEndOnce == Spec => []OneTokenPerFlow
<1>1. SInv => OneTokenPerFlow
  BY DEF SInv
<1> QED
  BY <1>1, AlwaysSInv, PTL

(* A code, and a callback about to issue one, is for the account of the    *)
(* subject who signed in with this flow's nonce.                           *)
THEOREM TokensAreOwned == Spec => []TokensNameTheirOwner
<1>1. ASSUME SInv, NEW c \in Clients, creq[c].pc = "issue"
      PROVE  \E u \in db["users"] : /\ u.id = creq[c].user /\ u.ext = authenticated[creq[c].state]
                                    /\ u.ext # NULL /\ ~u.hash
  <2>1. authenticated[creq[c].state] = creq[c].ext /\ UserKnown(c)
    BY <1>1 DEF SInv, FInv, TInv, OwnSubject, Known
  <2>2. PICK u \in db["users"] : u.id = creq[c].user /\ u.ext = creq[c].ext
    BY <1>1, <2>1 DEF UserKnown
  <2>3. creq[c].ext \in Identities
    BY <1>1, ReqShapes DEF SInv, FInv
  <2>4. u.ext # NULL /\ ~u.hash
    BY <1>1, <2>2, <2>3, FInvAccounts, AccountsAssumption DEF SInv, Either
  <2> QED
    BY <2>1, <2>2, <2>4
<1>2. SInv => TokensNameTheirOwner
  BY <1>1 DEF SInv, CodesOwned, TokensNameTheirOwner, At
<1> QED
  BY <1>2, AlwaysSInv, PTL

=============================================================================
