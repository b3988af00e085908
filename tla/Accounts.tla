------------------------------ MODULE Accounts ------------------------------
(***************************************************************************)
(* How accounts come to be and how their tokens are handed out: register   *)
(* and login (AuthController, TenantBootstrap) and the OIDC flow of        *)
(* SsoController with its two in-memory maps of one-time values.           *)
(*                                                                         *)
(* Registration is one transaction of seven INSERTs: trx[c] holds the rows *)
(* it has written and nobody else sees; a statement that would collide     *)
(* with such a row waits for the transaction that holds it.  The SSO flow  *)
(* is three requests (initiate, callback, exchange) joined by one-time     *)
(* values, and talks to the identity provider in the middle of the second. *)
(*                                                                         *)
(* States, nonces and codes are numbers never used before; a state and its *)
(* nonce have the same number.  An organization made by registration has   *)
(* the username as its slug and one tenant, so both are named by it.  A    *)
(* password is right or the request is not represented.  Left out: bodies  *)
(* that are refused before anything is read, the members that admins add   *)
(* (TenantMembers), and the expiry of the tokens themselves.               *)
(***************************************************************************)
EXTENDS Naturals, Sequences, FiniteSets, Functions

CONSTANTS
    Clients,                \* request slots
    Names, Emails, NoEmail, \* usernames and e-mail addresses; "" from a provider
    SsoOrgs,                \* organizations with a row in sso_providers
    Identities,             \* subjects of the identity providers
    Forms,                  \* the usernames and addresses people register with
    Profiles,               \* subject -> names and addresses its provider may report
    MaxUserId, MaxState, MaxCode    \* bounds

NULL   == 0
Ids    == 1 .. MaxUserId
States == 1 .. MaxState
Codes  == 1 .. MaxCode

ASSUME AccountsAssumption ==
    /\ MaxUserId \in Nat /\ MaxState \in Nat /\ MaxCode \in Nat
    /\ Forms \subseteq Names \X Emails
    /\ Profiles \in [Identities -> SUBSET (Names \X (Emails \union {NoEmail}))]
    /\ NULL \notin Identities

VARIABLES
    db,                 \* table -> committed rows
    trx,                \* client -> table -> rows of its open transaction
    nextUser,           \* AUTO_INCREMENT of users
    creq,               \* client -> its request, kept when it is done
    sent,               \* client -> the answers its request was given
    pendingStates,      \* state -> [org, late]
    pendingAppCodes,    \* code -> [user, flow, late]
    nextState, nextCode,\* random values not drawn yet
    authenticated,      \* nonce -> the subject who signed in with it
    redeemed            \* history: flows that ended in a token

dbVars  == <<db, trx, nextUser>>
ssoVars == <<pendingStates, pendingAppCodes, nextState, nextCode, authenticated, redeemed>>
vars    == <<dbVars, creq, sent, ssoVars>>

-----------------------------------------------------------------------------
(* Tables, in the order registration writes them.                          *)

Tables ==
    <<"organizations", "tenants", "users", "tenant_members", "org_members",
      "visibility_groups", "visibility_group_members">>

TableNames == Range(Tables)

After(t) ==
    LET i == CHOOSE j \in 1 .. 7 : Tables[j] = t
    IN  IF i = 7 THEN "commit" ELSE Tables[i + 1]

NoRows == [t \in TableNames |-> {}]

(* The row registration inserts: an organization and its tenant are named  *)
(* by the username, the other rows tie the user to them.                   *)
RowFor(r, t) ==
    CASE t \in {"organizations", "tenants"} -> r.name
      [] t = "users" -> [id |-> nextUser, name |-> r.name, email |-> r.email,
                         org |-> r.name, ext |-> NULL, hash |-> TRUE]
      [] OTHER -> <<r.name, r.user>>

(* uq_users_username, uq_users_email, uq_user_org_external.                 *)
SameUser(u, v) ==
    \/ u.name = v.name
    \/ u.email = v.email
    \/ u.ext # NULL /\ u.ext = v.ext /\ u.org = v.org

Clash(t, row, tables) ==
    IF t = "users" THEN \E u \in tables[t] : SameUser(u, row) ELSE row \in tables[t]

(* The row collides with one that another transaction has not committed.   *)
Locked(c, t, row) == \E d \in Clients \ {c} : Clash(t, row, trx[d])

None == [op |-> "none", pc |-> "done"]

Init ==
    /\ db = [NoRows EXCEPT !["organizations"] = SsoOrgs]
    /\ trx = [c \in Clients |-> NoRows]
    /\ nextUser = 1
    /\ creq = [c \in Clients |-> None]
    /\ sent = [c \in Clients |-> <<>>]
    /\ pendingStates = [s \in {} |-> NULL] /\ pendingAppCodes = [k \in {} |-> NULL]
    /\ nextState = 1 /\ nextCode = 1
    /\ authenticated = [s \in States |-> NULL]
    /\ redeemed = {}

Done(c)  == creq[c].pc = "done"
At(c, p) == creq[c].pc = p

(* A request begins when the one before it in its slot is done.            *)
Begin(c, r) ==
    /\ Done(c)
    /\ creq' = [creq EXCEPT ![c] = r]
    /\ sent' = [sent EXCEPT ![c] = <<>>]

GoTo(c, p) == creq' = [creq EXCEPT ![c].pc = p]

-----------------------------------------------------------------------------
(* POST /auth/register.                                                    *)

Register(c) ==
    /\ \E f \in Forms :
          Begin(c, [op |-> "register", pc |-> "organizations", name |-> f[1], email |-> f[2],
                    user |-> NULL])
    /\ UNCHANGED <<dbVars, ssoVars>>

(* Mutant: every callback answers.                                         *)
RespondAgain(c, code) == sent' = [sent EXCEPT ![c] = Append(@, code)]

(* respondOnce: only the first answer is sent.                             *)
Respond(c, code) ==
    sent' = [sent EXCEPT ![c] = IF @ = <<>> THEN <<code>> ELSE @]

(* A callback of the SSO flow answers, a redirect or an error.             *)
Over(c) == Respond(c, "answered") /\ creq' = [creq EXCEPT ![c] = [op |-> "sso", pc |-> "done"]]

(* Mutant: no rollback; Drogon then commits what is there.                 *)
FailWithoutRollback(c, code) == Respond(c, code) /\ GoTo(c, "commit")

(* The handlers of errors answer, then roll back.                          *)
Fail(c, code) == Respond(c, code) /\ GoTo(c, "rollback")

(* One INSERT of the transaction.                                          *)
Statement(c) ==
    LET r   == creq[c]
        t   == r.pc
        row == RowFor(r, t) IN
    /\ r.op = "register" /\ t \in TableNames
    /\ ~Locked(c, t, row)
    /\ \/ /\ Clash(t, row, db)
          /\ Fail(c, "refused")
          /\ UNCHANGED dbVars
       \/ /\ ~Clash(t, row, db)
          /\ t = "users" => nextUser \in Ids
          /\ trx' = [trx EXCEPT ![c][t] = @ \union {row}]
          /\ nextUser' = IF t = "users" THEN nextUser + 1 ELSE nextUser
          /\ creq' = [creq EXCEPT ![c].pc = After(t),
                                  ![c].user = IF t = "users" THEN nextUser ELSE @]
          /\ UNCHANGED <<db, sent>>
    /\ UNCHANGED <<ssoVars>>

(* rollback() is carried out; the commit callback is called with false.    *)
Rollback(c) ==
    /\ At(c, "rollback")
    /\ trx' = [trx EXCEPT ![c] = NoRows]
    /\ Respond(c, "refused")
    /\ GoTo(c, "done")
    /\ UNCHANGED <<db, nextUser, ssoVars>>

(* Mutant: `committed` is not looked at.                                   *)
CommitUnchecked(c) ==
    /\ At(c, "commit")
    /\ \E committed \in BOOLEAN :
          /\ db' = IF committed THEN [t \in TableNames |-> db[t] \union trx[c][t]] ELSE db
          /\ Respond(c, "created")
    /\ trx' = [trx EXCEPT ![c] = NoRows]
    /\ GoTo(c, "done")
    /\ UNCHANGED <<nextUser, ssoVars>>

(* The last reference to the transaction is dropped: Drogon commits, and   *)
(* tells the commit callback whether that worked.                          *)
Commit(c) ==
    /\ At(c, "commit")
    /\ \E committed \in BOOLEAN :
          /\ db' = IF committed THEN [t \in TableNames |-> db[t] \union trx[c][t]] ELSE db
          /\ Respond(c, IF committed THEN "created" ELSE "refused")
    /\ trx' = [trx EXCEPT ![c] = NoRows]
    /\ GoTo(c, "done")
    /\ UNCHANGED <<nextUser, ssoVars>>

(* POST /auth/login with an e-mail and its password: the accounts it opens *)
(* and their tenants.  An account without a hash has no password.          *)
Login(e) ==
    {[user |-> u.id, tenants |-> {m[1] : m \in {x \in db["tenant_members"] : x[2] = u.id}}] :
     u \in {v \in db["users"] : v.email = e /\ v.hash}}

-----------------------------------------------------------------------------
(* GET /auth/sso/{org}: a state and a nonce are drawn and remembered.      *)

(* purgeExpiredStates, purgeExpiredAppCodes.                               *)
Unexpired(pending) == Restrict(pending, {x \in DOMAIN pending : ~pending[x].late})

Initiate(c) ==
    /\ Done(c)
    /\ nextState \in States
    /\ \E o \in SsoOrgs :
          pendingStates' = Unexpired(
              [s \in DOMAIN pendingStates \union {nextState} |->
                  IF s = nextState THEN [org |-> o, late |-> FALSE]
                                   ELSE pendingStates[s]])
    /\ nextState' = nextState + 1
    /\ UNCHANGED <<dbVars, creq, sent, pendingAppCodes, nextCode, authenticated, redeemed>>

(* The browser follows the redirect and somebody signs in.                 *)
SignIn(s, i) ==
    /\ s < nextState /\ authenticated[s] = NULL
    /\ authenticated' = [authenticated EXCEPT ![s] = i]
    /\ UNCHANGED <<dbVars, creq, sent, pendingStates, pendingAppCodes, nextState, nextCode,
                   redeemed>>

-----------------------------------------------------------------------------
(* GET /auth/sso/{org}/callback.                                           *)

(* The state is looked up and erased under the mutex.                      *)
Callback(c) ==
    /\ \E s \in DOMAIN pendingStates :
          /\ ~pendingStates[s].late
          /\ pendingStates' = Restrict(pendingStates, DOMAIN pendingStates \ {s})
          /\ Begin(c, [op |-> "sso", pc |-> "provider", state |-> s,
                       org |-> pendingStates[s].org])
    /\ UNCHANGED <<dbVars, pendingAppCodes, nextState, nextCode, authenticated, redeemed>>

(* Mutant: the nonce of the ID token is not compared.                      *)
ProviderAnswersAnyNonce(c) ==
    /\ At(c, "provider")
    /\ \E s \in States \ {x \in States : authenticated[x] = NULL} :
       \E f \in Profiles[authenticated[s]] :
          creq' = [creq EXCEPT ![c] = [op |-> "sso", pc |-> "lookup", state |-> creq[c].state,
                                       org |-> creq[c].org, name |-> f[1], email |-> f[2],
                                       ext |-> authenticated[s], user |-> NULL]]
    /\ UNCHANGED <<dbVars, sent, ssoVars>>

(* Token endpoint and userinfo endpoint answer for the code in the URL:    *)
(* the ID token has the nonce drawn with this request's state.             *)
ProviderAnswers(c) ==
    /\ At(c, "provider")
    /\ \E s \in States \ {x \in States : authenticated[x] = NULL} :
       \E f \in Profiles[authenticated[s]] :
          /\ s = creq[c].state
          /\ creq' = [creq EXCEPT ![c] = [op |-> "sso", pc |-> "lookup", state |-> creq[c].state,
                                          org |-> creq[c].org, name |-> f[1], email |-> f[2],
                                          ext |-> authenticated[s], user |-> NULL]]
    /\ UNCHANGED <<dbVars, sent, ssoVars>>

(* An endpoint cannot be reached, a field is missing, or the nonce differs. *)
ProviderRefused(c) ==
    /\ At(c, "provider")
    /\ Over(c)
    /\ UNCHANGED <<dbVars, ssoVars>>

(* Mutant: the collision is logged and nothing is sent.                    *)
LookupSilentCollision(c) ==
    LET r     == creq[c]
        found == {u \in db["users"] : u.org = r.org /\ u.ext = r.ext} IN
    /\ At(c, "lookup")
    /\ \/ found = {} /\ GoTo(c, "enroll")
       \/ \E u \in found :
             creq' = IF NoEmail \notin {u.email, r.email} /\ u.email # r.email
                       THEN [creq EXCEPT ![c].pc = "forgotten"]
                       ELSE [creq EXCEPT ![c].pc = "rename", ![c].user = u.id]
    /\ UNCHANGED <<dbVars, sent, ssoVars>>

(* SELECT by organization and subject; another address is a collision.     *)
Lookup(c) ==
    LET r     == creq[c]
        found == {u \in db["users"] : u.org = r.org /\ u.ext = r.ext} IN
    /\ At(c, "lookup")
    /\ \/ found = {} /\ GoTo(c, "enroll") /\ UNCHANGED sent
       \/ \E u \in found :
             /\ NoEmail \notin {u.email, r.email} /\ u.email # r.email
             /\ Over(c)
       \/ \E u \in found :
             /\ NoEmail \in {u.email, r.email} \/ u.email = r.email
             /\ creq' = [creq EXCEPT ![c].pc = "rename", ![c].user = u.id]
             /\ UNCHANGED sent
    /\ UNCHANGED <<dbVars, ssoVars>>

NewAccount(r) ==
    [id |-> nextUser, name |-> r.name, email |-> r.email, org |-> r.org, ext |-> r.ext,
     hash |-> FALSE]

(* Mutant: no unique key on organization and subject, and none is asked.   *)
EnrollBlindly(c) ==
    LET row == NewAccount(creq[c]) IN
    /\ At(c, "enroll") /\ nextUser \in Ids
    /\ db' = [db EXCEPT !["users"] = @ \union {row}]
    /\ nextUser' = nextUser + 1
    /\ creq' = [creq EXCEPT ![c].pc = "issue", ![c].user = nextUser]
    /\ UNCHANGED <<trx, sent, ssoVars>>

(* Mutant: insertId() is not passed on.                                    *)
EnrollForgettingId(c) ==
    LET row == NewAccount(creq[c]) IN
    /\ At(c, "enroll") /\ nextUser \in Ids
    /\ ~Locked(c, "users", row) /\ ~Clash("users", row, db)
    /\ db' = [db EXCEPT !["users"] = @ \union {row}]
    /\ nextUser' = nextUser + 1
    /\ GoTo(c, "issue")
    /\ UNCHANGED <<trx, sent, ssoVars>>

(* INSERT of the account; a taken name, address or subject is an error.    *)
Enroll(c) ==
    LET row == NewAccount(creq[c]) IN
    /\ At(c, "enroll") /\ ~Locked(c, "users", row)
    /\ \/ /\ Clash("users", row, db)
          /\ Over(c)
          /\ UNCHANGED <<dbVars, pendingAppCodes>>
       \/ /\ ~Clash("users", row, db) /\ nextUser \in Ids
          /\ db' = [db EXCEPT !["users"] = @ \union {row}]
          /\ nextUser' = nextUser + 1
          /\ creq' = [creq EXCEPT ![c].pc = "issue", ![c].user = nextUser]
          /\ pendingAppCodes' = Unexpired(pendingAppCodes)
          /\ UNCHANGED <<trx, sent>>
    /\ UNCHANGED <<pendingStates, nextState, nextCode, authenticated, redeemed>>

Renamed(r) ==
    LET u == CHOOSE v \in db["users"] : v.id = r.user IN [u EXCEPT !.name = r.name]

(* UPDATE of the username, which somebody else may have.                   *)
Rename(c) ==
    LET row    == Renamed(creq[c])
        others == {u \in db["users"] : u.id # row.id} IN
    /\ At(c, "rename") /\ ~Locked(c, "users", row)
    /\ \/ /\ row.name \in {u.name : u \in others}
          /\ Over(c)
          /\ UNCHANGED <<db, pendingAppCodes>>
       \/ /\ row.name \notin {u.name : u \in others}
          /\ db' = [db EXCEPT !["users"] = others \union {row}]
          /\ pendingAppCodes' = Unexpired(pendingAppCodes)
          /\ GoTo(c, "issue")
          /\ UNCHANGED sent
    /\ UNCHANGED <<trx, nextUser, pendingStates, nextState, nextCode, authenticated, redeemed>>

(* postIssueAppCode: a token under a one-time code, and the redirect.      *)
IssueCode(c) ==
    /\ At(c, "issue") /\ nextCode \in Codes
    /\ pendingAppCodes' =
          [k \in DOMAIN pendingAppCodes \union {nextCode} |->
              IF k = nextCode
                THEN [user |-> creq[c].user, flow |-> creq[c].state, late |-> FALSE]
                ELSE pendingAppCodes[k]]
    /\ nextCode' = nextCode + 1
    /\ Over(c)
    /\ UNCHANGED <<dbVars, pendingStates, nextState, authenticated, redeemed>>

-----------------------------------------------------------------------------
(* POST /auth/sso/exchange.                                                *)

(* Mutant: a code is erased when it is purged.                             *)
ExchangeKeepingCode(c) ==
    /\ Done(c)
    /\ \E k \in DOMAIN pendingAppCodes :
          /\ redeemed' = redeemed \union
                {pendingAppCodes[k].flow : x \in {y \in {k} : ~pendingAppCodes[y].late}}
          /\ pendingAppCodes' = Unexpired(pendingAppCodes)
    /\ UNCHANGED <<dbVars, creq, sent, pendingStates, nextState, nextCode, authenticated>>

(* The code is erased whether or not it is still good for its token.       *)
Exchange(c) ==
    /\ Done(c)
    /\ \E k \in DOMAIN pendingAppCodes :
          /\ redeemed' = IF pendingAppCodes[k].late
                           THEN redeemed ELSE redeemed \union {pendingAppCodes[k].flow}
          /\ pendingAppCodes' =
                Unexpired(Restrict(pendingAppCodes, DOMAIN pendingAppCodes \ {k}))
    /\ UNCHANGED <<dbVars, creq, sent, pendingStates, nextState, nextCode, authenticated>>

-----------------------------------------------------------------------------
(* A statement fails or waits for a lock too long; RAND_bytes fails; an    *)
(* AUTO_INCREMENT or the random values of this model run out.              *)
DbError(c) ==
    /\ \/ creq[c].op = "register" /\ creq[c].pc \in TableNames /\ Fail(c, "refused")
       \/ /\ creq[c].pc \in {"lookup", "enroll", "rename", "issue"}
          /\ Over(c)
    /\ UNCHANGED <<dbVars, ssoVars>>

(* Ten minutes, two minutes have passed since a value was put in its map.  *)
Expire ==
    /\ \/ /\ \E s \in DOMAIN pendingStates : pendingStates' = [pendingStates EXCEPT ![s].late = TRUE]
          /\ UNCHANGED pendingAppCodes
       \/ /\ \E k \in DOMAIN pendingAppCodes :
                pendingAppCodes' = [pendingAppCodes EXCEPT ![k].late = TRUE]
          /\ UNCHANGED pendingStates
    /\ UNCHANGED <<dbVars, creq, sent, nextState, nextCode, authenticated, redeemed>>

Request(c) == Register(c) \/ Initiate(c) \/ Callback(c) \/ Exchange(c)

Handle(c) ==
    \/ Statement(c) \/ Rollback(c) \/ Commit(c)
    \/ Lookup(c) \/ Enroll(c) \/ Rename(c) \/ IssueCode(c) \/ DbError(c)

Provider(c) == ProviderAnswers(c) \/ ProviderRefused(c)

Next ==
    \/ \E c \in Clients : Request(c) \/ Handle(c) \/ Provider(c)
    \/ \E s \in States, i \in Identities : SignIn(s, i)
    \/ Expire

Spec == Init /\ [][Next]_vars

(* The database calls back for every statement.  Nothing is assumed of     *)
(* clients, or of the provider (sendRequest has no timeout).               *)
Fairness == \A c \in Clients : WF_vars(Handle(c))

FairSpec == Spec /\ Fairness

-----------------------------------------------------------------------------
(* Properties.                                                             *)

UserRows ==
    [id : Ids, name : Names, email : Emails \union {NoEmail}, org : Names \union SsoOrgs,
     ext : Identities \union {NULL}, hash : BOOLEAN]

RowsOK(tables) ==
    /\ DOMAIN tables = TableNames
    /\ tables["organizations"] \subseteq Names \union SsoOrgs
    /\ tables["tenants"] \subseteq Names
    /\ tables["users"] \subseteq UserRows
    /\ \A t \in TableNames \ {"organizations", "tenants", "users"} : tables[t] \subseteq Names \X Ids

Requests ==
    [op : {"none", "sso"}, pc : {"done"}]
    \union [op : {"register"}, pc : TableNames \union {"commit", "rollback", "done"},
            name : Names, email : Emails, user : Ids \union {NULL}]
    \union [op : {"sso"}, pc : {"provider"}, state : States, org : SsoOrgs]
    \union [op : {"sso"}, pc : {"lookup", "enroll", "rename", "issue"}, state : States,
            org : SsoOrgs, name : Names, email : Emails \union {NoEmail}, ext : Identities,
            user : Ids \union {NULL}]

(* Type correctness: rows, requests and one-time values are of their kind. *)
TypeOK ==
    /\ RowsOK(db) /\ \A c \in Clients : RowsOK(trx[c])
    /\ nextUser \in 1 .. (MaxUserId + 1)
    /\ creq \in [Clients -> Requests]
    /\ DOMAIN pendingStates \subseteq 1 .. (nextState - 1)
    /\ pendingStates \in [DOMAIN pendingStates -> [org : SsoOrgs, late : BOOLEAN]]
    /\ DOMAIN pendingAppCodes \subseteq 1 .. (nextCode - 1)
    /\ pendingAppCodes \in [DOMAIN pendingAppCodes -> [user : Ids, flow : States, late : BOOLEAN]]
    /\ nextState \in 1 .. (MaxState + 1) /\ nextCode \in 1 .. (MaxCode + 1)
    /\ authenticated \in [States -> Identities \union {NULL}]
    /\ redeemed \subseteq States

(* "a failure mid-chain left an orphan org/tenant/user with no membership  *)
(* rows": wherever registrations fail or collide, an organization made by  *)
(* one has its tenant and one owner with all the rows it needs, and every  *)
(* account with a password owns such an organization.                      *)
AllOrNothing ==
    LET tied == {t \in TableNames : t \notin {"organizations", "tenants", "users"}} IN
    /\ \A o \in db["organizations"] \ SsoOrgs :
          /\ o \in db["tenants"]
          /\ \E u \in db["users"] : u.hash /\ u.org = o /\ \A t \in tied : <<o, u.id>> \in db[t]
    /\ \A u \in db["users"] :
          u.hash => /\ u.org \in db["organizations"] \ SsoOrgs
                    /\ \A t \in tied : <<u.org, u.id>> \in db[t]

(* "called exactly once": whichever callbacks of a transaction answer, the *)
(* client gets one answer, and has it when the request is over.            *)
AnsweredOnce == \A c \in Clients : Len(sent[c]) <= 1 /\ (sent[c] = <<>> /\ Done(c) => creq[c] = None)

(* A registration answered 201 can log in at once, to the tenant that was  *)
(* promised; one answered otherwise left no account behind.                *)
AnswersAreTrue ==
    \A c \in Clients :
        creq[c].op = "register" /\ Done(c) =>
            IF sent[c] = <<"created">>
              THEN Login(creq[c].email) = {[user |-> creq[c].user, tenants |-> {creq[c].name}]}
              ELSE \A u \in db["users"] : u.id # creq[c].user

(* "SSO users in the same organization share a single platform identity,   *)
(* matched on external_id": however first logins race, a subject has one   *)
(* account in an organization.                                             *)
OneAccountPerSubject ==
    \A u, v \in db["users"] : u.ext # NULL /\ u.ext = v.ext /\ u.org = v.org => u = v

(* What a login flow can be at: a state to be called back, a callback at   *)
(* work, a code to be exchanged, a token.                                  *)
Claims(s) ==
    {<<"state", x>> : x \in DOMAIN pendingStates \intersect {s}}
    \union {<<"callback", c>> : c \in {d \in Clients : creq[d].op = "sso" /\ ~Done(d)
                                                       /\ creq[d].state = s}}
    \union {<<"code", k>> : k \in {x \in DOMAIN pendingAppCodes : pendingAppCodes[x].flow = s}}
    \union {<<"token", x>> : x \in redeemed \intersect {s}}

(* "one-time use": whatever is retried, repeated or late, a flow is at one *)
(* of these at most, so a state is called back once and ends in one token. *)
OneTokenPerFlow == \A s \in States : \A x, y \in Claims(s) : x = y

(* A code, and a callback about to issue one, is for the account of the    *)
(* subject who signed in with this flow's nonce, never one with a password. *)
TokensNameTheirOwner ==
    LET Owns(id, s) == \E u \in db["users"] :
                          u.id = id /\ u.ext = authenticated[s] /\ u.ext # NULL /\ ~u.hash IN
    /\ \A k \in DOMAIN pendingAppCodes : Owns(pendingAppCodes[k].user, pendingAppCodes[k].flow)
    /\ \A c \in Clients : At(c, "issue") => Owns(creq[c].user, creq[c].state)

(* A request is answered unless the identity provider leaves it waiting:   *)
(* no wait for a lock, failure or rollback leaves one without an answer.   *)
EveryRequestAnswered == \A c \in Clients : ~Done(c) ~> (Done(c) \/ At(c, "provider"))

=============================================================================
