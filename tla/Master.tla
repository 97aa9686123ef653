-------------------------------- MODULE Master -------------------------------
(***************************************************************************)
(* The HTTP API of the master (master/router/routers.go): registration,    *)
(* login and logout (controller/user.go), the check of the cookie before   *)
(* every other handler (middleware/auth.go), and behind it the requests of *)
(* MasterJob.  All requests are served concurrently.                       *)
(*                                                                         *)
(* A token is what its claims tell apart: the id of the user and the       *)
(* second of issue (common/jwt.go).  Redis holds one token per key, and no *)
(* entry expires.  A request may end at any step with an error.  "check"   *)
(* in MayFail is the query for a row of the name to be added, of a user as *)
(* of a job.                                                               *)
(***************************************************************************)
EXTENDS MasterJob

CONSTANTS
    Username,       \* the names of users
    Existing,       \* the users registered, and logged in, at the start
    MaxVisits,      \* bound: requests of any kind in a behaviour
    MaxSecond       \* bound: the last second

ASSUME UsersAssumption ==
    /\ Existing \in Seq(Username)
    /\ MaxVisits \in Nat
    /\ MaxSecond \in Nat \ {0}

VARIABLES
    step,       \* the next step of each request outside MasterJob
    form,       \* the username of a registration
    token,      \* the cookie of a request, or the token it issues
    users,      \* the usernames of the rows of table users, by id
    redis,      \* the token of each key, or NoToken
    cookies,    \* the tokens that clients have
    second,     \* the clock
    visits,     \* requests so far
    revoked,    \* history: tokens that were replaced or deleted in Redis
    logins,     \* history: the <<id, second>> at which tokens were issued
    twice,      \* history: those at which more than one was issued
    overlapped  \* history: names with an addition and a deletion at once

request == <<step, form, token>>
store == <<users, redis, cookies>>
history == <<revoked, logins, twice>>
session == <<request, store, second, visits, history>>
masterVars == <<vars, session, overlapped>>

\* "job": in a handler of MasterJob.
Step == {"idle", "insert", "keep", "set", "auth", "del", "job"}

Id == 0..(Len(Existing) + MaxVisits)
Token == [id : Id, at : 0..MaxSecond]
NoToken == [id |-> 0, at |-> 0]

\* Mutant: every id becomes the replacement character.
RedisKey_Replaced(id) == 65533

\* string(user.ID): the character of that number, or the replacement character
\* where there is none.
RedisKey(id) == IF id \in 55296..57343 \/ id > 1114111 THEN 65533 ELSE id

MasterTypeOK ==
    /\ step \in [Request -> Step]
    /\ form \in [Request -> {""} \cup Username]
    /\ token \in [Request -> Token]
    /\ \A r \in Request : pc[r] # "idle" => step[r] = "job"
    /\ users \in Seq(Username)
    /\ redis \in [{RedisKey(id) : id \in Id} -> Token]
    /\ cookies \cup revoked \subseteq Token
    /\ \A t \in cookies : t.id \in {0} \cup DOMAIN users
    /\ second \in 1..MaxSecond
    /\ visits \in 0..MaxVisits
    /\ logins \subseteq Id \X (1..MaxSecond)
    /\ twice \subseteq logins
    /\ overlapped \subseteq Name

\* Somebody logged in before the first second, if the id has a row.
EarlierToken(id) == IF id \in DOMAIN Existing THEN [id |-> id, at |-> 0] ELSE NoToken

MasterInit ==
    /\ Init
    /\ step = [r \in Request |-> "idle"]
    /\ form = [r \in Request |-> ""]
    /\ token = [r \in Request |-> NoToken]
    /\ users = Existing
    /\ redis = [k \in {RedisKey(id) : id \in Id} |->
                  EarlierToken(CHOOSE id \in Id : RedisKey(id) = k)]
    /\ cookies = {EarlierToken(id) : id \in DOMAIN users}
    /\ second = 1
    /\ visits = 0
    /\ revoked = {}
    /\ logins = {}
    /\ twice = {}
    /\ overlapped = {}

\* A new request goes to its first step, with a username or a token.
Visit(r, s, u, t) ==
    /\ step[r] = "idle"
    /\ visits < MaxVisits
    /\ visits' = visits + 1
    /\ step' = [step EXCEPT ![r] = s]
    /\ form' = [form EXCEPT ![r] = u]
    /\ token' = [token EXCEPT ![r] = t]

\* The request is at its step s, which is its last one.
Answer(r, s) ==
    /\ step[r] = s
    /\ step' = [step EXCEPT ![r] = "idle"]
    /\ form' = [form EXCEPT ![r] = ""]
    /\ token' = [token EXCEPT ![r] = NoToken]
    /\ UNCHANGED visits

\* Mutant: the claims have no time.
ReleaseToken_Timeless(id) == [id |-> id, at |-> 0]

ReleaseToken(id) == [id |-> id, at |-> second]

Issue(id) ==
    /\ logins' = logins \cup {<<id, second>>}
    /\ twice' = twice \cup (logins \cap {<<id, second>>})

\* Set or Del of a key in Redis.
Store(k, t) ==
    /\ redis' = [redis EXCEPT ![k] = t]
    /\ revoked' = revoked \cup ({redis[k]} \ {t, NoToken})

-----------------------------------------------------------------------------
(* Register and Login *)

\* Mutant: the row is created without the query.
Taken_Never(u) == FALSE

\* First(&user) of a username; Register does not look at its error, so that a
\* failed query finds nobody either.
Taken(u) == \E i \in DOMAIN users : users[i] = u

\* Register arrives, and its name is new, or taken for new.
Register(r) ==
    /\ \E u \in Username :
          (~Taken(u) \/ "check" \in MayFail) /\ Visit(r, "insert", u, NoToken)
    /\ UNCHANGED <<store, second, history>>

\* Mutant: the id that the row was to get.
NewId_Expected(rows_) == Len(users) + 1

\* newUser.ID after Create: 0 if there is no new row.
NewId(rows_) == IF rows_ = users THEN 0 ELSE Len(rows_)

\* Create(&newUser), whose error is not looked at, and ReleaseToken.
Insert(r) ==
    /\ step[r] = "insert"
    /\ users' \in {Append(users, form[r])} \cup (IF "insert" \in MayFail THEN {users} ELSE {})
    /\ Issue(NewId(users'))
    /\ token' = [token EXCEPT ![r] = ReleaseToken(NewId(users'))]
    /\ step' = [step EXCEPT ![r] = "keep"]
    /\ UNCHANGED <<form, redis, cookies, second, visits, revoked>>

\* The token is stored under the id of user, which the query left empty; the
\* body of the answer has the token.
Keep(r) ==
    /\ Answer(r, "keep")
    /\ \/ Store(RedisKey(0), token[r]) /\ cookies' = cookies \cup {token[r]}
       \/ "set" \in MayFail /\ UNCHANGED <<redis, revoked, cookies>>
    /\ UNCHANGED <<users, second, logins, twice>>

\* Login finds the first row of the name, compares the password, and releases
\* a token.
Login(r) ==
    /\ \E i \in DOMAIN users :
          /\ \A k \in 1..(i - 1) : users[k] # users[i]
          /\ Visit(r, "set", "", ReleaseToken(i))
          /\ Issue(i)
    /\ UNCHANGED <<store, second, revoked>>

\* The token is stored, and set as the cookie.
SetToken(r) ==
    /\ Answer(r, "set")
    /\ \/ Store(RedisKey(token[r].id), token[r]) /\ cookies' = cookies \cup {token[r]}
       \/ "set" \in MayFail /\ UNCHANGED <<redis, revoked, cookies>>
    /\ UNCHANGED <<users, second, logins, twice>>

-----------------------------------------------------------------------------
(* AuthMiddleware, Logout and the other handlers *)

\* A request with a cookie arrives at AuthMiddleware.
ArriveWithCookie(r) ==
    /\ \E t \in cookies : Visit(r, "auth", "", t)
    /\ UNCHANGED <<store, second, history>>

\* The user of the claims exists, and Redis has this very token.
Authentic(t) == t.id \in DOMAIN users /\ redis[RedisKey(t.id)] = t

\* The handlers that change nothing end here, like the requests refused.
Refuse(r) == Answer(r, "auth") /\ UNCHANGED <<store, second, history>>

\* The user goes into the context: on to Logout ...
EnterLogout(r) ==
    /\ step[r] = "auth"
    /\ Authentic(token[r])
    /\ step' = [step EXCEPT ![r] = "del"]
    /\ UNCHANGED <<form, token, store, second, visits, history>>

\* ... or to a handler of MasterJob.
EnterJob(r) ==
    /\ step[r] = "auth"
    /\ Authentic(token[r])
    /\ step' = [step EXCEPT ![r] = "job"]
    /\ UNCHANGED <<form, token, store, second, visits, history>>

Logout(r) ==
    /\ Answer(r, "del")
    /\ \/ Store(RedisKey(token[r].id), NoToken)
       \/ "del" \in MayFail /\ UNCHANGED <<redis, revoked>>
    /\ UNCHANGED <<users, cookies, second, logins, twice>>

Tick ==
    /\ second < MaxSecond
    /\ second' = second + 1
    /\ UNCHANGED <<request, store, visits, history>>

-----------------------------------------------------------------------------

Session(r) ==
    \/ Register(r)
    \/ Insert(r)
    \/ Keep(r)
    \/ Login(r)
    \/ SetToken(r)
    \/ ArriveWithCookie(r)
    \/ Refuse(r)
    \/ EnterLogout(r)
    \/ Logout(r)

\* A handler of MasterJob: entered with the request's arrival there, left with
\* its last call.
Handler(r) ==
    \/ Arrive(r) /\ EnterJob(r)
    \/ /\ Check(r) \/ CreateRow(r) \/ PutKey(r) \/ DeleteKey(r) \/ MarkDeleted(r)
             \/ GrantKill(r) \/ PutKillKey(r)
       /\ IF pc'[r] = "idle" THEN Answer(r, "job") ELSE UNCHANGED <<request, visits>>
       /\ UNCHANGED <<store, second, history>>

Adding == {name[r] : r \in {q \in Request : pc[q] \in {"check", "create", "put"}}}
Deleting == {name[r] : r \in {q \in Request : pc[q] \in {"delete", "mark"}}}

MasterNext ==
    /\ \/ \E r \in Request : Session(r) /\ UNCHANGED vars
       \/ Tick /\ UNCHANGED vars
       \/ \E r \in Request : Handler(r)
       \/ \E l \in alive : Expire(l) /\ UNCHANGED session
       \/ \E n \in Name : WorkerFinishes(n) /\ UNCHANGED session
    /\ overlapped' = overlapped \cup (Adding' \cap Deleting')

MasterSpec == MasterInit /\ [][MasterNext]_masterVars

\* etcd expires leases.
MasterFairSpec ==
    MasterSpec /\ \A l \in 1..MaxRequests :
        WF_masterVars(l \in alive /\ Expire(l) /\ UNCHANGED <<session, overlapped>>)

-----------------------------------------------------------------------------
(* Properties *)

\* The session of a user is the user's own, whoever registers and logs in
\* meanwhile: a login of one never ends or takes over the session of another.
\* (For ids that are characters.)
SessionIsOwn ==
    \A i \in DOMAIN users :
        redis[RedisKey(i)] # NoToken => redis[RedisKey(i)].id = i

\* A token that was replaced by a later login or deleted by a logout opens no
\* handler any more.  (Two logins of a user in one second get the same token:
\* the later one brings back what a logout between them had revoked.)
RevokedIsRefused ==
    [][\A r \in Request :
          step[r] = "auth" /\ step'[r] \in {"del", "job"}
          => token[r] \notin {t \in revoked : <<t.id, t.at>> \notin twice}]_masterVars

\* Registration checks and creates in two calls, too: a username has no more
\* rows than there can be requests at a time.  (While the query succeeds.)
RowsPerUser ==
    \A u \in Username :
        Cardinality({i \in DOMAIN users : users[i] = u}) <= Cardinality(Request)

\* Status 5, "the job was deleted from etcd" (constants.go:15): a row that says
\* so has no key, whatever fails, unless an addition of the name overlapped
\* with a deletion.  Then either may act on what the other has not yet written.
DeletedHasNoKey ==
    \A n \in Name \ overlapped :
        n \in jobKey => \A i \in DOMAIN rows[n] : rows[n][i] # Deleted

=============================================================================
