-------------------------------- MODULE Accounts --------------------------------
(***************************************************************************)
(* Users, their tokens and their API keys in the Quart API (apps/api):     *)
(* blueprints/auth.py and users.py, and middleware/auth.py before them.    *)
(*                                                                         *)
(* hypercorn runs several processes over one database, so requests meet    *)
(* between any two statements.  What one commit writes is one step: the    *)
(* database lets two such writes of a row follow one another.              *)
(***************************************************************************)
EXTENDS Naturals, FiniteSets, Sequences

CONSTANTS
    Request,    \* the requests that may be under way at a time
    User,       \* the accounts there may be: a username with its email
    NoUser,
    MaxToken,   \* bound: refresh tokens given out
    MaxKey      \* bound: API keys made

ASSUME AccountsAssumption == NoUser \notin User /\ MaxToken \in Nat /\ MaxKey \in Nat

Role == {"user", "admin"}

Account == [role : Role, is_active : BOOLEAN]

VARIABLES
    (* the database *)
    users,           \* for each account that is there its role and whether it is active
    refresh_tokens,  \* in the order of their making: whose, and whether revoked
    api_keys,        \* likewise: whose, and whether active
    (* in the callers' hands *)
    access,          \* the JWTs given out: a user and the role that was read with it
    (* a request *)
    pc,
    auth,            \* g.auth; of a login or a refresh the user it is for
    cred,            \* the refresh token or API key it came with, 0 without
    target,          \* the user it makes or changes
    is_active,       \* what its body says of is_active: a set of one, or of none
    barred           \* history: why it should get nothing, decided when it began

db       == <<users, refresh_tokens, api_keys>>
request  == <<pc, auth, cred, target, is_active, barred>>
vars     == <<db, access, request>>

Nobody   == [user |-> NoUser, role |-> "user"]

Goto(t, place) == pc' = [pc EXCEPT ![t] = place]

\* The answer is sent, whatever it says.
Answer(t) ==
    /\ Goto(t, "idle")
    /\ auth' = [auth EXCEPT ![t] = Nobody]
    /\ cred' = [cred EXCEPT ![t] = 0]
    /\ target' = [target EXCEPT ![t] = NoUser]
    /\ is_active' = [is_active EXCEPT ![t] = {}]

End(t) == Answer(t) /\ barred' = [barred EXCEPT ![t] = {}]

Active(u)    == u \in DOMAIN users /\ users[u].is_active
Inactive(u)  == u \in DOMAIN users /\ ~users[u].is_active
-----------------------------------------------------------------------------
(* AuthMiddleware.authenticate *)

Arrive(t, place, caller, k, reasons) ==
    /\ pc[t] = "idle"
    /\ Goto(t, place)
    /\ auth' = [auth EXCEPT ![t] = caller]
    /\ cred' = [cred EXCEPT ![t] = k]
    /\ barred' = [barred EXCEPT ![t] = reasons]
    /\ UNCHANGED <<db, access, target, is_active>>

\* A JWT is believed as it is: the database is not asked.
WithToken(t, token) == Arrive(t, "handle", token, 0, {})

WithKey(t, k) ==
    Arrive(t, "key", Nobody, k, IF api_keys[k].is_active THEN {} ELSE {"revoked"})

\* _authenticate_api_key; whether the key has expired is left open (Refuse).  A request
\* whose key fails and that carries a token too goes on as one that came WithToken.
FindKey(t) ==
    /\ pc[t] = "key"
    /\ api_keys[cred[t]].is_active
    /\ Goto(t, "used")
    /\ auth' = [auth EXCEPT ![t].user = api_keys[cred[t]].user]
    /\ UNCHANGED <<db, access, cred, target, is_active, barred>>

\* last_used is written, and nothing else of the row.
StampKey(t) ==
    /\ pc[t] = "used"
    /\ Goto(t, "handle")
    /\ UNCHANGED <<db, access, auth, cred, target, is_active, barred>>

\* A login, a registration and a refresh come without authentication.
ToLogin(t, u) ==
    Arrive(t, "login", [Nobody EXCEPT !.user = u], 0,
           IF Inactive(u) THEN {"inactive"} ELSE {})

\* register: the name and the address are not taken.
ToRegister(t, u) ==
    /\ pc[t] = "idle"
    /\ u \notin DOMAIN users
    /\ target' = [target EXCEPT ![t] = u]
    /\ Goto(t, "insert")
    /\ UNCHANGED <<db, access, auth, cred, is_active, barred>>

ToRefresh(t, k) ==
    LET u == refresh_tokens[k].user IN
    Arrive(t, "refresh", [Nobody EXCEPT !.user = u], k,
           (IF Inactive(u) THEN {"inactive"} ELSE {})
             \union (IF refresh_tokens[k].revoked THEN {"revoked"} ELSE {}))
-----------------------------------------------------------------------------
(* blueprints/auth.py: login and refresh *)

\* The user is there, is active, and the password is right.
FindUser(t) ==
    /\ pc[t] = "login"
    /\ Active(auth[t].user)
    /\ auth' = [auth EXCEPT ![t].role = users[auth[t].user].role]
    /\ Goto(t, "welcome")
    /\ UNCHANGED <<db, access, cred, target, is_active, barred>>

\* A mutant of Login: update_record without fields writes the row as it was read.
LoginWholeRow(t) ==
    /\ pc[t] = "welcome"
    /\ Len(refresh_tokens) < MaxToken
    /\ refresh_tokens' = Append(refresh_tokens, [user |-> auth[t].user, revoked |-> FALSE])
    /\ users' = [users EXCEPT ![auth[t].user] = [role |-> auth[t].role, is_active |-> TRUE]]
    /\ access' = access \union {auth[t]}
    /\ End(t)
    /\ UNCHANGED api_keys

\* The refresh token is inserted, last_login written, and both tokens are returned.
Login(t) ==
    /\ pc[t] = "welcome"
    /\ Len(refresh_tokens) < MaxToken
    /\ refresh_tokens' = Append(refresh_tokens, [user |-> auth[t].user, revoked |-> FALSE])
    /\ access' = access \union {auth[t]}
    /\ End(t)
    /\ UNCHANGED <<users, api_keys>>

\* Whether the token has expired is left open (Refuse).
FindToken(t) ==
    /\ pc[t] = "refresh"
    /\ ~refresh_tokens[cred[t]].revoked
    /\ Goto(t, "user")
    /\ UNCHANGED <<db, access, auth, cred, target, is_active, barred>>

\* A mutant of FindTokenUser: the token is enough.
FindTokenOwner(t) ==
    /\ pc[t] = "user"
    /\ auth' = [auth EXCEPT ![t].role = users[auth[t].user].role]
    /\ Goto(t, "issue")
    /\ UNCHANGED <<db, access, cred, target, is_active, barred>>

FindTokenUser(t) ==
    /\ pc[t] = "user"
    /\ Active(auth[t].user)
    /\ auth' = [auth EXCEPT ![t].role = users[auth[t].user].role]
    /\ Goto(t, "issue")
    /\ UNCHANGED <<db, access, cred, target, is_active, barred>>

\* A mutant of Issue: the token is made out to the record that was found.
IssueToRecord(t) ==
    /\ pc[t] = "issue"
    /\ access' = access \union {[auth[t] EXCEPT !.user = cred[t]]}
    /\ End(t)
    /\ UNCHANGED db

\* A new access token; the refresh token stays as it is.
Issue(t) ==
    /\ pc[t] = "issue"
    /\ access' = access \union {auth[t]}
    /\ End(t)
    /\ UNCHANGED db
-----------------------------------------------------------------------------
(* Requests of a caller that is known *)

\* logout with "all", with a token, or with neither.
Logout(t) ==
    /\ pc[t] = "handle"
    /\ \E K \in {DOMAIN refresh_tokens, {}} \union {{k} : k \in DOMAIN refresh_tokens} :
           refresh_tokens' =
               [k \in DOMAIN refresh_tokens |->
                   IF k \in K /\ refresh_tokens[k].user = auth[t].user
                   THEN [refresh_tokens[k] EXCEPT !.revoked = TRUE]
                   ELSE refresh_tokens[k]]
    /\ End(t)
    /\ UNCHANGED <<users, api_keys, access>>

CreateApiKey(t) ==
    /\ pc[t] = "handle"
    /\ Len(api_keys) < MaxKey
    /\ api_keys' = Append(api_keys, [user |-> auth[t].user, is_active |-> TRUE])
    /\ End(t)
    /\ UNCHANGED <<users, refresh_tokens, access>>

\* A key of somebody else is not found.
DeleteApiKey(t) ==
    /\ pc[t] = "handle"
    /\ \E k \in DOMAIN api_keys :
           /\ api_keys[k].user = auth[t].user
           /\ api_keys' = [api_keys EXCEPT ![k].is_active = FALSE]
    /\ End(t)
    /\ UNCHANGED <<users, refresh_tokens, access>>

\* require_role(['admin']): the role in the token, which an API key has not.
IsAdmin(t) == auth[t].role = "admin"

\* users.py create_user: the name and the address are not taken.
CreateUser(t) ==
    /\ pc[t] = "handle"
    /\ IsAdmin(t)
    /\ \E u \in User \ DOMAIN users : target' = [target EXCEPT ![t] = u]
    /\ Goto(t, "insert")
    /\ UNCHANGED <<db, access, auth, cred, is_active, barred>>

\* Who registers becomes an active user, an admin says what the new user is.  The columns
\* are unique: where the row came meanwhile the insert raises (Refuse).
InsertUser(t) ==
    /\ pc[t] = "insert"
    /\ target[t] \notin DOMAIN users
    /\ \E row \in IF IsAdmin(t) THEN Account ELSE {[role |-> "user", is_active |-> TRUE]} :
           users' = [u \in DOMAIN users \union {target[t]} |->
                        IF u = target[t] THEN row ELSE users[u]]
    /\ End(t)
    /\ UNCHANGED <<refresh_tokens, api_keys, access>>

\* users.py update_user: the user is there; is_active counts when an admin sends it.
UpdateUser(t) ==
    /\ pc[t] = "handle"
    /\ \E u \in DOMAIN users, given \in {{}, {TRUE}, {FALSE}} :
           /\ IsAdmin(t) \/ (u = auth[t].user /\ given = {})
           /\ target' = [target EXCEPT ![t] = u]
           /\ is_active' = [is_active EXCEPT ![t] = given]
    /\ Goto(t, "write")
    /\ UNCHANGED <<db, access, auth, cred, barred>>

\* users.py delete_user, of another than the caller.
DeleteUser(t) ==
    /\ pc[t] = "handle"
    /\ IsAdmin(t)
    /\ \E u \in DOMAIN users \ {auth[t].user} : target' = [target EXCEPT ![t] = u]
    /\ Goto(t, "delete")
    /\ UNCHANGED <<db, access, auth, cred, is_active, barred>>

\* update_record and commit: the fields given, into the row as it is by now.  A user that
\* is active again has nothing against it any more.
WriteUser(t) ==
    /\ pc[t] = "write"
    /\ \E role \in IF IsAdmin(t) THEN Role ELSE {users[target[t]].role} :
           users' = [users EXCEPT ![target[t]] =
                        [role |-> role,
                         is_active |-> TRUE \in is_active[t]
                                         \/ (is_active[t] = {} /\ @.is_active)]]
    /\ Answer(t)
    /\ barred' = [r \in Request |->
                     IF r = t THEN {}
                     ELSE IF auth[r].user = target[t] /\ is_active[t] = {TRUE}
                          THEN barred[r] \ {"inactive"}
                          ELSE barred[r]]
    /\ UNCHANGED <<refresh_tokens, api_keys, access>>

\* update_record(is_active=False) and commit: the row stays.
Deactivate(t) ==
    /\ pc[t] = "delete"
    /\ users' = [users EXCEPT ![target[t]].is_active = FALSE]
    /\ End(t)
    /\ UNCHANGED <<refresh_tokens, api_keys, access>>

\* Every other way out, with nothing written: 400 to 404, 409, a database that is not
\* there, and the requests that only read.
Refuse(t) ==
    /\ pc[t] # "idle"
    /\ End(t)
    /\ UNCHANGED <<db, access>>
-----------------------------------------------------------------------------
\* An admin is put there when the system is set up.
Init ==
    /\ \E admin \in User : users = [u \in {admin} |-> [role |-> "admin", is_active |-> TRUE]]
    /\ refresh_tokens = << >>
    /\ api_keys = << >>
    /\ access = {}
    /\ pc = [t \in Request |-> "idle"]
    /\ auth = [t \in Request |-> Nobody]
    /\ cred = [t \in Request |-> 0]
    /\ target = [t \in Request |-> NoUser]
    /\ is_active = [t \in Request |-> {}]
    /\ barred = [t \in Request |-> {}]

Authenticate(t) ==
    \/ \E token \in access : WithToken(t, token)
    \/ \E k \in DOMAIN api_keys : WithKey(t, k)
    \/ FindKey(t) \/ StampKey(t)

Enter(t) ==
    \/ \E u \in User : ToLogin(t, u) \/ ToRegister(t, u)
    \/ \E k \in DOMAIN refresh_tokens : ToRefresh(t, k)
    \/ FindUser(t) \/ Login(t) \/ FindToken(t) \/ FindTokenUser(t) \/ Issue(t)

Handle(t) ==
    \/ Logout(t) \/ CreateApiKey(t) \/ DeleteApiKey(t)
    \/ CreateUser(t) \/ InsertUser(t)
    \/ UpdateUser(t) \/ WriteUser(t) \/ DeleteUser(t) \/ Deactivate(t) \/ Refuse(t)

Next == \E t \in Request : Authenticate(t) \/ Enter(t) \/ Handle(t)

Spec == Init /\ [][Next]_vars
-----------------------------------------------------------------------------
(* Properties *)

Caller  == [user : User \union {NoUser}, role : Role]

Places == {"idle", "handle", "key", "used", "login", "welcome", "refresh", "user", "issue",
           "insert", "write", "delete"}

TypeOK ==
    /\ DOMAIN users \subseteq User /\ \A u \in DOMAIN users : users[u] \in Account
    /\ refresh_tokens \in Seq([user : User, revoked : BOOLEAN])
    /\ Len(refresh_tokens) <= MaxToken
    /\ api_keys \in Seq([user : User, is_active : BOOLEAN])
    /\ Len(api_keys) <= MaxKey
    /\ access \subseteq [user : User, role : Role]
    /\ pc \in [Request -> Places]
    /\ auth \in [Request -> Caller]
    /\ cred \in [Request -> Nat]
    /\ target \in [Request -> User \union {NoUser}]
    /\ is_active \in [Request -> SUBSET BOOLEAN]
    /\ barred \in [Request -> SUBSET {"inactive", "revoked"}]

\* A refresh that began after its token was revoked, a login or refresh after its account
\* was deactivated, and a request with a key after the key was deleted, get no further,
\* whatever other requests do meanwhile (refresh, login, _authenticate_api_key).
BarredGetNothing ==
    \A t \in Request : pc[t] \in {"used", "handle", "welcome", "issue"} => barred[t] = {}

\* Whether an account becomes active again is the doing of an admin's request about it, at
\* the step that ends that request, and of nobody else: no token or key comes
\* back, and a row that was read before a deactivation is not written back after it
\* (update_record in login, update_user and _authenticate_api_key).
WithdrawnStays ==
    [][ /\ \A k \in DOMAIN refresh_tokens :
               refresh_tokens[k].revoked => refresh_tokens'[k].revoked
        /\ \A k \in DOMAIN api_keys : api_keys'[k].is_active => api_keys[k].is_active
        /\ \A u \in DOMAIN users :
               Inactive(u) /\ users'[u].is_active =>
                   \E t \in Request :
                       /\ pc[t] = "write" /\ pc'[t] # "write" /\ target[t] = u
                       /\ IsAdmin(t) /\ is_active[t] = {TRUE} ]_vars
=============================================================================
