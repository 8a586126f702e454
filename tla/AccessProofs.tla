----------------------------- MODULE AccessProofs -----------------------------
(***************************************************************************)
(* Who is let in, and to what: proofs about Accounts, for any number of    *)
(* requests, users, tokens and keys, and about Licensing, for every TTL    *)
(* and Timeout and any number of threads and features.                     *)
(*                                                                         *)
(* The two components share no state; each has its own specification.      *)
(***************************************************************************)
EXTENDS Accounts, Licensing, SequenceTheorems, TLAPS
-----------------------------------------------------------------------------
(* Accounts: what holds of a request *)

\* At each place a request has what the place needs: an account, a row it found, and
\* for a write the right to say what it says.
Place(t) ==
    /\ pc[t] \in {"used", "handle", "login", "welcome", "refresh", "user", "issue"} =>
           auth[t].user \in User
    /\ pc[t] = "key" => cred[t] \in DOMAIN api_keys
    /\ pc[t] \in {"refresh", "user"} => cred[t] \in DOMAIN refresh_tokens
    /\ pc[t] = "insert" => target[t] \in User
    /\ pc[t] \in {"write", "delete"} => target[t] \in DOMAIN users
    /\ pc[t] = "write" => /\ is_active[t] \in {{}, {TRUE}, {FALSE}}
                          /\ is_active[t] # {} => IsAdmin(t)

\* What bars a request is still so, and it is still before the place where it will see it.
Reason(t) ==
    /\ "inactive" \in barred[t] =>
           /\ pc[t] \in {"login", "refresh", "user"}
           /\ Inactive(auth[t].user)
    /\ "revoked" \in barred[t] =>
           \/ pc[t] = "key" /\ ~api_keys[cred[t]].is_active
           \/ pc[t] = "refresh" /\ refresh_tokens[cred[t]].revoked

AccountsInv == TypeOK /\ \A t \in Request : Place(t) /\ Reason(t)

DbTypes ==
    /\ DOMAIN users \subseteq User /\ \A u \in DOMAIN users : users[u] \in Account
    /\ refresh_tokens \in Seq([user : User, revoked : BOOLEAN])
    /\ Len(refresh_tokens) <= MaxToken
    /\ api_keys \in Seq([user : User, is_active : BOOLEAN])
    /\ Len(api_keys) <= MaxKey
    /\ access \subseteq [user : User, role : Role]

RequestTypes ==
    /\ pc \in [Request -> Places]
    /\ auth \in [Request -> Caller]
    /\ cred \in [Request -> Nat]
    /\ target \in [Request -> User \union {NoUser}]
    /\ is_active \in [Request -> SUBSET BOOLEAN]
    /\ barred \in [Request -> SUBSET {"inactive", "revoked"}]

LEMMA AccountsTypes == TypeOK <=> DbTypes /\ RequestTypes
BY DEF TypeOK, DbTypes, RequestTypes

LEMMA CallerFor ==
    ASSUME NEW c \in Caller, NEW u \in User
    PROVE  [c EXCEPT !.user = u] \in Caller
BY DEF Caller

\* What the rows are, and which numbers they have.
LEMMA RowTypes ==
    ASSUME TypeOK
    PROVE  /\ Len(refresh_tokens) \in Nat /\ DOMAIN refresh_tokens = 1..Len(refresh_tokens)
           /\ \A k \in DOMAIN refresh_tokens :
                  refresh_tokens[k] \in [user : User, revoked : BOOLEAN]
           /\ Len(api_keys) \in Nat /\ DOMAIN api_keys = 1..Len(api_keys)
           /\ \A k \in DOMAIN api_keys : api_keys[k] \in [user : User, is_active : BOOLEAN]
<1>1. /\ Len(refresh_tokens) \in Nat /\ DOMAIN refresh_tokens = 1..Len(refresh_tokens)
      /\ Len(api_keys) \in Nat /\ DOMAIN api_keys = 1..Len(api_keys)
    BY LenProperties DEF TypeOK
<1>2. \A k \in 1..Len(refresh_tokens) :
          refresh_tokens[k] \in [user : User, revoked : BOOLEAN]
    BY ElementOfSeq DEF TypeOK
<1>3. \A k \in 1..Len(api_keys) : api_keys[k] \in [user : User, is_active : BOOLEAN]
    BY ElementOfSeq DEF TypeOK
<1> QED
    BY <1>1, <1>2, <1>3

\* Rows stay where they are, and a token or key that was withdrawn stays so.
RowsStay ==
    /\ DOMAIN users \subseteq DOMAIN users'
    /\ DOMAIN refresh_tokens \subseteq DOMAIN refresh_tokens'
    /\ \A k \in DOMAIN refresh_tokens :
           refresh_tokens[k].revoked => refresh_tokens'[k].revoked
    /\ DOMAIN api_keys \subseteq DOMAIN api_keys'
    /\ \A k \in DOMAIN api_keys : api_keys'[k].is_active => api_keys[k].is_active

\* A step of t makes a user active again only as an admin's write, which is then no
\* reason any more.
Reactivates(t) ==
    \A u \in DOMAIN users :
        Inactive(u) /\ users'[u].is_active =>
            /\ pc[t] = "write" /\ pc'[t] # "write" /\ target[t] = u
            /\ IsAdmin(t) /\ is_active[t] = {TRUE}
            /\ \A r \in Request : auth[r].user = u => "inactive" \notin barred'[r]

\* It leaves the other requests where they are, and adds no reason to theirs.
OthersStay(t) ==
    \A r \in Request : r # t =>
        /\ pc'[r] = pc[r] /\ auth'[r] = auth[r] /\ cred'[r] = cred[r]
        /\ target'[r] = target[r] /\ is_active'[r] = is_active[r]
        /\ barred'[r] \subseteq barred[r]

StepKeeps(t) ==
    /\ TypeOK'
    /\ RowsStay
    /\ Reactivates(t)
    /\ OthersStay(t)
    /\ Place(t)'
    /\ Reason(t)'

\* What is so of a request stays so through the steps of the others.
LEMMA OtherRequests ==
    ASSUME TypeOK, NEW t \in Request, NEW r \in Request, r # t, Place(r), Reason(r),
           RowsStay, Reactivates(t), OthersStay(t)
    PROVE  Place(r)' /\ Reason(r)'
<1> USE DEF OthersStay
<1>1. Place(r)'
    BY DEF Place, RowsStay, IsAdmin
<1>2. ASSUME "inactive" \in barred'[r]
      PROVE  pc'[r] \in {"login", "refresh", "user"} /\ Inactive(auth[r].user)'
    <2>1. "inactive" \in barred[r]
        BY <1>2
    <2>2. pc[r] \in {"login", "refresh", "user"} /\ Inactive(auth[r].user)
        BY <2>1 DEF Reason
    <2>3. ~users'[auth[r].user].is_active
        BY <1>2, <2>2 DEF Reactivates, Inactive
    <2> QED
        BY <2>2, <2>3 DEF Inactive, RowsStay
<1>3. ASSUME "revoked" \in barred'[r]
      PROVE  \/ pc'[r] = "key" /\ ~api_keys'[cred'[r]].is_active
             \/ pc'[r] = "refresh" /\ refresh_tokens'[cred'[r]].revoked
    <2>1. "revoked" \in barred[r]
        BY <1>3
    <2> QED
        BY <2>1 DEF Reason, Place, RowsStay
<1>4. Reason(r)'
    BY <1>2, <1>3 DEF Reason, Inactive
<1> QED
    BY <1>1, <1>4

LEMMA StepIsEnough ==
    ASSUME AccountsInv, NEW t \in Request, StepKeeps(t)
    PROVE  AccountsInv'
BY OtherRequests DEF AccountsInv, StepKeeps
-----------------------------------------------------------------------------
(* Steps that leave the database alone *)

\* These keep the invariant if they keep what is said of the request itself.
LEMMA Reading ==
    ASSUME TypeOK, NEW t \in Request, UNCHANGED db, UNCHANGED access, RequestTypes',
           OthersStay(t), Place(t)', Reason(t)'
    PROVE  StepKeeps(t)
<1>1. DbTypes'
    BY AccountsTypes DEF db, DbTypes
<1>2. RowsStay /\ Reactivates(t)
    BY DEF db, RowsStay, Reactivates, Inactive
<1>3. TypeOK'
    BY <1>1 DEF TypeOK, DbTypes, RequestTypes
<1> QED
    BY <1>2, <1>3 DEF StepKeeps

\* A request begins, with a reason or without.
LEMMA ArriveKeeps ==
    ASSUME AccountsInv, NEW t \in Request, NEW place \in Places, NEW caller \in Caller,
           NEW k \in Nat, NEW reasons \in SUBSET {"inactive", "revoked"},
           Arrive(t, place, caller, k, reasons),
           place \notin {"insert", "write", "delete", "user"},
           place \in {"used", "handle", "login", "welcome", "refresh", "issue"} =>
               caller.user \in User,
           place = "key" => k \in DOMAIN api_keys,
           place = "refresh" => k \in DOMAIN refresh_tokens,
           "inactive" \in reasons =>
               place \in {"login", "refresh"} /\ Inactive(caller.user),
           "revoked" \in reasons =>
               \/ place = "key" /\ ~api_keys[k].is_active
               \/ place = "refresh" /\ refresh_tokens[k].revoked
    PROVE  StepKeeps(t)
<1>1. RequestTypes' /\ OthersStay(t)
    BY DEF AccountsInv, Arrive, Goto, RequestTypes, TypeOK, OthersStay
<1>2. /\ pc'[t] = place /\ auth'[t] = caller /\ cred'[t] = k /\ barred'[t] = reasons
      /\ UNCHANGED <<db, access, target, is_active>>
    BY DEF AccountsInv, Arrive, Goto, TypeOK
<1>3. Place(t)'
    BY <1>2 DEF Place, db
<1>4. Reason(t)'
    BY <1>2 DEF Reason, db, Inactive
<1> QED
    BY <1>1, <1>2, <1>3, <1>4, Reading DEF AccountsInv

\* The steps of authentication, of a login and of a refresh that read a row each.
LEMMA FindKeeps ==
    ASSUME AccountsInv, NEW t \in Request,
           \/ FindKey(t) \/ StampKey(t) \/ FindUser(t) \/ FindToken(t) \/ FindTokenUser(t)
    PROVE  StepKeeps(t)
<1> USE DEF AccountsInv, Goto
<1>1. Place(t) /\ Reason(t)
    OBVIOUS
<1>2. CASE FindKey(t)
    <2>1. cred[t] \in DOMAIN api_keys /\ api_keys[cred[t]].user \in User
        BY <1>1, <1>2, RowTypes DEF FindKey, Place
    <2>2. RequestTypes' /\ OthersStay(t)
        <3> DEFINE caller == [auth[t] EXCEPT !.user = api_keys[cred[t]].user]
        <3>1. auth' = [auth EXCEPT ![t] = caller]
            BY <1>2 DEF FindKey
        <3>2. caller \in Caller
            BY <2>1, CallerFor DEF TypeOK
        <3> HIDE DEF caller
        <3>3. pc' = [pc EXCEPT ![t] = "used"] /\ UNCHANGED <<cred, target, is_active, barred>>
            BY <1>2 DEF FindKey
        <3>4. RequestTypes'
            BY <3>1, <3>2, <3>3 DEF TypeOK, RequestTypes, Places
        <3>5. OthersStay(t)
            BY <3>1, <3>3 DEF TypeOK, OthersStay
        <3> QED
            BY <3>4, <3>5
    <2>3. /\ pc[t] = "key" /\ pc'[t] = "used" /\ auth'[t].user = api_keys[cred[t]].user
          /\ cred'[t] = cred[t] /\ barred'[t] = barred[t]
        BY <1>2 DEF FindKey, TypeOK, Caller
    <2>4. barred'[t] = {}
        BY <1>1, <1>2, <2>3 DEF FindKey, Reason, TypeOK
    <2>5. Place(t)' /\ Reason(t)'
        BY <2>1, <2>3, <2>4 DEF Place, Reason
    <2> QED
        BY <1>2, <2>2, <2>5, Reading DEF FindKey
<1>3. CASE StampKey(t)
    <2>1. RequestTypes' /\ OthersStay(t)
        BY <1>3 DEF StampKey, TypeOK, RequestTypes, OthersStay, Places
    <2>2. Place(t)' /\ Reason(t)'
        BY <1>1, <1>3 DEF StampKey, TypeOK, Place, Reason
    <2> QED
        BY <1>3, <2>1, <2>2, Reading DEF StampKey
<1>4. CASE FindUser(t) \/ FindTokenUser(t)
    <2>1. auth[t].user \in User /\ users[auth[t].user].role \in Role
        BY <1>4 DEF FindUser, FindTokenUser, Active, TypeOK, Account
    <2> DEFINE found == [auth[t] EXCEPT !.role = users[auth[t].user].role]
    <2>2. found \in Caller
        BY <2>1 DEF TypeOK, Caller
    <2>3. auth' = [auth EXCEPT ![t] = found]
        BY <1>4 DEF FindUser, FindTokenUser
    <2>4. auth' \in [Request -> Caller]
        BY <2>2, <2>3 DEF TypeOK
    <2>5. RequestTypes' /\ OthersStay(t)
        BY <1>4, <2>3, <2>4
           DEF FindUser, FindTokenUser, TypeOK, RequestTypes, OthersStay, Places
    <2>6. /\ pc[t] \in {"login", "user"} /\ pc'[t] \in {"welcome", "issue"}
          /\ auth'[t].user = auth[t].user /\ barred'[t] = barred[t]
        BY <1>4 DEF FindUser, FindTokenUser, TypeOK, Places, Caller
    <2>7. barred'[t] = {}
        <3>1. Active(auth[t].user) /\ barred'[t] \subseteq {"inactive", "revoked"}
            BY <1>4, <2>6 DEF FindUser, FindTokenUser, TypeOK
        <3>2. ~Inactive(auth[t].user)
            BY <3>1 DEF Active, Inactive
        <3> QED
            BY <1>1, <2>6, <3>1, <3>2 DEF Reason
    <2>8. Place(t)' /\ Reason(t)'
        BY <2>1, <2>6, <2>7 DEF Place, Reason
    <2> QED
        BY <1>4, <2>5, <2>8, Reading DEF FindUser, FindTokenUser
<1>5. CASE FindToken(t)
    <2>1. RequestTypes' /\ OthersStay(t)
        BY <1>5 DEF FindToken, TypeOK, RequestTypes, OthersStay, Places
    <2>2. /\ pc[t] = "refresh" /\ pc'[t] = "user" /\ ~refresh_tokens[cred[t]].revoked
          /\ UNCHANGED <<db, auth, cred, target, is_active, barred>>
        BY <1>5 DEF FindToken, TypeOK
    <2>3. Place(t)' /\ Reason(t)'
        BY <1>1, <2>2 DEF Place, Reason, Inactive, db
    <2> QED
        BY <1>5, <2>1, <2>3, Reading DEF FindToken
<1> QED
    BY <1>2, <1>3, <1>4, <1>5

\* The steps in which a request finds whom it will make or change.
LEMMA TargetKeeps ==
    ASSUME AccountsInv, NEW t \in Request,
           \/ \E u \in User : ToRegister(t, u)
           \/ CreateUser(t) \/ UpdateUser(t) \/ DeleteUser(t)
    PROVE  StepKeeps(t)
<1> USE DEF AccountsInv, Goto
<1>1. Place(t) /\ Reason(t) /\ pc[t] \in {"idle", "handle"} /\ barred[t] = {}
    <2>1. pc[t] \in {"idle", "handle"} /\ barred[t] \subseteq {"inactive", "revoked"}
        BY DEF ToRegister, CreateUser, UpdateUser, DeleteUser, TypeOK
    <2> QED
        BY <2>1 DEF Reason
<1>2. PICK u \in User :
          /\ target' = [target EXCEPT ![t] = u]
          /\ \/ pc'[t] = "insert" /\ is_active' = is_active
             \/ pc'[t] = "delete" /\ is_active' = is_active /\ u \in DOMAIN users
             \/ /\ pc'[t] = "write" /\ u \in DOMAIN users
                /\ \E given \in {{}, {TRUE}, {FALSE}} :
                       /\ is_active' = [is_active EXCEPT ![t] = given]
                       /\ given # {} => IsAdmin(t)
    BY DEF ToRegister, CreateUser, UpdateUser, DeleteUser, TypeOK
<1>3. /\ UNCHANGED <<db, access, auth, cred, barred>>
      /\ pc' = [pc EXCEPT ![t] = pc'[t]] /\ pc'[t] \in {"insert", "delete", "write"}
    BY DEF ToRegister, CreateUser, UpdateUser, DeleteUser, TypeOK
<1>4. is_active' \in [Request -> SUBSET BOOLEAN]
    <2>1. PICK given \in SUBSET BOOLEAN :
              is_active' = is_active \/ is_active' = [is_active EXCEPT ![t] = given]
        BY <1>2
    <2> QED
        BY <2>1 DEF TypeOK
<1>5. RequestTypes'
    BY <1>2, <1>3, <1>4 DEF TypeOK, RequestTypes, Places
<1>6. OthersStay(t)
    BY <1>2, <1>3 DEF TypeOK, OthersStay
<1>7. Place(t)' /\ Reason(t)'
    BY <1>1, <1>2, <1>3 DEF Place, Reason, IsAdmin, db, TypeOK
<1> QED
    BY <1>3, <1>5, <1>6, <1>7, Reading

\* A request that has its answer is at no place, for no reason.
LEMMA EndKeeps ==
    ASSUME AccountsInv, NEW t \in Request, Answer(t),
           \A r \in Request : barred'[r] \subseteq barred[r],
           barred' \in [Request -> SUBSET {"inactive", "revoked"}], barred'[t] = {}
    PROVE  RequestTypes' /\ OthersStay(t) /\ Place(t)' /\ Reason(t)'
<1> USE DEF AccountsInv, Answer, Goto
<1>1. Nobody \in Caller
    BY DEF Nobody, Caller, Role
<1>2. RequestTypes' /\ OthersStay(t)
    BY <1>1 DEF TypeOK, RequestTypes, OthersStay, Places
<1>3. pc'[t] = "idle"
    BY DEF TypeOK
<1> QED
    BY <1>2, <1>3 DEF Place, Reason

LEMMA EndedKeeps ==
    ASSUME AccountsInv, NEW t \in Request, End(t)
    PROVE  RequestTypes' /\ OthersStay(t) /\ Place(t)' /\ Reason(t)'
<1>1. /\ \A r \in Request : barred'[r] \subseteq barred[r]
      /\ barred' \in [Request -> SUBSET {"inactive", "revoked"}] /\ barred'[t] = {}
    BY DEF AccountsInv, TypeOK, End
<1> QED
    BY <1>1, EndKeeps DEF End
-----------------------------------------------------------------------------
(* Steps that write *)

\* The tokens and keys stay whose they are, one may be added, or withdrawn.
LEMMA NoUserWritten ==
    ASSUME AccountsInv, NEW t \in Request, End(t), UNCHANGED users, DbTypes', RowsStay
    PROVE  StepKeeps(t)
<1>1. Reactivates(t)
    BY DEF Reactivates, Inactive
<1> QED
    BY <1>1, EndedKeeps, AccountsTypes DEF StepKeeps, TypeOK, DbTypes, RequestTypes

LEMMA TokensKeep ==
    ASSUME AccountsInv, NEW t \in Request, Login(t) \/ Issue(t) \/ Logout(t)
    PROVE  StepKeeps(t)
<1> USE DEF AccountsInv
<1> DEFINE Token == [user : User, revoked : BOOLEAN]
<1>1. Place(t)
    OBVIOUS
<1>2. CASE Login(t)
    <2>1. auth[t] \in [user : User, role : Role]
        BY <1>1, <1>2 DEF Login, Place, TypeOK, Caller
    <2>2. [user |-> auth[t].user, revoked |-> FALSE] \in Token
        BY <2>1
    <2>3. /\ refresh_tokens' \in Seq(Token)
          /\ Len(refresh_tokens') = Len(refresh_tokens) + 1
          /\ \A k \in 1..Len(refresh_tokens) : refresh_tokens'[k] = refresh_tokens[k]
        BY <1>2, <2>2, AppendProperties DEF Login, TypeOK
    <2>4. Len(refresh_tokens) \in Nat /\ DOMAIN refresh_tokens = 1..Len(refresh_tokens)
        BY LenProperties DEF TypeOK
    <2>5. DOMAIN refresh_tokens' = 1..Len(refresh_tokens')
        BY <2>3, LenProperties
    <2>6. DbTypes'
        <3>1. Len(refresh_tokens') <= MaxToken
            BY <1>2, <2>3, <2>4, AccountsAssumption DEF Login
        <3> QED
            BY <1>2, <2>1, <2>3, <3>1 DEF Login, TypeOK, DbTypes
    <2>7. RowsStay
        BY <1>2, <2>3, <2>4, <2>5 DEF Login, RowsStay
    <2> QED
        BY <1>2, <2>6, <2>7, NoUserWritten DEF Login
<1>3. CASE Issue(t)
    <2>1. auth[t] \in [user : User, role : Role]
        BY <1>1, <1>3 DEF Issue, Place, TypeOK, Caller
    <2>2. DbTypes' /\ RowsStay
        BY <1>3, <2>1 DEF Issue, TypeOK, DbTypes, db, RowsStay
    <2> QED
        BY <1>3, <2>2, NoUserWritten DEF Issue, db
<1>4. CASE Logout(t)
    <2>1. PICK K : refresh_tokens' =
               [k \in DOMAIN refresh_tokens |->
                   IF k \in K /\ refresh_tokens[k].user = auth[t].user
                   THEN [refresh_tokens[k] EXCEPT !.revoked = TRUE]
                   ELSE refresh_tokens[k]]
        BY <1>4 DEF Logout
    <2>2. Len(refresh_tokens) \in Nat /\ DOMAIN refresh_tokens = 1..Len(refresh_tokens)
        BY LenProperties DEF TypeOK
    <2>3. \A k \in DOMAIN refresh_tokens : refresh_tokens[k] \in Token
        BY <2>2, ElementOfSeq DEF TypeOK
    <2>4. \A k \in DOMAIN refresh_tokens :
              /\ refresh_tokens'[k] \in Token
              /\ refresh_tokens[k].revoked => refresh_tokens'[k].revoked
        BY <2>1, <2>3
    <2>5. DOMAIN refresh_tokens' = DOMAIN refresh_tokens
        BY <2>1
    <2>6. refresh_tokens' \in [1..Len(refresh_tokens) -> Token]
        BY <2>1, <2>2, <2>4
    <2>7. refresh_tokens' \in Seq(Token)
        <3> DEFINE n == Len(refresh_tokens)
        <3>1. n \in Nat /\ refresh_tokens' \in [1..n -> Token]
            BY <2>2, <2>6
        <3> HIDE DEF n, Token
        <3> QED
            BY <3>1, SeqDef
    <2>8. Len(refresh_tokens') = Len(refresh_tokens)
        BY <2>2, <2>5, <2>7, LenProperties
    <2>9. DbTypes' /\ RowsStay
        BY <1>4, <2>4, <2>5, <2>7, <2>8 DEF Logout, TypeOK, DbTypes, RowsStay
    <2> QED
        BY <1>4, <2>9, NoUserWritten DEF Logout
<1> QED
    BY <1>2, <1>3, <1>4

LEMMA KeysKeep ==
    ASSUME AccountsInv, NEW t \in Request, CreateApiKey(t) \/ DeleteApiKey(t)
    PROVE  StepKeeps(t)
<1> USE DEF AccountsInv
<1> DEFINE Key == [user : User, is_active : BOOLEAN]
<1>1. Place(t)
    OBVIOUS
<1>2. Len(api_keys) \in Nat /\ DOMAIN api_keys = 1..Len(api_keys)
    BY LenProperties DEF TypeOK
<1>3. CASE CreateApiKey(t)
    <2>1. [user |-> auth[t].user, is_active |-> TRUE] \in Key
        BY <1>1, <1>3 DEF CreateApiKey, Place, TypeOK
    <2>2. /\ api_keys' \in Seq(Key)
          /\ Len(api_keys') = Len(api_keys) + 1
          /\ \A k \in 1..Len(api_keys) : api_keys'[k] = api_keys[k]
        BY <1>3, <2>1, AppendProperties DEF CreateApiKey, TypeOK
    <2>3. DOMAIN api_keys' = 1..Len(api_keys')
        BY <2>2, LenProperties
    <2>4. Len(api_keys') <= MaxKey
        BY <1>2, <1>3, <2>2, AccountsAssumption DEF CreateApiKey
    <2>5. DbTypes' /\ RowsStay
        BY <1>2, <1>3, <2>2, <2>3, <2>4 DEF CreateApiKey, TypeOK, DbTypes, RowsStay
    <2> QED
        BY <1>3, <2>5, NoUserWritten DEF CreateApiKey
<1>4. CASE DeleteApiKey(t)
    <2>1. PICK k \in DOMAIN api_keys : api_keys' = [api_keys EXCEPT ![k].is_active = FALSE]
        BY <1>4 DEF DeleteApiKey
    <2> DEFINE off == [api_keys[k] EXCEPT !.is_active = FALSE]
    <2>2. off \in Key /\ off.is_active = FALSE
        BY RowTypes
    <2>3. api_keys' = [api_keys EXCEPT ![k] = off]
        BY <2>1
    <2> HIDE DEF off
    <2>4. /\ api_keys' \in Seq(Key)
          /\ Len(api_keys') = Len(api_keys)
          /\ \A j \in 1..Len(api_keys) : api_keys'[j] = IF j = k THEN off ELSE api_keys[j]
        BY <1>2, <2>2, <2>3, ExceptSeq DEF TypeOK
    <2>5. DOMAIN api_keys' = DOMAIN api_keys
        BY <2>3
    <2>6. DbTypes' /\ RowsStay
        BY <1>2, <1>4, <2>2, <2>4, <2>5 DEF DeleteApiKey, TypeOK, DbTypes, RowsStay
    <2> QED
        BY <1>4, <2>6, NoUserWritten DEF DeleteApiKey
<1> QED
    BY <1>3, <1>4

LEMMA UsersKeep ==
    ASSUME AccountsInv, NEW t \in Request, InsertUser(t) \/ WriteUser(t) \/ Deactivate(t)
    PROVE  StepKeeps(t)
<1> USE DEF AccountsInv
<1>1. Place(t)
    OBVIOUS
<1>2. ASSUME DOMAIN users \subseteq DOMAIN users', DOMAIN users' \subseteq User,
             \A u \in DOMAIN users' : users'[u] \in Account,
             UNCHANGED <<refresh_tokens, api_keys, access>>
      PROVE  DbTypes' /\ RowsStay
    BY <1>2 DEF TypeOK, DbTypes, RowsStay
<1>3. CASE InsertUser(t)
    <2>1. PICK row \in Account :
              users' = [u \in DOMAIN users \union {target[t]} |->
                           IF u = target[t] THEN row ELSE users[u]]
        <3>1. [role |-> "user", is_active |-> TRUE] \in Account
            BY DEF Account, Role
        <3>2. (IF IsAdmin(t) THEN Account ELSE {[role |-> "user", is_active |-> TRUE]})
                  \subseteq Account
            BY <3>1
        <3> QED
            BY <1>3, <3>2 DEF InsertUser
    <2>2. target[t] \in User /\ target[t] \notin DOMAIN users
        BY <1>1, <1>3 DEF InsertUser, Place
    <2>3. /\ DOMAIN users \subseteq DOMAIN users' /\ DOMAIN users' \subseteq User
          /\ \A u \in DOMAIN users' : users'[u] \in Account
          /\ \A u \in DOMAIN users : users'[u] = users[u]
        BY <2>1, <2>2 DEF TypeOK
    <2>4. Reactivates(t)
        BY <2>3 DEF Reactivates, Inactive
    <2>5. DbTypes' /\ RowsStay
        BY <1>2, <1>3, <2>3 DEF InsertUser
    <2> QED
        BY <1>3, <2>4, <2>5, EndedKeeps DEF InsertUser, StepKeeps, TypeOK, DbTypes, RequestTypes
<1>4. CASE WriteUser(t)
    <2> DEFINE active == \/ TRUE \in is_active[t]
                         \/ is_active[t] = {} /\ users[target[t]].is_active
    <2>1. target[t] \in DOMAIN users /\ is_active[t] \in {{}, {TRUE}, {FALSE}}
        BY <1>1, <1>4 DEF WriteUser, Place
    <2>2. PICK role \in Role :
              users' = [users EXCEPT ![target[t]] = [role |-> role, is_active |-> active]]
        BY <1>4, <2>1 DEF WriteUser, TypeOK, Account
    <2>3. /\ DOMAIN users' = DOMAIN users
          /\ \A u \in DOMAIN users : u # target[t] => users'[u] = users[u]
          /\ users'[target[t]] = [role |-> role, is_active |-> active]
        BY <2>1, <2>2
    <2>4. active \in BOOLEAN
        OBVIOUS
    <2> HIDE DEF active
    <2>5. \A u \in DOMAIN users' : users'[u] \in Account
        <3>1. [role |-> role, is_active |-> active] \in Account
            BY <2>4 DEF Account
        <3> QED
            BY <2>3, <3>1 DEF TypeOK
    <2>6. /\ \A r \in Request : barred'[r] \subseteq barred[r]
          /\ barred' \in [Request -> SUBSET {"inactive", "revoked"}] /\ barred'[t] = {}
          /\ \A r \in Request : auth[r].user = target[t] /\ is_active[t] = {TRUE} =>
                 "inactive" \notin barred'[r]
          /\ pc'[t] # "write"
        BY <1>4 DEF WriteUser, Answer, Goto, TypeOK
    <2>7. Reactivates(t)
        <3> SUFFICES ASSUME NEW u \in DOMAIN users, Inactive(u), users'[u].is_active
                     PROVE  /\ pc[t] = "write" /\ pc'[t] # "write" /\ target[t] = u
                            /\ IsAdmin(t) /\ is_active[t] = {TRUE}
            BY <2>6 DEF Reactivates
        <3>1. target[t] = u /\ ~users[u].is_active
            BY <2>3 DEF Inactive
        <3>2. active
            BY <2>3, <3>1
        <3>3. is_active[t] = {TRUE}
            BY <2>1, <3>1, <3>2 DEF active
        <3> QED
            BY <1>1, <1>4, <2>6, <3>1, <3>3 DEF WriteUser, Place
    <2>8. DbTypes' /\ RowsStay
        BY <1>2, <1>4, <2>3, <2>5 DEF WriteUser, TypeOK
    <2>9. RequestTypes' /\ OthersStay(t) /\ Place(t)' /\ Reason(t)'
        BY <1>4, <2>6, EndKeeps DEF WriteUser
    <2> QED
        BY <2>7, <2>8, <2>9 DEF StepKeeps, TypeOK, DbTypes, RequestTypes
<1>5. CASE Deactivate(t)
    <2>1. users' = [users EXCEPT ![target[t]].is_active = FALSE]
        BY <1>5 DEF Deactivate
    <2>2. target[t] \in DOMAIN users
        BY <1>1, <1>5 DEF Deactivate, Place
    <2>3. /\ DOMAIN users' = DOMAIN users
          /\ \A u \in DOMAIN users : u # target[t] => users'[u] = users[u]
          /\ users'[target[t]] = [users[target[t]] EXCEPT !.is_active = FALSE]
        BY <2>1, <2>2
    <2>4. [users[target[t]] EXCEPT !.is_active = FALSE] \in Account
        BY <2>2 DEF TypeOK, Account
    <2>5. users'[target[t]].is_active = FALSE
        BY <2>2, <2>3 DEF TypeOK, Account
    <2>6. \A u \in DOMAIN users' : users'[u] \in Account
        BY <2>3, <2>4 DEF TypeOK
    <2>7. Reactivates(t)
        BY <2>3, <2>5 DEF Reactivates, Inactive
    <2>8. DbTypes' /\ RowsStay
        BY <1>2, <1>5, <2>3, <2>6 DEF Deactivate, TypeOK
    <2> QED
        BY <1>5, <2>7, <2>8, EndedKeeps DEF Deactivate, StepKeeps, TypeOK, DbTypes, RequestTypes
<1> QED
    BY <1>3, <1>4, <1>5

LEMMA RefuseKeeps ==
    ASSUME AccountsInv, NEW t \in Request, Refuse(t)
    PROVE  StepKeeps(t)
<1>1. DbTypes' /\ RowsStay /\ UNCHANGED users
    BY DEF AccountsInv, Refuse, db, TypeOK, DbTypes, RowsStay
<1> QED
    BY <1>1, NoUserWritten DEF Refuse
-----------------------------------------------------------------------------
(* The theorems about Accounts *)

LEMMA AccountsInit == Init => AccountsInv
<1> SUFFICES ASSUME Init
             PROVE  AccountsInv
    OBVIOUS
<1> USE AccountsAssumption DEF Init, Nobody
<1>1. DbTypes
    <2>1. PICK admin \in User :
              users = [u \in {admin} |-> [role |-> "admin", is_active |-> TRUE]]
        OBVIOUS
    <2>2. DOMAIN users \subseteq User /\ \A u \in DOMAIN users : users[u] \in Account
        BY <2>1 DEF Account, Role
    <2> QED
        BY <2>2 DEF DbTypes
<1>2. RequestTypes
    BY DEF RequestTypes, Places, Caller, Role
<1>3. \A t \in Request : Place(t) /\ Reason(t)
    BY DEF Place, Reason
<1> QED
    BY <1>1, <1>2, <1>3, AccountsTypes DEF AccountsInv

\* Every step of a request is one of these.
LEMMA AccountsStep ==
    ASSUME AccountsInv, NEW t \in Request, Authenticate(t) \/ Enter(t) \/ Handle(t)
    PROVE  StepKeeps(t)
<1> USE DEF AccountsInv
<1>1. ASSUME NEW token \in access, WithToken(t, token)
      PROVE  StepKeeps(t)
    <2>1. token \in Caller /\ token.user \in User
        BY <1>1 DEF TypeOK, Caller
    <2> QED
        BY <1>1, <2>1, ArriveKeeps DEF WithToken, Places
<1>2. ASSUME NEW k \in DOMAIN api_keys, WithKey(t, k)
      PROVE  StepKeeps(t)
    <2> DEFINE reasons == IF api_keys[k].is_active THEN {} ELSE {"revoked"}
    <2>1. k \in Nat /\ Nobody \in Caller
        BY RowTypes DEF Nobody, Caller, Role
    <2>2. /\ reasons \in SUBSET {"inactive", "revoked"} /\ "inactive" \notin reasons
          /\ "revoked" \in reasons => ~api_keys[k].is_active
        OBVIOUS
    <2>3. Arrive(t, "key", Nobody, k, reasons) /\ "key" \in Places
        BY <1>2 DEF WithKey, Places
    <2> HIDE DEF reasons
    <2> QED
        BY <2>1, <2>2, <2>3, ArriveKeeps
<1>3. ASSUME NEW u \in User, ToLogin(t, u)
      PROVE  StepKeeps(t)
    <2> DEFINE reasons == IF Inactive(u) THEN {"inactive"} ELSE {}
               caller  == [Nobody EXCEPT !.user = u]
    <2>1. caller \in Caller /\ caller.user = u
        BY DEF Nobody, Caller, Role
    <2>2. /\ reasons \in SUBSET {"inactive", "revoked"} /\ "revoked" \notin reasons
          /\ "inactive" \in reasons => Inactive(u)
        OBVIOUS
    <2>3. Arrive(t, "login", caller, 0, reasons) /\ "login" \in Places
        BY <1>3 DEF ToLogin, Places
    <2> HIDE DEF reasons, caller
    <2> QED
        BY <2>1, <2>2, <2>3, ArriveKeeps
<1>4. ASSUME NEW k \in DOMAIN refresh_tokens, ToRefresh(t, k)
      PROVE  StepKeeps(t)
    <2> DEFINE u       == refresh_tokens[k].user
               reasons == (IF Inactive(u) THEN {"inactive"} ELSE {})
                            \union (IF refresh_tokens[k].revoked THEN {"revoked"} ELSE {})
               caller  == [Nobody EXCEPT !.user = u]
    <2>1. caller \in Caller /\ caller.user = u /\ u \in User /\ k \in Nat
        BY RowTypes DEF Nobody, Caller, Role
    <2>2. /\ reasons \in SUBSET {"inactive", "revoked"}
          /\ "revoked" \in reasons => refresh_tokens[k].revoked
          /\ "inactive" \in reasons => Inactive(u)
        OBVIOUS
    <2>3. Arrive(t, "refresh", caller, k, reasons) /\ "refresh" \in Places
        BY <1>4 DEF ToRefresh, Places
    <2> HIDE DEF u, reasons, caller
    <2> QED
        BY <2>1, <2>2, <2>3, ArriveKeeps
<1> QED
    BY <1>1, <1>2, <1>3, <1>4, FindKeeps, TargetKeeps, TokensKeep, KeysKeep, UsersKeep,
       RefuseKeeps
       DEF Authenticate, Enter, Handle

LEMMA AccountsKept == AccountsInv /\ [Next]_vars => AccountsInv'
<1> SUFFICES ASSUME AccountsInv, [Next]_vars
             PROVE  AccountsInv'
    OBVIOUS
<1>1. ASSUME NEW t \in Request, Authenticate(t) \/ Enter(t) \/ Handle(t)
      PROVE  AccountsInv'
    BY <1>1, AccountsStep, StepIsEnough
<1>2. CASE UNCHANGED vars
    BY <1>2 DEF vars, db, request, AccountsInv, TypeOK, Place, Reason, IsAdmin, Inactive
<1> QED
    BY <1>1, <1>2 DEF Next

LEMMA AccountsAlways == Spec => []AccountsInv
BY AccountsInit, AccountsKept, PTL DEF Spec

\* Every row is of an account there may be, and a request is always for one it found:
\* no token or key is made out to nobody (login, refresh and create_api_key).
THEOREM AccountsTypeCorrect == Spec => []TypeOK
<1>1. AccountsInv => TypeOK
    BY DEF AccountsInv
<1> QED
    BY <1>1, AccountsAlways, PTL

\* However many requests there are, and however they meet: one that began with a
\* withdrawn token or key, or for a deactivated account, is never let in.
THEOREM BarredStayOut == Spec => []BarredGetNothing
<1>1. AccountsInv => BarredGetNothing
    <2> SUFFICES ASSUME AccountsInv, NEW t \in Request,
                        pc[t] \in {"used", "handle", "welcome", "issue"}
                 PROVE  barred[t] = {}
        BY DEF BarredGetNothing
    <2>1. barred[t] \subseteq {"inactive", "revoked"} /\ Reason(t)
        BY DEF AccountsInv, TypeOK
    <2> QED
        BY <2>1 DEF Reason
<1> QED
    BY <1>1, AccountsAlways, PTL

\* And no step undoes a withdrawal, but an admin's that says so.
THEOREM WithdrawalsStay == Spec => WithdrawnStays
<1> DEFINE Stays ==
        /\ \A k \in DOMAIN refresh_tokens :
               refresh_tokens[k].revoked => refresh_tokens'[k].revoked
        /\ \A k \in DOMAIN api_keys : api_keys'[k].is_active => api_keys[k].is_active
        /\ \A u \in DOMAIN users :
               Inactive(u) /\ users'[u].is_active =>
                   \E t \in Request :
                       /\ pc[t] = "write" /\ pc'[t] # "write" /\ target[t] = u
                       /\ IsAdmin(t) /\ is_active[t] = {TRUE}
<1>1. AccountsInv /\ [Next]_vars => [Stays]_vars
    <2> SUFFICES ASSUME AccountsInv, NEW t \in Request, Authenticate(t) \/ Enter(t) \/ Handle(t)
                 PROVE  Stays
        BY DEF Next
    <2>1. RowsStay /\ Reactivates(t)
        BY AccountsStep DEF StepKeeps
    <2> QED
        BY <2>1 DEF RowsStay, Reactivates
<1>2. [][Stays]_vars => WithdrawnStays
    BY PTL DEF WithdrawnStays
<1>3. Spec => [][Next]_vars
    BY PTL DEF Spec
<1> QED
    BY <1>1, <1>2, <1>3, AccountsAlways, PTL
-----------------------------------------------------------------------------
(* Licensing *)

\* A thread that is not asking has neither asked nor been answered.
Quiet == \A t \in Thread : stage[t] # "asking" => asked[t] = 0 /\ reply[t] = {}

\* An answer on its way that is no longer so was overtaken after the asking.
RepliesRecent ==
    \A t \in Thread : \A enabled \in reply[t] :
        enabled # entitled[feature[t]] => since[feature[t]] <= asked[t]

\* One in the cache, after the asking too, which was at most Timeout before the storing.
KeptRecent ==
    \A f \in Feature :
        Fresh(f) /\ _cache[f].data # entitled[f] => since[f] <= _cache[f].age + Timeout

LicensingInv == LicensingTypeOK /\ Quiet /\ RepliesRecent /\ KeptRecent
-----------------------------------------------------------------------------
(* Types of the licence client *)

LEMMA LicensingTypeInit == LicensingInit => LicensingTypeOK
BY LicensingAssumption DEF LicensingInit, LicensingTypeOK

LEMMA LicensingTypeStep == LicensingTypeOK /\ [LicensingNext]_licensing => LicensingTypeOK'
<1> SUFFICES ASSUME LicensingTypeOK, [LicensingNext]_licensing
             PROVE  LicensingTypeOK'
    OBVIOUS
<1> USE LicensingAssumption DEF LicensingTypeOK, Move
<1>1. ASSUME NEW t \in Thread, NEW f \in Feature, NEW use_cache \in BOOLEAN, Begin(t, f, use_cache)
      PROVE  LicensingTypeOK'
    BY <1>1 DEF Begin
<1>2. ASSUME NEW t \in Thread, CacheHit(t) \/ CacheMiss(t)
      PROVE  LicensingTypeOK'
    BY <1>2 DEF CacheHit, CacheMiss
<1>3. ASSUME NEW t \in Thread, ServerAnswers(t)
      PROVE  LicensingTypeOK'
    BY <1>3 DEF ServerAnswers
<1>4. ASSUME NEW t \in Thread, Store(t)
      PROVE  LicensingTypeOK'
    <2>1. PICK enabled \in reply[t] :
              _cache' = [_cache EXCEPT ![feature[t]] = [data |-> enabled, age |-> 0]]
        BY <1>4 DEF Store
    <2>2. _cache' \in [Feature -> [data : BOOLEAN, age : 0..TTL]]
        BY <2>1
    <2> QED
        BY <1>4, <2>2 DEF Store, Return
<1>5. ASSUME NEW t \in Thread, CheckFails(t)
      PROVE  LicensingTypeOK'
    BY <1>5 DEF CheckFails, Return
<1>6. ASSUME Tick
      PROVE  LicensingTypeOK'
    <2>1. _cache' \in [Feature -> [data : BOOLEAN, age : 0..TTL]]
        <3>1. \A f \in Feature : Older(_cache[f].age, TTL) \in 0..TTL
            BY DEF Older
        <3>2. \A f \in Feature :
                  [_cache[f] EXCEPT !.age = Older(@, TTL)] \in [data : BOOLEAN, age : 0..TTL]
            BY <3>1
        <3> QED
            BY <1>6, <3>2 DEF Tick
    <2>2. asked' \in [Thread -> 0..Timeout]
        BY <1>6 DEF Tick
    <2>3. since' \in [Feature -> 0..(TTL + Timeout)]
        BY <1>6 DEF Tick, Older
    <2> QED
        BY <1>6, <2>1, <2>2, <2>3 DEF Tick
<1>7. ASSUME NEW f \in Feature, Flip(f)
      PROVE  LicensingTypeOK'
    BY <1>7 DEF Flip, check
<1>8. CASE UNCHANGED licensing
    BY <1>8 DEF licensing, check
<1> QED
    BY <1>1, <1>2, <1>3, <1>4, <1>5, <1>6, <1>7, <1>8 DEF LicensingNext

\* Every variable keeps to its type: no age runs past its bound, and the cache holds
\* answers only (check_feature).
THEOREM LicensingTypeCorrect == LicensingSpec => []LicensingTypeOK
<1> QED
    BY LicensingTypeInit, LicensingTypeStep, PTL DEF LicensingSpec
-----------------------------------------------------------------------------
(* Its recent answers *)

LEMMA LicensingInvInit == LicensingInit => LicensingInv
BY LicensingTypeInit, LicensingAssumption
   DEF LicensingInit, LicensingInv, Quiet, RepliesRecent, KeptRecent, Fresh, LicensingTypeOK

LEMMA QuietStep == LicensingInv /\ [LicensingNext]_licensing => Quiet'
<1> SUFFICES ASSUME LicensingInv, [LicensingNext]_licensing
             PROVE  Quiet'
    OBVIOUS
<1> USE LicensingAssumption DEF LicensingInv, LicensingTypeOK, Quiet, Move
<1>1. ASSUME NEW t \in Thread, NEW f \in Feature, NEW use_cache \in BOOLEAN, Begin(t, f, use_cache)
      PROVE  Quiet'
    BY <1>1 DEF Begin
<1>2. ASSUME NEW t \in Thread, CacheHit(t) \/ CacheMiss(t)
      PROVE  Quiet'
    BY <1>2 DEF CacheHit, CacheMiss
<1>3. ASSUME NEW t \in Thread, ServerAnswers(t)
      PROVE  Quiet'
    BY <1>3 DEF ServerAnswers
<1>4. ASSUME NEW t \in Thread, Store(t) \/ CheckFails(t)
      PROVE  Quiet'
    BY <1>4 DEF Store, CheckFails, Return
<1>5. ASSUME Tick
      PROVE  Quiet'
    BY <1>5 DEF Tick
<1>6. ASSUME NEW f \in Feature, Flip(f)
      PROVE  Quiet'
    BY <1>6 DEF Flip, check
<1>7. CASE UNCHANGED licensing
    BY <1>7 DEF licensing, check
<1> QED
    BY <1>1, <1>2, <1>3, <1>4, <1>5, <1>6, <1>7 DEF LicensingNext

LEMMA RepliesStep == LicensingInv /\ [LicensingNext]_licensing => RepliesRecent'
<1> SUFFICES ASSUME LicensingInv, [LicensingNext]_licensing
             PROVE  RepliesRecent'
    OBVIOUS
<1> USE LicensingAssumption DEF LicensingInv, LicensingTypeOK, Quiet, RepliesRecent, Move
<1>1. ASSUME NEW t \in Thread, NEW f \in Feature, NEW use_cache \in BOOLEAN, Begin(t, f, use_cache)
      PROVE  RepliesRecent'
    <2>1. reply[t] = {}
        BY <1>1 DEF Begin
    <2> QED
        BY <1>1, <2>1 DEF Begin
<1>2. ASSUME NEW t \in Thread, CacheHit(t) \/ CacheMiss(t)
      PROVE  RepliesRecent'
    BY <1>2 DEF CacheHit, CacheMiss
<1>3. ASSUME NEW t \in Thread, ServerAnswers(t)
      PROVE  RepliesRecent'
    BY <1>3 DEF ServerAnswers
<1>4. ASSUME NEW t \in Thread, Store(t) \/ CheckFails(t)
      PROVE  RepliesRecent'
    BY <1>4 DEF Store, CheckFails, Return
<1>5. ASSUME Tick
      PROVE  RepliesRecent'
    <2> SUFFICES ASSUME NEW t \in Thread, NEW enabled \in reply[t], enabled # entitled[feature[t]]
                 PROVE  since'[feature[t]] <= asked'[t]
        BY <1>5 DEF Tick
    <2>1. stage[t] = "asking" /\ since[feature[t]] <= asked[t]
        OBVIOUS
    <2>2. asked'[t] = asked[t] + 1
        BY <1>5, <2>1 DEF Tick
    <2>3. since'[feature[t]] <= since[feature[t]] + 1
        BY <1>5 DEF Tick, Older
    <2> QED
        BY <1>5, <2>1, <2>2, <2>3 DEF Tick, Older
<1>6. ASSUME NEW f \in Feature, Flip(f)
      PROVE  RepliesRecent'
    BY <1>6 DEF Flip, check
<1>7. CASE UNCHANGED licensing
    BY <1>7 DEF licensing, check
<1> QED
    BY <1>1, <1>2, <1>3, <1>4, <1>5, <1>6, <1>7 DEF LicensingNext

LEMMA KeptStep == LicensingInv /\ [LicensingNext]_licensing => KeptRecent'
<1> SUFFICES ASSUME LicensingInv, [LicensingNext]_licensing
             PROVE  KeptRecent'
    OBVIOUS
<1> USE LicensingAssumption DEF LicensingInv, LicensingTypeOK, KeptRecent, Fresh
<1>1. ASSUME NEW t \in Thread, NEW f \in Feature, NEW use_cache \in BOOLEAN, Begin(t, f, use_cache)
      PROVE  KeptRecent'
    BY <1>1 DEF Begin
<1>2. ASSUME NEW t \in Thread, CacheHit(t) \/ CacheMiss(t) \/ ServerAnswers(t) \/ CheckFails(t)
      PROVE  KeptRecent'
    BY <1>2 DEF CacheHit, CacheMiss, ServerAnswers, CheckFails
<1>3. ASSUME NEW t \in Thread, Store(t)
      PROVE  KeptRecent'
    <2>1. PICK enabled \in reply[t] :
              _cache' = [_cache EXCEPT ![feature[t]] = [data |-> enabled, age |-> 0]]
        BY <1>3 DEF Store
    <2>2. enabled # entitled[feature[t]] => since[feature[t]] <= Timeout
        BY DEF RepliesRecent
    <2>3. UNCHANGED <<entitled, since>>
        BY <1>3 DEF Store
    <2> QED
        BY <2>1, <2>2, <2>3
<1>4. ASSUME Tick
      PROVE  KeptRecent'
    <2> SUFFICES ASSUME NEW f \in Feature,
                        _cache'[f].age < TTL, _cache'[f].data # entitled[f]
                 PROVE  since'[f] <= _cache'[f].age + Timeout
        BY <1>4 DEF Tick
    <2>1. /\ _cache'[f].data = _cache[f].data
          /\ _cache[f].age < TTL
          /\ _cache'[f].age = _cache[f].age + 1
        BY <1>4 DEF Tick, Older
    <2>2. since'[f] <= since[f] + 1
        BY <1>4 DEF Tick, Older
    <2>3. since[f] <= _cache[f].age + Timeout
        BY <2>1
    <2>4. since'[f] \in Int
        BY <1>4 DEF Tick, Older
    <2> QED
        BY <2>1, <2>2, <2>3, <2>4
<1>5. ASSUME NEW f \in Feature, Flip(f)
      PROVE  KeptRecent'
    BY <1>5 DEF Flip
<1>6. CASE UNCHANGED licensing
    BY <1>6 DEF licensing
<1> QED
    BY <1>1, <1>2, <1>3, <1>4, <1>5, <1>6 DEF LicensingNext

\* What the cache answers was so at some time within the cache's and one request's time:
\* however many threads ask, and in whatever order their answers are stored.
THEOREM RecentAnswers == LicensingSpec => []AnswersRecent
<1>1. LicensingInv /\ [LicensingNext]_licensing => LicensingInv'
    BY LicensingTypeStep, QuietStep, RepliesStep, KeptStep DEF LicensingInv
<1>2. LicensingInv => AnswersRecent
    BY LicensingAssumption DEF LicensingInv, KeptRecent, AnswersRecent, Fresh, LicensingTypeOK
<1> QED
    BY LicensingInvInit, <1>1, <1>2, PTL DEF LicensingSpec
===============================================================================
