------------------------------ MODULE Identity ------------------------------
(***************************************************************************)
(* Accounts and sessions of one organization (backend/app/services/auth.py *)
(* and users.py behind their routers, auth/dependencies.py and             *)
(* auth/permissions.py): registration, login with lockout and MFA, refresh *)
(* tokens that rotate, logout, and the administration of users.            *)
(*                                                                         *)
(* A request is one READ COMMITTED transaction. What it loaded is kept in  *)
(* authReq; its UPDATE names the columns that differ from that. Requests   *)
(* that are refused change nothing and are left out.                       *)
(***************************************************************************)
EXTENDS Integers, FiniteSets

CONSTANTS
    User,          \* e-mail addresses, each at most one account
    Token,         \* refresh tokens, and the session row of each
    Role,          \* the roles of ROLE_PERMISSIONS in use
    Established,   \* the accounts of an organization that has some, with their roles
    AuthRequest,   \* bound: requests in flight at once
    MaxAuthWork,   \* bound: requests altogether
    MaxFailed,     \* max_failed_login_attempts
    RateLimit,     \* logins and refreshes one address may send per window
    Null           \* NULL, and a field a request leaves out

ASSUME IdentityConstants ==
    /\ MaxAuthWork \in Nat /\ MaxFailed \in Nat \ {0} /\ RateLimit \in Nat \ {0}
    /\ "ORG_ADMIN" \in Role /\ \A u \in DOMAIN Established : Established[u] \in Role
    /\ Null \notin User \cup Token \cup Role

VARIABLES
    org,           \* "none", "created" (no administrator yet) or "ready"
    account,       \* rows of users, with user_roles
    session,       \* rows of sessions
    authReq,       \* each request's transaction
    attempts,      \* the rate limiter's counter for the current window
    streak,        \* history: failed logins since the last success or lock
    proven,        \* history: the MFA secret a code was last verified against
    ended,         \* history: logins that were ended by a logout
    raced,         \* history: what two requests were in flight on at once
    authWork       \* requests so far

authVars == <<org, account, session, authReq, attempts, streak, proven, ended, raced, authWork>>

-----------------------------------------------------------------------------
(* The part of ROLE_PERMISSIONS the modelled routes ask for. *)
Everything == {<<"user", "read">>, <<"user", "write">>, <<"incident", "write">>,
               <<"asset", "delete">>, <<"ioc", "write">>, <<"ioc", "delete">>}

ROLE_PERMISSIONS ==
    [SUPER_ADMIN    |-> Everything,
     ORG_ADMIN      |-> Everything,
     SOC_MANAGER    |-> Everything,
     SOC_ANALYST_L1 |-> {<<"incident", "write">>},
     SOC_ANALYST_L2 |-> {<<"incident", "write">>, <<"ioc", "write">>},
     SOC_ANALYST_L3 |-> {<<"incident", "write">>, <<"ioc", "write">>, <<"ioc", "delete">>},
     THREAT_HUNTER  |-> {<<"ioc", "write">>},
     DFIR_ANALYST   |-> {<<"incident", "write">>, <<"ioc", "write">>},
     AUDITOR        |-> {<<"user", "read">>},
     READ_ONLY      |-> {}]

_ELEVATED_ROLES == {"SUPER_ADMIN", "ORG_ADMIN"}

NoAccount == [exists |-> FALSE, active |-> FALSE, roles |-> {}, failed |-> 0,
              lock |-> "no", secret |-> 0, mfa |-> FALSE]

NewAccount(role) == [NoAccount EXCEPT !.exists = TRUE, !.active = TRUE, !.roles = {role}]

NoSession == [state |-> "none", user |-> Null, login |-> Null]

NoAuthReq == [op |-> "idle"]

(* A new deployment, or an organization with an administrator and the      *)
(* accounts in Established.                                                *)
IdentityInit ==
    /\ \/ org = "none" /\ account = [u \in User |-> NoAccount]
       \/ org = "ready" /\ account = [u \in User |-> IF u \in DOMAIN Established
                                                     THEN NewAccount(Established[u])
                                                     ELSE NoAccount]
    /\ session = [t \in Token |-> NoSession]
    /\ authReq = [q \in AuthRequest |-> NoAuthReq]
    /\ attempts = 0
    /\ streak = [u \in User |-> 0]
    /\ proven = [u \in User |-> 0]
    /\ ended = {}
    /\ raced = {}

(* get_auth_context and _load_permissions: the account is active now, and  *)
(* its permissions are those of its roles now.                             *)
get_auth_context(u) == account[u].exists /\ account[u].active

require_permission(u, p) ==
    get_auth_context(u) /\ \E r \in account[u].roles : p \in ROLE_PERMISSIONS[r]

AuthBegins(q, tx) ==
    /\ authReq[q].op = "idle"
    /\ authWork < MaxAuthWork
    /\ authWork' = authWork + 1
    /\ authReq' = [authReq EXCEPT ![q] = tx]

AuthEnds(q) == authReq' = [authReq EXCEPT ![q] = NoAuthReq] /\ UNCHANGED authWork

AuthAtOnce == authWork < MaxAuthWork /\ authWork' = authWork + 1 /\ UNCHANGED authReq

(* What is contended once a request on it begins: something another        *)
(* request in flight holds as well.                                        *)
Contends(on) == {on} \cap {authReq[q].on : q \in {p \in AuthRequest : authReq[p].op # "idle"}}

(* _enforce_ip_rate_limit: the counter of this window, and a new window.   *)
(* A request over the limit is a 429.                                      *)
_enforce_ip_rate_limit == attempts < RateLimit /\ attempts' = attempts + 1

NextWindow ==
    /\ attempts > 0
    /\ attempts' = 0
    /\ UNCHANGED <<org, account, session, authReq, streak, proven, ended, raced, authWork>>

-----------------------------------------------------------------------------
(* register_organization, in two commits: the organization, whose slug is  *)
(* taken from then on, and its first administrator.                        *)
RegisterOrganization ==
    /\ org = "none"
    /\ _enforce_ip_rate_limit
    /\ org' = "created"
    /\ AuthAtOnce
    /\ UNCHANGED <<account, session, streak, proven, ended, raced>>

RegisterAdmin(u) ==
    /\ org = "created"
    /\ \A v \in User : ~account[v].exists
    /\ org' = "ready"
    /\ account' = [account EXCEPT ![u] = NewAccount("ORG_ADMIN")]
    /\ UNCHANGED <<session, authReq, attempts, streak, proven, ended, raced, authWork>>

(* _assert_can_grant_role *)
_assert_can_grant_role(actor, role) ==
    role \in _ELEVATED_ROLES => account[actor].roles \cap _ELEVATED_ROLES # {}

(* create_user: the unique constraint refuses a second account. *)
create_user(actor, u, role) ==
    /\ require_permission(actor, <<"user", "write">>)
    /\ _assert_can_grant_role(actor, role)
    /\ ~account[u].exists
    /\ AuthAtOnce
    /\ account' = [account EXCEPT ![u] = NewAccount(role)]
    /\ UNCHANGED <<org, session, attempts, streak, proven, ended, raced>>

(* update_user up to its DELETE, which finds the user_roles rows that are  *)
(* committed when it starts.                                               *)
update_user(q, actor, u, role, active) ==
    /\ require_permission(actor, <<"user", "write">>)
    /\ account[u].exists
    /\ role # Null \/ active # Null
    /\ role # Null => _assert_can_grant_role(actor, role)
    /\ AuthBegins(q, [op |-> "user", on |-> <<"roles", u>>, user |-> u, role |-> role,
                      active |-> active, row |-> account[u]])
    /\ raced' = raced \cup Contends(<<"roles", u>>)
    /\ UNCHANGED <<org, account, session, attempts, streak, proven, ended>>

(* The rest of update_user. The primary key of user_roles refuses a role   *)
(* another request has granted in the meantime.                            *)
CommitUser(q) ==
    /\ authReq[q].op = "user"
    /\ LET u == authReq[q].user
           req == authReq[q]
           kept == account[u].roles \ req.row.roles IN
       /\ req.role # Null => req.role \notin kept
       /\ account' = [account EXCEPT
            ![u].active = IF req.active # Null /\ req.active # req.row.active
                          THEN req.active ELSE @,
            ![u].roles = IF req.role = Null THEN @ ELSE kept \cup {req.role}]
    /\ AuthEnds(q)
    /\ UNCHANGED <<org, session, attempts, streak, proven, ended, raced>>

-----------------------------------------------------------------------------
(* authenticate up to its decision: the account is read without a lock;    *)
(* one that is locked is refused, and so is one with MFA and no code.      *)
authenticate(q, u, password, code) ==
    /\ _enforce_ip_rate_limit
    /\ account[u].exists
    /\ account[u].lock # "running"
    /\ password = "right" /\ account[u].mfa => code # Null
    /\ AuthBegins(q, [op |-> "login", on |-> <<"login", u>>, user |-> u, row |-> account[u],
                      outcome |-> IF password = "wrong" THEN "wrong_password"
                                  ELSE IF account[u].mfa /\ code = "wrong" THEN "wrong_code"
                                  ELSE "success"])
    /\ raced' = raced \cup Contends(<<"login", u>>)
    /\ UNCHANGED <<org, account, session, streak, proven, ended>>

(* The row after a wrong password: the count that was read plus one. *)
Failed(row, seen) ==
    IF seen.failed + 1 >= MaxFailed
    THEN [row EXCEPT !.lock = "running", !.failed = IF seen.failed # 0 THEN 0 ELSE @]
    ELSE [row EXCEPT !.failed = seen.failed + 1]

FailLogin(q) ==
    /\ authReq[q].op = "login"
    /\ LET u == authReq[q].user IN
       \/ /\ authReq[q].outcome = "wrong_password"
          /\ account' = [account EXCEPT ![u] = Failed(@, authReq[q].row)]
          /\ streak' = [streak EXCEPT ![u] = IF @ + 1 = MaxFailed THEN 0 ELSE @ + 1]
       \/ authReq[q].outcome = "wrong_code" /\ UNCHANGED <<account, streak>>
    /\ AuthEnds(q)
    /\ UNCHANGED <<org, session, attempts, proven, ended, raced>>

(* generate_refresh_token: one nobody has had. *)
Unissued == {t \in Token : session[t].state = "none"}
NewToken == CHOOSE t \in Unissued : TRUE

(* The login succeeds: the lockout columns are cleared and a session row   *)
(* is added.                                                               *)
LogIn(q) ==
    /\ authReq[q].op = "login" /\ authReq[q].outcome = "success"
    /\ Unissued # {}
    /\ LET u == authReq[q].user  seen == authReq[q].row  t == NewToken IN
       /\ account' = [account EXCEPT ![u].failed = IF seen.failed # 0 THEN 0 ELSE @,
                                     ![u].lock = IF seen.lock # "no" THEN "no" ELSE @]
       /\ session' = [session EXCEPT ![t] = [state |-> "live", user |-> u, login |-> t]]
       /\ streak' = [streak EXCEPT ![u] = 0]
    /\ AuthEnds(q)
    /\ UNCHANGED <<org, attempts, proven, ended, raced>>

(* lockout_duration_minutes later. *)
LockElapses(u) ==
    /\ account[u].lock = "running"
    /\ account' = [account EXCEPT ![u].lock = "elapsed"]
    /\ UNCHANGED <<org, session, authReq, attempts, streak, proven, ended, raced, authWork>>

-----------------------------------------------------------------------------
(* rotate_refresh_token up to its checks: the session is neither revoked   *)
(* nor expired and the account is active, as read without a lock.          *)
rotate_refresh_token(q, t) ==
    /\ _enforce_ip_rate_limit
    /\ session[t].state = "live"
    /\ account[session[t].user].active
    /\ AuthBegins(q, [op |-> "rotate", on |-> <<"session", session[t].login>>, token |-> t])
    /\ raced' = raced \cup Contends(<<"session", session[t].login>>)
    /\ UNCHANGED <<org, account, session, streak, proven, ended>>

(* Mutant of CommitRotation: the old session row is not revoked. *)
RotatedOldStays(q) ==
    /\ authReq[q].op = "rotate"
    /\ Unissued # {}
    /\ session' = [session EXCEPT ![NewToken] = [session[authReq[q].token] EXCEPT !.state = "live"]]
    /\ AuthEnds(q)
    /\ UNCHANGED <<org, account, attempts, streak, proven, ended, raced>>

CommitRotation(q) ==
    /\ authReq[q].op = "rotate"
    /\ Unissued # {}
    /\ LET old == authReq[q].token  t == NewToken IN
       session' = [session EXCEPT ![old].state = "revoked",
                                  ![t] = [session[old] EXCEPT !.state = "live"]]
    /\ AuthEnds(q)
    /\ UNCHANGED <<org, account, attempts, streak, proven, ended, raced>>

(* revoke_session: only a row that is not revoked yet is written. *)
revoke_session(t) ==
    /\ session[t].state \in {"live", "expired"}
    /\ AuthAtOnce
    /\ session' = [session EXCEPT ![t].state = "revoked"]
    /\ ended' = ended \cup {session[t].login}
    /\ raced' = raced \cup Contends(<<"session", session[t].login>>)
    /\ UNCHANGED <<org, account, attempts, streak, proven>>

(* jwt_refresh_token_ttl_seconds later. *)
SessionExpires(t) ==
    /\ session[t].state = "live"
    /\ session' = [session EXCEPT ![t].state = "expired"]
    /\ UNCHANGED <<org, account, authReq, attempts, streak, proven, ended, raced, authWork>>

-----------------------------------------------------------------------------
(* enroll_mfa and confirm_mfa: the row loaded with the auth context. *)
LoadForMfa(q, u, op) ==
    /\ get_auth_context(u)
    /\ op = "confirm" => account[u].secret # 0
    /\ AuthBegins(q, [op |-> op, on |-> <<"mfa", u>>, user |-> u, row |-> account[u]])
    /\ raced' = raced \cup Contends(<<"mfa", u>>)
    /\ UNCHANGED <<org, account, session, attempts, streak, proven, ended>>

(* Mutant of enroll_mfa: a new secret leaves mfa_enabled as it is. *)
EnrollStaysEnabled(q) ==
    /\ authReq[q].op = "enroll"
    /\ account' = [account EXCEPT ![authReq[q].user].secret = @ + 1]
    /\ AuthEnds(q)
    /\ UNCHANGED <<org, session, attempts, streak, proven, ended, raced>>

(* A new secret, not enabled until it is confirmed. *)
enroll_mfa(q) ==
    /\ authReq[q].op = "enroll"
    /\ LET u == authReq[q].user IN
       account' = [account EXCEPT ![u].secret = @ + 1,
                                  ![u].mfa = IF authReq[q].row.mfa THEN FALSE ELSE @]
    /\ AuthEnds(q)
    /\ UNCHANGED <<org, session, attempts, streak, proven, ended, raced>>

(* A code that is right for the secret that was read enables MFA. *)
confirm_mfa(q) ==
    /\ authReq[q].op = "confirm"
    /\ LET u == authReq[q].user IN
       /\ account' = [account EXCEPT ![u].mfa = IF ~authReq[q].row.mfa THEN TRUE ELSE @]
       /\ proven' = [proven EXCEPT ![u] = authReq[q].row.secret]
    /\ AuthEnds(q)
    /\ UNCHANGED <<org, session, attempts, streak, ended, raced>>

(* The request ends without a commit. *)
RollbackAuth(q) ==
    /\ authReq[q].op # "idle"
    /\ AuthEnds(q)
    /\ UNCHANGED <<org, account, session, attempts, streak, proven, ended, raced>>

IdentityNext ==
    \/ RegisterOrganization
    \/ NextWindow
    \/ \E u \in User : RegisterAdmin(u) \/ LockElapses(u)
    \/ \E actor, u \in User, r \in Role : create_user(actor, u, r)
    \/ \E t \in Token : revoke_session(t) \/ SessionExpires(t)
    \/ \E q \in AuthRequest :
         \/ \E actor, u \in User, r \in Role \cup {Null}, a \in BOOLEAN \cup {Null} :
              update_user(q, actor, u, r, a)
         \/ CommitUser(q)
         \/ \E u \in User, p \in {"right", "wrong"}, c \in {"right", "wrong", Null} :
              authenticate(q, u, p, c)
         \/ FailLogin(q)
         \/ LogIn(q)
         \/ \E t \in Token : rotate_refresh_token(q, t)
         \/ CommitRotation(q)
         \/ \E u \in User, op \in {"enroll", "confirm"} : LoadForMfa(q, u, op)
         \/ enroll_mfa(q)
         \/ confirm_mfa(q)
         \/ RollbackAuth(q)

IdentitySpec == IdentityInit /\ authWork \in 0..MaxAuthWork /\ [][IdentityNext]_authVars

-----------------------------------------------------------------------------
(* A refresh token is worth one rotation: unless two requests on one login *)
(* overlapped, at most one token of that login can be used, and none once  *)
(* the user has logged out (rotate_refresh_token, revoke_session).         *)
LoginsAreSingleAlone ==
    \A l \in Token : <<"session", l>> \notin raced =>
        LET usable == {t \in Token : session[t].login = l /\ session[t].state = "live"} IN
        /\ Cardinality(usable) <= 1
        /\ l \in ended => usable = {}

(* Unless two logins of an account overlapped, the stored count is the     *)
(* number of failed logins since the last success or lock, and reaching    *)
(* the maximum locks it (authenticate).                                    *)
FailuresAreCountedAlone ==
    \A u \in User : <<"login", u>> \notin raced => account[u].failed = streak[u]

(* An account has the one role it was last given, unless two changes of it *)
(* overlapped (update_user).                                               *)
OneRoleAlone ==
    \A u \in User : account[u].exists /\ <<"roles", u>> \notin raced
                      => Cardinality(account[u].roles) = 1

(* MFA is enabled only for the secret a code was verified against, unless  *)
(* an enrolment and another MFA request of the account overlapped          *)
(* (enroll_mfa, confirm_mfa).                                              *)
MfaIsProvenAlone ==
    \A u \in User : account[u].mfa /\ <<"mfa", u>> \notin raced
                      => proven[u] = account[u].secret

(* The rows of an account that was not worked on twice at once agree with  *)
(* what was done to it: the failed logins it counts, its one role, and the *)
(* MFA secret it enforces (services/auth.py, services/users.py).           *)
AccountsAreCoherentAlone ==
    FailuresAreCountedAlone /\ OneRoleAlone /\ MfaIsProvenAlone
=============================================================================
