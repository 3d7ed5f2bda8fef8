----------------------------- MODULE AccessControl -----------------------------
(***************************************************************************)
(* The parts of an operator's way into the system, in one process: the     *)
(* limiter of login attempts (RateLimiter.tla), OperatorAuthenticator      *)
(* (pdsno/security/auth.py) and RBACManager (pdsno/security/rbac.py).  No  *)
(* code of the repository joins them, so their calls come in any order;    *)
(* the clock and the process, whose restart empties all three, are common. *)
(*                                                                         *)
(* Passwords, hashes and codes are abstracted to whether they are right;   *)
(* a JWT to its claims and the secret that signed it.                      *)
(***************************************************************************)
EXTENDS RateLimiter, FiniteSets

CONSTANTS
    UserRoles,          \* create_user's role strings
    AssignedRoles,      \* members of rbac.Role that assign_role is called with
    MaxFailed,          \* 5 wrong passwords lock an account
    SessionLifetime,    \* SESSION_LIFETIME_HOURS
    MaxTime, MaxRestarts, MaxResets, MaxTokens     \* bounds of the model

\* rbac.Role
Roles ==
    {"global_controller", "regional_controller", "local_controller", "global_admin",
     "regional_admin", "local_operator", "viewer", "api_client", "api_client_readonly"}

ASSUME AccessAssumption ==
    /\ AssignedRoles \subseteq Roles
    /\ None \notin Roles \cup {"LOW", "MEDIUM", "HIGH"}
    /\ MaxFailed \in Nat
    /\ SessionLifetime \in Nat
    /\ {MaxTime, MaxRestarts, MaxResets, MaxTokens} \subseteq Nat
    /\ None \notin [role : UserRoles, mfa_enabled : BOOLEAN, failed_attempts : Nat]

VARIABLES
    users,              \* user -> [role, mfa_enabled, failed_attempts], or None
    jwt_secret,         \* which process's JWT_SECRET is in use
    sessions,           \* tokens this process entered in self.sessions
    issued,             \* tokens operators hold; they survive a restart
    role_assignments,   \* user -> rbac.Role, or None
    forgiven            \* history: how often the user's bucket was forgotten

authVars == <<users, jwt_secret, sessions, issued>>
avars == <<limiterVars, authVars, role_assignments, forgiven>>

Account == [role : UserRoles, mfa_enabled : BOOLEAN, failed_attempts : 0..MaxFailed]

AInit ==
    /\ LimiterInit
    /\ users = [u \in Clients |-> None]
    /\ jwt_secret = 0
    /\ sessions = {}
    /\ issued = {}
    /\ role_assignments = [u \in Clients |-> None]
    /\ forgiven = [u \in Clients |-> 0]

--------------------------------------------------------------------------------
\* OperatorAuthenticator

\* create_user refuses a name that is taken.
CreateUser(u, role, mfa) ==
    /\ users[u] = None
    /\ users' = [users EXCEPT ![u] =
            [role |-> role, mfa_enabled |-> mfa, failed_attempts |-> 0]]
    /\ UNCHANGED <<limiterVars, jwt_secret, sessions, issued, role_assignments, forgiven>>

Token(u) ==
    [username |-> u, role |-> users[u].role, exp |-> now + SessionLifetime,
     secret |-> jwt_secret]

\* authenticate answers at once: no such user, or too many wrong passwords.
TurnedAway(u) ==
    IF users[u] = None THEN TRUE ELSE users[u].failed_attempts >= MaxFailed

\* authenticate.  A wrong MFA code leaves failed_attempts as it is.
Authenticate(u, passwordOK, mfa) ==
    /\ ~TurnedAway(u)
    /\ \/ /\ ~passwordOK
          /\ users' = [users EXCEPT ![u].failed_attempts = @ + 1]
          /\ UNCHANGED <<sessions, issued>>
       \/ /\ passwordOK
          /\ users[u].mfa_enabled /\ mfa # "good"
          /\ UNCHANGED <<users, sessions, issued>>
       \/ /\ passwordOK
          /\ users[u].mfa_enabled => mfa = "good"
          /\ Cardinality(issued \cup {Token(u)}) <= MaxTokens
          /\ users' = [users EXCEPT ![u].failed_attempts = 0]
          /\ sessions' = sessions \cup {Token(u)}
          /\ issued' = issued \cup {Token(u)}
    /\ UNCHANGED <<limiterVars, jwt_secret, role_assignments, forgiven>>

\* verify_session decodes the token with the secret of this process; it does
\* not look into self.sessions.
VerifySession(t) == t.secret = jwt_secret /\ now < t.exp

\* A bug to be caught: JWT_SECRET is loaded from storage (the comment beside
\* it says production would), while users are still kept in memory only.
RestartSameSecret ==
    /\ jwt_secret < MaxRestarts
    /\ LimiterRestart
    /\ users' = [u \in Clients |-> None]
    /\ sessions' = {}
    /\ role_assignments' = [u \in Clients |-> None]
    /\ \A u \in Clients : forgiven[u] < MaxRestarts + MaxResets
    /\ forgiven' = [u \in Clients |-> forgiven[u] + 1]
    /\ UNCHANGED <<issued, jwt_secret>>

\* A restarted process knows no users, roles or buckets and draws a new JWT_SECRET
\* (a class attribute: once per process, which has one OperatorAuthenticator); the
\* tokens operators hold are still theirs.
Restart ==
    /\ jwt_secret < MaxRestarts
    /\ LimiterRestart
    /\ users' = [u \in Clients |-> None]
    /\ jwt_secret' = jwt_secret + 1
    /\ sessions' = {}
    /\ role_assignments' = [u \in Clients |-> None]
    /\ forgiven' = [u \in Clients |-> forgiven[u] + 1]
    /\ UNCHANGED issued

--------------------------------------------------------------------------------
\* RBACManager

Sensitivities == {"LOW", "MEDIUM", "HIGH"}
Resources ==
    {"config", "device", "controller", "audit_log", "approval", "execution_token",
     "backup", "discovery_report", "key_material", "user_account"}
Actions ==
    {"create", "read", "update", "delete", "approve", "reject", "execute",
     "rollback", "validate"}

Any == Sensitivities    \* a permission without conditions

Perm(action, resource, sensitivities) ==
    [resource |-> resource, action |-> action, sensitivities |-> sensitivities]

\* _initialize_default_roles.  Permissions of one role on one resource and
\* action that differ in their 'sensitivity' condition only are one entry.
Permissions(role) ==
    CASE role = "global_controller" ->
            {Perm("validate", "controller", Any), Perm("approve", "config", Any),
             Perm("create", "execution_token", Any), Perm("read", "audit_log", Any),
             Perm("read", "device", Any), Perm("create", "key_material", Any),
             Perm("read", "key_material", Any)}
      [] role = "regional_controller" ->
            {Perm("validate", "controller", Any), Perm("approve", "config", {"MEDIUM", "LOW"}),
             Perm("create", "execution_token", Any), Perm("read", "audit_log", Any),
             Perm("read", "device", Any), Perm("read", "discovery_report", Any)}
      [] role = "local_controller" ->
            {Perm("create", "config", Any), Perm("approve", "config", {"LOW"}),
             Perm("execute", "config", Any), Perm("rollback", "config", Any),
             Perm("create", "backup", Any), Perm("read", "backup", Any),
             Perm("create", "discovery_report", Any),
             Perm("read", "device", Any), Perm("update", "device", Any)}
      [] role = "global_admin" ->
            {Perm(a, r, Any) : a \in Actions, r \in Resources}
      [] role = "regional_admin" ->
            {Perm("create", "config", Any), Perm("read", "config", Any),
             Perm("approve", "config", {"MEDIUM", "LOW"}), Perm("read", "audit_log", Any),
             Perm("read", "device", Any), Perm("update", "device", Any),
             Perm("read", "controller", Any),
             Perm("create", "backup", Any), Perm("read", "backup", Any)}
      [] role = "local_operator" ->
            {Perm("create", "config", {"LOW"}), Perm("read", "config", Any),
             Perm("read", "device", Any), Perm("read", "audit_log", Any)}
      [] role = "viewer" ->
            {Perm("read", r, Any) : r \in {"config", "device", "audit_log", "controller"}}
      [] role = "api_client" ->
            {Perm("create", "config", Any)}
                \cup {Perm("read", r, Any) : r \in {"config", "device", "audit_log"}}
      [] role = "api_client_readonly" ->
            {Perm("read", r, Any) : r \in {"config", "device", "audit_log"}}

\* Permission.matches.  Conditions count only when the caller gives a context
\* (a sensitivity); without one every condition is taken as met.
Matches(perm, resource, action, sensitivity) ==
    /\ perm.resource = resource
    /\ perm.action = action
    /\ sensitivity # None => sensitivity \in perm.sensitivities

\* check_permission
CheckPermission(u, resource, action, sensitivity) ==
    IF role_assignments[u] = None THEN FALSE
    ELSE \E perm \in Permissions(role_assignments[u]) :
            Matches(perm, resource, action, sensitivity)

\* A bug to be caught: the sensitivity is not handed on.
CanApproveConfigNoContext(u, sensitivity) == CheckPermission(u, "config", "approve", None)

\* can_approve_config always gives the sensitivity.
CanApproveConfig(u, sensitivity) == CheckPermission(u, "config", "approve", sensitivity)

\* The controllers' roles and the word that tells them in a controller's id.
Tier == [role \in {"global_controller", "regional_controller", "local_controller"} |->
            CASE role = "global_controller" -> "global"
              [] role = "regional_controller" -> "regional"
              [] OTHER -> "local"]

\* approval_engine.py _can_approve
EngineCanApprove(tier, sensitivity) ==
    \/ sensitivity = "LOW"
    \/ sensitivity = "MEDIUM" /\ tier \in {"regional", "global"}
    \/ sensitivity = "HIGH" /\ tier = "global"

\* assign_role replaces any earlier role.
AssignRole(u, role) ==
    /\ role_assignments[u] # role
    /\ role_assignments' = [role_assignments EXCEPT ![u] = role]
    /\ UNCHANGED <<limiterVars, authVars, forgiven>>

--------------------------------------------------------------------------------

\* The limiter's operations.  An attempt during a lock-out is answered at once and
\* changes nothing.
LimiterStep ==
    \/ /\ now < MaxTime
       /\ Tick
       /\ UNCHANGED forgiven
    \/ \E u \in Clients :
        \/ CountedAttempt(u) /\ UNCHANGED forgiven
        \/ GetRemaining(u) /\ UNCHANGED forgiven
        \/ /\ forgiven[u] < MaxResets
           /\ ResetClient(u)
           /\ forgiven' = [forgiven EXCEPT ![u] = @ + 1]
    \/ CleanupOldBuckets /\ UNCHANGED forgiven

ANext ==
    \/ LimiterStep /\ UNCHANGED <<authVars, role_assignments>>
    \/ \E u \in Clients, role \in UserRoles, mfa \in BOOLEAN : CreateUser(u, role, mfa)
    \/ \E u \in Clients, passwordOK \in BOOLEAN, mfa \in {"none", "bad", "good"} :
            Authenticate(u, passwordOK, mfa)
    \/ \E u \in Clients, role \in AssignedRoles : AssignRole(u, role)
    \/ Restart

ASpec == AInit /\ [][ANext]_avars

--------------------------------------------------------------------------------
\* Properties

Meter == INSTANCE RateMeter WITH debt <- [c \in Clients |-> Debt(c)]

\* rate_limiter.py: lazily refilled buckets, dropped when idle, with lock-outs
\* and resets on top, answer exactly as a meter that is kept up to date all
\* the time: dropping a bucket or ending a lock-out hands out nothing extra;
\* only the counted resets and restarts do.
MeterImplemented == Meter!Spec

\* auth.py verify_session, which trusts the token alone: every token it would
\* accept names an account of this process, with that account's role, and runs
\* out within a session lifetime, also after a restart in which the account was
\* created anew.
SessionSound ==
    \A t \in issued : VerifySession(t) =>
        /\ users[t.username] # None
        /\ users[t.username].role = t.role
        /\ t.exp <= now + SessionLifetime

\* rbac.py and config/approval_engine.py keep two tables of who may approve what:
\* for a controller, the role assigned to it allows an approval exactly when the
\* engine, which reads the tier off the controller's id, would.
AuthoritiesAgree ==
    \A u \in Clients, s \in Sensitivities :
        LET role == role_assignments[u]
        IN  role \in DOMAIN Tier => (CanApproveConfig(u, s) <=> EngineCanApprove(Tier[role], s))

================================================================================
