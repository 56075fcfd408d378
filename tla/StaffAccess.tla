----------------------------- MODULE StaffAccess -----------------------------
(***************************************************************************)
(* Back-office accounts: a platform admin creates merchants with their     *)
(* first operator, adds operators and resets their passwords within the    *)
(* tenants granted to the admin; operators log in, rotate their refresh    *)
(* token, change their password and log out.  Every query or transaction   *)
(* of a request is a step; an access token is valid until it expires,      *)
(* whatever happens to the account.                                        *)
(*                                                                         *)
(* A user stands for an account row and its unique email, a password for   *)
(* its version.  Roles and tenant of an account never change.              *)
(***************************************************************************)
EXTENDS Integers

CONSTANTS
    Admins,       \* platform admins; a super admin is not in this set
    Users,        \* operator accounts
    Groups,       \* casino groups
    Procs,        \* handlers of requests
    Null,
    Sessions,     \* session rows; a closed row that no request refers to can be a new one
    MaxPasswords  \* bound on the passwords of one account

ASSUME PasswordsAssumption == MaxPasswords \in Nat \ {0}
ASSUME NullAssumption == Null \notin Groups /\ Null \notin Users /\ Null \notin Sessions /\ Null \notin Nat

VARIABLES
    groups,    \* CasinoGroup rows
    grants,    \* StaffCasinoGroupAccess rows: pairs of admin and group
    tenant,    \* per user: StaffUser.casinoGroupId, Null before the row exists
    status,    \* per user: StaffUser.status
    password,  \* per user: version of passwordHash
    session,   \* per session: the StaffSession row; closed when revoked or past expiresAt
    owner,     \* per session: its user
    proof,     \* per session: the password version that it goes back to (history)
    parent,    \* per session: the session that it replaced (history)
    late,      \* sessions created after that password was replaced (history)
    access,    \* users with an access token that has not expired
    pc,        \* per handler: its next step
    subject,   \* per handler: the user that its request is about
    group,     \* per handler: the group of a request of an admin
    held,      \* per handler: the password version that it has verified
    from       \* per handler: the session that it refreshes

accounts == <<groups, grants, tenant, status, password>>
sessions == <<session, owner, proof, parent, late>>
locals == <<pc, subject, group, held, from>>
vars == <<accounts, sessions, access, locals>>

Versions == 1..MaxPasswords

TypeOK ==
    /\ groups \subseteq Groups
    /\ grants \subseteq Admins \X groups
    /\ tenant \in [Users -> groups \cup {Null}]
    /\ status \in [Users -> {"ACTIVE", "DISABLED"}]
    /\ password \in [Users -> Versions]
    /\ session \in [Sessions -> {"none", "open", "closed", "deleted"}]
    /\ owner \in [Sessions -> Users \cup {Null}]
    /\ proof \in [Sessions -> Versions \cup {Null}]
    /\ parent \in [Sessions -> Sessions \cup {Null}]
    /\ late \subseteq Sessions
    /\ access \subseteq Users
    /\ pc \in [Procs -> {"idle", "revoke", "create", "change", "reset", "add"}]
    /\ subject \in [Procs -> Users \cup {Null}]
    /\ group \in [Procs -> groups \cup {Null}]
    /\ held \in [Procs -> Versions \cup {Null}]
    /\ from \in [Procs -> Sessions \cup {Null}]

Init ==
    /\ groups = {} /\ grants = {}
    /\ tenant = [u \in Users |-> Null]
    /\ status = [u \in Users |-> "ACTIVE"]
    /\ password = [u \in Users |-> 1]
    /\ session = [s \in Sessions |-> "none"]
    /\ owner = [s \in Sessions |-> Null]
    /\ proof = [s \in Sessions |-> Null]
    /\ parent = [s \in Sessions |-> Null]
    /\ late = {}
    /\ access = {}
    /\ pc = [p \in Procs |-> "idle"]
    /\ subject = [p \in Procs |-> Null]
    /\ group = [p \in Procs |-> Null]
    /\ held = [p \in Procs |-> Null]
    /\ from = [p \in Procs |-> Null]

Exists(u) == tenant[u] # Null
ActiveUser(u) == Exists(u) /\ status[u] = "ACTIVE"

\* A request has passed its checks and goes on with what it has read.
Enter(p, step, u, g, version, s) ==
    /\ pc[p] = "idle"
    /\ pc' = [pc EXCEPT ![p] = step]
    /\ subject' = [subject EXCEPT ![p] = u]
    /\ group' = [group EXCEPT ![p] = g]
    /\ held' = [held EXCEPT ![p] = version]
    /\ from' = [from EXCEPT ![p] = s]

Done(p) ==
    /\ pc' = [pc EXCEPT ![p] = "idle"]
    /\ subject' = [subject EXCEPT ![p] = Null]
    /\ group' = [group EXCEPT ![p] = Null]
    /\ held' = [held EXCEPT ![p] = Null]
    /\ from' = [from EXCEPT ![p] = Null]

\* A crash, an error or an exception: what was written stays.
HandlerDies(p) ==
    /\ pc[p] # "idle"
    /\ Done(p)
    /\ UNCHANGED <<accounts, sessions, access>>

-----------------------------------------------------------------------------
(* Merchants, grants and operators                                         *)

\* createMerchant: one transaction, which a slug or an email in use undoes.
CreateMerchant(a, g, u) ==
    /\ g \notin groups /\ ~Exists(u)
    /\ groups' = groups \cup {g}
    /\ grants' = grants \cup {<<a, g>>}
    /\ tenant' = [tenant EXCEPT ![u] = g]
    /\ UNCHANGED <<status, password, sessions, access, locals>>

\* Faulty variant: the list of groups is not compared with the rows that exist.
SetAnyAccess(a, G) ==
    /\ grants' = {r \in grants : r[1] # a} \cup ({a} \X G)
    /\ UNCHANGED <<groups, tenant, status, password, sessions, access, locals>>

\* A super admin replaces the grants of an admin; an unknown group is refused.
SetTenantAccess(a, G) ==
    /\ G \subseteq groups
    /\ grants' = {r \in grants : r[1] # a} \cup ({a} \X G)
    /\ UNCHANGED <<groups, tenant, status, password, sessions, access, locals>>

\* assertCasinoGroupAccess of an admin.
HasAccess(a, g) == g \in groups /\ <<a, g>> \in grants

CheckAddOperator(p, a, g, u) ==
    /\ HasAccess(a, g)
    /\ Enter(p, "add", u, g, Null, Null)
    /\ UNCHANGED <<accounts, sessions, access>>

\* createOperatorAdmin; an email in use is refused by the unique index.
AddOperator(p) ==
    /\ pc[p] = "add"
    /\ tenant' = IF Exists(subject[p]) THEN tenant
                 ELSE [tenant EXCEPT ![subject[p]] = group[p]]
    /\ Done(p)
    /\ UNCHANGED <<groups, grants, status, password, sessions, access>>

CheckResetPassword(p, a, g, u) ==
    /\ HasAccess(a, g) /\ tenant[u] = g
    /\ Enter(p, "reset", u, g, Null, Null)
    /\ UNCHANGED <<accounts, sessions, access>>

\* Operations of the database administrator; no code disables an account.
Disable(u) ==
    /\ ActiveUser(u)
    /\ status' = [status EXCEPT ![u] = "DISABLED"]
    /\ UNCHANGED <<groups, grants, tenant, password, sessions, access, locals>>

-----------------------------------------------------------------------------
(* Passwords                                                               *)

\* changePassword reads the account and verifies the current password.
CheckChangePassword(p, u) ==
    /\ u \in access /\ ActiveUser(u)
    /\ Enter(p, "change", u, Null, password[u], Null)
    /\ UNCHANGED <<accounts, sessions, access>>

\* Faulty variant: the sessions stay.
StorePasswordOnly(p) ==
    /\ pc[p] \in {"change", "reset"}
    /\ password[subject[p]] < MaxPasswords
    /\ password' = [password EXCEPT ![subject[p]] = @ + 1]
    /\ Done(p)
    /\ UNCHANGED <<groups, grants, tenant, status, sessions, access>>

\* The transaction of changePassword and of updateOperatorAdmin: the new hash, and
\* all sessions of the account deleted.
StorePassword(p) ==
    /\ pc[p] \in {"change", "reset"}
    /\ password[subject[p]] < MaxPasswords
    /\ password' = [password EXCEPT ![subject[p]] = @ + 1]
    /\ session' = [s \in Sessions |-> IF owner[s] = subject[p] THEN "deleted" ELSE session[s]]
    /\ Done(p)
    /\ UNCHANGED <<groups, grants, tenant, status, owner, proof, parent, late, access>>

-----------------------------------------------------------------------------
(* Sessions                                                                *)

\* login: the account and its hash, which the presented password matches.
Login(p, u) ==
    /\ ActiveUser(u)
    /\ Enter(p, "create", u, Null, password[u], Null)
    /\ UNCHANGED <<accounts, sessions, access>>

\* Faulty variant: the status of the account is not looked at.
RefreshAnyone(p, s) ==
    /\ session[s] = "open"
    /\ Enter(p, "revoke", owner[s], Null, proof[s], s)
    /\ UNCHANGED <<accounts, sessions, access>>

\* refresh reads the session with its account.
CheckRefresh(p, s) ==
    /\ session[s] = "open"
    /\ ActiveUser(owner[s])
    /\ Enter(p, "revoke", owner[s], Null, proof[s], s)
    /\ UNCHANGED <<accounts, sessions, access>>

\* Faulty variant: the old session is left for later.
RevokeLater(p) ==
    /\ pc[p] = "revoke"
    /\ session[from[p]] # "deleted"
    /\ pc' = [pc EXCEPT ![p] = "create"]
    /\ UNCHANGED <<accounts, sessions, access, subject, group, held, from>>

\* The update by id fails when a password change has deleted the row.
Revoke(p) ==
    /\ pc[p] = "revoke"
    /\ session[from[p]] # "deleted"
    /\ session' = [session EXCEPT ![from[p]] = "closed"]
    /\ pc' = [pc EXCEPT ![p] = "create"]
    /\ UNCHANGED <<accounts, owner, proof, parent, late, access, subject, group, held, from>>

\* The new session and an access token with it, in login and in refresh.
CreateSession(p, n) ==
    /\ pc[p] = "create"
    /\ session[n] # "open" /\ \A q \in Procs : from[q] # n
    /\ session' = [session EXCEPT ![n] = "open"]
    /\ owner' = [owner EXCEPT ![n] = subject[p]]
    /\ proof' = [proof EXCEPT ![n] = held[p]]
    /\ parent' = [s \in Sessions |-> IF s = n THEN from[p]
                                     ELSE IF parent[s] = n THEN Null ELSE parent[s]]
    /\ late' = IF held[p] = password[subject[p]] THEN late \ {n} ELSE late \cup {n}
    /\ access' = access \cup {subject[p]}
    /\ Done(p)
    /\ UNCHANGED accounts

Logout(s) ==
    /\ session[s] = "open"
    /\ session' = [session EXCEPT ![s] = "closed"]
    /\ UNCHANGED <<accounts, owner, proof, parent, late, access, locals>>

\* Time: a refresh token and an access token are good for a while.
SessionExpires(s) ==
    /\ session[s] = "open"
    /\ session' = [session EXCEPT ![s] = "closed"]
    /\ UNCHANGED <<accounts, owner, proof, parent, late, access, locals>>

AccessExpires(u) ==
    /\ u \in access
    /\ access' = access \ {u}
    /\ UNCHANGED <<accounts, sessions, locals>>

Next ==
    \/ \E a \in Admins :
          \/ \E g \in Groups, u \in Users : CreateMerchant(a, g, u)
          \/ \E G \in SUBSET Groups : SetTenantAccess(a, G)
          \/ \E p \in Procs, g \in Groups, u \in Users :
                CheckAddOperator(p, a, g, u) \/ CheckResetPassword(p, a, g, u)
    \/ \E u \in Users : Disable(u) \/ AccessExpires(u)
    \/ \E s \in Sessions : Logout(s) \/ SessionExpires(s)
    \/ \E p \in Procs :
          \/ HandlerDies(p) \/ AddOperator(p) \/ StorePassword(p)
          \/ Revoke(p)
          \/ \E u \in Users : CheckChangePassword(p, u) \/ Login(p, u)
          \/ \E s \in Sessions : CheckRefresh(p, s) \/ CreateSession(p, s)

Spec == Init /\ [][Next]_vars

\* Fairness: time passes, so an access token expires.
FairSpec == Spec /\ \A u \in Users : WF_vars(AccessExpires(u))

-----------------------------------------------------------------------------

\* Whoever changes or resets a password ends the sessions of the account: an open
\* session that goes back to an older password was created after the change, by a
\* login or refresh that had begun before it.
PasswordEndsSessions ==
    \A s \in Sessions : session[s] = "open" /\ proof[s] # password[owner[s]] => s \in late

\* README, "Rotate tokens": when a refresh hands out a new token the old one is no
\* longer good, although requests with the same token overlap and die halfway.
ReplacedIsSpent ==
    \A s \in Sessions : parent[s] # Null => session[parent[s]] # "open"

\* A disabled account loses its access for good: its tokens expire and requests
\* that were under way can renew them only once.
DisabledLosesAccess ==
    \A u \in Users : status[u] = "DISABLED" ~> [](u \notin access)

=============================================================================
