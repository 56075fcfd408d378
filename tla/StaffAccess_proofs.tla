-------------------------- MODULE StaffAccess_proofs --------------------------
(***************************************************************************)
(* The safety of the back-office accounts for any number of admins,        *)
(* accounts, tenants, sessions and requests in flight.                     *)
(***************************************************************************)
EXTENDS StaffAccess, TLAPS

\* What a request under way holds: the account and the version that it verified, and
\* a session that is spent once the request is about to create the next one.
HandlerOK ==
    \A p \in Procs :
        /\ pc[p] # "idle" => subject[p] \in Users
        /\ pc[p] \in {"revoke", "create"} => held[p] \in Versions
        /\ pc[p] = "revoke" => from[p] \in Sessions
        /\ pc[p] = "create" /\ from[p] # Null => session[from[p]] # "open"
        /\ pc[p] = "add" => group[p] \in groups

\* An open session is somebody's.
OpenHasOwner ==
    \A s \in Sessions : session[s] = "open" => owner[s] \in Users /\ proof[s] \in Versions

IInv ==
    /\ TypeOK
    /\ HandlerOK
    /\ OpenHasOwner
    /\ PasswordEndsSessions
    /\ ReplacedIsSpent

USE PasswordsAssumption, NullAssumption

\* What Enter and Done leave in a handler's locals.
LEMMA LocalsTyped ==
    ASSUME TypeOK, NEW p \in Procs,
           \/ Done(p)
           \/ \E step \in {"revoke", "create", "change", "reset", "add"}, u \in Users,
                 g \in groups \cup {Null}, v \in Versions \cup {Null}, s \in Sessions \cup {Null} :
                 Enter(p, step, u, g, v, s)
    PROVE  /\ pc' \in [Procs -> {"idle", "revoke", "create", "change", "reset", "add"}]
           /\ subject' \in [Procs -> Users \cup {Null}]
           /\ group' \in [Procs -> groups \cup {Null}]
           /\ held' \in [Procs -> Versions \cup {Null}]
           /\ from' \in [Procs -> Sessions \cup {Null}]
  BY DEF Done, Enter, TypeOK

\* Every step keeps the types.
LEMMA TypeStep == TypeOK /\ HandlerOK /\ OpenHasOwner /\ [Next]_vars => TypeOK'
<1> SUFFICES ASSUME TypeOK, HandlerOK, OpenHasOwner, [Next]_vars PROVE TypeOK'
  OBVIOUS
<1> USE DEF TypeOK, accounts, sessions, locals
<1>1. ASSUME NEW a \in Admins, NEW g \in Groups, NEW u \in Users, CreateMerchant(a, g, u)
      PROVE  TypeOK'
  BY <1>1 DEF CreateMerchant
<1>2. ASSUME NEW a \in Admins, NEW G \in SUBSET Groups, SetTenantAccess(a, G) PROVE TypeOK'
  BY <1>2 DEF SetTenantAccess
<1>3. ASSUME NEW p \in Procs, NEW a \in Admins, NEW g \in Groups, NEW u \in Users,
             CheckAddOperator(p, a, g, u) \/ CheckResetPassword(p, a, g, u)
      PROVE  TypeOK'
  BY <1>3, LocalsTyped DEF CheckAddOperator, CheckResetPassword, HasAccess
<1>4. ASSUME NEW u \in Users, Disable(u) \/ AccessExpires(u) PROVE TypeOK'
  BY <1>4 DEF Disable, AccessExpires
<1>5. ASSUME NEW s \in Sessions, Logout(s) \/ SessionExpires(s) PROVE TypeOK'
  BY <1>5 DEF Logout, SessionExpires
<1>6. ASSUME NEW p \in Procs, HandlerDies(p) PROVE TypeOK'
  BY <1>6, LocalsTyped DEF HandlerDies
<1>7. ASSUME NEW p \in Procs, AddOperator(p) PROVE TypeOK'
  <2>1. tenant' \in [Users -> groups \cup {Null}]
    BY <1>7 DEF AddOperator, HandlerOK
  <2> QED BY <1>7, <2>1, LocalsTyped DEF AddOperator
<1>8. ASSUME NEW p \in Procs, StorePassword(p) PROVE TypeOK'
  <2>1. password' \in [Users -> Versions]
    <3>1. subject[p] \in Users
      BY <1>8 DEF StorePassword, HandlerOK
    <3> QED BY <1>8, <3>1 DEF StorePassword, Versions
  <2> QED BY <1>8, <2>1, LocalsTyped DEF StorePassword
<1>9. ASSUME NEW p \in Procs, Revoke(p) PROVE TypeOK'
  BY <1>9 DEF Revoke
<1>10. ASSUME NEW p \in Procs, NEW u \in Users, CheckChangePassword(p, u) \/ Login(p, u)
       PROVE  TypeOK'
  BY <1>10, LocalsTyped DEF CheckChangePassword, Login
<1>11. ASSUME NEW p \in Procs, NEW s \in Sessions, CheckRefresh(p, s) PROVE TypeOK'
  BY <1>11, LocalsTyped DEF CheckRefresh, OpenHasOwner
<1>12. ASSUME NEW p \in Procs, NEW n \in Sessions, CreateSession(p, n) PROVE TypeOK'
  <2>1. subject[p] \in Users /\ held[p] \in Versions
    BY <1>12 DEF CreateSession, HandlerOK
  <2>2. parent' \in [Sessions -> Sessions \cup {Null}]
    BY <1>12 DEF CreateSession
  <2>3. late' \subseteq Sessions
    BY <1>12 DEF CreateSession
  <2> QED BY <1>12, <2>1, <2>2, <2>3, LocalsTyped DEF CreateSession
<1>13. CASE UNCHANGED vars
  BY <1>13 DEF vars
<1> QED
  BY <1>1, <1>2, <1>3, <1>4, <1>5, <1>6, <1>7, <1>8, <1>9, <1>10, <1>11, <1>12, <1>13 DEF Next

\* A request keeps what it holds while the others run: a row that it refers to is not
\* opened again.
LEMMA HandlerStep == TypeOK /\ HandlerOK /\ OpenHasOwner /\ [Next]_vars => HandlerOK'
<1> SUFFICES ASSUME TypeOK, HandlerOK, OpenHasOwner, [Next]_vars PROVE HandlerOK'
  OBVIOUS
<1> USE DEF TypeOK, HandlerOK, accounts, sessions, locals
<1>1. ASSUME NEW p \in Procs, Done(p), groups \subseteq groups',
             \A q \in Procs : from[q] # Null /\ session[from[q]] # "open" => session'[from[q]] # "open"
      PROVE  HandlerOK'
  BY <1>1 DEF Done
<1>2. ASSUME NEW p \in Procs, NEW step \in {"change", "reset", "add", "revoke"}, NEW u \in Users,
             NEW g \in groups \cup {Null}, NEW v \in Versions \cup {Null},
             NEW s \in Sessions \cup {Null}, Enter(p, step, u, g, v, s), UNCHANGED <<groups, session>>,
             step = "add" => g # Null,
             step = "revoke" => s # Null /\ v # Null
      PROVE  HandlerOK'
  BY <1>2 DEF Enter
<1>3. CASE /\ UNCHANGED locals /\ groups \subseteq groups'
           /\ \A s \in Sessions : session[s] # "open" => session'[s] # "open"
  BY <1>3
<1>4. ASSUME NEW a \in Admins, NEW g \in Groups, NEW u \in Users, CreateMerchant(a, g, u)
      PROVE  HandlerOK'
  BY <1>3, <1>4 DEF CreateMerchant
<1>5. ASSUME NEW a \in Admins, NEW G \in SUBSET Groups, SetTenantAccess(a, G) PROVE HandlerOK'
  BY <1>3, <1>5 DEF SetTenantAccess
<1>6. ASSUME NEW p \in Procs, NEW a \in Admins, NEW g \in Groups, NEW u \in Users,
             CheckAddOperator(p, a, g, u) \/ CheckResetPassword(p, a, g, u)
      PROVE  HandlerOK'
  BY <1>2, <1>6 DEF CheckAddOperator, CheckResetPassword, HasAccess
<1>7. ASSUME NEW u \in Users, Disable(u) \/ AccessExpires(u) PROVE HandlerOK'
  BY <1>3, <1>7 DEF Disable, AccessExpires
<1>8. ASSUME NEW s \in Sessions, Logout(s) \/ SessionExpires(s) PROVE HandlerOK'
  BY <1>3, <1>8 DEF Logout, SessionExpires
<1>9. ASSUME NEW p \in Procs, HandlerDies(p) \/ AddOperator(p) PROVE HandlerOK'
  BY <1>1, <1>9 DEF HandlerDies, AddOperator
<1>10. ASSUME NEW p \in Procs, StorePassword(p) PROVE HandlerOK'
  BY <1>1, <1>10 DEF StorePassword
<1>11. ASSUME NEW p \in Procs, Revoke(p) PROVE HandlerOK'
  BY <1>11 DEF Revoke
<1>12. ASSUME NEW p \in Procs, NEW u \in Users, CheckChangePassword(p, u) PROVE HandlerOK'
  BY <1>2, <1>12 DEF CheckChangePassword
<1>13. ASSUME NEW p \in Procs, NEW u \in Users, Login(p, u) PROVE HandlerOK'
  BY <1>13 DEF Login, Enter
<1>14. ASSUME NEW p \in Procs, NEW s \in Sessions, CheckRefresh(p, s) PROVE HandlerOK'
  <2>1. owner[s] \in Users /\ proof[s] \in Versions /\ proof[s] # Null
    BY <1>14 DEF CheckRefresh, OpenHasOwner, Versions
  <2> QED BY <1>2, <1>14, <2>1 DEF CheckRefresh
<1>15. ASSUME NEW p \in Procs, NEW n \in Sessions, CreateSession(p, n) PROVE HandlerOK'
  BY <1>1, <1>15 DEF CreateSession
<1>16. CASE UNCHANGED vars
  BY <1>3, <1>16 DEF vars
<1> QED
  BY <1>4, <1>5, <1>6, <1>7, <1>8, <1>9, <1>10, <1>11, <1>12, <1>13, <1>14, <1>15, <1>16 DEF Next

\* The three facts about sessions: only CreateSession opens one, and StorePassword,
\* the only step that changes a password, closes every session of the account.
LEMMA SessionStep ==
    TypeOK /\ HandlerOK /\ OpenHasOwner /\ PasswordEndsSessions /\ ReplacedIsSpent /\ [Next]_vars
        => OpenHasOwner' /\ PasswordEndsSessions' /\ ReplacedIsSpent'
<1> SUFFICES ASSUME TypeOK, HandlerOK, OpenHasOwner, PasswordEndsSessions, ReplacedIsSpent, [Next]_vars
             PROVE  OpenHasOwner' /\ PasswordEndsSessions' /\ ReplacedIsSpent'
  OBVIOUS
<1> USE DEF TypeOK, OpenHasOwner, PasswordEndsSessions, ReplacedIsSpent
<1> DEFINE Goal == OpenHasOwner' /\ PasswordEndsSessions' /\ ReplacedIsSpent'
<1>1. CASE /\ UNCHANGED <<password, owner, proof, parent, late>>
           /\ \A s \in Sessions : session'[s] = "open" => session[s] = "open"
  BY <1>1
<1>2. ASSUME NEW p \in Procs, StorePassword(p) PROVE Goal
  <2>1. \A s \in Sessions : session'[s] = "open" => session[s] = "open" /\ owner[s] # subject[p]
    BY <1>2 DEF StorePassword
  <2>2. \A u \in Users : u # subject[p] => password'[u] = password[u]
    BY <1>2 DEF StorePassword
  <2>3. UNCHANGED <<owner, proof, parent, late>>
    BY <1>2 DEF StorePassword
  <2> QED BY <2>1, <2>2, <2>3
<1>3. ASSUME NEW p \in Procs, NEW n \in Sessions, CreateSession(p, n) PROVE Goal
  <2>1. subject[p] \in Users /\ held[p] \in Versions
    BY <1>3 DEF CreateSession, HandlerOK
  <2>2. \A s \in Sessions : s # n => /\ session'[s] = session[s] /\ owner'[s] = owner[s]
                                     /\ proof'[s] = proof[s]
                                     /\ s \in late' <=> s \in late
    BY <1>3 DEF CreateSession
  <2>3. /\ session'[n] = "open" /\ owner'[n] = subject[p] /\ proof'[n] = held[p]
        /\ held[p] # password[subject[p]] => n \in late'
    BY <1>3 DEF CreateSession
  <2>4. UNCHANGED password
    BY <1>3 DEF CreateSession, accounts
  <2>5. OpenHasOwner' /\ PasswordEndsSessions'
    BY <2>1, <2>2, <2>3, <2>4
  <2>6. ASSUME NEW s \in Sessions, parent'[s] # Null PROVE session'[parent'[s]] # "open"
    <3>1. CASE s = n
      BY <1>3, <2>2, <2>6, <3>1 DEF CreateSession, HandlerOK
    <3>2. CASE s # n
      BY <1>3, <2>2, <2>6, <3>2 DEF CreateSession
    <3> QED BY <3>1, <3>2
  <2> QED BY <2>5, <2>6
<1>4. ASSUME NEW a \in Admins,
             \/ \E g \in Groups, u \in Users : CreateMerchant(a, g, u)
             \/ \E G \in SUBSET Groups : SetTenantAccess(a, G)
             \/ \E p \in Procs, g \in Groups, u \in Users :
                   CheckAddOperator(p, a, g, u) \/ CheckResetPassword(p, a, g, u)
      PROVE  Goal
  BY <1>1, <1>4 DEF CreateMerchant, SetTenantAccess, CheckAddOperator, CheckResetPassword,
     accounts, sessions
<1>5. ASSUME NEW u \in Users, Disable(u) \/ AccessExpires(u) PROVE Goal
  BY <1>1, <1>5 DEF Disable, AccessExpires, accounts, sessions
<1>6. ASSUME NEW s \in Sessions, Logout(s) \/ SessionExpires(s) PROVE Goal
  BY <1>1, <1>6 DEF Logout, SessionExpires, accounts, sessions
<1>7. ASSUME NEW p \in Procs,
             \/ HandlerDies(p) \/ AddOperator(p)
             \/ \E u \in Users : CheckChangePassword(p, u) \/ Login(p, u)
             \/ \E s \in Sessions : CheckRefresh(p, s)
      PROVE  Goal
  BY <1>1, <1>7 DEF HandlerDies, AddOperator, CheckChangePassword, Login, CheckRefresh,
     accounts, sessions
<1>8. ASSUME NEW p \in Procs, Revoke(p) PROVE Goal
  BY <1>1, <1>8 DEF Revoke, accounts
<1>9. CASE UNCHANGED vars
  BY <1>1, <1>9 DEF vars, accounts, sessions
<1> QED
  BY <1>2, <1>3, <1>4, <1>5, <1>6, <1>7, <1>8, <1>9 DEF Next

\* The inductive invariant holds in every state of the back office.
THEOREM Invariance == Spec => []IInv
<1>1. Init => IInv
  BY DEF Init, IInv, TypeOK, HandlerOK, OpenHasOwner, PasswordEndsSessions, ReplacedIsSpent,
     Versions
<1>2. IInv /\ [Next]_vars => IInv'
  BY TypeStep, HandlerStep, SessionStep DEF IInv
<1> QED BY <1>1, <1>2, PTL DEF Spec

\* Type correctness: a grant, an account and a request name tenants that exist.
THEOREM TypeCorrect == Spec => []TypeOK
<1>1. IInv => TypeOK
  BY DEF IInv
<1> QED BY <1>1, Invariance, PTL

\* A new password leaves only sessions of requests that overlapped with its change.
THEOREM PasswordCuts == Spec => []PasswordEndsSessions
<1>1. IInv => PasswordEndsSessions
  BY DEF IInv
<1> QED BY <1>1, Invariance, PTL

\* Rotation of refresh tokens: the replaced one is spent.
THEOREM RotationSpends == Spec => []ReplacedIsSpent
<1>1. IInv => ReplacedIsSpent
  BY DEF IInv
<1> QED BY <1>1, Invariance, PTL

=============================================================================
