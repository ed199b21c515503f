---------------------------- MODULE AccountsProofs ----------------------------
(***************************************************************************)
(* Theorems about Accounts, for any number of accounts, codes, computers   *)
(* and requests, and any limits.                                           *)
(***************************************************************************)
EXTENDS Accounts, FiniteSetTheorems, TLAPS

\* A code is locked by the registration that is about to consume it, and by no
\* other; a locked code is not used up.
CodeLockInv ==
  /\ \A r \in Registrations : rpc[r] = "locked" <=> codeLock[CodeOf[r]] = r
  /\ \A k \in Codes : codeLock[k] # Nobody =>
       CodeOf[codeLock[k]] = k /\ code[k] \in {"open", "expired"}

\* Who has registered with a code: nobody while it is unused, and one at most.
SpentInv ==
  /\ \A k \in Codes : code[k] \in {"none", "open", "expired"} => spent[k] = {}
  /\ \A k \in Codes : spent[k] = {} \/ \E u \in Users : spent[k] = {u}

InviteInv == TypeOK /\ CodeLockInv /\ SpentInv

\* The lock of an account is held by the request that counts its computers,
\* and the count is not too low.
CountInv ==
  /\ \A q \in Requests : qpc[q] \in {"locked", "read"} <=> userLock[UserOf(q)] = q
  /\ \A q \in Requests :
       qpc[q] = "read" => Cardinality(Bound(UserOf(q))) <= found[q].count

LimitInv == TypeOK /\ CountInv

\* The publisher of a room is a handler of its computer that serves.
PublisherServes ==
  \A k \in Clients : publisher[k] # Nobody =>
    /\ ClientOf[publisher[k]] = k
    /\ qpc[publisher[k]] = "serving"

\* A handler that has passed its check, and whose computer was revoked since.
CheckedOrRaced ==
  \A q \in Requests : qpc[q] = "checked" =>
    row[ClientOf[q]] = "bound" \/ q \in raced

RevokeInv == TypeOK /\ PublisherServes /\ CheckedOrRaced /\ RevokedLeaves

-----------------------------------------------------------------------------
\* A computer has one account, and the bound ones of an account are finitely
\* many.
LEMMA BoundFinite ==
  ASSUME NEW u
  PROVE  /\ IsFiniteSet(Bound(u))
         /\ Cardinality(Bound(u)) \in 0..Cardinality(Clients)
         /\ IsFiniteSet(Bound(u)')
         /\ Cardinality(Bound(u)') \in 0..Cardinality(Clients)
<1>1. Bound(u) \in SUBSET Clients /\ Bound(u)' \in SUBSET Clients
  BY DEF Bound
<1>2. IsFiniteSet(Bound(u)) /\ Cardinality(Bound(u)) <= Cardinality(Clients)
  BY <1>1, FS_Subset, AccountsAssumption
<1>3. IsFiniteSet(Bound(u)') /\ Cardinality(Bound(u)') <= Cardinality(Clients)
  BY <1>1, FS_Subset, AccountsAssumption
<1>4. Cardinality(Clients) \in Nat
  BY FS_CardinalityType, AccountsAssumption
<1> QED BY <1>2, <1>3, <1>4, FS_CardinalityType

LEMMA UserOfType ==
  ASSUME NEW q \in Requests
  PROVE  UserOf(q) \in Users /\ ClientOf[q] \in Clients
BY AccountsAssumption DEF UserOf

-----------------------------------------------------------------------------
\* Every variable keeps its type.
LEMMA TypeInit == Init => TypeOK
<1> SUFFICES ASSUME Init
             PROVE  TypeOK
  OBVIOUS
<1>1. 0 \in 0..Cardinality(Clients)
  BY FS_CardinalityType, AccountsAssumption
<1> QED BY <1>1, AccountsAssumption DEF Init, TypeOK

LEMMA TypeStep == TypeOK /\ [Next]_vars => TypeOK'
<1> SUFFICES ASSUME TypeOK, [Next]_vars
             PROVE  TypeOK'
  OBVIOUS
<1> USE AccountsAssumption DEF TypeOK, inviteVars, userVars, bindVars
<1>0. 0 \in 0..Cardinality(Clients)
  BY FS_CardinalityType
<1>1. ASSUME NEW k \in Codes, CreateInviteCode(k) \/ Expire(k) \/ DeleteInviteCode(k)
      PROVE  TypeOK'
  BY <1>1 DEF CreateInviteCode, Expire, DeleteInviteCode
<1>2. ASSUME NEW r \in Registrations, CheckCode(r) \/ LockCode(r)
      PROVE  TypeOK'
  BY <1>2 DEF CheckCode, LockCode
<1>3. ASSUME NEW r \in Registrations, Register(r)
      PROVE  TypeOK'
  <2>1. CodeOf[r] \in Codes /\ NameOf[r] \in Users
    OBVIOUS
  <2>2. spent' \in [Codes -> SUBSET Users] /\ accounts' \subseteq Users
    BY <1>3, <2>1 DEF Register
  <2> QED BY <1>3, <2>2 DEF Register
<1>4. ASSUME NEW r \in Registrations, RegistrationRefused(r)
      PROVE  TypeOK'
  BY <1>4 DEF RegistrationRefused
<1>5. ASSUME NEW u \in Users, NEW n \in Limits, SetClientLimit(u, n)
      PROVE  TypeOK'
  BY <1>5 DEF SetClientLimit
<1>6. ASSUME NEW u \in Users, NEW status \in BOOLEAN, SetUserStatus(u, status)
      PROVE  TypeOK'
  BY <1>6 DEF SetUserStatus
<1>7. ASSUME NEW q \in Requests, LockUser(q)
      PROVE  TypeOK'
  BY <1>7 DEF LockUser
<1>8. ASSUME NEW q \in Requests, ReadRows(q)
      PROVE  TypeOK'
  <2>1. Cardinality(Bound(UserOf(q))) \in 0..Cardinality(Clients)
    BY BoundFinite
  <2>2. row[ClientOf[q]] \in {"none", "bound", "revoked"}
    OBVIOUS
  <2> QED BY <1>8, <2>1, <2>2 DEF ReadRows
<1>9. ASSUME NEW q \in Requests, Ensured(q)
      PROVE  /\ userLock' \in [Users -> Requests \cup {Nobody}]
             /\ found' \in [Requests -> [row : {"none", "bound", "revoked"},
                                         count : 0..Cardinality(Clients)]]
             /\ qpc' \in [Requests -> {"idle", "locked", "read", "checked", "serving"}]
  BY <1>9, <1>0 DEF Ensured, Unlocked
<1>10. ASSUME NEW q \in Requests, FoundBound(q)
       PROVE  TypeOK'
  BY <1>10, <1>9 DEF FoundBound, Ensured
<1>11. ASSUME NEW q \in Requests, Bind(q)
       PROVE  TypeOK'
  BY <1>11, <1>9 DEF Bind, Ensured
<1>12. ASSUME NEW q \in Requests, EnsureRefused(q)
       PROVE  TypeOK'
  BY <1>12, <1>0 DEF EnsureRefused, Unlocked
<1>13. ASSUME NEW q \in Requests, AttachDevice(q) \/ Detach(q)
       PROVE  TypeOK'
  <2>1. CASE AttachDevice(q)
    BY <2>1 DEF AttachDevice
  <2>2. CASE Detach(q)
    <3>1. publisher' \in [Clients -> Requests \cup {Nobody}]
      BY <2>2 DEF Detach
    <3>2. qpc' \in [Requests -> {"idle", "locked", "read", "checked", "serving"}]
      BY <2>2 DEF Detach
    <3> QED BY <2>2, <3>1, <3>2 DEF Detach
  <2> QED BY <1>13, <2>1, <2>2
<1>14. ASSUME NEW k \in Clients, RevokeRow(k)
       PROVE  TypeOK'
  BY <1>14 DEF RevokeRow
<1>15. ASSUME NEW k \in Clients, DisconnectDevice(k) \/ KickDevice(k)
       PROVE  TypeOK'
  BY <1>15 DEF DisconnectDevice, KickDevice, ToldBy
<1>16. ASSUME UNCHANGED vars
       PROVE  TypeOK'
  BY <1>16 DEF vars
<1> QED BY <1>1, <1>2, <1>3, <1>4, <1>5, <1>6, <1>7, <1>8, <1>10, <1>11, <1>12,
           <1>13, <1>14, <1>15, <1>16 DEF Next

\* Every reachable state has the types of the rows and of the handlers, for any
\* number of accounts and computers.
THEOREM AccountsTypeOK == Spec => []TypeOK
<1> QED BY TypeInit, TypeStep, PTL DEF Spec

-----------------------------------------------------------------------------
\* The invite codes.
LEMMA InviteInit == Init => InviteInv
<1> SUFFICES ASSUME Init
             PROVE  InviteInv
  OBVIOUS
<1>1. TypeOK
  BY TypeInit
<1>2. \A r \in Registrations : rpc[r] # "locked" /\ codeLock[CodeOf[r]] = Nobody
  BY AccountsAssumption DEF Init
<1>3. CodeLockInv
  BY <1>2, AccountsAssumption DEF Init, CodeLockInv
<1>4. SpentInv
  BY DEF Init, SpentInv
<1> QED BY <1>1, <1>3, <1>4 DEF InviteInv

LEMMA InviteStep == InviteInv /\ [Next]_vars => InviteInv'
<1> SUFFICES ASSUME InviteInv, [Next]_vars
             PROVE  InviteInv'
  OBVIOUS
<1>a. TypeOK'
  BY TypeStep DEF InviteInv
<1> USE AccountsAssumption DEF InviteInv, TypeOK, CodeLockInv, SpentInv
<1>1. ASSUME NEW k \in Codes, CreateInviteCode(k) \/ Expire(k)
      PROVE  InviteInv'
  <2>1. /\ code[k] = "none" => codeLock[k] = Nobody
        /\ \/ code' = [code EXCEPT ![k] = "open"] /\ code[k] = "none"
           \/ code' = [code EXCEPT ![k] = "expired"] /\ code[k] = "open"
        /\ UNCHANGED <<codeLock, rpc, spent>>
    BY <1>1 DEF CreateInviteCode, Expire
  <2>2. CodeLockInv'
    BY <2>1
  <2>3. SpentInv'
    BY <2>1
  <2> QED BY <1>a, <2>2, <2>3
<1>2. ASSUME NEW k \in Codes, DeleteInviteCode(k)
      PROVE  InviteInv'
  BY <1>a, <1>2 DEF DeleteInviteCode
<1>3. ASSUME NEW r \in Registrations, CheckCode(r)
      PROVE  InviteInv'
  BY <1>a, <1>3 DEF CheckCode
<1>4. ASSUME NEW r \in Registrations, LockCode(r)
      PROVE  InviteInv'
  <2>1. CodeLockInv'
    BY <1>4 DEF LockCode, CodeLockable
  <2>2. SpentInv'
    BY <1>4 DEF LockCode
  <2> QED BY <1>a, <2>1, <2>2
<1>5. ASSUME NEW r \in Registrations, Register(r)
      PROVE  InviteInv'
  <2>1. /\ codeLock[CodeOf[r]] = r /\ spent[CodeOf[r]] = {}
        /\ CodeOf[r] \in Codes /\ NameOf[r] \in Users
    BY <1>5 DEF Register
  <2>2. CodeLockInv'
    BY <1>5, <2>1 DEF Register
  <2>3. spent'[CodeOf[r]] = {NameOf[r]}
    BY <1>5, <2>1 DEF Register
  <2>4. SpentInv'
    BY <1>5, <2>1, <2>3 DEF Register
  <2> QED BY <1>a, <2>2, <2>4
<1>6. ASSUME NEW r \in Registrations, RegistrationRefused(r)
      PROVE  InviteInv'
  <2>1. CodeLockInv'
    BY <1>6 DEF RegistrationRefused
  <2>2. SpentInv'
    BY <1>6 DEF RegistrationRefused
  <2> QED BY <1>a, <2>1, <2>2
<1>7. ASSUME UNCHANGED inviteVars
      PROVE  InviteInv'
  BY <1>a, <1>7 DEF inviteVars
<1>8. ASSUME \/ \E u \in Users :
                  \/ \E n \in Limits : SetClientLimit(u, n)
                  \/ \E status \in BOOLEAN : SetUserStatus(u, status)
             \/ \E q \in Requests :
                  \/ LockUser(q) \/ ReadRows(q) \/ FoundBound(q) \/ Bind(q)
                  \/ EnsureRefused(q) \/ AttachDevice(q) \/ Detach(q)
             \/ \E k \in Clients : RevokeRow(k) \/ DisconnectDevice(k) \/ KickDevice(k)
             \/ UNCHANGED vars
      PROVE  UNCHANGED inviteVars
  BY <1>8 DEF vars, SetClientLimit, SetUserStatus, LockUser, ReadRows, FoundBound,
              Bind, Ensured, EnsureRefused, AttachDevice, Detach, RevokeRow,
              DisconnectDevice, KickDevice
<1> QED BY <1>1, <1>2, <1>3, <1>4, <1>5, <1>6, <1>7, <1>8 DEF Next

\* An invite code registers one account, however registrations, expiries and
\* deletions overlap (handleRegister).
THEOREM InviteUsedOnce == Spec => []InviteOnce
<1>1. InviteInv => InviteOnce
  <2> SUFFICES ASSUME InviteInv, NEW k \in Codes
               PROVE  Cardinality(spent[k]) <= 1
    BY DEF InviteOnce
  <2>1. spent[k] = {} \/ \E u \in Users : spent[k] = {u}
    BY DEF InviteInv, SpentInv
  <2> QED BY <2>1, FS_EmptySet, FS_Singleton
<1> QED BY <1>1, InviteInit, InviteStep, PTL DEF Spec

-----------------------------------------------------------------------------
\* The limit.
LEMMA LimitInit == Init => LimitInv
<1> SUFFICES ASSUME Init
             PROVE  LimitInv
  OBVIOUS
<1>1. TypeOK
  BY TypeInit
<1>2. CountInv
  BY UserOfType, AccountsAssumption DEF Init, CountInv
<1> QED BY <1>1, <1>2 DEF LimitInv

\* The requests that count the computers of an account exclude each other.
LEMMA OneCounts ==
  ASSUME LimitInv, NEW q \in Requests, NEW p \in Requests,
         qpc[q] \in {"locked", "read"}, qpc[p] \in {"locked", "read"},
         UserOf(p) = UserOf(q)
  PROVE  p = q
BY DEF LimitInv, CountInv

\* What releasing the lock of an account does to the locks.
LEMMA Release ==
  ASSUME LimitInv, NEW q \in Requests, qpc[q] \in {"locked", "read"},
         userLock' = Unlocked(q), NEW p \in Requests, p # q
  PROVE  /\ userLock'[UserOf(q)] # q
         /\ userLock'[UserOf(p)] = p <=> userLock[UserOf(p)] = p
<1>1. UserOf(q) \in Users /\ UserOf(p) \in Users
  BY UserOfType
<1> QED BY <1>1, AccountsAssumption DEF Unlocked, LimitInv, TypeOK

LEMMA LimitStep == LimitInv /\ [Next]_vars => LimitInv'
<1> SUFFICES ASSUME LimitInv, [Next]_vars
             PROVE  LimitInv'
  OBVIOUS
<1>a. TypeOK'
  BY TypeStep DEF LimitInv
<1>b. ASSUME NEW q \in Requests
      PROVE  UserOf(q) \in Users /\ UserOf(q)' = UserOf(q)
  BY UserOfType DEF UserOf
<1>1. ASSUME UNCHANGED <<userLock, row, qpc, found>>
      PROVE  LimitInv'
  <2>1. \A u : Bound(u)' = Bound(u)
    BY <1>1 DEF Bound
  <2> QED BY <1>a, <1>b, <1>1, <2>1 DEF LimitInv, CountInv
<1>2. ASSUME NEW q \in Requests, LockUser(q)
      PROVE  LimitInv'
  <2>1. \A u : Bound(u)' = Bound(u)
    BY <1>2 DEF LockUser, Bound
  <2>2. ASSUME NEW p \in Requests
        PROVE  (qpc[p] \in {"locked", "read"} <=> userLock[UserOf(p)] = p)'
    <3>1. CASE p = q
      BY <1>b, <1>2, <3>1 DEF LockUser, LimitInv, TypeOK
    <3>2. CASE p # q
      BY <1>b, <1>2, <3>2, AccountsAssumption
      DEF LockUser, UserLockable, LimitInv, CountInv, TypeOK
    <3> QED BY <3>1, <3>2
  <2>3. ASSUME NEW p \in Requests, qpc'[p] = "read"
        PROVE  Cardinality(Bound(UserOf(p))') <= found'[p].count
    BY <1>b, <1>2, <2>1, <2>3 DEF LockUser, LimitInv, CountInv, TypeOK
  <2> QED BY <1>a, <1>b, <2>2, <2>3 DEF LimitInv, CountInv
<1>3. ASSUME NEW q \in Requests, ReadRows(q)
      PROVE  LimitInv'
  <2>1. \A u : Bound(u)' = Bound(u)
    BY <1>3 DEF ReadRows, Bound
  <2>2. ASSUME NEW p \in Requests
        PROVE  (qpc[p] \in {"locked", "read"} <=> userLock[UserOf(p)] = p)'
    BY <1>b, <1>3 DEF ReadRows, LimitInv, CountInv, TypeOK
  <2>3. ASSUME NEW p \in Requests, qpc'[p] = "read"
        PROVE  Cardinality(Bound(UserOf(p))') <= found'[p].count
    <3>1. Cardinality(Bound(UserOf(p))) \in Nat
      BY BoundFinite
    <3> QED BY <1>b, <1>3, <2>1, <2>3, <3>1 DEF ReadRows, LimitInv, CountInv, TypeOK
  <2> QED BY <1>a, <1>b, <2>2, <2>3 DEF LimitInv, CountInv
<1>4. ASSUME NEW q \in Requests, qpc[q] \in {"locked", "read"},
             userLock' = Unlocked(q),
             NEW pc \in {"idle", "checked"}, qpc' = [qpc EXCEPT ![q] = pc]
      PROVE  \A p \in Requests :
               qpc'[p] \in {"locked", "read"} <=> userLock'[UserOf(p)] = p
  <2> SUFFICES ASSUME NEW p \in Requests
               PROVE  qpc'[p] \in {"locked", "read"} <=> userLock'[UserOf(p)] = p
    OBVIOUS
  <2>1. CASE p = q
    BY <1>4, <2>1, <1>b, AccountsAssumption DEF LimitInv, TypeOK, Unlocked
  <2>2. CASE p # q
    BY <1>4, <2>2, Release DEF LimitInv, CountInv, TypeOK
  <2> QED BY <2>1, <2>2
<1>5. ASSUME NEW q \in Requests, FoundBound(q) \/ EnsureRefused(q)
      PROVE  LimitInv'
  <2>1. \A u : Bound(u)' = Bound(u)
    BY <1>5 DEF FoundBound, EnsureRefused, Bound
  <2>2. \A p \in Requests : qpc'[p] \in {"locked", "read"} <=> userLock'[UserOf(p)] = p
    BY <1>4, <1>5 DEF FoundBound, EnsureRefused, Ensured
  <2>3. ASSUME NEW p \in Requests, qpc'[p] = "read"
        PROVE  Cardinality(Bound(UserOf(p))') <= found'[p].count
    BY <1>b, <1>5, <2>1, <2>3 DEF FoundBound, EnsureRefused, Ensured, LimitInv, CountInv, TypeOK
  <2> QED BY <1>a, <1>b, <2>2, <2>3 DEF LimitInv, CountInv
<1>6. ASSUME NEW q \in Requests, Bind(q)
      PROVE  LimitInv'
  <2>2. \A p \in Requests : qpc'[p] \in {"locked", "read"} <=> userLock'[UserOf(p)] = p
    BY <1>4, <1>6 DEF Bind, Ensured
  <2>3. ASSUME NEW p \in Requests, qpc'[p] = "read"
        PROVE  Cardinality(Bound(UserOf(p))') <= found'[p].count
    <3>1. p # q /\ qpc[p] = "read" /\ found'[p] = found[p]
      BY <1>6, <2>3 DEF Bind, Ensured, LimitInv, TypeOK
    <3>2. UserOf(p) # UserOf(q)
      BY <1>6, <3>1, OneCounts DEF Bind
    <3>3. Bound(UserOf(p))' = Bound(UserOf(p))
      BY <1>6, <3>2 DEF Bind, Bound, UserOf, LimitInv, TypeOK
    <3> QED BY <1>b, <3>1, <3>3 DEF LimitInv, CountInv
  <2> QED BY <1>a, <1>b, <2>2, <2>3 DEF LimitInv, CountInv
<1>7. ASSUME NEW q \in Requests, AttachDevice(q) \/ Detach(q)
      PROVE  LimitInv'
  <2>1. \A u : Bound(u)' = Bound(u)
    BY <1>7 DEF AttachDevice, Detach, Bound
  <2>2. ASSUME NEW p \in Requests
        PROVE  /\ qpc'[p] \in {"locked", "read"} <=> qpc[p] \in {"locked", "read"}
               /\ qpc'[p] = "read" <=> qpc[p] = "read"
    BY <1>7 DEF AttachDevice, Detach, LimitInv, TypeOK
  <2> QED BY <1>a, <1>b, <1>7, <2>1, <2>2 DEF AttachDevice, Detach, LimitInv, CountInv
<1>8. ASSUME NEW k \in Clients, RevokeRow(k)
      PROVE  LimitInv'
  <2>1. ASSUME NEW p \in Requests, qpc'[p] = "read"
        PROVE  Cardinality(Bound(UserOf(p))') <= found'[p].count
    <3>1. Bound(UserOf(p))' \in SUBSET Bound(UserOf(p))
      BY <1>8 DEF RevokeRow, Bound, UserOf, LimitInv, TypeOK
    <3>2. Cardinality(Bound(UserOf(p))') <= Cardinality(Bound(UserOf(p)))
      BY <3>1, BoundFinite, FS_Subset
    <3>3. /\ Cardinality(Bound(UserOf(p))') \in Nat /\ Cardinality(Bound(UserOf(p))) \in Nat
          /\ found[p].count \in Nat
      BY BoundFinite DEF LimitInv, TypeOK
    <3> QED BY <1>8, <2>1, <3>2, <3>3 DEF RevokeRow, LimitInv, CountInv
  <2> QED BY <1>a, <1>b, <1>8, <2>1 DEF RevokeRow, LimitInv, CountInv
<1>9. ASSUME \/ \E k \in Codes : CreateInviteCode(k) \/ Expire(k) \/ DeleteInviteCode(k)
             \/ \E r \in Registrations :
                  CheckCode(r) \/ LockCode(r) \/ Register(r) \/ RegistrationRefused(r)
             \/ \E u \in Users :
                  \/ \E n \in Limits : SetClientLimit(u, n)
                  \/ \E status \in BOOLEAN : SetUserStatus(u, status)
             \/ \E k \in Clients : DisconnectDevice(k) \/ KickDevice(k)
             \/ UNCHANGED vars
      PROVE  UNCHANGED <<userLock, row, qpc, found>>
  BY <1>9 DEF vars, bindVars, CreateInviteCode, Expire, DeleteInviteCode, CheckCode,
              LockCode, Register, RegistrationRefused, SetClientLimit, SetUserStatus,
              DisconnectDevice, KickDevice
<1> QED BY <1>1, <1>2, <1>3, <1>5, <1>6, <1>7, <1>8, <1>9 DEF Next

\* A step that binds a computer leaves the account within its limit.
LEMMA BindStep == LimitInv /\ [Next]_vars => BindsWithinLimit
<1> SUFFICES ASSUME LimitInv, [Next]_vars, NEW u \in Users, ~(Bound(u)' \subseteq Bound(u))
             PROVE  Cardinality(Bound(u)') <= limit'[u]
  BY DEF BindsWithinLimit
<1>1. PICK q \in Requests : Bind(q)
  <2>1. ASSUME \A q \in Requests : ~Bind(q)
        PROVE  \A k \in Clients : row'[k] = row[k] \/ row'[k] = "revoked"
    BY <2>1 DEF LimitInv, TypeOK, Next, vars, bindVars, CreateInviteCode, Expire,
         DeleteInviteCode, CheckCode, LockCode, Register, RegistrationRefused,
         SetClientLimit, SetUserStatus, LockUser, ReadRows, FoundBound, Ensured,
         EnsureRefused, AttachDevice, Detach, RevokeRow, DisconnectDevice, KickDevice
  <2> QED BY <2>1 DEF Bound
<1>2. /\ row' = [row EXCEPT ![ClientOf[q]] = "bound"] /\ UNCHANGED limit
      /\ qpc[q] = "read" /\ found[q].count < limit[UserOf(q)]
      /\ UserOf(q) \in Users /\ ClientOf[q] \in Clients
  BY <1>1, UserOfType DEF Bind, MayBind, Ensured, userVars
<1>3. u = UserOf(q)
  BY <1>2 DEF Bound, UserOf, LimitInv, TypeOK
<1>4. Bound(u)' = Bound(u) \cup {ClientOf[q]}
  BY <1>2, <1>3 DEF Bound, UserOf, LimitInv, TypeOK
<1>5. IsFiniteSet(Bound(u)) /\ Cardinality(Bound(u)) \in Nat
  BY BoundFinite
<1>6. Cardinality(Bound(u)') <= Cardinality(Bound(u)) + 1
  <2>1. Cardinality(Bound(u) \cup {ClientOf[q]})
          = IF ClientOf[q] \in Bound(u) THEN Cardinality(Bound(u))
                                        ELSE Cardinality(Bound(u)) + 1
    BY <1>5, FS_AddElement
  <2> QED BY <1>4, <1>5, <2>1
<1>7. Cardinality(Bound(u)) <= found[q].count /\ found[q].count \in Nat /\ limit[u] \in Nat
  <2>1. Cardinality(Bound(u)) <= found[q].count
    BY <1>2, <1>3 DEF LimitInv, CountInv
  <2>2. found[q].count \in Nat
    BY FS_CardinalityType, AccountsAssumption DEF LimitInv, TypeOK
  <2>3. limit[u] \in Limits \cup {DefaultLimit}
    BY DEF LimitInv, TypeOK
  <2> QED BY <2>1, <2>2, <2>3, AccountsAssumption
<1>8. Cardinality(Bound(u)') \in Nat
  BY BoundFinite
<1> QED BY <1>2, <1>3, <1>5, <1>6, <1>7, <1>8

\* A computer is bound only under the limit of its account, for any number of
\* concurrent requests (ensureDeviceSession).
THEOREM ClientLimitKept == Spec => WithinLimit
<1> QED BY LimitInit, LimitStep, BindStep, PTL DEF Spec, WithinLimit

-----------------------------------------------------------------------------
\* Revocations.
LEMMA RevokeInit == Init => RevokeInv
<1> SUFFICES ASSUME Init
             PROVE  RevokeInv
  OBVIOUS
<1>1. TypeOK
  BY TypeInit
<1> QED BY <1>1 DEF Init, RevokeInv, PublisherServes, CheckedOrRaced, RevokedLeaves

LEMMA RevokeStep == RevokeInv /\ [Next]_vars => RevokeInv'
<1> SUFFICES ASSUME RevokeInv, [Next]_vars
             PROVE  RevokeInv'
  OBVIOUS
<1>a. TypeOK'
  BY TypeStep DEF RevokeInv
<1> USE AccountsAssumption
        DEF RevokeInv, TypeOK, PublisherServes, CheckedOrRaced, RevokedLeaves
<1>1. ASSUME UNCHANGED <<row, qpc, revoking, publisher, told, raced>>
      PROVE  RevokeInv'
  BY <1>a, <1>1
<1>2. ASSUME NEW q \in Requests, LockUser(q) \/ ReadRows(q) \/ EnsureRefused(q)
      PROVE  RevokeInv'
  BY <1>a, <1>2 DEF LockUser, ReadRows, EnsureRefused
<1>3. ASSUME NEW q \in Requests, FoundBound(q)
      PROVE  RevokeInv'
  <2>1. PublisherServes' /\ CheckedOrRaced'
    BY <1>3 DEF FoundBound, Ensured
  <2>2. RevokedLeaves'
    BY <1>3 DEF FoundBound, Ensured
  <2> QED BY <1>a, <2>1, <2>2
<1>4. ASSUME NEW q \in Requests, Bind(q)
      PROVE  RevokeInv'
  <2>1. PublisherServes' /\ CheckedOrRaced'
    BY <1>4 DEF Bind, Ensured
  <2>2. RevokedLeaves'
    BY <1>4 DEF Bind, Ensured
  <2> QED BY <1>a, <2>1, <2>2
<1>5. ASSUME NEW q \in Requests, AttachDevice(q)
      PROVE  RevokeInv'
  <2>1. PublisherServes' /\ CheckedOrRaced'
    BY <1>5 DEF AttachDevice
  <2>2. RevokedLeaves'
    BY <1>5 DEF AttachDevice
  <2> QED BY <1>a, <2>1, <2>2
<1>6. ASSUME NEW q \in Requests, Detach(q)
      PROVE  RevokeInv'
  <2>1. PublisherServes' /\ CheckedOrRaced'
    BY <1>6 DEF Detach
  <2>2. RevokedLeaves'
    BY <1>6 DEF Detach
  <2> QED BY <1>a, <2>1, <2>2
<1>7. ASSUME NEW k \in Clients, RevokeRow(k)
      PROVE  RevokeInv'
  BY <1>a, <1>7 DEF RevokeRow
<1>8. ASSUME NEW k \in Clients, DisconnectDevice(k)
      PROVE  RevokeInv'
  BY <1>a, <1>8 DEF DisconnectDevice, ToldBy
<1>9. ASSUME NEW k \in Clients, KickDevice(k)
      PROVE  RevokeInv'
  BY <1>a, <1>9 DEF KickDevice, ToldBy
<1>10. ASSUME \/ \E k \in Codes : CreateInviteCode(k) \/ Expire(k) \/ DeleteInviteCode(k)
              \/ \E r \in Registrations :
                   CheckCode(r) \/ LockCode(r) \/ Register(r) \/ RegistrationRefused(r)
              \/ \E u \in Users :
                   \/ \E n \in Limits : SetClientLimit(u, n)
                   \/ \E status \in BOOLEAN : SetUserStatus(u, status)
              \/ UNCHANGED vars
       PROVE  UNCHANGED <<row, qpc, revoking, publisher, told, raced>>
  BY <1>10 DEF vars, bindVars, CreateInviteCode, Expire, DeleteInviteCode, CheckCode,
               LockCode, Register, RegistrationRefused, SetClientLimit, SetUserStatus
<1> QED BY <1>1, <1>2, <1>3, <1>4, <1>5, <1>6, <1>7, <1>8, <1>9, <1>10 DEF Next

\* A revoked computer that is still connected was told to leave, or was caught
\* between its check and its attachment, for any number of computers and
\* connections (revokeClient, handleDeviceWebSocket).
THEOREM RevokedAreTold == Spec => []RevokedLeaves
<1>1. RevokeInv => RevokedLeaves
  BY DEF RevokeInv
<1> QED BY <1>1, RevokeInit, RevokeStep, PTL DEF Spec
===============================================================================
