------------------------------ MODULE Accounts ------------------------------
(***************************************************************************)
(* Accounts, invite codes and bound computers (internal/api/server.go,     *)
(* invite_codes.go, admin.go, clients.go).  A registration looks at its    *)
(* invite code, hashes the password, and only then locks and consumes the  *)
(* code in a transaction.  A computer connects or binds through            *)
(* ensureDeviceSession, a transaction that locks the row of the account,   *)
(* reads the computer's row and counts the bound ones, and inserts or      *)
(* revives the row.  A device is attached to the hub later.  A revocation  *)
(* writes the row without that lock, and disconnects the device later.     *)
(*                                                                         *)
(* The steps are the statements; what a transaction writes appears when it *)
(* commits, and its plain reads see one snapshot (MySQL's repeatable       *)
(* read), taken by the first of them, after the lock.  The hub keeps one   *)
(* publisher for each computer; the queue that tells it to leave is module *)
(* CommandQueue.                                                           *)
(***************************************************************************)
EXTENDS FiniteSets, Naturals

CONSTANTS
  Users,         \* accounts, registered or not
  Codes,         \* invite codes
  Registrations, \* requests to register
  NameOf,        \* [Registrations -> Users], the account a request asks for
  CodeOf,        \* [Registrations -> Codes], the code it submits
  Clients,       \* computers
  OwnerOf,       \* [Clients -> Users], the account a computer belongs to
  Requests,      \* device connections and bind requests
  ClientOf,      \* [Requests -> Clients], the computer a request comes from
  Binders,       \* the requests that may revive a revoked row (a login's bind)
  DefaultLimit,  \* max_client_count of a new account
  Limits,        \* the values an administrator sets it to
  Nobody         \* a free lock, an empty room, a code nobody used

ASSUME AccountsAssumption ==
  /\ IsFiniteSet(Clients)
  /\ NameOf \in [Registrations -> Users]
  /\ CodeOf \in [Registrations -> Codes]
  /\ OwnerOf \in [Clients -> Users]
  /\ ClientOf \in [Requests -> Clients]
  /\ Binders \subseteq Requests
  /\ DefaultLimit \in Nat /\ Limits \subseteq Nat
  /\ Nobody \notin Users \cup Registrations \cup Requests

VARIABLES
  code,       \* the state of each row of invite_codes
  codeLock,   \* the registration that locked it
  rpc,        \* where each registration is
  accounts,   \* the rows of users
  enabled,    \* users.status
  limit,      \* users.max_client_count
  userLock,   \* the request that locked the account
  row,        \* the row of each computer in monitor_sessions
  qpc,        \* where each request is
  found,      \* the row and the number of bound rows that it read
  revoking,   \* computers whose revocation has not reached the hub yet
  publisher,  \* the handler of each computer's device
  told,       \* handlers that were told to leave
  raced,      \* history: handlers whose check came before a revocation and
              \* whose attachment came after it
  spent       \* history: the accounts registered with each code

inviteVars == <<code, codeLock, rpc, spent>>
userVars == <<accounts, enabled, limit>>
bindVars == <<userLock, row, qpc, found, revoking, publisher, told, raced>>
vars == <<inviteVars, userVars, bindVars>>

Init ==
  /\ code = [k \in Codes |-> "none"]
  /\ codeLock = [k \in Codes |-> Nobody]
  /\ rpc = [r \in Registrations |-> "form"]
  /\ accounts = {}
  /\ enabled = [u \in Users |-> TRUE]
  /\ limit = [u \in Users |-> DefaultLimit]
  /\ userLock = [u \in Users |-> Nobody]
  /\ row = [k \in Clients |-> "none"]
  /\ qpc = [q \in Requests |-> "idle"]
  /\ found = [q \in Requests |-> [row |-> "none", count |-> 0]]
  /\ revoking = {}
  /\ publisher = [k \in Clients |-> Nobody]
  /\ told = {} /\ raced = {}
  /\ spent = [k \in Codes |-> {}]

-----------------------------------------------------------------------------
(***************************************************************************)
(* Invite codes and registration.                                          *)
(***************************************************************************)
CreateInviteCode(k) ==
  /\ code[k] = "none"
  /\ code' = [code EXCEPT ![k] = "open"]
  /\ UNCHANGED <<codeLock, rpc, spent, userVars, bindVars>>

Expire(k) ==
  /\ code[k] = "open"
  /\ code' = [code EXCEPT ![k] = "expired"]
  /\ UNCHANGED <<codeLock, rpc, spent, userVars, bindVars>>

\* The administrator deletes a code, used or not; the row must not be locked.
DeleteInviteCode(k) ==
  /\ code[k] # "none" /\ codeLock[k] = Nobody
  /\ code' = [code EXCEPT ![k] = "deleted"]
  /\ UNCHANGED <<codeLock, rpc, spent, userVars, bindVars>>

\* handleRegister looks at the code, and hashes the password.
CheckCode(r) ==
  /\ rpc[r] = "form"
  /\ code[CodeOf[r]] = "open"
  /\ rpc' = [rpc EXCEPT ![r] = "hashing"]
  /\ UNCHANGED <<code, codeLock, spent, userVars, bindVars>>

\* Mutant of the test below: without FOR UPDATE, on the check made before.
CheckedBefore(r) == TRUE

\* The code is still there, unused and valid, and its row is free to lock.
CodeLockable(r) == codeLock[CodeOf[r]] = Nobody /\ code[CodeOf[r]] = "open"

LockCode(r) ==
  /\ rpc[r] = "hashing"
  /\ CodeLockable(r)
  /\ codeLock' = [codeLock EXCEPT ![CodeOf[r]] = r]
  /\ rpc' = [rpc EXCEPT ![r] = "locked"]
  /\ UNCHANGED <<code, spent, userVars, bindVars>>

\* The account is inserted, the code consumed, and both committed.
Register(r) ==
  LET k == CodeOf[r] u == NameOf[r] IN
  /\ rpc[r] = "locked"
  /\ u \notin accounts
  /\ accounts' = accounts \cup {u}
  /\ code' = [code EXCEPT ![k] = "used"]
  /\ spent' = [spent EXCEPT ![k] = @ \cup {u}]
  /\ codeLock' = [codeLock EXCEPT ![k] = Nobody]
  /\ rpc' = [rpc EXCEPT ![r] = "done"]
  /\ UNCHANGED <<enabled, limit, bindVars>>

\* The code is gone, the name is taken, or a statement failed: the transaction
\* is rolled back, and the form may be sent again.
RegistrationRefused(r) ==
  /\ rpc[r] \in {"hashing", "locked"}
  /\ codeLock' = [k \in Codes |-> IF codeLock[k] = r THEN Nobody ELSE codeLock[k]]
  /\ rpc' = [rpc EXCEPT ![r] = "form"]
  /\ UNCHANGED <<code, spent, userVars, bindVars>>

-----------------------------------------------------------------------------
(***************************************************************************)
(* The administrator's changes of an account.                              *)
(***************************************************************************)
\* A statement on the row of the account waits for its lock.
SetClientLimit(u, n) ==
  /\ u \in accounts /\ userLock[u] = Nobody /\ n # limit[u]
  /\ limit' = [limit EXCEPT ![u] = n]
  /\ UNCHANGED <<inviteVars, accounts, enabled, bindVars>>

\* Disabling an account disconnects nobody.
SetUserStatus(u, status) ==
  /\ u \in accounts /\ userLock[u] = Nobody /\ status # enabled[u]
  /\ enabled' = [enabled EXCEPT ![u] = status]
  /\ UNCHANGED <<inviteVars, accounts, limit, bindVars>>

-----------------------------------------------------------------------------
(***************************************************************************)
(* ensureDeviceSession.                                                    *)
(***************************************************************************)
UserOf(q) == OwnerOf[ClientOf[q]]
Bound(u) == {k \in Clients : OwnerOf[k] = u /\ row[k] = "bound"}

\* Mutant of the test below: the account is read without FOR UPDATE.
ReadUnlocked(q) == TRUE

UserLockable(q) == userLock[UserOf(q)] = Nobody

LockUser(q) ==
  LET u == UserOf(q) IN
  /\ qpc[q] = "idle"
  /\ UserLockable(q)
  /\ u \in accounts /\ enabled[u]
  /\ userLock' = [userLock EXCEPT ![u] = q]
  /\ qpc' = [qpc EXCEPT ![q] = "locked"]
  /\ UNCHANGED <<inviteVars, userVars, row, found, revoking, publisher, told, raced>>

\* The row of the computer and the number of bound rows, in one snapshot.
ReadRows(q) ==
  /\ qpc[q] = "locked"
  /\ found' = [found EXCEPT ![q] =
       [row |-> row[ClientOf[q]], count |-> Cardinality(Bound(UserOf(q)))]]
  /\ qpc' = [qpc EXCEPT ![q] = "read"]
  /\ UNCHANGED <<inviteVars, userVars, userLock, row, revoking, publisher, told, raced>>

\* A row that is not bound needs room under the limit, and a revoked one a bind.
MayBind(q) ==
  /\ found[q].count < limit[UserOf(q)]
  /\ found[q].row = "revoked" => q \in Binders

Unlocked(q) ==
  [u \in Users |-> IF userLock[u] = q THEN Nobody ELSE userLock[u]]

\* A bind returns; a device handler goes on to accept the websocket.
Ensured(q) ==
  /\ userLock' = Unlocked(q)
  /\ found' = [found EXCEPT ![q] = [row |-> "none", count |-> 0]]
  /\ qpc' = [qpc EXCEPT ![q] = IF q \in Binders THEN "idle" ELSE "checked"]
  /\ UNCHANGED <<inviteVars, userVars, revoking, publisher, told>>

\* The computer was bound already.
FoundBound(q) ==
  /\ qpc[q] = "read" /\ found[q].row = "bound"
  /\ Ensured(q)
  /\ raced' = IF row[ClientOf[q]] = "bound" THEN raced ELSE raced \cup {q}
  /\ UNCHANGED row

\* The row is inserted, or revived.
Bind(q) ==
  /\ qpc[q] = "read" /\ found[q].row # "bound"
  /\ MayBind(q)
  /\ row' = [row EXCEPT ![ClientOf[q]] = "bound"]
  /\ Ensured(q)
  /\ UNCHANGED raced

\* Refused, or a statement failed: the transaction is rolled back.
EnsureRefused(q) ==
  /\ qpc[q] \in {"locked", "read"}
  /\ userLock' = Unlocked(q)
  /\ found' = [found EXCEPT ![q] = [row |-> "none", count |-> 0]]
  /\ qpc' = [qpc EXCEPT ![q] = "idle"]
  /\ UNCHANGED <<inviteVars, userVars, row, revoking, publisher, told, raced>>

-----------------------------------------------------------------------------
(***************************************************************************)
(* The connection of a device, its revocation and its end.                 *)
(***************************************************************************)
AttachDevice(q) ==
  /\ qpc[q] = "checked"
  /\ publisher' = [publisher EXCEPT ![ClientOf[q]] = q]
  /\ qpc' = [qpc EXCEPT ![q] = "serving"]
  /\ UNCHANGED <<inviteVars, userVars, userLock, row, found, revoking, told, raced>>

\* The handler was told to leave, its connection broke, or it was never
\* accepted.
Detach(q) ==
  LET k == ClientOf[q] IN
  /\ qpc[q] \in {"checked", "serving"}
  /\ publisher' = [publisher EXCEPT ![k] = IF @ = q THEN Nobody ELSE @]
  /\ qpc' = [qpc EXCEPT ![q] = "idle"]
  /\ told' = told \ {q} /\ raced' = raced \ {q}
  /\ UNCHANGED <<inviteVars, userVars, userLock, row, found, revoking>>

\* revokeClient, by the user or an administrator: the row first.
RevokeRow(k) ==
  /\ row[k] = "bound"
  /\ row' = [row EXCEPT ![k] = "revoked"]
  /\ revoking' = revoking \cup {k}
  /\ raced' = raced \cup {q \in Requests : ClientOf[q] = k /\ qpc[q] = "checked"}
  /\ UNCHANGED <<inviteVars, userVars, userLock, qpc, found, publisher, told>>

\* Mutants of the set below: nobody hears of it, an empty room is not noticed.
NobodyTold(k) == {}
EmptyRoomTold(k) == {publisher[k]}

\* disconnectDevice tells the publisher of the computer's room.
ToldBy(k) == {publisher[k]} \ {Nobody}

\* Then the device.
DisconnectDevice(k) ==
  /\ k \in revoking
  /\ told' = told \cup ToldBy(k)
  /\ revoking' = revoking \ {k}
  /\ UNCHANGED <<inviteVars, userVars, userLock, row, qpc, found, publisher, raced>>

\* handleAdminKickUserClients: the device is disconnected and may come back.
KickDevice(k) ==
  /\ row[k] = "bound" /\ publisher[k] # Nobody
  /\ told' = told \cup ToldBy(k)
  /\ UNCHANGED <<inviteVars, userVars, userLock, row, qpc, found, revoking,
                 publisher, raced>>

-----------------------------------------------------------------------------
Next ==
  \/ \E k \in Codes : CreateInviteCode(k) \/ Expire(k) \/ DeleteInviteCode(k)
  \/ \E r \in Registrations :
       CheckCode(r) \/ LockCode(r) \/ Register(r) \/ RegistrationRefused(r)
  \/ \E u \in Users :
       \/ \E n \in Limits : SetClientLimit(u, n)
       \/ \E status \in BOOLEAN : SetUserStatus(u, status)
  \/ \E q \in Requests :
       \/ LockUser(q) \/ ReadRows(q) \/ FoundBound(q) \/ Bind(q) \/ EnsureRefused(q)
       \/ AttachDevice(q) \/ Detach(q)
  \/ \E k \in Clients : RevokeRow(k) \/ DisconnectDevice(k) \/ KickDevice(k)

Spec == Init /\ [][Next]_vars

-----------------------------------------------------------------------------
TypeOK ==
  /\ code \in [Codes -> {"none", "open", "expired", "used", "deleted"}]
  /\ codeLock \in [Codes -> Registrations \cup {Nobody}]
  /\ rpc \in [Registrations -> {"form", "hashing", "locked", "done"}]
  /\ accounts \subseteq Users
  /\ enabled \in [Users -> BOOLEAN]
  /\ limit \in [Users -> Limits \cup {DefaultLimit}]
  /\ userLock \in [Users -> Requests \cup {Nobody}]
  /\ row \in [Clients -> {"none", "bound", "revoked"}]
  /\ qpc \in [Requests -> {"idle", "locked", "read", "checked", "serving"}]
  /\ found \in [Requests -> [row : {"none", "bound", "revoked"},
                             count : 0..Cardinality(Clients)]]
  /\ revoking \subseteq Clients
  /\ publisher \in [Clients -> Requests \cup {Nobody}]
  /\ told \subseteq Requests /\ raced \subseteq Requests
  /\ spent \in [Codes -> SUBSET Users]

\* "Every invite code can register one account only" (README.md:63-65), however
\* registrations with the same code overlap.
InviteOnce == \A k \in Codes : Cardinality(spent[k]) <= 1

\* A computer is bound only while its account has room for it under the limit
\* in force, although the count and the insert are separate statements of
\* concurrent requests (ensureDeviceSession).
BindsWithinLimit ==
  \A u \in Users :
    ~(Bound(u)' \subseteq Bound(u)) => Cardinality(Bound(u)') <= limit'[u]

WithinLimit == [][BindsWithinLimit]_vars

\* A computer whose revocation is over is not connected, or was told to leave,
\* unless the revocation came between its handler's check and its attachment.
RevokedLeaves ==
  \A k \in Clients :
    row[k] = "revoked" /\ k \notin revoking /\ publisher[k] # Nobody
      => publisher[k] \in told \cup raced

=============================================================================
