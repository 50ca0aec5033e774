---------------------------- MODULE TrustProfile ----------------------------
(***************************************************************************)
(* The trust store of TrustProfileManager (trust_profile_manager.cpp):     *)
(* the four RDB tables, written by IPC worker threads.  A call runs in two *)
(* phases.  The first holds aclMutex_ and writes accesser_table,           *)
(* accessee_table and access_control_table; the second, after the mutex is *)
(* released, sends the notifications and maintains trust_device_table.     *)
(* Every SQL statement is a step of its own: there is no transaction, so   *)
(* another thread, a failing statement or the death of the process can     *)
(* come between any two of them.                                           *)
(***************************************************************************)
EXTENDS Integers, FiniteSets

CONSTANTS
    Threads,      \* IPC worker threads
    Profiles,     \* the AccessControlProfile arguments clients pass
    UpdateFree,   \* TRUE: an update may change any column; FALSE: status only
    MaxOps,       \* bound: calls made in a behaviour
    MaxFaults,    \* bound: failing statements, closings and process deaths
    NoJob         \* the local state of a thread that runs no call

Status == {0, 1}                       \* STATUS_INACTIVE, STATUS_ACTIVE
Returns == {"none", "ok", "notfound", "notallowed", "fail"}
Events == {"deviceInactive", "userActive", "userInactive", "accountActive",
           "accountInactive", "aclAdd"}

Devices == {p.dev : p \in Profiles}
\* What a default-constructed Accesser or Accessee holds.
NoParty == [dev |-> "", user |-> "", acct |-> "", tok |-> ""]
Parties == {p.acer : p \in Profiles} \cup {p.acee : p \in Profiles}
           \cup {NoParty}
Attrs == {p.attr : p \in Profiles}

(***************************************************************************)
(* A request: the two parties, the trusted (peer) device, the columns that *)
(* identify an ACL besides those (attr: session key, bind and              *)
(* authentication type, ...), the status and whether extraData marks it as *)
(* an LNN ACL.                                                             *)
(***************************************************************************)
Request == [acer : Parties, acee : Parties, dev : Devices, attr : Attrs,
            status : Status, lnn : BOOLEAN]
AclRow == [id : Nat, acer : Nat, acee : Nat, dev : Devices, attr : Attrs,
           status : Status, lnn : BOOLEAN]
PartyRow == [id : Nat, party : Parties]
TrustRow == [dev : Devices, status : Status]
Job == [row : AclRow, p : Request, userExists : BOOLEAN,
        accountExists : BOOLEAN, old : Status, status : Status]

ASSUME ThreadsAssumption == Threads # {}
ASSUME ProfilesAssumption == Profiles \subseteq Request
ASSUME BoundsAssumption == MaxOps \in Nat /\ MaxFaults \in Nat
ASSUME UpdateAssumption == UpdateFree \in BOOLEAN

VARIABLES
    acls, acers, acees, trust,   \* the rows of the four tables
    open,                        \* rdbStore_ is not nullptr
    lock,                        \* aclMutex_: the threads that hold it
    pc, job, ret, sent,          \* per thread: next step, locals, result,
                                 \*   and the events its call has sent
    users, accounts,             \* what a subscriber that applies every
                                 \*   Add/Delete notification believes
    bound,                       \* history: the parties every ACL id was
                                 \*   granted to, or last updated to
    ops, faults

tables == <<acls, acers, acees, trust>>
mirrors == <<users, accounts>>
vars == <<acls, acers, acees, trust, open, lock, pc, job, ret, sent, users,
          accounts, bound, ops, faults>>

-----------------------------------------------------------------------------
(* Queries *)

Ids(T) == {r.id : r \in T}

\* Faulty variant: the id of the last row, not the one after it.
NextIdOfLast(T) == IF T = {} THEN 1
                   ELSE CHOOSE i \in Ids(T) : \A j \in Ids(T) : j <= i
\* GoToLastRow of an unordered SELECT: rows come in primary-key order, so the
\* next id follows the largest one still in the table.
NextId(T) == IF T = {} THEN 1
             ELSE (CHOOSE i \in Ids(T) : \A j \in Ids(T) : j <= i) + 1

SetAccessControlId == NextId(acls)

\* Faulty variant: the id of an existing row is not looked up.
PartyIdFresh(T, q) == NextId(T)
PartyId(T, q) == IF \E r \in T : r.party = q
                 THEN (CHOOSE r \in T : r.party = q).id
                 ELSE NextId(T)
SetAccesserId(q) == PartyId(acers, q)
SetAccesseeId(q) == PartyId(acees, q)

\* The party a reference leads to; a missing row reads as a default object.
PartyOf(T, i) == IF \E r \in T : r.id = i
                 THEN (CHOOSE r \in T : r.id = i).party ELSE NoParty

\* The columns of unique_access_control_table; status and extraData are not
\* among them.
SameAcl(a, b) == /\ a.acer = b.acer /\ a.acee = b.acee
                 /\ a.dev = b.dev /\ a.attr = b.attr
IsAclExists(row) == \E a \in acls : SameAcl(a, row)

Peer(p) == IF p.acee.dev = p.dev THEN p.acee ELSE p.acer
Local(p) == IF p.acee.dev = p.dev THEN p.acer ELSE p.acee

\* An ACL row with its two parties.
Join(a, q, e) == [id |-> a.id, acer |-> q, acee |-> e, dev |-> a.dev,
                  status |-> a.status, lnn |-> a.lnn]
\* Every row whose two parties are found; the others are skipped.
GetAllAccessControlProfiles ==
    {Join(x[1], x[2].party, x[3].party) :
        x \in {y \in acls \X acers \X acees :
                 y[1].acer = y[2].id /\ y[1].acee = y[3].id}}

RemoveLnnAcl(S) == {a \in S : ~a.lnn}
UserAcls == RemoveLnnAcl(GetAllAccessControlProfiles)

SameUsers(a, p) ==
    LET l == Local(p)
        r == Peer(p)
    IN  \E e \in {<<a.acer, a.acee>>, <<a.acee, a.acer>>} :
            /\ e[1].dev = l.dev /\ e[1].user = l.user
            /\ e[2].dev = p.dev /\ e[2].user = r.user
SameAccounts(a, p) ==
    LET l == Local(p)
        r == Peer(p)
    IN  \E e \in {<<a.acer, a.acee>>, <<a.acee, a.acer>>} :
            /\ e[1].dev = l.dev /\ e[1].user = l.user /\ e[1].acct = l.acct
            /\ e[2].dev = p.dev /\ e[2].user = r.user /\ e[2].acct = r.acct

\* Faulty variant: the LNN ACLs are not left out.
CheckAnyAclExists(p) ==
    \E a \in GetAllAccessControlProfiles : a.dev = p.dev /\ SameAccounts(a, p)
\* Faulty variant: an inactive ACL counts.
CheckDeviceIdAclExists(p) == \E a \in UserAcls : a.dev = p.dev

CheckDeviceIdAndUserIdExists(p) ==
    \E a \in UserAcls : a.dev = p.dev /\ SameUsers(a, p)
CheckAccountAclExists(p) ==
    \E a \in UserAcls : a.dev = p.dev /\ SameAccounts(a, p)
CheckDeviceIdActiveAclExists(p) ==
    \E a \in UserAcls : a.dev = p.dev /\ a.status = 1
CheckDeviceIdAndUserIdActive(p) ==
    Cardinality({a \in UserAcls :
        a.dev = p.dev /\ a.status = 1 /\ SameUsers(a, p)})
CheckAccountAclActiveCount(p) ==
    Cardinality({a \in UserAcls :
        a.dev = p.dev /\ a.status = 1 /\ SameAccounts(a, p)})

\* Faulty variant: the LNN ACLs of the device are left out.
UserAclsOf(d) == {a \in acls : a.dev = d /\ ~a.lnn}
AclsOf(d) == {a \in acls : a.dev = d}
\* The aggregated status; a device with no ACL leaves the caller's STATUS_INIT.
GetResultStatus(d) == IF \E a \in AclsOf(d) : a.status = 1 THEN 1 ELSE 0

UserKey(p) == [dev |-> p.dev, local |-> Local(p).dev,
               localUser |-> Local(p).user, peerUser |-> Peer(p).user]
AccountKey(p) == [user |-> UserKey(p), local |-> Local(p).acct,
                  peer |-> Peer(p).acct]

-----------------------------------------------------------------------------
(* Steps *)

Goto(t, l) == pc' = [pc EXCEPT ![t] = l]
Return(t, r) == /\ pc' = [pc EXCEPT ![t] = "idle"]
                /\ job' = [job EXCEPT ![t] = NoJob]
                /\ ret' = [ret EXCEPT ![t] = r]
At(t, l) == pc[t] = l
Unlock(t) == lock' = lock \ {t}

\* A statement fails: the store refuses it, or rdbStore_ is nullptr.
Fault == /\ ~open \/ faults < MaxFaults
         /\ faults' = faults + 1
NoFault == open /\ UNCHANGED faults
\* A scan of the ACLs; callers take a failing one for "not found".
Scan(answer, found) == \/ NoFault /\ found = answer
                       \/ Fault /\ ~found

\* A call starts and takes aclMutex_.
Enter(t) == /\ At(t, "idle")
            /\ lock = {}
            /\ open
            /\ ops < MaxOps
            /\ ops' = ops + 1
            /\ sent' = [sent EXCEPT ![t] = {}]

RowOf(p, i, r, e) == [id |-> i, acer |-> r, acee |-> e, dev |-> p.dev,
                      attr |-> p.attr, status |-> p.status, lnn |-> p.lnn]

(***************************************************************************)
(* PutAccessControlProfile                                                 *)
(***************************************************************************)
PutJob(p, userEx, accountEx) ==
    [row |-> RowOf(p, SetAccessControlId, SetAccesserId(p.acer),
                   SetAccesseeId(p.acee)),
     p |-> p, userExists |-> userEx, accountExists |-> accountEx,
     old |-> p.status, status |-> p.status]

\* The scans for existing user and account ACLs, and the three ids.  A failing
\* scan leaves its flag at false and is not reported.
PutAccessControlProfile(t, p) ==
    /\ Enter(t)
    /\ \E u \in {CheckDeviceIdAndUserIdExists(p), FALSE},
          a \in {CheckAccountAclExists(p), FALSE} :
         /\ IF u = CheckDeviceIdAndUserIdExists(p) /\ a = CheckAccountAclExists(p)
            THEN UNCHANGED faults ELSE Fault
         /\ job' = [job EXCEPT ![t] = PutJob(p, u, a)]
    /\ lock' = {t}
    /\ Goto(t, "putAccesser")
    /\ UNCHANGED <<tables, mirrors, open, ret, bound>>

\* INSERT the accesser unless an identical row exists.
PutAccesserProfile(t) ==
    /\ At(t, "putAccesser")
    /\ LET q == job[t].p.acer IN
       \/ /\ NoFault
          /\ acers' = IF \E r \in acers : r.party = q THEN acers
                      ELSE acers \cup {[id |-> job[t].row.acer, party |-> q]}
          /\ Goto(t, "putAccessee")
          /\ UNCHANGED <<lock, job, ret>>
       \/ /\ Fault /\ Return(t, "fail") /\ Unlock(t)
          /\ UNCHANGED acers
    /\ UNCHANGED <<acls, acees, trust, mirrors, open, sent, bound, ops>>

PutAccesseeProfile(t) ==
    /\ At(t, "putAccessee")
    /\ LET q == job[t].p.acee IN
       \/ /\ NoFault
          /\ acees' = IF \E r \in acees : r.party = q THEN acees
                      ELSE acees \cup {[id |-> job[t].row.acee, party |-> q]}
          /\ Goto(t, "putAcl")
          /\ UNCHANGED <<lock, job, ret>>
       \/ /\ Fault /\ Return(t, "fail") /\ Unlock(t)
          /\ UNCHANGED acees
    /\ UNCHANGED <<acls, acers, trust, mirrors, open, sent, bound, ops>>

\* A duplicate ends the call with DP_SUCCESS; otherwise INSERT and unlock.
PutAclRow(t) ==
    /\ At(t, "putAcl")
    /\ LET row == job[t].row IN
       \/ /\ NoFault /\ IsAclExists(row)
          /\ Return(t, "ok") /\ Unlock(t)
          /\ UNCHANGED <<acls, bound>>
       \/ /\ NoFault /\ ~IsAclExists(row)
          /\ acls' = acls \cup {row}
          /\ bound' = {b \in bound : b.id # row.id} \cup
                      {[id |-> row.id, acer |-> job[t].p.acer,
                        acee |-> job[t].p.acee]}
          /\ Goto(t, "putUserSend") /\ Unlock(t)
          /\ UNCHANGED <<job, ret>>
       \/ /\ Fault /\ Return(t, "fail") /\ Unlock(t)
          /\ UNCHANGED <<acls, bound>>
    /\ UNCHANGED <<acers, acees, trust, mirrors, open, sent, ops>>

\* PutAclCheck: NotifyTrustDeviceProfileAdd, then NotifyAccountAclAdd.
PutAclCheckUser(t) ==
    /\ At(t, "putUserSend")
    /\ users' = IF job[t].userExists \/ job[t].p.lnn THEN users
                ELSE users \cup {UserKey(job[t].p)}
    /\ Goto(t, "putAccountSend")
    /\ UNCHANGED <<tables, accounts, open, lock, job, ret, sent, bound, ops,
                   faults>>

PutAclCheckAccount(t) ==
    /\ At(t, "putAccountSend")
    /\ accounts' = IF job[t].accountExists \/ job[t].p.lnn THEN accounts
                   ELSE accounts \cup {AccountKey(job[t].p)}
    /\ Goto(t, "putReadTrust")
    /\ UNCHANGED <<tables, users, open, lock, job, ret, sent, bound, ops,
                   faults>>

TrustOf(d) == {r \in trust : r.dev = d}

\* Is there a trust row?  None: insert one; else recompute the status.
PutAclCheckTrust(t) ==
    /\ At(t, "putReadTrust")
    /\ \/ /\ NoFault
          /\ Goto(t, IF TrustOf(job[t].row.dev) = {} THEN "putTrust"
                     ELSE "putStatus")
          /\ UNCHANGED <<job, ret>>
       \/ Fault /\ Return(t, "fail")
    /\ UNCHANGED <<tables, mirrors, open, lock, sent, bound, ops>>

\* PutTrustDeviceProfile: deviceId is the primary key, so the INSERT fails when
\* another thread has added the row; its result is ignored.  DpAclAdd follows.
PutTrustDeviceProfile(t) ==
    /\ At(t, "putTrust")
    /\ LET d == job[t].row.dev IN
       \/ /\ NoFault
          /\ trust' = IF TrustOf(d) = {}
                      THEN trust \cup {[dev |-> d, status |-> job[t].p.status]}
                      ELSE trust
       \/ Fault /\ UNCHANGED trust
    /\ sent' = [sent EXCEPT ![t] = @ \cup {"aclAdd"}]
    /\ Return(t, "ok")
    /\ UNCHANGED <<acls, acers, acees, mirrors, open, lock, bound, ops>>

\* GetResultStatus of a put: it fails when the device has no ACL any more.
PutAclCheckStatus(t) ==
    /\ At(t, "putStatus")
    /\ LET d == job[t].row.dev IN
       \/ /\ NoFault /\ AclsOf(d) # {}
          /\ job' = [job EXCEPT ![t].status = GetResultStatus(d)]
          /\ Goto(t, "putSelect")
          /\ UNCHANGED ret
       \/ /\ NoFault /\ AclsOf(d) = {}
          /\ Return(t, "fail")
       \/ Fault /\ Return(t, "fail")
    /\ UNCHANGED <<tables, mirrors, open, lock, sent, bound, ops>>

(***************************************************************************)
(* UpdateTrustDeviceProfile: select the row, then update it.  The three    *)
(* operations end with it; only a put goes on to DpAclAdd.                 *)
(***************************************************************************)
SelectTrustDevice(t) ==
    /\ pc[t] \in {"putSelect", "select"}
    /\ \/ /\ NoFault /\ TrustOf(job[t].row.dev) # {}
          /\ Goto(t, IF At(t, "putSelect") THEN "putUpdate" ELSE "update")
          /\ UNCHANGED <<job, ret>>
       \/ /\ NoFault /\ TrustOf(job[t].row.dev) = {}
          /\ Return(t, "fail")
       \/ Fault /\ Return(t, "fail")
    /\ UNCHANGED <<tables, mirrors, open, lock, sent, bound, ops>>

UpdateTrustDeviceProfile(t) ==
    /\ pc[t] \in {"putUpdate", "update"}
    /\ \/ /\ NoFault
          /\ trust' = {IF r.dev = job[t].row.dev
                       THEN [r EXCEPT !.status = job[t].status] ELSE r :
                       r \in trust}
          /\ sent' = [sent EXCEPT ![t] = IF At(t, "putUpdate")
                                         THEN @ \cup {"aclAdd"} ELSE @]
          /\ Return(t, "ok")
       \/ /\ Fault /\ Return(t, "fail")
          /\ UNCHANGED <<trust, sent>>
    /\ UNCHANGED <<acls, acers, acees, mirrors, open, lock, bound, ops>>

(***************************************************************************)
(* UpdateAccessControlProfile                                              *)
(***************************************************************************)
\* The client read the ACL and sends it back with another status at most.
StatusOnly(o, p) == /\ p.acer = PartyOf(acers, o.acer)
                    /\ p.acee = PartyOf(acees, o.acee)
                    /\ p.dev = o.dev /\ p.attr = o.attr /\ p.lnn = o.lnn

\* UpdateAclCheck: the ACL exists and the ids of its parties are kept.
UpdateAccessControlProfile(t, p) ==
    /\ Enter(t)
    /\ \E o \in acls :
         /\ UpdateFree \/ StatusOnly(o, p)
         /\ job' = [job EXCEPT ![t] =
              [row |-> RowOf(p, o.id, o.acer, o.acee), p |-> p,
               userExists |-> FALSE, accountExists |-> FALSE,
               old |-> o.status, status |-> 0]]
    /\ lock' = {t}
    /\ Goto(t, "updAccesser")
    /\ UNCHANGED <<tables, mirrors, open, ret, bound, faults>>

\* A call that ends before its first write: the select fails, the id is
\* unknown, or the ids of the parties differ from the row's.
RejectAcl(t, r) ==
    /\ Enter(t)
    /\ r = "notallowed" => acls # {}
    /\ IF r = "fail" THEN Fault ELSE UNCHANGED faults
    /\ ret' = [ret EXCEPT ![t] = r]
    /\ UNCHANGED <<tables, mirrors, open, lock, pc, job, bound>>

\* UPDATE of a party row, refused by the unique index when another row already
\* has these columns.
Rewrite(T, i, q) == IF \E r \in T : r.id # i /\ r.party = q THEN T
                    ELSE {IF r.id = i THEN [r EXCEPT !.party = q] ELSE r :
                          r \in T}

\* The results of the two party updates are ignored.
UpdateAccesserProfile(t) ==
    /\ At(t, "updAccesser")
    /\ \/ NoFault /\ acers' = Rewrite(acers, job[t].row.acer, job[t].p.acer)
       \/ Fault /\ UNCHANGED acers
    /\ Goto(t, "updAccessee")
    /\ UNCHANGED <<acls, acees, trust, mirrors, open, lock, job, ret, sent,
                   bound, ops>>

UpdateAccesseeProfile(t) ==
    /\ At(t, "updAccessee")
    /\ \/ NoFault /\ acees' = Rewrite(acees, job[t].row.acee, job[t].p.acee)
       \/ Fault /\ UNCHANGED acees
    /\ Goto(t, "updAcl")
    /\ UNCHANGED <<acls, acers, trust, mirrors, open, lock, job, ret, sent,
                   bound, ops>>

UpdateAclRow(t) ==
    /\ At(t, "updAcl")
    /\ LET row == job[t].row
           clash == \E a \in acls : a.id # row.id /\ SameAcl(a, row)
       IN
       \/ /\ NoFault /\ ~clash
          /\ acls' = {IF a.id = row.id THEN row ELSE a : a \in acls}
          /\ bound' = {b \in bound : b.id # row.id} \cup
                      {[id |-> row.id, acer |-> job[t].p.acer,
                        acee |-> job[t].p.acee]}
          /\ Goto(t, "updAccount") /\ Unlock(t)
          /\ UNCHANGED <<job, ret>>
       \/ /\ NoFault /\ clash /\ Return(t, "fail") /\ Unlock(t)
          /\ UNCHANGED <<acls, bound>>
       \/ /\ Fault /\ Return(t, "fail") /\ Unlock(t)
          /\ UNCHANGED <<acls, bound>>
    /\ UNCHANGED <<acers, acees, trust, mirrors, open, sent, ops>>

\* The event a status change of the only active ACL of a group causes; n is
\* the number of active ACLs of the group, read after the row was updated.
Turned(j, n, on, off) ==
    IF j.p.lnn THEN {}
    ELSE IF n = 1 /\ j.p.status = 1 /\ j.old = 0 THEN {on}
    ELSE IF n = 0 /\ j.p.status = 0 /\ j.old = 1 THEN {off}
    ELSE {}

\* NotifyAccountAclCheck: a failing or empty scan sends nothing.
NotifyAccountAclCheck(t) ==
    /\ At(t, "updAccount")
    /\ \/ /\ NoFault
          /\ sent' = [sent EXCEPT ![t] = @ \cup
                IF GetAllAccessControlProfiles = {} THEN {}
                ELSE Turned(job[t], CheckAccountAclActiveCount(job[t].p),
                            "accountActive", "accountInactive")]
       \/ Fault /\ UNCHANGED sent
    /\ Goto(t, "updUser")
    /\ UNCHANGED <<tables, mirrors, open, lock, job, ret, bound, ops>>

\* NotifyCheck, user level: a failing or empty scan ends NotifyCheck.
NotifyCheckUser(t) ==
    /\ At(t, "updUser")
    /\ \/ /\ NoFault /\ GetAllAccessControlProfiles # {}
          /\ sent' = [sent EXCEPT ![t] = @ \cup
                Turned(job[t], CheckDeviceIdAndUserIdActive(job[t].p),
                       "userActive", "userInactive")]
          /\ Goto(t, "updDevice")
       \/ /\ Fault \/ (NoFault /\ GetAllAccessControlProfiles = {})
          /\ Goto(t, "updStatus") /\ UNCHANGED sent
    /\ UNCHANGED <<tables, mirrors, open, lock, job, ret, bound, ops>>

\* NotifyCheck, device level: NotifyDeviceAclInactiveByUpdate.
NotifyCheckDevice(t) ==
    /\ At(t, "updDevice")
    /\ \E found \in BOOLEAN :
         /\ Scan(CheckDeviceIdActiveAclExists(job[t].p), found)
         /\ sent' = [sent EXCEPT ![t] = @ \cup
               IF found \/ job[t].p.lnn THEN {} ELSE {"deviceInactive"}]
    /\ Goto(t, "updStatus")
    /\ UNCHANGED <<tables, mirrors, open, lock, job, ret, bound, ops>>

\* GetResultStatus of an update or a delete: a failure leaves STATUS_INIT.
GetStatus(t) ==
    /\ pc[t] \in {"updStatus", "delStatus"}
    /\ \/ /\ NoFault
          /\ job' = [job EXCEPT ![t].status = GetResultStatus(job[t].row.dev)]
       \/ /\ Fault
          /\ job' = [job EXCEPT ![t].status = 0]
    /\ Goto(t, "select")
    /\ UNCHANGED <<tables, mirrors, open, lock, ret, sent, bound, ops>>

(***************************************************************************)
(* DeleteAccessControlProfile                                              *)
(***************************************************************************)
DeleteAccessControlProfile(t, a) ==
    /\ Enter(t)
    /\ job' = [job EXCEPT ![t] =
         [row |-> a,
          p |-> [acer |-> PartyOf(acers, a.acer),
                 acee |-> PartyOf(acees, a.acee), dev |-> a.dev,
                 attr |-> a.attr, status |-> a.status, lnn |-> a.lnn],
          userExists |-> FALSE, accountExists |-> FALSE,
          old |-> a.status, status |-> 0]]
    /\ lock' = {t}
    /\ Goto(t, "delAccessee")
    /\ UNCHANGED <<tables, mirrors, open, ret, bound, faults>>

Delete(T, i) == {r \in T : r.id # i}

\* Faulty variants: any number of references; none.
IsSomeReference(S) == Cardinality(S) >= 1
IsNoReference(S) == Cardinality(S) = 0
\* RET_NUM: the SELECT found the one ACL that is about to go.
IsLastReference(S) == Cardinality(S) = 1

\* The accessee goes with the last ACL that refers to it.
DeleteAccesseeCheck(t) ==
    /\ At(t, "delAccessee")
    /\ LET i == job[t].row.acee IN
       \/ /\ NoFault
          /\ acees' = IF IsLastReference({a \in acls : a.acee = i})
                      THEN Delete(acees, i) ELSE acees
          /\ Goto(t, "delAccesser")
          /\ UNCHANGED <<lock, job, ret>>
       \/ /\ Fault /\ Return(t, "fail") /\ Unlock(t)
          /\ UNCHANGED acees
    /\ UNCHANGED <<acls, acers, trust, mirrors, open, sent, bound, ops>>

DeleteAccesserCheck(t) ==
    /\ At(t, "delAccesser")
    /\ LET i == job[t].row.acer IN
       \/ /\ NoFault
          /\ acers' = IF IsLastReference({a \in acls : a.acer = i})
                      THEN Delete(acers, i) ELSE acers
          /\ Goto(t, "delAcl")
          /\ UNCHANGED <<lock, job, ret>>
       \/ /\ Fault /\ Return(t, "fail") /\ Unlock(t)
          /\ UNCHANGED acers
    /\ UNCHANGED <<acls, acees, trust, mirrors, open, sent, bound, ops>>

DeleteAclRow(t) ==
    /\ At(t, "delAcl")
    /\ LET i == job[t].row.id IN
       \/ /\ NoFault
          /\ acls' = Delete(acls, i)
          /\ bound' = Delete(bound, i)
          /\ Goto(t, "delUserCheck")
          /\ UNCHANGED <<job, ret>>
       \/ /\ Fault /\ Return(t, "fail")
          /\ UNCHANGED <<acls, bound>>
    /\ Unlock(t)
    /\ UNCHANGED <<acers, acees, trust, mirrors, open, sent, ops>>

\* DeleteTrustDeviceCheck: each notification follows a scan of its own.
DeleteUserCheck(t) ==
    /\ At(t, "delUserCheck")
    /\ \E found \in BOOLEAN :
         /\ Scan(CheckDeviceIdAndUserIdExists(job[t].p), found)
         /\ Goto(t, IF found \/ job[t].p.lnn THEN "delDevice"
                    ELSE "delUserSend")
    /\ UNCHANGED <<tables, mirrors, open, lock, job, ret, sent, bound, ops>>

NotifyTrustDeviceProfileDelete(t) ==
    /\ At(t, "delUserSend")
    /\ users' = users \ {UserKey(job[t].p)}
    /\ Goto(t, "delDevice")
    /\ UNCHANGED <<tables, accounts, open, lock, job, ret, sent, bound, ops,
                   faults>>

NotifyDeviceAclInactiveByDelete(t) ==
    /\ At(t, "delDevice")
    /\ \E found \in BOOLEAN :
         /\ Scan(CheckDeviceIdActiveAclExists(job[t].p), found)
         /\ sent' = [sent EXCEPT ![t] = @ \cup
               IF found \/ job[t].p.lnn THEN {} ELSE {"deviceInactive"}]
    /\ Goto(t, "delAccountCheck")
    /\ UNCHANGED <<tables, mirrors, open, lock, job, ret, bound, ops>>

DeleteAccountCheck(t) ==
    /\ At(t, "delAccountCheck")
    /\ \E found \in BOOLEAN :
         /\ Scan(CheckAccountAclExists(job[t].p), found)
         /\ Goto(t, IF found \/ job[t].p.lnn THEN "delCount"
                    ELSE "delAccountSend")
    /\ UNCHANGED <<tables, mirrors, open, lock, job, ret, sent, bound, ops>>

NotifyAccountAclDelete(t) ==
    /\ At(t, "delAccountSend")
    /\ accounts' = accounts \ {AccountKey(job[t].p)}
    /\ Goto(t, "delCount")
    /\ UNCHANGED <<tables, users, open, lock, job, ret, sent, bound, ops,
                   faults>>

\* The trust row goes when no ACL refers to the device (LNN ones included).
DeleteTrustDeviceCheck(t) ==
    /\ At(t, "delCount")
    /\ \/ /\ NoFault
          /\ Goto(t, IF AclsOf(job[t].row.dev) = {} THEN "delTrustSelect"
                     ELSE "delStatus")
          /\ UNCHANGED <<job, ret>>
       \/ Fault /\ Return(t, "fail")
    /\ UNCHANGED <<tables, mirrors, open, lock, sent, bound, ops>>

\* DeleteTrustDeviceProfile: select, then delete.
DeleteTrustSelect(t) ==
    /\ At(t, "delTrustSelect")
    /\ \/ /\ NoFault /\ TrustOf(job[t].row.dev) # {}
          /\ Goto(t, "delTrust")
          /\ UNCHANGED <<job, ret>>
       \/ /\ NoFault /\ TrustOf(job[t].row.dev) = {}
          /\ Return(t, "notfound")
       \/ Fault /\ Return(t, "fail")
    /\ UNCHANGED <<tables, mirrors, open, lock, sent, bound, ops>>

DeleteTrustDeviceProfile(t) ==
    /\ At(t, "delTrust")
    /\ \/ /\ NoFault
          /\ trust' = {r \in trust : r.dev # job[t].row.dev}
          /\ Return(t, "ok")
       \/ Fault /\ Return(t, "fail") /\ UNCHANGED trust
    /\ UNCHANGED <<acls, acers, acees, mirrors, open, lock, sent, bound, ops>>

(***************************************************************************)
(* The store and the process                                               *)
(***************************************************************************)
\* UnInit drops rdbStore_ under rdbMutex_ while calls may be running; Init
\* opens it again.
UnInit == /\ open /\ faults < MaxFaults
          /\ open' = FALSE
          /\ faults' = faults + 1
          /\ UNCHANGED <<tables, mirrors, lock, pc, job, ret, sent, bound, ops>>
Reopen == /\ ~open
         /\ open' = TRUE
         /\ UNCHANGED <<tables, mirrors, lock, pc, job, ret, sent, bound, ops,
                        faults>>

\* The process dies and is started again; only the tables survive.
Crash == /\ faults < MaxFaults
         /\ faults' = faults + 1
         /\ open' = TRUE
         /\ lock' = {}
         /\ pc' = [t \in Threads |-> "idle"]
         /\ job' = [t \in Threads |-> NoJob]
         /\ ret' = [t \in Threads |-> "none"]
         /\ sent' = [t \in Threads |-> {}]
         /\ UNCHANGED <<tables, mirrors, bound, ops>>

Idle == \A t \in Threads : pc[t] = "idle"

\* Every client has made its calls.
Quiesce == Idle /\ ops = MaxOps /\ UNCHANGED vars

-----------------------------------------------------------------------------
Init ==
    /\ acls = {} /\ acers = {} /\ acees = {} /\ trust = {}
    /\ open = TRUE
    /\ lock = {}
    /\ pc = [t \in Threads |-> "idle"]
    /\ job = [t \in Threads |-> NoJob]
    /\ ret = [t \in Threads |-> "none"]
    /\ sent = [t \in Threads |-> {}]
    /\ users = {} /\ accounts = {} /\ bound = {}
    /\ ops = 0 /\ faults = 0

Put(t) == \/ \E p \in Profiles : PutAccessControlProfile(t, p)
          \/ PutAccesserProfile(t) \/ PutAccesseeProfile(t) \/ PutAclRow(t)
          \/ PutAclCheckUser(t) \/ PutAclCheckAccount(t)
          \/ PutAclCheckTrust(t) \/ PutTrustDeviceProfile(t)
          \/ PutAclCheckStatus(t)

Update(t) == \/ \E p \in Profiles : UpdateAccessControlProfile(t, p)
             \/ UpdateAccesserProfile(t) \/ UpdateAccesseeProfile(t)
             \/ UpdateAclRow(t) \/ NotifyAccountAclCheck(t)
             \/ NotifyCheckUser(t) \/ NotifyCheckDevice(t)

Remove(t) == \/ \E a \in acls : DeleteAccessControlProfile(t, a)
             \/ DeleteAccesseeCheck(t) \/ DeleteAccesserCheck(t)
             \/ DeleteAclRow(t) \/ DeleteUserCheck(t)
             \/ NotifyTrustDeviceProfileDelete(t)
             \/ NotifyDeviceAclInactiveByDelete(t)
             \/ DeleteAccountCheck(t) \/ NotifyAccountAclDelete(t)
             \/ DeleteTrustDeviceCheck(t) \/ DeleteTrustSelect(t)
             \/ DeleteTrustDeviceProfile(t)

Trust(t) == GetStatus(t) \/ SelectTrustDevice(t) \/ UpdateTrustDeviceProfile(t)

Next == \/ \E t \in Threads : \/ Put(t) \/ Update(t) \/ Remove(t) \/ Trust(t)
                              \/ \E r \in {"notfound", "notallowed", "fail"} :
                                    RejectAcl(t, r)
        \/ UnInit \/ Reopen \/ Crash \/ Quiesce

Spec == Init /\ [][Next]_vars

-----------------------------------------------------------------------------
(* Properties *)

Labels == {"idle", "putAccesser", "putAccessee", "putAcl", "putUserSend",
    "putAccountSend", "putReadTrust", "putTrust", "putStatus", "putSelect",
    "putUpdate", "select", "update", "updAccesser", "updAccessee", "updAcl",
    "updAccount", "updUser", "updDevice", "updStatus", "delAccessee",
    "delAccesser", "delAcl", "delUserCheck", "delUserSend", "delDevice",
    "delAccountCheck", "delAccountSend", "delCount", "delStatus",
    "delTrustSelect", "delTrust"}
Locked == {"putAccesser", "putAccessee", "putAcl", "updAccesser",
           "updAccessee", "updAcl", "delAccessee", "delAccesser", "delAcl"}
Bound == [id : Nat, acer : Parties, acee : Parties]

\* The type of the tables, the locals and the history.
TypeOK ==
    /\ acls \in SUBSET AclRow /\ IsFiniteSet(acls)
    /\ acers \in SUBSET PartyRow /\ IsFiniteSet(acers)
    /\ acees \in SUBSET PartyRow /\ IsFiniteSet(acees)
    /\ trust \in SUBSET TrustRow
    /\ open \in BOOLEAN
    /\ lock \in SUBSET Threads
    /\ pc \in [Threads -> Labels]
    /\ job \in [Threads -> Job \cup {NoJob}]
    /\ \A t \in Threads : pc[t] # "idle" => job[t] \in Job
    /\ ret \in [Threads -> Returns]
    /\ sent \in [Threads -> SUBSET Events]
    /\ bound \in SUBSET Bound
    /\ ops \in Nat /\ faults \in Nat

\* aclMutex_ is held exactly by the thread that is between taking and
\* releasing it, so there is at most one.
MutexOK == /\ \A t \in Threads : t \in lock <=> pc[t] \in Locked
           /\ \A t, u \in lock : t = u

\* Primary keys: an id names one row of its table, a device has one trust row.
\* The ids are computed by SELECT and then used by INSERT, so this rests on
\* aclMutex_; trust_device_table is written outside it.
KeysUnique ==
    /\ \A a, b \in acls : a.id = b.id => a = b
    /\ \A a, b \in acers : a.id = b.id => a = b
    /\ \A a, b \in acees : a.id = b.id => a = b
    /\ \A a, b \in trust : a.dev = b.dev => a = b

\* Foreign keys: outside the critical section every ACL finds its accesser and
\* its accessee (the references GetAccessControlProfile follows), as long as no
\* statement failed and the process did not die.
PartiesPresent ==
    (faults = 0 /\ lock = {}) =>
        \A a \in acls : a.acer \in Ids(acers) /\ a.acee \in Ids(acees)

\* No leak: outside the critical section every party row is used by an ACL, so
\* the COUNT = 1 test of the cascade removes a party with its last ACL.
NoOrphanParty ==
    (faults = 0 /\ lock = {}) =>
        /\ \A r \in acers : \E a \in acls : a.acer = r.id
        /\ \A r \in acees : \E a \in acls : a.acee = r.id

\* An ACL leads to the parties it was granted to: sharing party rows between
\* ACLs and reusing the ids of deleted rows never rebinds it.
GrantStable ==
    lock = {} =>
        \A b \in bound : \A a \in acls : a.id = b.id =>
            /\ PartyOf(acers, a.acer) = b.acer
            /\ PartyOf(acees, a.acee) = b.acee

\* Between calls a device has a trust row exactly when it has an ACL
\* (access_control.trustDeviceId is a foreign key into trust_device_table, and
\* the last stage of the delete cascade removes the row), and the row is active
\* exactly when one of these ACLs is (GetResultStatus).
TrustRowsMatch ==
    (faults = 0 /\ Idle) =>
        /\ {r.dev : r \in trust} = {a.dev : a \in acls}
        /\ \A r \in trust : r.status = 1 <=> \E a \in AclsOf(r.dev) : a.status = 1

\* Between calls a subscriber that applied every Add and Delete notification
\* knows exactly the user pairs and account pairs that have a non-LNN ACL.
MirrorsExact ==
    (faults = 0 /\ Idle) =>
        /\ users = {UserKey(a) : a \in UserAcls}
        /\ accounts = {AccountKey(a) : a \in UserAcls}

ActiveTrust == {r.dev : r \in {x \in trust : x.status = 1}}

\* A step that takes a device out of the active trust rows belongs to a call
\* that has announced it (DeviceAclInactiveByUpdate/ByDelete) before, or that
\* changes an LNN ACL.
NoSilentDeactivation ==
    [][(faults' = 0 /\ ~(ActiveTrust \subseteq ActiveTrust')) =>
         \E t \in Threads : pc[t] \in {"update", "putUpdate", "delTrust"} /\
             (job[t].p.lnn \/ "deviceInactive" \in sent[t])]_vars

=============================================================================
