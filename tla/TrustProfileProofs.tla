------------------------- MODULE TrustProfileProofs -------------------------
(***************************************************************************)
(* Proofs about TrustProfile, for every set of threads and of profiles and *)
(* every bound: type correctness, mutual exclusion, the primary keys and   *)
(* unique indexes, the references between access_control_table and the two *)
(* party tables, and the grants; and, where calls run one at a time, the   *)
(* trust rows and what subscribers have been told.                         *)
(***************************************************************************)
EXTENDS TrustProfile, FiniteSetTheorems, TLAPS

-----------------------------------------------------------------------------
(* Ids *)

HasMax(S) == \E m \in S : \A x \in S : x <= m

\* A finite, non-empty set of naturals has a largest element: what GoToLastRow
\* finds exists.
LEMMA FiniteMax ==
    ASSUME NEW S \in SUBSET Nat, IsFiniteSet(S), S # {}
    PROVE  HasMax(S)
PROOF
<1> DEFINE Bad == {A \in FiniteSubsetsOf(Nat) : A # {} /\ ~HasMax(A)}
<1> DEFINE R == StrictSubsetOrdering(Nat)
<1>1. SUFFICES ASSUME Bad # {} PROVE FALSE
  BY DEF FiniteSubsetsOf
<1>2. IsWellFoundedOn(R, FiniteSubsetsOf(Nat))
  BY FS_StrictSubsetOrderingWellFounded
<1>3. PICK A \in Bad : \A B \in Bad : ~ (<<B, A>> \in R)
  BY <1>1, <1>2, WFMin
<1>4. PICK x \in A : TRUE
  BY <1>3
<1>5. A \in SUBSET Nat /\ IsFiniteSet(A) /\ x \in Nat
  BY <1>3, <1>4 DEF FiniteSubsetsOf
<1> DEFINE B == A \ {x}
<1>6. B \in FiniteSubsetsOf(Nat) /\ <<B, A>> \in R
  <2>1. IsFiniteSet(B)
    BY <1>5, FS_RemoveElement
  <2>2. B \subseteq A /\ B # A
    BY <1>4
  <2> QED BY <1>5, <2>1, <2>2 DEF FiniteSubsetsOf, StrictSubsetOrdering
<1>7. CASE B = {}
  <2>1. A = {x}
    BY <1>4, <1>7
  <2> QED BY <1>3, <1>5, <2>1 DEF HasMax
<1>8. CASE HasMax(B)
  <2>1. PICK m \in B : \A y \in B : y <= m
    BY <1>8 DEF HasMax
  <2>2. HasMax(A)
    <3>1. CASE m <= x
      BY <1>4, <1>5, <2>1, <3>1 DEF HasMax
    <3>2. CASE x <= m
      BY <1>4, <1>5, <2>1, <3>2 DEF HasMax
    <3> QED BY <1>5, <2>1, <3>1, <3>2
  <2> QED BY <1>3, <2>2
<1> QED BY <1>3, <1>6, <1>7, <1>8

\* The next id is a natural number that no row of the table has.
LEMMA NextIdFresh ==
    ASSUME NEW T, IsFiniteSet(T), \A r \in T : r.id \in Nat
    PROVE  NextId(T) \in Nat /\ NextId(T) \notin Ids(T)
PROOF
<1>1. CASE T = {}
  BY <1>1 DEF NextId, Ids
<1>2. CASE T # {}
  <2>1. Ids(T) \in SUBSET Nat /\ Ids(T) # {}
    BY <1>2 DEF Ids
  <2>2. IsFiniteSet(Ids(T))
    <3> DEFINE f == [r \in T |-> r.id]
    <3>1. f \in Surjection(T, Ids(T))
      <4>1. f \in [T -> Ids(T)]
        BY DEF Ids
      <4>2. \A i \in Ids(T) : \E r \in T : f[r] = i
        BY DEF Ids
      <4> QED BY <4>1, <4>2 DEF Surjection
    <3> QED BY <3>1, FS_Surjection
  <2>3. HasMax(Ids(T))
    BY <2>1, <2>2, FiniteMax
  <2> DEFINE m == CHOOSE i \in Ids(T) : \A j \in Ids(T) : j <= i
  <2>4. m \in Ids(T) /\ \A j \in Ids(T) : j <= m
    BY <2>3 DEF HasMax
  <2>5. NextId(T) = m + 1
    BY <1>2 DEF NextId
  <2> QED BY <2>1, <2>4, <2>5
<1> QED BY <1>1, <1>2

\* A party keeps the id it has, and gets a fresh one otherwise.
LEMMA PartyIdSpec ==
    ASSUME NEW T, IsFiniteSet(T), \A r \in T : r.id \in Nat, NEW q
    PROVE  /\ PartyId(T, q) \in Nat
           /\ \/ \E r \in T : r.party = q /\ r.id = PartyId(T, q)
              \/ (\A r \in T : r.party # q) /\ PartyId(T, q) \notin Ids(T)
PROOF
<1>1. CASE \E r \in T : r.party = q
  BY <1>1 DEF PartyId
<1>2. CASE ~ \E r \in T : r.party = q
  BY <1>2, NextIdFresh DEF PartyId
<1> QED BY <1>1, <1>2

\* COUNT = 1 in SQL is "the only row"; otherwise another row refers as well.
LEMMA CountOne ==
    ASSUME NEW S, IsFiniteSet(S), NEW a \in S
    PROVE  /\ Cardinality(S) = 1 => \A b \in S : b = a
           /\ Cardinality(S) # 1 => \E b \in S : b # a
PROOF
<1>1. Cardinality(S) = 1 <=> \E x : S = {x}
  BY FS_Singleton
<1>2. (\E x : S = {x}) <=> \A b \in S : b = a
  OBVIOUS
<1> QED BY <1>1, <1>2

-----------------------------------------------------------------------------
(* The inductive invariant *)

Inserting == {"putAccesser", "putAccessee", "putAcl"}
Updating == {"updAccesser", "updAccessee", "updAcl"}
Deleting == {"delAccessee", "delAccesser", "delAcl"}

HasRow(T, i) == \E r \in T : r.id = i
IsRow(T, i, q) == \E r \in T : r.id = i /\ r.party = q
\* i is the id of the party q, or q is not stored and i is free.
RowFor(T, i, q) == \/ IsRow(T, i, q)
                   \/ /\ \A r \in T : r.party # q
                      /\ ~HasRow(T, i)

\* What the ids and rows computed under aclMutex_ still mean when the next
\* statement uses them.
PutOK(t) ==
    LET row == job[t].row
        p == job[t].p
    IN  /\ pc[t] \in Inserting => ~HasRow(acls, row.id)
        /\ At(t, "putAccesser") => RowFor(acers, row.acer, p.acer)
        /\ pc[t] \in {"putAccesser", "putAccessee"} =>
              RowFor(acees, row.acee, p.acee)
        /\ pc[t] \in {"putAccessee", "putAcl"} => HasRow(acers, row.acer)
        /\ At(t, "putAcl") => HasRow(acees, row.acee)
UpdateOK(t) ==
    pc[t] \in Updating =>
        \E a \in acls : /\ a.id = job[t].row.id
                       /\ a.acer = job[t].row.acer
                       /\ a.acee = job[t].row.acee
DeleteOK(t) == pc[t] \in Deleting => job[t].row \in acls
JobOK == \A t \in Threads : PutOK(t) /\ UpdateOK(t) /\ DeleteOK(t)

\* The references as the call t sees them: while it deletes an ACL, that one may
\* have lost its parties, and keeps none that no other ACL uses; while it puts
\* one, the parties of the ACL to come are stored already.
AceeRefs(t) ==
    LET row == job[t].row
        going == pc[t] \in {"delAccesser", "delAcl"}
    IN  /\ \A a \in acls : HasRow(acees, a.acee) \/ (going /\ row = a)
        /\ going /\ HasRow(acees, row.acee) =>
              \E b \in acls : b # row /\ b.acee = row.acee
        /\ \A r \in acees : \/ \E a \in acls : a.acee = r.id
                            \/ At(t, "putAcl") /\ row.acee = r.id
AcerRefs(t) ==
    LET row == job[t].row
        going == At(t, "delAcl")
        coming == pc[t] \in {"putAccessee", "putAcl"}
    IN  /\ \A a \in acls : HasRow(acers, a.acer) \/ (going /\ row = a)
        /\ going /\ HasRow(acers, row.acer) =>
              \E b \in acls : b # row /\ b.acer = row.acer
        /\ \A r \in acers : \/ \E a \in acls : a.acer = r.id
                            \/ coming /\ row.acer = r.id
References == \A t \in Threads :
                (t \in lock \/ lock = {}) => AceeRefs(t) /\ AcerRefs(t)

\* The unique indexes: no two rows agree on the identifying columns. Each write
\* tests it in its own step; the other parts of the invariant rest on it.
IndexesUnique ==
    /\ \A a, b \in acls : SameAcl(a, b) => a = b
    /\ \A a, b \in acers : a.party = b.party => a = b
    /\ \A a, b \in acees : a.party = b.party => a = b

KeyInv == TypeOK /\ MutexOK /\ KeysUnique /\ IndexesUnique /\ JobOK

-----------------------------------------------------------------------------
(* Types *)

\* A reference leads to a party or to the default object.
LEMMA PartyOfType ==
    ASSUME NEW T \in SUBSET PartyRow, NEW i
    PROVE  PartyOf(T, i) \in Parties
PROOF
<1>1. CASE \E r \in T : r.id = i
  BY <1>1 DEF PartyOf, PartyRow
<1>2. CASE ~ \E r \in T : r.id = i
  BY <1>2 DEF PartyOf, Parties
<1> QED BY <1>1, <1>2

\* A statement that writes one row x leaves the table finite.
LEMMA WriteFinite ==
    ASSUME NEW T, IsFiniteSet(T), NEW x, NEW U, U \subseteq T \cup {x}
    PROVE  IsFiniteSet(U)
PROOF
<1>1. IsFiniteSet(T \cup {x})
  BY FS_AddElement
<1> QED BY <1>1, FS_Subset

\* UPDATE of a party row (UpdateAccesserProfile, UpdateAccesseeProfile) leaves a
\* finite table of party rows.
LEMMA RewriteType ==
    ASSUME NEW T \in SUBSET PartyRow, IsFiniteSet(T), NEW i, NEW q \in Parties
    PROVE  Rewrite(T, i, q) \in SUBSET PartyRow /\ IsFiniteSet(Rewrite(T, i, q))
PROOF
<1> DEFINE U == {IF r.id = i THEN [r EXCEPT !.party = q] ELSE r : r \in T}
<1>1. U \in SUBSET PartyRow
  BY DEF PartyRow
<1>2. U \subseteq T \cup {[id |-> i, party |-> q]}
  BY DEF PartyRow
<1>3. IsFiniteSet(U)
  BY <1>2, WriteFinite
<1> QED BY <1>1, <1>3 DEF Rewrite

\* The locals a put starts with.
LEMMA PutJobType ==
    ASSUME TypeOK, NEW p \in Profiles, NEW u \in BOOLEAN, NEW a \in BOOLEAN
    PROVE  PutJob(p, u, a) \in Job
PROOF
<1>1. p \in Request
  BY ProfilesAssumption
<1>2. SetAccessControlId \in Nat
  BY NextIdFresh DEF TypeOK, SetAccessControlId, AclRow
<1>3. SetAccesserId(p.acer) \in Nat
  BY PartyIdSpec DEF TypeOK, SetAccesserId, PartyRow
<1>4. SetAccesseeId(p.acee) \in Nat
  BY PartyIdSpec DEF TypeOK, SetAccesseeId, PartyRow
<1> QED BY <1>1, <1>2, <1>3, <1>4 DEF PutJob, RowOf, Job, AclRow, Request

UnlockedStep(t) ==
    \/ PutAclCheckUser(t) \/ PutAclCheckAccount(t) \/ PutAclCheckTrust(t)
    \/ PutTrustDeviceProfile(t) \/ PutAclCheckStatus(t)
    \/ NotifyAccountAclCheck(t) \/ NotifyCheckUser(t) \/ NotifyCheckDevice(t)
    \/ DeleteUserCheck(t) \/ NotifyTrustDeviceProfileDelete(t)
    \/ NotifyDeviceAclInactiveByDelete(t) \/ DeleteAccountCheck(t)
    \/ NotifyAccountAclDelete(t) \/ DeleteTrustDeviceCheck(t)
    \/ DeleteTrustSelect(t) \/ DeleteTrustDeviceProfile(t)
    \/ GetStatus(t) \/ SelectTrustDevice(t) \/ UpdateTrustDeviceProfile(t)

\* A step of the phase without aclMutex_ keeps the types.
LEMMA TypeUnlockedStep ==
    ASSUME TypeOK, NEW t \in Threads, UnlockedStep(t)
    PROVE  TypeOK'
PROOF
<1> USE DEF TypeOK, Labels, Events, Returns, Goto, At, tables, mirrors, Job
<1>1. CASE PutAclCheckUser(t)
  BY <1>1 DEF PutAclCheckUser
<1>2. CASE PutAclCheckAccount(t)
  BY <1>2 DEF PutAclCheckAccount
<1>3. CASE PutAclCheckTrust(t)
  BY <1>3 DEF PutAclCheckTrust, NoFault, Fault, Return
<1>4. CASE PutTrustDeviceProfile(t)
  BY <1>4 DEF PutTrustDeviceProfile, NoFault, Fault, Return, TrustRow, AclRow, Request
<1>5. CASE PutAclCheckStatus(t)
  BY <1>5 DEF PutAclCheckStatus, NoFault, Fault, Return, GetResultStatus, Status
<1>6. CASE NotifyAccountAclCheck(t)
  BY <1>6 DEF NotifyAccountAclCheck, Turned, Scan, NoFault, Fault
<1>7. CASE NotifyCheckUser(t)
  BY <1>7 DEF NotifyCheckUser, Turned, Scan, NoFault, Fault
<1>8. CASE NotifyCheckDevice(t)
  BY <1>8 DEF NotifyCheckDevice, Scan, NoFault, Fault
<1>9. CASE DeleteUserCheck(t)
  BY <1>9 DEF DeleteUserCheck, Scan, NoFault, Fault
<1>10. CASE NotifyTrustDeviceProfileDelete(t)
  BY <1>10 DEF NotifyTrustDeviceProfileDelete
<1>11. CASE NotifyDeviceAclInactiveByDelete(t)
  BY <1>11 DEF NotifyDeviceAclInactiveByDelete, Scan, NoFault, Fault
<1>12. CASE DeleteAccountCheck(t)
  BY <1>12 DEF DeleteAccountCheck, Scan, NoFault, Fault
<1>13. CASE NotifyAccountAclDelete(t)
  BY <1>13 DEF NotifyAccountAclDelete
<1>14. CASE DeleteTrustDeviceCheck(t)
  BY <1>14 DEF DeleteTrustDeviceCheck, NoFault, Fault, Return
<1>15. CASE DeleteTrustSelect(t)
  BY <1>15 DEF DeleteTrustSelect, NoFault, Fault, Return
<1>16. CASE DeleteTrustDeviceProfile(t)
  BY <1>16 DEF DeleteTrustDeviceProfile, NoFault, Fault, Return
<1>17. CASE GetStatus(t)
  BY <1>17 DEF GetStatus, NoFault, Fault, GetResultStatus, Status
<1>18. CASE SelectTrustDevice(t)
  BY <1>18 DEF SelectTrustDevice, NoFault, Fault, Return
<1>19. CASE UpdateTrustDeviceProfile(t)
  BY <1>19 DEF UpdateTrustDeviceProfile, NoFault, Fault, Return, TrustRow
<1> QED BY <1>1, <1>2, <1>3, <1>4, <1>5, <1>6, <1>7, <1>8, <1>9, <1>10, <1>11, <1>12, <1>13, <1>14, <1>15, <1>16, <1>17, <1>18, <1>19 DEF UnlockedStep

LockedStep(t) ==
    \/ \E p \in Profiles : PutAccessControlProfile(t, p)
    \/ \E p \in Profiles : UpdateAccessControlProfile(t, p)
    \/ \E a \in acls : DeleteAccessControlProfile(t, a)
    \/ \E r \in {"notfound", "notallowed", "fail"} : RejectAcl(t, r)
    \/ PutAccesserProfile(t) \/ PutAccesseeProfile(t) \/ PutAclRow(t)
    \/ UpdateAccesserProfile(t) \/ UpdateAccesseeProfile(t) \/ UpdateAclRow(t)
    \/ DeleteAccesseeCheck(t) \/ DeleteAccesserCheck(t) \/ DeleteAclRow(t)

\* A step of the phase under aclMutex_ keeps the types.
LEMMA TypeLockedStep ==
    ASSUME TypeOK, NEW t \in Threads, LockedStep(t)
    PROVE  TypeOK'
PROOF
<1> USE DEF TypeOK, Labels, Returns, Goto, At, Unlock, Return, NoFault, Fault,
            tables, mirrors
<1>1. CASE \E p \in Profiles : PutAccessControlProfile(t, p)
  <2>1. PICK p \in Profiles : PutAccessControlProfile(t, p)
    BY <1>1
  <2>2. \E u, a \in BOOLEAN : job' = [job EXCEPT ![t] = PutJob(p, u, a)]
    BY <2>1 DEF PutAccessControlProfile, CheckDeviceIdAndUserIdExists,
                CheckAccountAclExists
  <2>3. job'[t] \in Job /\ job' \in [Threads -> Job \cup {NoJob}]
    BY <2>2, PutJobType
  <2>4. \A u \in Threads \ {t} : job'[u] = job[u]
    BY <2>2
  <2>5. faults' = faults \/ faults' = faults + 1
    BY <2>1, Zenon DEF PutAccessControlProfile
  <2>6. UNCHANGED <<tables, open, ret, bound>> /\ lock' = {t}
        /\ pc' = [pc EXCEPT ![t] = "putAccesser"]
        /\ sent' = [sent EXCEPT ![t] = {}] /\ ops' = ops + 1
    BY <2>1 DEF PutAccessControlProfile, Enter
  <2> QED BY <2>3, <2>4, <2>5, <2>6
<1>2. CASE \E p \in Profiles : UpdateAccessControlProfile(t, p)
  <2>1. PICK p \in Profiles : UpdateAccessControlProfile(t, p)
    BY <1>2
  <2>2. PICK o \in acls : job' = [job EXCEPT ![t] =
              [row |-> RowOf(p, o.id, o.acer, o.acee), p |-> p,
               userExists |-> FALSE, accountExists |-> FALSE,
               old |-> o.status, status |-> 0]]
    BY <2>1 DEF UpdateAccessControlProfile
  <2>3. job'[t] \in Job /\ job' \in [Threads -> Job \cup {NoJob}]
    BY <2>2, ProfilesAssumption DEF Job, RowOf, AclRow, Request, Status
  <2>4. UNCHANGED <<tables, open, ret, bound, faults>> /\ lock' = {t}
        /\ pc' = [pc EXCEPT ![t] = "updAccesser"]
        /\ sent' = [sent EXCEPT ![t] = {}] /\ ops' = ops + 1
        /\ \A u \in Threads \ {t} : job'[u] = job[u]
    BY <2>1 DEF UpdateAccessControlProfile, Enter
  <2> QED BY <2>3, <2>4
<1>3. CASE \E a \in acls : DeleteAccessControlProfile(t, a)
  <2>1. PICK a \in acls : DeleteAccessControlProfile(t, a)
    BY <1>3
  <2>2. PartyOf(acers, a.acer) \in Parties /\ PartyOf(acees, a.acee) \in Parties
    BY PartyOfType
  <2>3. job'[t] \in Job /\ job' \in [Threads -> Job \cup {NoJob}]
    BY <2>1, <2>2 DEF DeleteAccessControlProfile, Job, AclRow, Request, Status
  <2>4. UNCHANGED <<tables, open, ret, bound, faults>> /\ lock' = {t}
        /\ pc' = [pc EXCEPT ![t] = "delAccessee"]
        /\ sent' = [sent EXCEPT ![t] = {}] /\ ops' = ops + 1
        /\ \A u \in Threads \ {t} : job'[u] = job[u]
    BY <2>1 DEF DeleteAccessControlProfile, Enter
  <2> QED BY <2>3, <2>4
<1>4. CASE \E r \in {"notfound", "notallowed", "fail"} : RejectAcl(t, r)
  BY <1>4 DEF RejectAcl, Enter
<1>5. CASE PutAccesserProfile(t)
  <2> DEFINE r == [id |-> job[t].row.acer, party |-> job[t].p.acer]
  <2>1. r \in PartyRow
    BY <1>5 DEF PutAccesserProfile, Job, AclRow, Request, PartyRow
  <2>2. acers' = acers \/ acers' = acers \cup {r}
    BY <1>5 DEF PutAccesserProfile
  <2>3. acers' \in SUBSET PartyRow /\ acers' \subseteq acers \cup {r}
    BY <2>1, <2>2
  <2>4. IsFiniteSet(acers)
    OBVIOUS
  <2>5. IsFiniteSet(acers')
    <3> HIDE DEF TypeOK, r
    <3> QED BY <2>3, <2>4, WriteFinite
  <2> QED BY <1>5, <2>3, <2>5 DEF PutAccesserProfile
<1>6. CASE PutAccesseeProfile(t)
  <2> DEFINE r == [id |-> job[t].row.acee, party |-> job[t].p.acee]
  <2>1. r \in PartyRow
    BY <1>6 DEF PutAccesseeProfile, Job, AclRow, Request, PartyRow
  <2>2. acees' = acees \/ acees' = acees \cup {r}
    BY <1>6 DEF PutAccesseeProfile
  <2>3. acees' \in SUBSET PartyRow /\ acees' \subseteq acees \cup {r}
    BY <2>1, <2>2
  <2>4. IsFiniteSet(acees)
    OBVIOUS
  <2>5. IsFiniteSet(acees')
    <3> HIDE DEF TypeOK, r
    <3> QED BY <2>3, <2>4, WriteFinite
  <2> QED BY <1>6, <2>3, <2>5 DEF PutAccesseeProfile
<1>7. CASE PutAclRow(t)
  <2>1. acls' \in SUBSET AclRow /\ IsFiniteSet(acls')
    <3>1. job[t].row \in AclRow
      BY <1>7 DEF PutAclRow, Job
    <3>2. acls' = acls \/ acls' = acls \cup {job[t].row}
      BY <1>7 DEF PutAclRow
    <3>3. acls' \in SUBSET AclRow /\ acls' \subseteq acls \cup {job[t].row}
      BY <3>1, <3>2
    <3>4. IsFiniteSet(acls)
      OBVIOUS
    <3> HIDE DEF TypeOK
    <3> QED BY <3>3, <3>4, WriteFinite
  <2>2. bound' \in SUBSET Bound
    BY <1>7 DEF PutAclRow, Job, AclRow, Request, Bound
  <2> QED BY <1>7, <2>1, <2>2 DEF PutAclRow
<1>8. CASE UpdateAccesserProfile(t)
  <2>1. acers' \in SUBSET PartyRow /\ IsFiniteSet(acers')
    BY <1>8, RewriteType DEF UpdateAccesserProfile, Job, Request
  <2> QED BY <1>8, <2>1 DEF UpdateAccesserProfile
<1>9. CASE UpdateAccesseeProfile(t)
  <2>1. acees' \in SUBSET PartyRow /\ IsFiniteSet(acees')
    BY <1>9, RewriteType DEF UpdateAccesseeProfile, Job, Request
  <2> QED BY <1>9, <2>1 DEF UpdateAccesseeProfile
<1>10. CASE UpdateAclRow(t)
  <2>1. acls' \in SUBSET AclRow /\ IsFiniteSet(acls')
    <3> DEFINE row == job[t].row
               U == {IF a.id = row.id THEN row ELSE a : a \in acls}
    <3>1. row \in AclRow
      BY <1>10 DEF UpdateAclRow, Job
    <3>2. acls' = acls \/ acls' = U
      BY <1>10 DEF UpdateAclRow
    <3>3. U \in SUBSET AclRow
      BY <3>1
    <3>4. U \subseteq acls \cup {row}
      OBVIOUS
    <3>5. IsFiniteSet(U)
      <4>1. IsFiniteSet(acls)
        OBVIOUS
      <4> HIDE DEF TypeOK, U
      <4> QED BY <3>4, <4>1, WriteFinite
    <3> QED BY <3>2, <3>3, <3>5
  <2>2. bound' \in SUBSET Bound
    BY <1>10 DEF UpdateAclRow, Job, AclRow, Request, Bound
  <2> QED BY <1>10, <2>1, <2>2 DEF UpdateAclRow
<1>11. CASE DeleteAccesseeCheck(t)
  <2>1. acees' \subseteq acees
    BY <1>11 DEF DeleteAccesseeCheck, Delete
  <2> QED BY <1>11, <2>1, FS_Subset DEF DeleteAccesseeCheck
<1>12. CASE DeleteAccesserCheck(t)
  <2>1. acers' \subseteq acers
    BY <1>12 DEF DeleteAccesserCheck, Delete
  <2> QED BY <1>12, <2>1, FS_Subset DEF DeleteAccesserCheck
<1>13. CASE DeleteAclRow(t)
  <2>1. acls' \subseteq acls /\ bound' \subseteq bound
    BY <1>13 DEF DeleteAclRow, Delete
  <2> QED BY <1>13, <2>1, FS_Subset DEF DeleteAclRow
<1> QED BY <1>1, <1>2, <1>3, <1>4, <1>5, <1>6, <1>7, <1>8, <1>9, <1>10, <1>11, <1>12, <1>13 DEF LockedStep

\* Next, by phase.
LEMMA NextCases ==
    ASSUME Next
    PROVE  \/ \E t \in Threads : LockedStep(t) \/ UnlockedStep(t)
           \/ UnInit \/ Reopen \/ Crash \/ Quiesce
PROOF
  BY DEF Next, Put, Update, Remove, Trust, LockedStep, UnlockedStep

\* The tables and the locals keep their types.
THEOREM TypeCorrect == Spec => []TypeOK
PROOF
<1>1. Init => TypeOK
  BY FS_EmptySet DEF Init, TypeOK, Labels, Returns
<1>2. TypeOK /\ [Next]_vars => TypeOK'
  <2> SUFFICES ASSUME TypeOK, [Next]_vars PROVE TypeOK'
    OBVIOUS
  <2>1. CASE \E t \in Threads : LockedStep(t) \/ UnlockedStep(t)
    BY <2>1, TypeLockedStep, TypeUnlockedStep
  <2>2. CASE UnInit
    <3>1. open' = FALSE /\ faults' = faults + 1
      BY <2>2 DEF UnInit
    <3>3. open' \in BOOLEAN
      BY <3>1, Zenon
    <3>4. faults' \in Nat
      BY <3>1 DEF TypeOK
    <3>2. UNCHANGED <<acls, acers, acees, trust, lock, pc, job, ret, sent,
                      bound, ops>>
      BY <2>2 DEF UnInit, tables
    <3> QED BY <3>2, <3>3, <3>4 DEF TypeOK
  <2>5. CASE Reopen
    BY <2>5 DEF Reopen, TypeOK, tables
  <2>3. CASE Crash
    BY <2>3 DEF Crash, TypeOK, tables, mirrors, Labels, Returns
  <2>4. CASE UNCHANGED vars
    BY <2>4 DEF vars, TypeOK
  <2> QED BY <2>1, <2>2, <2>3, <2>4, <2>5, NextCases DEF Quiesce
<1> QED BY <1>1, <1>2, PTL DEF Spec

-----------------------------------------------------------------------------
(* What the steps leave alone *)

TrustKeys == \A a, b \in trust : a.dev = b.dev => a = b

\* Outside the critical section a call moves only itself and writes only
\* trust_device_table.
Frame(t) == /\ UNCHANGED <<acls, acers, acees, lock>>
            /\ pc[t] \notin Locked /\ pc'[t] \notin Locked
            /\ \A u \in Threads \ {t} : pc'[u] = pc[u] /\ job'[u] = job[u]
            /\ faults' = 0 => faults = 0

\* What a call does after it released aclMutex_ (notifications and
\* trust_device_table) leaves aclMutex_, the three tables it guards and the other
\* calls alone.
LEMMA UnlockedFrame ==
    ASSUME TypeOK, NEW t \in Threads, UnlockedStep(t)
    PROVE  Frame(t)
PROOF
<1>1. faults \in Nat /\ pc \in [Threads -> Labels]
      /\ job \in [Threads -> Job \cup {NoJob}]
  BY DEF TypeOK
<1> USE <1>1 DEF Frame, Locked, Goto, At, tables, NoFault, Fault, Return
<1>2. CASE PutAclCheckUser(t)
  BY <1>2 DEF PutAclCheckUser
<1>3. CASE PutAclCheckAccount(t)
  BY <1>3 DEF PutAclCheckAccount
<1>4. CASE PutAclCheckTrust(t)
  BY <1>4 DEF PutAclCheckTrust
<1>5. CASE PutTrustDeviceProfile(t)
  BY <1>5 DEF PutTrustDeviceProfile
<1>6. CASE PutAclCheckStatus(t)
  BY <1>6 DEF PutAclCheckStatus
<1>7. CASE NotifyAccountAclCheck(t)
  BY <1>7 DEF NotifyAccountAclCheck
<1>8. CASE NotifyCheckUser(t)
  BY <1>8 DEF NotifyCheckUser
<1>9. CASE NotifyCheckDevice(t)
  BY <1>9 DEF NotifyCheckDevice, Scan
<1>10. CASE DeleteUserCheck(t)
  BY <1>10 DEF DeleteUserCheck, Scan
<1>11. CASE NotifyTrustDeviceProfileDelete(t)
  BY <1>11 DEF NotifyTrustDeviceProfileDelete
<1>12. CASE NotifyDeviceAclInactiveByDelete(t)
  BY <1>12 DEF NotifyDeviceAclInactiveByDelete, Scan
<1>13. CASE DeleteAccountCheck(t)
  BY <1>13 DEF DeleteAccountCheck, Scan
<1>14. CASE NotifyAccountAclDelete(t)
  BY <1>14 DEF NotifyAccountAclDelete
<1>15. CASE DeleteTrustDeviceCheck(t)
  BY <1>15 DEF DeleteTrustDeviceCheck
<1>16. CASE DeleteTrustSelect(t)
  BY <1>16 DEF DeleteTrustSelect
<1>17. CASE DeleteTrustDeviceProfile(t)
  BY <1>17 DEF DeleteTrustDeviceProfile
<1>18. CASE GetStatus(t)
  BY <1>18 DEF GetStatus
<1>19. CASE SelectTrustDevice(t)
  BY <1>19 DEF SelectTrustDevice
<1>20. CASE UpdateTrustDeviceProfile(t)
  BY <1>20 DEF UpdateTrustDeviceProfile
<1> QED BY <1>2, <1>3, <1>4, <1>5, <1>6, <1>7, <1>8, <1>9, <1>10, <1>11, <1>12, <1>13, <1>14, <1>15, <1>16, <1>17, <1>18, <1>19, <1>20 DEF UnlockedStep

\* PutTrustDeviceProfile, UpdateTrustDeviceProfile and DeleteTrustDeviceProfile
\* keep deviceId a key of trust_device_table, whichever calls run beside them.
LEMMA UnlockedTrustKeys ==
    ASSUME TypeOK, TrustKeys, NEW t \in Threads, UnlockedStep(t)
    PROVE  TrustKeys'
PROOF
<1>1. UNCHANGED trust
      \/ PutTrustDeviceProfile(t) \/ DeleteTrustDeviceProfile(t)
      \/ UpdateTrustDeviceProfile(t)
  BY DEF UnlockedStep, tables, PutAclCheckUser, PutAclCheckAccount, PutAclCheckTrust, PutAclCheckStatus, NotifyAccountAclCheck, NotifyCheckUser, NotifyCheckDevice, DeleteUserCheck, NotifyTrustDeviceProfileDelete, NotifyDeviceAclInactiveByDelete, DeleteAccountCheck, NotifyAccountAclDelete, DeleteTrustDeviceCheck, DeleteTrustSelect, GetStatus, SelectTrustDevice
<1>2. CASE UNCHANGED trust
  BY <1>2 DEF TrustKeys
<1>3. CASE PutTrustDeviceProfile(t)
  BY <1>3 DEF PutTrustDeviceProfile, TrustKeys, TrustOf
<1>4. CASE DeleteTrustDeviceProfile(t)
  BY <1>4 DEF DeleteTrustDeviceProfile, TrustKeys
<1>5. CASE UpdateTrustDeviceProfile(t)
  <2>1. \A r \in trust : r \in TrustRow
    BY DEF TypeOK
  <2> QED BY <1>5, <2>1 DEF UpdateTrustDeviceProfile, TrustKeys, TrustRow
<1> QED BY <1>1, <1>2, <1>3, <1>4, <1>5

\* Under aclMutex_ a call moves only itself, and no other call is inside.
LEMMA LockedFrame ==
    ASSUME TypeOK, MutexOK, NEW t \in Threads, LockedStep(t)
    PROVE  /\ \A u \in Threads \ {t} :
                 pc'[u] = pc[u] /\ job'[u] = job[u] /\ pc[u] \notin Locked
           /\ UNCHANGED trust
           /\ faults' = 0 => faults = 0
           /\ MutexOK'
PROOF
<1>1. faults \in Nat /\ pc \in [Threads -> Labels]
      /\ job \in [Threads -> Job \cup {NoJob}]
  BY DEF TypeOK
<1> DEFINE Moves == \A u \in Threads \ {t} : pc'[u] = pc[u] /\ job'[u] = job[u]
           Inside == pc[t] \in Locked \/ lock = {}
           Locks == \/ lock' = {t} /\ pc'[t] \in Locked
                    \/ lock' = lock \ {t} /\ pc'[t] \notin Locked
                    \/ pc[t] \in Locked /\ lock' = lock /\ pc'[t] \in Locked
           Rest == UNCHANGED trust /\ (faults' = 0 => faults = 0)
<1>2. Moves /\ Inside /\ Locks /\ Rest
  <2> USE <1>1 DEF Locked, Goto, At, tables, NoFault, Fault, Return, Unlock, Enter
  <2>1. CASE \E p \in Profiles : PutAccessControlProfile(t, p)
    <3>1. PICK p \in Profiles : PutAccessControlProfile(t, p)
      BY <2>1
    <3>2. \E x : job' = [job EXCEPT ![t] = x]
      BY <3>1, Zenon DEF PutAccessControlProfile
    <3>3. faults' = faults \/ faults' = faults + 1
      BY <3>1, Zenon DEF PutAccessControlProfile
    <3>4. /\ lock = {} /\ lock' = {t} /\ UNCHANGED trust
          /\ pc' = [pc EXCEPT ![t] = "putAccesser"]
      BY <3>1 DEF PutAccessControlProfile
    <3>5. \A u \in Threads \ {t} : job'[u] = job[u]
      BY <3>2
    <3> QED BY <3>3, <3>4, <3>5
  <2>2. CASE \E p \in Profiles : UpdateAccessControlProfile(t, p)
    BY <2>2 DEF UpdateAccessControlProfile
  <2>3. CASE \E a \in acls : DeleteAccessControlProfile(t, a)
    BY <2>3 DEF DeleteAccessControlProfile
  <2>4. CASE \E r \in {"notfound", "notallowed", "fail"} : RejectAcl(t, r)
    BY <2>4 DEF RejectAcl
  <2>5. CASE PutAccesserProfile(t)
    BY <2>5 DEF PutAccesserProfile
  <2>6. CASE PutAccesseeProfile(t)
    BY <2>6 DEF PutAccesseeProfile
  <2>7. CASE PutAclRow(t)
    BY <2>7 DEF PutAclRow
  <2>8. CASE UpdateAccesserProfile(t)
    BY <2>8 DEF UpdateAccesserProfile
  <2>9. CASE UpdateAccesseeProfile(t)
    BY <2>9 DEF UpdateAccesseeProfile
  <2>10. CASE UpdateAclRow(t)
    BY <2>10 DEF UpdateAclRow
  <2>11. CASE DeleteAccesseeCheck(t)
    BY <2>11 DEF DeleteAccesseeCheck
  <2>12. CASE DeleteAccesserCheck(t)
    BY <2>12 DEF DeleteAccesserCheck
  <2>13. CASE DeleteAclRow(t)
    BY <2>13 DEF DeleteAclRow
  <2> QED BY <2>1, <2>2, <2>3, <2>4, <2>5, <2>6, <2>7, <2>8, <2>9, <2>10, <2>11, <2>12, <2>13 DEF LockedStep
<1>3. \A u \in Threads \ {t} : pc[u] \notin Locked
  BY <1>2 DEF MutexOK
<1>4. lock \subseteq {t}
  BY <1>3 DEF MutexOK, TypeOK
<1>5. MutexOK'
  BY <1>2, <1>3, <1>4 DEF MutexOK
<1> QED BY <1>2, <1>3, <1>5

-----------------------------------------------------------------------------
(* Keys, indexes and the locals of the critical section *)

\* A call outside the critical section has nothing to keep.
LEMMA OutsideOK ==
    ASSUME NEW t \in Threads, pc'[t] \notin Locked
    PROVE  (PutOK(t) /\ UpdateOK(t) /\ DeleteOK(t))'
PROOF
  BY DEF PutOK, UpdateOK, DeleteOK, At, Locked, Inserting, Updating, Deleting

\* What SELECT found about a party, as the INSERT needs it.
LEMMA PartyIdRowFor ==
    ASSUME NEW T \in SUBSET PartyRow, IsFiniteSet(T), NEW q
    PROVE  RowFor(T, PartyId(T, q), q)
PROOF
<1>1. \A r \in T : r.id \in Nat
  BY DEF PartyRow
<1>2. \/ \E r \in T : r.party = q /\ r.id = PartyId(T, q)
      \/ (\A r \in T : r.party # q) /\ PartyId(T, q) \notin Ids(T)
  BY <1>1, PartyIdSpec
<1> QED BY <1>2 DEF RowFor, IsRow, HasRow, Ids

\* The keys of a party table.
PartyKeys(T) == /\ \A a, b \in T : a.id = b.id => a = b
                /\ \A a, b \in T : a.party = b.party => a = b

\* INSERT of a party row under the id RowFor speaks of keeps the keys.
LEMMA InsertParty ==
    ASSUME NEW T, PartyKeys(T), NEW i, NEW q, RowFor(T, i, q), NEW U,
           U = IF \E r \in T : r.party = q THEN T
               ELSE T \cup {[id |-> i, party |-> q]}
    PROVE  PartyKeys(U) /\ HasRow(U, i)
PROOF
<1>1. CASE \E r \in T : r.party = q
  BY <1>1 DEF RowFor, IsRow, HasRow
<1>2. CASE ~ \E r \in T : r.party = q
  <2>1. U = T \cup {[id |-> i, party |-> q]} /\ ~HasRow(T, i)
    BY <1>2 DEF RowFor, IsRow
  <2>2. PartyKeys(U)
    BY <1>2, <2>1 DEF PartyKeys, HasRow
  <2>3. HasRow(U, i)
    <3>1. [id |-> i, party |-> q] \in U
      BY <2>1
    <3> QED BY <3>1 DEF HasRow
  <2> QED BY <2>2, <2>3
<1> QED BY <1>1, <1>2

\* UPDATE of a party row keeps its id and is refused when the party is taken.
LEMMA RewriteKeys ==
    ASSUME NEW T \in SUBSET PartyRow, PartyKeys(T), NEW i, NEW q
    PROVE  /\ PartyKeys(Rewrite(T, i, q))
           /\ \A j : HasRow(Rewrite(T, i, q), j) <=> HasRow(T, j)
PROOF
<1>1. CASE \E r \in T : r.id # i /\ r.party = q
  BY <1>1 DEF Rewrite
<1>2. CASE ~ \E r \in T : r.id # i /\ r.party = q
  <2> DEFINE new(r) == IF r.id = i THEN [r EXCEPT !.party = q] ELSE r
  <2>1. Rewrite(T, i, q) = {new(r) : r \in T}
    BY <1>2 DEF Rewrite
  <2>2. \A r \in T : new(r).id = r.id
    BY DEF PartyRow
  <2>3. \A r \in T : new(r).party = IF r.id = i THEN q ELSE r.party
    BY DEF PartyRow
  <2>4. \A a, b \in T : new(a).party = new(b).party => a = b
    BY <1>2, <2>3 DEF PartyKeys
  <2>5. \A a, b \in T : new(a).id = new(b).id => a = b
    BY <2>2 DEF PartyKeys
  <2> HIDE DEF new
  <2>6. PartyKeys(Rewrite(T, i, q))
    BY <2>1, <2>4, <2>5 DEF PartyKeys
  <2> QED BY <2>1, <2>2, <2>6 DEF HasRow
<1> QED BY <1>1, <1>2

AclKeys == /\ \A a, b \in acls : a.id = b.id => a = b
           /\ \A a, b \in acls : SameAcl(a, b) => a = b

\* The keys and unique indexes of the store, table by table.
LEMMA KeysByTable ==
    KeysUnique /\ IndexesUnique <=>
        AclKeys /\ PartyKeys(acers) /\ PartyKeys(acees) /\ TrustKeys
PROOF
  BY DEF KeysUnique, IndexesUnique, AclKeys, PartyKeys, TrustKeys

\* What the step of t has to establish; the other calls are outside.
Kept(t) == AclKeys' /\ PartyKeys(acers)' /\ PartyKeys(acees)'
           /\ (PutOK(t) /\ UpdateOK(t) /\ DeleteOK(t))'

\* A statement under aclMutex_ keeps every primary key and unique index, and the
\* ids its call computed with SELECT stay free until its INSERT.
LEMMA KeyLockedStep ==
    ASSUME KeyInv, NEW t \in Threads, LockedStep(t)
    PROVE  KeyInv'
PROOF
<1>1. TypeOK /\ MutexOK /\ AclKeys /\ PartyKeys(acers) /\ PartyKeys(acees)
      /\ TrustKeys /\ PutOK(t) /\ UpdateOK(t) /\ DeleteOK(t)
  BY KeysByTable DEF KeyInv, JobOK
<1>2. /\ acls \in SUBSET AclRow /\ IsFiniteSet(acls)
      /\ acers \in SUBSET PartyRow /\ IsFiniteSet(acers)
      /\ acees \in SUBSET PartyRow /\ IsFiniteSet(acees)
      /\ pc \in [Threads -> Labels] /\ job \in [Threads -> Job \cup {NoJob}]
      /\ pc[t] # "idle" => job[t] \in Job
  BY <1>1 DEF TypeOK
<1> DEFINE row == job[t].row
           p == job[t].p
<1> USE DEF Goto, At, Locked, Inserting, Updating, Deleting
<1>3. Kept(t)
  <2>1. CASE \E q \in Profiles : PutAccessControlProfile(t, q)
    <3>1. PICK q \in Profiles : PutAccessControlProfile(t, q)
      BY <2>1
    <3>2. PICK u, a : job' = [job EXCEPT ![t] = PutJob(q, u, a)]
      BY <3>1, Zenon DEF PutAccessControlProfile
    <3>3. pc'[t] = "putAccesser" /\ UNCHANGED <<acls, acers, acees>>
      BY <1>2, <3>1 DEF PutAccessControlProfile, tables
    <3>4. /\ job'[t].row.id = SetAccessControlId
          /\ job'[t].row.acer = SetAccesserId(q.acer)
          /\ job'[t].row.acee = SetAccesseeId(q.acee)
          /\ job'[t].p = q
      BY <1>2, <3>2 DEF PutJob, RowOf
    <3>5. ~HasRow(acls, SetAccessControlId)
      BY <1>2, NextIdFresh DEF SetAccessControlId, HasRow, Ids, AclRow
    <3>6. RowFor(acers, SetAccesserId(q.acer), q.acer)
          /\ RowFor(acees, SetAccesseeId(q.acee), q.acee)
      BY <1>2, PartyIdRowFor DEF SetAccesserId, SetAccesseeId
    <3>7. PutOK(t)'
      BY <3>3, <3>4, <3>5, <3>6 DEF PutOK
    <3>8. (UpdateOK(t) /\ DeleteOK(t))'
      BY <3>3 DEF UpdateOK, DeleteOK
    <3> QED BY <1>1, <3>3, <3>7, <3>8 DEF Kept, AclKeys
  <2>2. CASE \E q \in Profiles : UpdateAccessControlProfile(t, q)
    <3>1. PICK q \in Profiles : UpdateAccessControlProfile(t, q)
      BY <2>2
    <3>2. PICK o \in acls : job' = [job EXCEPT ![t] =
              [row |-> RowOf(q, o.id, o.acer, o.acee), p |-> q,
               userExists |-> FALSE, accountExists |-> FALSE,
               old |-> o.status, status |-> 0]]
      BY <3>1 DEF UpdateAccessControlProfile
    <3>3. pc'[t] = "updAccesser" /\ UNCHANGED <<acls, acers, acees>>
      BY <1>2, <3>1 DEF UpdateAccessControlProfile, tables
    <3>4. /\ job'[t].row.id = o.id /\ job'[t].row.acer = o.acer
          /\ job'[t].row.acee = o.acee
      BY <1>2, <3>2 DEF RowOf
    <3>5. UpdateOK(t)'
      BY <3>3, <3>4 DEF UpdateOK
    <3>6. (PutOK(t) /\ DeleteOK(t))'
      BY <3>3 DEF PutOK, DeleteOK
    <3> QED BY <1>1, <3>3, <3>5, <3>6 DEF Kept, AclKeys
  <2>3. CASE \E a \in acls : DeleteAccessControlProfile(t, a)
    <3>1. PICK a \in acls : DeleteAccessControlProfile(t, a)
      BY <2>3
    <3>2. /\ pc'[t] = "delAccessee" /\ UNCHANGED <<acls, acers, acees>>
          /\ job'[t].row = a
      BY <1>2, <3>1 DEF DeleteAccessControlProfile, tables
    <3>3. (PutOK(t) /\ UpdateOK(t) /\ DeleteOK(t))'
      BY <3>2 DEF PutOK, UpdateOK, DeleteOK
    <3> QED BY <1>1, <3>2, <3>3 DEF Kept, AclKeys
  <2>4. CASE \E r \in {"notfound", "notallowed", "fail"} : RejectAcl(t, r)
    <3>1. UNCHANGED <<acls, acers, acees, pc>> /\ pc[t] = "idle"
      BY <2>4 DEF RejectAcl, tables, Enter
    <3>2. (PutOK(t) /\ UpdateOK(t) /\ DeleteOK(t))'
      BY <3>1, OutsideOK
    <3> QED BY <1>1, <3>1, <3>2 DEF Kept, AclKeys
  <2>5. CASE PutAccesserProfile(t)
    <3>1. UNCHANGED <<acls, acees>> /\ pc[t] = "putAccesser"
      BY <2>5 DEF PutAccesserProfile
    <3>2. CASE pc'[t] = "putAccessee" /\ UNCHANGED job
             /\ acers' = IF \E r \in acers : r.party = p.acer THEN acers
                         ELSE acers \cup {[id |-> row.acer, party |-> p.acer]}
      <4>1. PartyKeys(acers') /\ HasRow(acers', row.acer)
        BY <1>1, <3>1, <3>2, InsertParty DEF PutOK
      <4>2. PutOK(t)'
        BY <1>1, <3>1, <3>2, <4>1 DEF PutOK
      <4>3. (UpdateOK(t) /\ DeleteOK(t))'
        BY <3>2 DEF UpdateOK, DeleteOK
      <4> QED BY <1>1, <3>1, <4>1, <4>2, <4>3 DEF Kept, AclKeys
    <3>3. CASE pc'[t] = "idle" /\ UNCHANGED acers
      BY <1>1, <3>1, <3>3, OutsideOK DEF Kept, AclKeys
    <3> QED BY <1>2, <2>5, <3>2, <3>3 DEF PutAccesserProfile, Return
  <2>6. CASE PutAccesseeProfile(t)
    <3>1. UNCHANGED <<acls, acers>> /\ pc[t] = "putAccessee"
      BY <2>6 DEF PutAccesseeProfile
    <3>2. CASE pc'[t] = "putAcl" /\ UNCHANGED job
             /\ acees' = IF \E r \in acees : r.party = p.acee THEN acees
                         ELSE acees \cup {[id |-> row.acee, party |-> p.acee]}
      <4>1. PartyKeys(acees') /\ HasRow(acees', row.acee)
        BY <1>1, <3>1, <3>2, InsertParty DEF PutOK
      <4>2. PutOK(t)'
        BY <1>1, <3>1, <3>2, <4>1 DEF PutOK
      <4>3. (UpdateOK(t) /\ DeleteOK(t))'
        BY <3>2 DEF UpdateOK, DeleteOK
      <4> QED BY <1>1, <3>1, <4>1, <4>2, <4>3 DEF Kept, AclKeys
    <3>3. CASE pc'[t] = "idle" /\ UNCHANGED acees
      BY <1>1, <3>1, <3>3, OutsideOK DEF Kept, AclKeys
    <3> QED BY <1>2, <2>6, <3>2, <3>3 DEF PutAccesseeProfile, Return
  <2>7. CASE PutAclRow(t)
    <3>1. UNCHANGED <<acers, acees>> /\ pc'[t] \notin Locked
      BY <1>2, <2>7 DEF PutAclRow, Return
    <3>2. AclKeys'
      <4>1. CASE acls' = acls
        BY <1>1, <4>1 DEF AclKeys
      <4>2. CASE acls' = acls \cup {row} /\ ~IsAclExists(row)
        <5>1. ~HasRow(acls, row.id)
          BY <1>1, <2>7 DEF PutOK, PutAclRow
        <5> QED BY <1>1, <4>2, <5>1 DEF AclKeys, HasRow, IsAclExists, SameAcl
      <4> QED BY <2>7, <4>1, <4>2 DEF PutAclRow
    <3> QED BY <1>1, <3>1, <3>2, OutsideOK DEF Kept
  <2>8. CASE UpdateAccesserProfile(t)
    <3>1. /\ UNCHANGED <<acls, acees, job>>
          /\ pc[t] = "updAccesser" /\ pc'[t] = "updAccessee"
      BY <1>2, <2>8 DEF UpdateAccesserProfile
    <3>2. PartyKeys(acers')
      BY <1>1, <1>2, <2>8, RewriteKeys DEF UpdateAccesserProfile
    <3>3. (PutOK(t) /\ UpdateOK(t) /\ DeleteOK(t))'
      BY <1>1, <3>1 DEF PutOK, UpdateOK, DeleteOK
    <3> QED BY <1>1, <3>1, <3>2, <3>3 DEF Kept, AclKeys
  <2>9. CASE UpdateAccesseeProfile(t)
    <3>1. /\ UNCHANGED <<acls, acers, job>>
          /\ pc[t] = "updAccessee" /\ pc'[t] = "updAcl"
      BY <1>2, <2>9 DEF UpdateAccesseeProfile
    <3>2. PartyKeys(acees')
      BY <1>1, <1>2, <2>9, RewriteKeys DEF UpdateAccesseeProfile
    <3>3. (PutOK(t) /\ UpdateOK(t) /\ DeleteOK(t))'
      BY <1>1, <3>1 DEF PutOK, UpdateOK, DeleteOK
    <3> QED BY <1>1, <3>1, <3>2, <3>3 DEF Kept, AclKeys
  <2>10. CASE UpdateAclRow(t)
    <3>1. UNCHANGED <<acers, acees>> /\ pc'[t] \notin Locked
      BY <1>2, <2>10 DEF UpdateAclRow, Return
    <3>2. AclKeys'
      <4>1. CASE acls' = acls
        BY <1>1, <4>1 DEF AclKeys
      <4>2. CASE /\ acls' = {IF a.id = row.id THEN row ELSE a : a \in acls}
                 /\ ~\E a \in acls : a.id # row.id /\ SameAcl(a, row)
        BY <1>1, <4>2 DEF AclKeys, SameAcl
      <4> QED BY <2>10, <4>1, <4>2 DEF UpdateAclRow
    <3> QED BY <1>1, <3>1, <3>2, OutsideOK DEF Kept
  <2>11. CASE DeleteAccesseeCheck(t)
    <3>1. UNCHANGED <<acls, acers>> /\ acees' \subseteq acees
      BY <2>11 DEF DeleteAccesseeCheck, Delete
    <3>2. PartyKeys(acees')
      BY <1>1, <3>1 DEF PartyKeys
    <3>3. (PutOK(t) /\ UpdateOK(t) /\ DeleteOK(t))'
      <4>1. CASE pc'[t] = "delAccesser" /\ UNCHANGED job
        BY <1>1, <2>11, <3>1, <4>1 DEF DeleteAccesseeCheck, PutOK, UpdateOK, DeleteOK
      <4>2. CASE pc'[t] = "idle"
        BY <4>2, OutsideOK
      <4> QED BY <1>2, <2>11, <4>1, <4>2 DEF DeleteAccesseeCheck, Return
    <3> QED BY <1>1, <3>1, <3>2, <3>3 DEF Kept, AclKeys
  <2>12. CASE DeleteAccesserCheck(t)
    <3>1. UNCHANGED <<acls, acees>> /\ acers' \subseteq acers
      BY <2>12 DEF DeleteAccesserCheck, Delete
    <3>2. PartyKeys(acers')
      BY <1>1, <3>1 DEF PartyKeys
    <3>3. (PutOK(t) /\ UpdateOK(t) /\ DeleteOK(t))'
      <4>1. CASE pc'[t] = "delAcl" /\ UNCHANGED job
        BY <1>1, <2>12, <3>1, <4>1 DEF DeleteAccesserCheck, PutOK, UpdateOK, DeleteOK
      <4>2. CASE pc'[t] = "idle"
        BY <4>2, OutsideOK
      <4> QED BY <1>2, <2>12, <4>1, <4>2 DEF DeleteAccesserCheck, Return
    <3> QED BY <1>1, <3>1, <3>2, <3>3 DEF Kept, AclKeys
  <2>13. CASE DeleteAclRow(t)
    <3>1. /\ UNCHANGED <<acers, acees>> /\ acls' \subseteq acls
          /\ pc'[t] \notin Locked
      BY <1>2, <2>13 DEF DeleteAclRow, Delete, Return
    <3>2. AclKeys'
      BY <1>1, <3>1 DEF AclKeys
    <3> QED BY <1>1, <3>1, <3>2, OutsideOK DEF Kept
  <2> QED BY <2>1, <2>2, <2>3, <2>4, <2>5, <2>6, <2>7, <2>8, <2>9, <2>10, <2>11, <2>12, <2>13 DEF LockedStep
<1>4. /\ \A u \in Threads \ {t} : pc'[u] \notin Locked
      /\ UNCHANGED trust /\ MutexOK'
  BY <1>1, LockedFrame
<1>5. JobOK'
  <2> SUFFICES ASSUME NEW u \in Threads
               PROVE  (PutOK(u) /\ UpdateOK(u) /\ DeleteOK(u))'
    BY DEF JobOK
  <2>1. CASE u = t
    BY <1>3, <2>1 DEF Kept
  <2>2. CASE u # t
    BY <1>4, <2>2, OutsideOK
  <2> QED BY <2>1, <2>2
<1>6. (KeysUnique /\ IndexesUnique)'
  BY <1>1, <1>3, <1>4 DEF Kept, KeysUnique, IndexesUnique, AclKeys, PartyKeys,
                          TrustKeys
<1> QED BY <1>1, <1>4, <1>5, <1>6, TypeLockedStep DEF KeyInv

\* A call past aclMutex_ disturbs neither the keys nor the ids that the call
\* inside the critical section has computed.
LEMMA KeyUnlockedStep ==
    ASSUME KeyInv, NEW t \in Threads, UnlockedStep(t)
    PROVE  KeyInv'
PROOF
<1>1. TypeOK /\ MutexOK /\ TrustKeys /\ JobOK
  BY KeysByTable DEF KeyInv
<1>2. Frame(t)
  BY <1>1, UnlockedFrame
<1>3. TypeOK' /\ TrustKeys'
  BY <1>1, TypeUnlockedStep, UnlockedTrustKeys
<1>4. MutexOK'
  BY <1>1, <1>2 DEF MutexOK, Frame
<1>5. JobOK'
  <2> SUFFICES ASSUME NEW u \in Threads
               PROVE  (PutOK(u) /\ UpdateOK(u) /\ DeleteOK(u))'
    BY DEF JobOK
  <2>1. CASE u = t
    BY <1>2, <2>1, OutsideOK DEF Frame
  <2>2. CASE u # t
    BY <1>1, <1>2, <2>2 DEF Frame, JobOK, PutOK, UpdateOK, DeleteOK, At
  <2> QED BY <2>1, <2>2
<1>6. (KeysUnique /\ IndexesUnique)'
  BY <1>2, <1>3 DEF KeyInv, Frame, KeysUnique, IndexesUnique, TrustKeys, SameAcl
<1> QED BY <1>3, <1>4, <1>5, <1>6 DEF KeyInv

\* A step of the store alone, or none.
LEMMA KeyStoreStep ==
    ASSUME KeyInv, TypeOK', UNCHANGED <<tables, lock, pc, job>>
    PROVE  KeyInv'
PROOF
<1>1. UNCHANGED <<acls, acers, acees, trust, lock, pc, job>>
  BY DEF tables
<1>2. JobOK'
  BY <1>1 DEF KeyInv, JobOK, PutOK, UpdateOK, DeleteOK, At
<1>3. MutexOK'
  BY <1>1 DEF KeyInv, MutexOK
<1>4. (KeysUnique /\ IndexesUnique)'
  BY <1>1 DEF KeyInv, KeysUnique, IndexesUnique, SameAcl
<1> QED BY <1>2, <1>3, <1>4 DEF KeyInv

\* The death of the process frees aclMutex_ and forgets every call, so that no id
\* computed before it is used after it.
LEMMA KeyCrash ==
    ASSUME KeyInv, TypeOK', Crash
    PROVE  KeyInv'
PROOF
<1>1. /\ UNCHANGED <<acls, acers, acees, trust>> /\ lock' = {}
      /\ \A t \in Threads : pc'[t] \notin Locked
  BY DEF Crash, tables, Locked
<1>2. JobOK'
  BY <1>1, OutsideOK DEF JobOK
<1>3. MutexOK'
  BY <1>1 DEF MutexOK
<1>4. (KeysUnique /\ IndexesUnique)'
  BY <1>1 DEF KeyInv, KeysUnique, IndexesUnique, SameAcl
<1> QED BY <1>2, <1>3, <1>4 DEF KeyInv

\* The inductive invariant behind the keys: aclMutex_ is held by the one call in
\* the critical section, and the ids its SetAccessControlProfileId computed are
\* those of the rows found, or of no row.
THEOREM KeyInvariant == Spec => []KeyInv
PROOF
<1>1. Init => KeyInv
  <2> SUFFICES ASSUME Init PROVE KeyInv
    OBVIOUS
  <2>1. TypeOK
    BY FS_EmptySet DEF Init, TypeOK, Labels, Returns
  <2>2. MutexOK
    BY DEF Init, MutexOK, Locked
  <2>3. JobOK
    BY DEF Init, JobOK, PutOK, UpdateOK, DeleteOK, At, Inserting, Updating,
           Deleting
  <2>4. KeysUnique /\ IndexesUnique
    BY DEF Init, KeysUnique, IndexesUnique
  <2> QED BY <2>1, <2>2, <2>3, <2>4 DEF KeyInv
<1>2. KeyInv /\ TypeOK' /\ [Next]_vars => KeyInv'
  <2> SUFFICES ASSUME KeyInv, TypeOK', [Next]_vars PROVE KeyInv'
    OBVIOUS
  <2>1. CASE \E t \in Threads : LockedStep(t) \/ UnlockedStep(t)
    BY <2>1, KeyLockedStep, KeyUnlockedStep
  <2>2. CASE UnInit \/ Reopen \/ UNCHANGED vars
    <3>1. UNCHANGED <<tables, lock, pc, job>>
      BY <2>2 DEF UnInit, Reopen, vars, tables
    <3> QED BY <3>1, KeyStoreStep
  <2>3. CASE Crash
    BY <2>3, KeyCrash
  <2> QED BY <2>1, <2>2, <2>3, NextCases DEF Quiesce
<1> QED BY <1>1, <1>2, TypeCorrect, PTL DEF Spec

\* aclMutex_ is held exactly by the one call inside the critical section.
THEOREM MutualExclusion == Spec => []MutexOK
PROOF
<1>1. KeyInv => MutexOK
  BY DEF KeyInv
<1> QED BY <1>1, KeyInvariant, PTL

\* An id names one row: the ids computed by SELECT are still free when INSERT
\* uses them, whatever fails in between.
THEOREM Keys == Spec => []KeysUnique
PROOF
<1>1. KeyInv => KeysUnique
  BY DEF KeyInv
<1> QED BY <1>1, KeyInvariant, PTL

-----------------------------------------------------------------------------
(* References *)

\* A statement under aclMutex_ keeps the references as its call sees them.
LEMMA RefsLockedStep ==
    ASSUME KeyInv, NEW t \in Threads, LockedStep(t), faults' = 0,
           AceeRefs(t), AcerRefs(t)
    PROVE  AceeRefs(t)' /\ AcerRefs(t)'
PROOF
<1>1. /\ acls \in SUBSET AclRow /\ IsFiniteSet(acls)
      /\ acers \in SUBSET PartyRow /\ acees \in SUBSET PartyRow
      /\ pc \in [Threads -> Labels] /\ job \in [Threads -> Job \cup {NoJob}]
      /\ faults \in Nat
  BY DEF KeyInv, TypeOK
<1>2. /\ AclKeys /\ PartyKeys(acers) /\ PartyKeys(acees)
      /\ PutOK(t) /\ UpdateOK(t) /\ DeleteOK(t)
  BY KeysByTable DEF KeyInv, JobOK
<1>3. faults' # faults + 1
  BY <1>1
<1> DEFINE row == job[t].row
           p == job[t].p
<1> USE DEF Goto, At, Fault
<1>4. CASE \E q \in Profiles : PutAccessControlProfile(t, q)
  <2>1. /\ pc[t] = "idle" /\ pc'[t] = "putAccesser"
        /\ UNCHANGED <<acls, acers, acees>>
    BY <1>1, <1>4 DEF PutAccessControlProfile, Enter, tables
  <2> QED BY <2>1 DEF AceeRefs, AcerRefs, HasRow
<1>5. CASE \E q \in Profiles : UpdateAccessControlProfile(t, q)
  <2>1. /\ pc[t] = "idle" /\ pc'[t] = "updAccesser"
        /\ UNCHANGED <<acls, acers, acees>>
    BY <1>1, <1>5 DEF UpdateAccessControlProfile, Enter, tables
  <2> QED BY <2>1 DEF AceeRefs, AcerRefs, HasRow
<1>6. CASE \E a \in acls : DeleteAccessControlProfile(t, a)
  <2>1. /\ pc[t] = "idle" /\ pc'[t] = "delAccessee"
        /\ UNCHANGED <<acls, acers, acees>>
    BY <1>1, <1>6 DEF DeleteAccessControlProfile, Enter, tables
  <2> QED BY <2>1 DEF AceeRefs, AcerRefs, HasRow
<1>7. CASE \E r \in {"notfound", "notallowed", "fail"} : RejectAcl(t, r)
  <2>1. UNCHANGED <<acls, acers, acees, pc, job>>
    BY <1>7 DEF RejectAcl, tables
  <2> QED BY <2>1 DEF AceeRefs, AcerRefs, HasRow
<1>8. CASE PutAccesserProfile(t)
  <2>1. /\ UNCHANGED <<acls, acees, job>>
        /\ pc[t] = "putAccesser" /\ pc'[t] = "putAccessee"
        /\ acers' = IF \E r \in acers : r.party = p.acer THEN acers
                    ELSE acers \cup {[id |-> row.acer, party |-> p.acer]}
    BY <1>1, <1>3, <1>8 DEF PutAccesserProfile
  <2>2. AceeRefs(t)'
    BY <2>1 DEF AceeRefs, HasRow
  <2>3. \A r \in acers' : r \in acers \/ r.id = row.acer
    BY <2>1
  <2>4. acers \subseteq acers'
    BY <2>1
  <2>5. AcerRefs(t)'
    BY <2>1, <2>3, <2>4 DEF AcerRefs, HasRow
  <2> QED BY <2>2, <2>5
<1>9. CASE PutAccesseeProfile(t)
  <2>1. /\ UNCHANGED <<acls, acers, job>>
        /\ pc[t] = "putAccessee" /\ pc'[t] = "putAcl"
        /\ acees' = IF \E r \in acees : r.party = p.acee THEN acees
                    ELSE acees \cup {[id |-> row.acee, party |-> p.acee]}
    BY <1>1, <1>3, <1>9 DEF PutAccesseeProfile
  <2>2. AcerRefs(t)'
    BY <2>1 DEF AcerRefs, HasRow
  <2>3. \A r \in acees' : r \in acees \/ r.id = row.acee
    BY <2>1
  <2>4. acees \subseteq acees'
    BY <2>1
  <2>5. AceeRefs(t)'
    BY <2>1, <2>3, <2>4 DEF AceeRefs, HasRow
  <2> QED BY <2>2, <2>5
<1>10. CASE PutAclRow(t)
  <2>1. /\ UNCHANGED <<acers, acees>> /\ pc[t] = "putAcl"
        /\ pc'[t] \in {"idle", "putUserSend"}
    BY <1>1, <1>3, <1>10 DEF PutAclRow, Return
  <2>2. HasRow(acers, row.acer) /\ HasRow(acees, row.acee)
    BY <1>2, <2>1 DEF PutOK
  <2>3. PICK a \in acls' : a.acer = row.acer /\ a.acee = row.acee
    BY <1>3, <1>10 DEF PutAclRow, IsAclExists, SameAcl
  <2>4. acls \subseteq acls' /\ acls' \subseteq acls \cup {row}
    BY <1>10 DEF PutAclRow
  <2>5. AceeRefs(t)'
    BY <2>1, <2>2, <2>3, <2>4 DEF AceeRefs, HasRow
  <2>6. AcerRefs(t)'
    BY <2>1, <2>2, <2>3, <2>4 DEF AcerRefs, HasRow
  <2> QED BY <2>5, <2>6
<1>11. CASE UpdateAccesserProfile(t)
  <2>1. /\ UNCHANGED <<acls, acees, job>>
        /\ pc[t] = "updAccesser" /\ pc'[t] = "updAccessee"
        /\ acers' = Rewrite(acers, row.acer, p.acer)
    BY <1>1, <1>3, <1>11 DEF UpdateAccesserProfile
  <2>2. AceeRefs(t)'
    BY <2>1 DEF AceeRefs, HasRow
  <2>3. \A j : HasRow(acers', j) <=> HasRow(acers, j)
    BY <1>1, <1>2, <2>1, RewriteKeys
  <2>4. \A r \in acers' : \E x \in acers : x.id = r.id
    BY <2>3 DEF HasRow
  <2>5. AcerRefs(t)'
    BY <2>1, <2>3, <2>4 DEF AcerRefs
  <2> QED BY <2>2, <2>5
<1>12. CASE UpdateAccesseeProfile(t)
  <2>1. /\ UNCHANGED <<acls, acers, job>>
        /\ pc[t] = "updAccessee" /\ pc'[t] = "updAcl"
        /\ acees' = Rewrite(acees, row.acee, p.acee)
    BY <1>1, <1>3, <1>12 DEF UpdateAccesseeProfile
  <2>2. AcerRefs(t)'
    BY <2>1 DEF AcerRefs, HasRow
  <2>3. \A j : HasRow(acees', j) <=> HasRow(acees, j)
    BY <1>1, <1>2, <2>1, RewriteKeys
  <2>4. \A r \in acees' : \E x \in acees : x.id = r.id
    BY <2>3 DEF HasRow
  <2>5. AceeRefs(t)'
    BY <2>1, <2>3, <2>4 DEF AceeRefs
  <2> QED BY <2>2, <2>5
<1>13. CASE UpdateAclRow(t)
  <2>1. /\ UNCHANGED <<acers, acees>> /\ pc[t] = "updAcl"
        /\ pc'[t] \in {"idle", "updAccount"}
    BY <1>1, <1>3, <1>13 DEF UpdateAclRow, Return
  <2>2. PICK o \in acls : /\ o.id = row.id /\ o.acer = row.acer
                         /\ o.acee = row.acee
    BY <1>2, <2>1 DEF UpdateOK, Updating
  <2>3. CASE acls' = acls
    BY <2>1, <2>3 DEF AceeRefs, AcerRefs, HasRow
  <2>4. CASE acls' = {IF a.id = row.id THEN row ELSE a : a \in acls}
    <3>1. \A a \in acls : a.id = row.id => a = o
      BY <1>2, <2>2 DEF AclKeys
    <3>2. \A a \in acls : \E b \in acls' : b.acer = a.acer /\ b.acee = a.acee
      BY <2>2, <2>4, <3>1
    <3>3. \A b \in acls' : \E a \in acls : b.acer = a.acer /\ b.acee = a.acee
      BY <2>2, <2>4, <3>1
    <3>4. AceeRefs(t)'
      BY <2>1, <3>2, <3>3 DEF AceeRefs, HasRow
    <3>5. AcerRefs(t)'
      BY <2>1, <3>2, <3>3 DEF AcerRefs, HasRow
    <3> QED BY <3>4, <3>5
  <2> QED BY <1>13, <2>3, <2>4 DEF UpdateAclRow
<1>14. CASE DeleteAccesseeCheck(t)
  <2> DEFINE S == {a \in acls : a.acee = row.acee}
  <2>1. /\ UNCHANGED <<acls, acers, job>>
        /\ pc[t] = "delAccessee" /\ pc'[t] = "delAccesser"
        /\ acees' = IF IsLastReference(S) THEN Delete(acees, row.acee) ELSE acees
    BY <1>1, <1>3, <1>14 DEF DeleteAccesseeCheck
  <2>2. row \in S /\ IsFiniteSet(S)
    BY <1>1, <1>2, <2>1, FS_Subset DEF DeleteOK, Deleting
  <2>3. AcerRefs(t)'
    BY <2>1 DEF AcerRefs, HasRow
  <2>4. CASE IsLastReference(S)
    <3>1. \A b \in acls : b.acee = row.acee => b = row
      <4> HIDE DEF S
      <4>1. \A b \in S : b = row
        BY <2>2, <2>4, CountOne DEF IsLastReference
      <4> QED BY <4>1 DEF S
    <3>2. acees' = {r \in acees : r.id # row.acee}
      BY <2>1, <2>4 DEF Delete
    <3> QED BY <2>1, <2>3, <3>1, <3>2 DEF AceeRefs, HasRow
  <2>5. CASE ~IsLastReference(S)
    <3>1. \E b \in acls : b # row /\ b.acee = row.acee
      <4> HIDE DEF S
      <4>1. \E b \in S : b # row
        BY <2>2, <2>5, CountOne DEF IsLastReference
      <4> QED BY <4>1 DEF S
    <3>2. acees' = acees
      BY <2>1, <2>5
    <3> QED BY <2>1, <2>3, <3>1, <3>2 DEF AceeRefs, HasRow
  <2> QED BY <2>4, <2>5
<1>15. CASE DeleteAccesserCheck(t)
  <2> DEFINE S == {a \in acls : a.acer = row.acer}
  <2>1. /\ UNCHANGED <<acls, acees, job>>
        /\ pc[t] = "delAccesser" /\ pc'[t] = "delAcl"
        /\ acers' = IF IsLastReference(S) THEN Delete(acers, row.acer) ELSE acers
    BY <1>1, <1>3, <1>15 DEF DeleteAccesserCheck
  <2>2. row \in S /\ IsFiniteSet(S)
    BY <1>1, <1>2, <2>1, FS_Subset DEF DeleteOK, Deleting
  <2>3. AceeRefs(t)'
    BY <2>1 DEF AceeRefs, HasRow
  <2>4. CASE IsLastReference(S)
    <3>1. \A b \in acls : b.acer = row.acer => b = row
      <4> HIDE DEF S
      <4>1. \A b \in S : b = row
        BY <2>2, <2>4, CountOne DEF IsLastReference
      <4> QED BY <4>1 DEF S
    <3>2. acers' = {r \in acers : r.id # row.acer}
      BY <2>1, <2>4 DEF Delete
    <3> QED BY <2>1, <2>3, <3>1, <3>2 DEF AcerRefs, HasRow
  <2>5. CASE ~IsLastReference(S)
    <3>1. \E b \in acls : b # row /\ b.acer = row.acer
      <4> HIDE DEF S
      <4>1. \E b \in S : b # row
        BY <2>2, <2>5, CountOne DEF IsLastReference
      <4> QED BY <4>1 DEF S
    <3>2. acers' = acers
      BY <2>1, <2>5
    <3> QED BY <2>1, <2>3, <3>1, <3>2 DEF AcerRefs, HasRow
  <2> QED BY <2>4, <2>5
<1>16. CASE DeleteAclRow(t)
  <2>1. /\ UNCHANGED <<acers, acees>> /\ pc[t] = "delAcl"
        /\ pc'[t] = "delUserCheck" /\ acls' = Delete(acls, row.id)
    BY <1>1, <1>3, <1>16 DEF DeleteAclRow
  <2>2. row \in acls
    BY <1>2, <2>1 DEF DeleteOK, Deleting
  <2>3. acls' = acls \ {row}
    BY <1>2, <2>1, <2>2 DEF Delete, AclKeys
  <2>4. AceeRefs(t)'
    BY <2>1, <2>2, <2>3 DEF AceeRefs, HasRow
  <2>5. AcerRefs(t)'
    BY <2>1, <2>2, <2>3 DEF AcerRefs, HasRow
  <2> QED BY <2>4, <2>5
<1> QED BY <1>4, <1>5, <1>6, <1>7, <1>8, <1>9, <1>10, <1>11, <1>12, <1>13, <1>14, <1>15, <1>16 DEF LockedStep

RefInv == faults = 0 => References

\* Any step that no fault disturbs keeps the references: aclMutex_ hides from the
\* other calls the moments at which a party is stored before its ACL or deleted
\* before it.
LEMMA RefsStep ==
    ASSUME KeyInv, KeyInv', RefInv, [Next]_vars
    PROVE  RefInv'
PROOF
<1>1. SUFFICES ASSUME faults' = 0, NEW u \in Threads, u \in lock' \/ lock' = {}
               PROVE  AceeRefs(u)' /\ AcerRefs(u)'
  BY DEF RefInv, References
<1>2. TypeOK /\ MutexOK /\ MutexOK' /\ faults \in Nat
  BY DEF KeyInv, TypeOK
<1>3. ASSUME NEW t \in Threads, LockedStep(t)
      PROVE  AceeRefs(u)' /\ AcerRefs(u)'
  <2>1. /\ \A v \in Threads \ {t} :
              pc'[v] = pc[v] /\ job'[v] = job[v] /\ pc[v] \notin Locked
        /\ faults = 0
    BY <1>1, <1>2, <1>3, LockedFrame
  <2>2. t \in lock \/ lock = {}
    BY <1>2, <2>1 DEF MutexOK, TypeOK
  <2>3. AceeRefs(t) /\ AcerRefs(t)
    BY <2>1, <2>2 DEF RefInv, References
  <2>4. AceeRefs(t)' /\ AcerRefs(t)'
    BY <1>1, <1>3, <2>3, RefsLockedStep
  <2>5. CASE u = t
    BY <2>4, <2>5
  <2>6. CASE u # t
    <3>1. pc'[u] \notin Locked /\ u \notin lock'
      BY <1>2, <2>1, <2>6 DEF MutexOK
    <3>2. pc'[t] \notin Locked
      BY <1>1, <1>2, <3>1 DEF MutexOK
    <3> QED BY <2>4, <3>1, <3>2 DEF AceeRefs, AcerRefs, At, Locked
  <2> QED BY <2>5, <2>6
<1>4. ASSUME NEW t \in Threads, UnlockedStep(t)
      PROVE  AceeRefs(u)' /\ AcerRefs(u)'
  <2>1. Frame(t)
    BY <1>2, <1>4, UnlockedFrame
  <2>2. AceeRefs(u) /\ AcerRefs(u)
    BY <1>1, <2>1 DEF RefInv, References, Frame
  <2>3. CASE u = t
    BY <2>1, <2>2, <2>3 DEF AceeRefs, AcerRefs, Frame, At, Locked, HasRow
  <2>4. CASE u # t
    BY <2>1, <2>2, <2>4 DEF AceeRefs, AcerRefs, Frame, At, HasRow
  <2> QED BY <2>3, <2>4
<1>5. CASE UnInit \/ Crash
  BY <1>1, <1>2, <1>5 DEF UnInit, Crash
<1>6. CASE Reopen \/ UNCHANGED vars
  <2>1. UNCHANGED <<acls, acers, acees, lock, pc, job, faults>>
    BY <1>6 DEF Reopen, vars, tables
  <2>2. AceeRefs(u) /\ AcerRefs(u)
    BY <1>1, <2>1 DEF RefInv, References
  <2> QED BY <2>1, <2>2 DEF AceeRefs, AcerRefs, At, HasRow
<1> QED BY <1>3, <1>4, <1>5, <1>6, NextCases DEF Quiesce

\* Until the first fault an ACL refers to stored parties and a party belongs to an
\* ACL, except for the rows the call in the critical section is working on.
THEOREM ReferenceInvariant == Spec => []RefInv
PROOF
<1>1. Init => RefInv
  BY DEF Init, RefInv, References, AceeRefs, AcerRefs, At, HasRow
<1>2. KeyInv /\ KeyInv' /\ RefInv /\ [Next]_vars => RefInv'
  BY RefsStep
<1> QED BY <1>1, <1>2, KeyInvariant, PTL DEF Spec

\* As long as no statement fails, every ACL finds its accesser and its accessee
\* between two critical sections: the COUNT = 1 test of DeleteAccesserCheck and
\* DeleteAccesseeCheck never takes a row another ACL uses.
THEOREM References_Present == Spec => []PartiesPresent
PROOF
<1>1. KeyInv /\ RefInv => PartiesPresent
  <2> SUFFICES ASSUME KeyInv, RefInv, faults = 0, lock = {}, NEW a \in acls
               PROVE  a.acer \in Ids(acers) /\ a.acee \in Ids(acees)
    BY DEF PartiesPresent
  <2>1. PICK t \in Threads : TRUE
    BY ThreadsAssumption
  <2>2. AceeRefs(t) /\ AcerRefs(t) /\ pc[t] \notin Locked
    BY <2>1 DEF RefInv, References, KeyInv, MutexOK
  <2>3. HasRow(acers, a.acer) /\ HasRow(acees, a.acee)
    BY <2>2 DEF AceeRefs, AcerRefs, At, Locked
  <2> QED BY <2>3 DEF HasRow, Ids
<1> QED BY <1>1, KeyInvariant, ReferenceInvariant, PTL

\* ... and no party row is left behind by the last ACL that used it.
THEOREM No_Orphans == Spec => []NoOrphanParty
PROOF
<1>1. KeyInv /\ RefInv => NoOrphanParty
  <2> SUFFICES ASSUME KeyInv, RefInv, faults = 0, lock = {}
               PROVE  /\ \A r \in acers : \E a \in acls : a.acer = r.id
                      /\ \A r \in acees : \E a \in acls : a.acee = r.id
    BY DEF NoOrphanParty
  <2>1. PICK t \in Threads : TRUE
    BY ThreadsAssumption
  <2>2. AceeRefs(t) /\ AcerRefs(t) /\ pc[t] \notin Locked
    BY <2>1 DEF RefInv, References, KeyInv, MutexOK
  <2> QED BY <2>2 DEF AceeRefs, AcerRefs, At, Locked
<1> QED BY <1>1, KeyInvariant, ReferenceInvariant, PTL

-----------------------------------------------------------------------------
(* Grants *)

\* The parties of the ACLs are those they were granted to, but for the ACL that the call t
\* is about to delete.
AcerGranted(t) ==
    \A a \in acls, b \in bound : a.id = b.id =>
        IsRow(acers, a.acer, b.acer) \/ (At(t, "delAcl") /\ job[t].row = a)
AceeGranted(t) ==
    \A a \in acls, b \in bound : a.id = b.id =>
        IsRow(acees, a.acee, b.acee) \/ (pc[t] \in {"delAccesser", "delAcl"} /\ job[t].row = a)
\* What the call t has read is what it was granted, and what it has stored what it was given.
JobGranted(t) ==
    LET row == job[t].row
        p == job[t].p
    IN  /\ pc[t] \in {"putAccessee", "putAcl"} => IsRow(acers, row.acer, p.acer)
        /\ At(t, "putAcl") => IsRow(acees, row.acee, p.acee)
        /\ pc[t] \in Inserting => row.dev = p.dev /\ row.status = p.status /\ row.lnn = p.lnn
        /\ pc[t] \in Updating =>
              /\ IsRow(acers, row.acer, p.acer) /\ IsRow(acees, row.acee, p.acee)
              /\ \E a \in acls : a = [row EXCEPT !.status = job[t].old]
              /\ row.status = p.status /\ row.lnn = p.lnn /\ row.dev = p.dev
        /\ pc[t] \in Deleting =>
              /\ row.dev = p.dev /\ row.lnn = p.lnn
              /\ \A b \in bound : b.id = row.id => p.acer = b.acer /\ p.acee = b.acee
GrantsOf(t) == AcerGranted(t) /\ AceeGranted(t) /\ JobGranted(t)
\* Every ACL has one grant.
BoundKeys ==
    /\ \A a, b \in bound : a.id = b.id => a = b
    /\ {b.id : b \in bound} = Ids(acls)
GrantInv ==
    faults = 0 =>
        BoundKeys /\ \A t \in Threads : (t \in lock \/ lock = {}) => GrantsOf(t)


\* A stored party is what the reference to it leads to.
LEMMA PartyFound ==
    ASSUME NEW T, PartyKeys(T), NEW i
    PROVE  /\ HasRow(T, i) => IsRow(T, i, PartyOf(T, i))
           /\ \A q : IsRow(T, i, q) => PartyOf(T, i) = q
PROOF
<1>1. ASSUME NEW q, IsRow(T, i, q) PROVE PartyOf(T, i) = q
  <2>1. PICK r \in T : r.id = i /\ r.party = q
    BY <1>1 DEF IsRow
  <2>2. (CHOOSE x \in T : x.id = i) = r
    BY <2>1 DEF PartyKeys
  <2> QED BY <2>1, <2>2 DEF PartyOf
<1>2. HasRow(T, i) => \E q : IsRow(T, i, q)
  BY DEF HasRow, IsRow
<1> QED BY <1>1, <1>2

\* INSERT of a party stores it and moves no other.
LEMMA InsertFound ==
    ASSUME NEW T, NEW i, NEW q, RowFor(T, i, q), PartyKeys(T), NEW U,
           U = IF \E r \in T : r.party = q THEN T
               ELSE T \cup {[id |-> i, party |-> q]}
    PROVE  IsRow(U, i, q) /\ \A j, e : IsRow(T, j, e) => IsRow(U, j, e)
PROOF
<1>1. CASE \E r \in T : r.party = q
  BY <1>1 DEF RowFor, IsRow
<1>2. CASE ~ \E r \in T : r.party = q
  <2>1. [id |-> i, party |-> q] \in U /\ T \subseteq U
    BY <1>2
  <2> QED BY <2>1 DEF IsRow
<1> QED BY <1>1, <1>2

\* UPDATE of a party row to what it says already changes nothing.
LEMMA RewriteSame ==
    ASSUME NEW T \in SUBSET PartyRow, PartyKeys(T), NEW i, NEW q, IsRow(T, i, q)
    PROVE  Rewrite(T, i, q) = T
PROOF
<1>1. \A r \in T : (r.id = i) => r = [r EXCEPT !.party = q]
  BY DEF IsRow, PartyKeys, PartyRow
<1>2. ~\E r \in T : r.id # i /\ r.party = q
  BY DEF IsRow, PartyKeys
<1> QED BY <1>1, <1>2 DEF Rewrite

\* A statement under aclMutex_ keeps the grants, as long as an update changes the status only.
LEMMA GrantLockedStep ==
    ASSUME UpdateFree = FALSE, KeyInv, NEW t \in Threads, LockedStep(t), faults' = 0,
           AceeRefs(t), AcerRefs(t), BoundKeys, GrantsOf(t)
    PROVE  BoundKeys' /\ GrantsOf(t)'
PROOF
<1>1. /\ acls \in SUBSET AclRow /\ IsFiniteSet(acls)
      /\ acers \in SUBSET PartyRow /\ acees \in SUBSET PartyRow
      /\ pc \in [Threads -> Labels] /\ job \in [Threads -> Job \cup {NoJob}]
      /\ faults \in Nat
      /\ pc[t] # "idle" => job[t] \in Job
  BY DEF KeyInv, TypeOK
<1>2. /\ AclKeys /\ PartyKeys(acers) /\ PartyKeys(acees)
      /\ PutOK(t) /\ UpdateOK(t) /\ DeleteOK(t)
  BY KeysByTable DEF KeyInv, JobOK
<1>3. faults' # faults + 1
  BY <1>1
<1>17. AcerGranted(t) /\ AceeGranted(t) /\ JobGranted(t)
  BY DEF GrantsOf
<1> DEFINE row == job[t].row
           p == job[t].p
<1> USE DEF Goto, At, Fault, Inserting, Updating, Deleting
<1>4. CASE \E q \in Profiles : PutAccessControlProfile(t, q)
  <2>1. PICK q \in Profiles : PutAccessControlProfile(t, q)
    BY <1>4
  <2>2. PICK u, a : job' = [job EXCEPT ![t] = PutJob(q, u, a)]
    BY <2>1, Zenon DEF PutAccessControlProfile
  <2>3. /\ pc[t] = "idle" /\ pc'[t] = "putAccesser"
        /\ UNCHANGED <<acls, acers, acees, bound>>
    BY <1>1, <2>1 DEF PutAccessControlProfile, Enter, tables
  <2>4. /\ job'[t].row.dev = q.dev /\ job'[t].row.status = q.status /\ job'[t].row.lnn = q.lnn
        /\ job'[t].p = q
    BY <1>1, <2>2 DEF PutJob, RowOf
  <2>5. JobGranted(t)'
    BY <2>3, <2>4 DEF JobGranted
  <2>6. AcerGranted(t)' /\ AceeGranted(t)'
    BY <1>17, <2>3 DEF AcerGranted, AceeGranted, IsRow
  <2> QED BY <2>3, <2>5, <2>6 DEF GrantsOf, BoundKeys, Ids
<1>5. CASE \E q \in Profiles : UpdateAccessControlProfile(t, q)
  <2>1. PICK q \in Profiles : UpdateAccessControlProfile(t, q)
    BY <1>5
  <2>2. PICK o \in acls : StatusOnly(o, q) /\ job' = [job EXCEPT ![t] =
              [row |-> RowOf(q, o.id, o.acer, o.acee), p |-> q,
               userExists |-> FALSE, accountExists |-> FALSE,
               old |-> o.status, status |-> 0]]
    BY <2>1 DEF UpdateAccessControlProfile
  <2>3. /\ pc[t] = "idle" /\ pc'[t] = "updAccesser"
        /\ UNCHANGED <<acls, acers, acees, bound>>
    BY <1>1, <2>1 DEF UpdateAccessControlProfile, Enter, tables
  <2>4. /\ job'[t].row = [id |-> o.id, acer |-> o.acer, acee |-> o.acee, dev |-> q.dev,
                          attr |-> q.attr, status |-> q.status, lnn |-> q.lnn]
        /\ job'[t].p = q /\ job'[t].old = o.status
    BY <1>1, <2>2 DEF RowOf
  <2>5. o = [job'[t].row EXCEPT !.status = job'[t].old]
    BY <1>1, <2>2, <2>4 DEF StatusOnly, AclRow
  <2>6. HasRow(acers, o.acer) /\ HasRow(acees, o.acee)
    BY <2>3 DEF AcerRefs, AceeRefs
  <2>7. IsRow(acers, o.acer, q.acer) /\ IsRow(acees, o.acee, q.acee)
    BY <1>2, <2>2, <2>6, PartyFound DEF StatusOnly
  <2>8. JobGranted(t)'
    BY <2>3, <2>4, <2>5, <2>7 DEF JobGranted
  <2>9. AcerGranted(t)' /\ AceeGranted(t)'
    BY <1>17, <2>3 DEF AcerGranted, AceeGranted, IsRow
  <2> QED BY <2>3, <2>8, <2>9 DEF GrantsOf, BoundKeys, Ids
<1>6. CASE \E a \in acls : DeleteAccessControlProfile(t, a)
  <2>1. PICK a \in acls : DeleteAccessControlProfile(t, a)
    BY <1>6
  <2>2. /\ pc[t] = "idle" /\ pc'[t] = "delAccessee"
        /\ UNCHANGED <<acls, acers, acees, bound>>
        /\ job'[t].row = a /\ job'[t].p.acer = PartyOf(acers, a.acer)
        /\ job'[t].p.acee = PartyOf(acees, a.acee)
        /\ job'[t].p.dev = a.dev /\ job'[t].p.lnn = a.lnn
    BY <1>1, <2>1 DEF DeleteAccessControlProfile, Enter, tables
  <2>3. \A b \in bound : b.id = a.id => IsRow(acers, a.acer, b.acer) /\ IsRow(acees, a.acee, b.acee)
    BY <1>17, <2>2 DEF AcerGranted, AceeGranted
  <2>4. \A b \in bound : b.id = a.id => PartyOf(acers, a.acer) = b.acer /\ PartyOf(acees, a.acee) = b.acee
    BY <1>2, <2>3, PartyFound
  <2>5. JobGranted(t)'
    BY <2>2, <2>4 DEF JobGranted
  <2>6. AcerGranted(t)' /\ AceeGranted(t)'
    BY <1>17, <2>2 DEF AcerGranted, AceeGranted, IsRow
  <2> QED BY <2>2, <2>5, <2>6 DEF GrantsOf, BoundKeys, Ids
<1>7. CASE \E r \in {"notfound", "notallowed", "fail"} : RejectAcl(t, r)
  <2>1. UNCHANGED <<acls, acers, acees, pc, job, bound>>
    BY <1>7 DEF RejectAcl, tables
  <2> QED BY <1>17, <2>1 DEF GrantsOf, AcerGranted, AceeGranted, JobGranted, IsRow, BoundKeys, Ids
<1>8. CASE PutAccesserProfile(t)
  <2>1. /\ UNCHANGED <<acls, acees, job, bound>>
        /\ pc[t] = "putAccesser" /\ pc'[t] = "putAccessee"
        /\ acers' = IF \E r \in acers : r.party = p.acer THEN acers
                    ELSE acers \cup {[id |-> row.acer, party |-> p.acer]}
    BY <1>1, <1>3, <1>8 DEF PutAccesserProfile
  <2>2. RowFor(acers, row.acer, p.acer)
    BY <1>2, <2>1 DEF PutOK
  <2>3. IsRow(acers', row.acer, p.acer) /\ \A j, e : IsRow(acers, j, e) => IsRow(acers', j, e)
    BY <1>2, <2>1, <2>2, InsertFound
  <2>4. JobGranted(t)'
    BY <1>17, <2>1, <2>3 DEF JobGranted
  <2>5. AcerGranted(t)' /\ AceeGranted(t)'
    BY <1>17, <2>1, <2>3 DEF AcerGranted, AceeGranted
  <2> QED BY <2>1, <2>4, <2>5 DEF GrantsOf, BoundKeys, Ids
<1>9. CASE PutAccesseeProfile(t)
  <2>1. /\ UNCHANGED <<acls, acers, job, bound>>
        /\ pc[t] = "putAccessee" /\ pc'[t] = "putAcl"
        /\ acees' = IF \E r \in acees : r.party = p.acee THEN acees
                    ELSE acees \cup {[id |-> row.acee, party |-> p.acee]}
    BY <1>1, <1>3, <1>9 DEF PutAccesseeProfile
  <2>2. RowFor(acees, row.acee, p.acee)
    BY <1>2, <2>1 DEF PutOK
  <2>3. IsRow(acees', row.acee, p.acee) /\ \A j, e : IsRow(acees, j, e) => IsRow(acees', j, e)
    BY <1>2, <2>1, <2>2, InsertFound
  <2>4. JobGranted(t)'
    BY <1>17, <2>1, <2>3 DEF JobGranted
  <2>5. AcerGranted(t)' /\ AceeGranted(t)'
    BY <1>17, <2>1, <2>3 DEF AcerGranted, AceeGranted
  <2> QED BY <2>1, <2>4, <2>5 DEF GrantsOf, BoundKeys, Ids
<1>10. CASE PutAclRow(t)
  <2>1. /\ UNCHANGED <<acers, acees>> /\ pc[t] = "putAcl"
        /\ pc'[t] \in {"idle", "putUserSend"}
    BY <1>1, <1>3, <1>10 DEF PutAclRow, Return
  <2>2. JobGranted(t)'
    BY <2>1 DEF JobGranted
  <2>3. IsRow(acers, row.acer, p.acer) /\ IsRow(acees, row.acee, p.acee) /\ ~HasRow(acls, row.id)
    BY <1>2, <1>17, <2>1 DEF JobGranted, PutOK
  <2>4. /\ \A a \in acls, b \in bound : a.id = b.id => IsRow(acers, a.acer, b.acer)
        /\ \A a \in acls, b \in bound : a.id = b.id => IsRow(acees, a.acee, b.acee)
    BY <1>17, <2>1 DEF AcerGranted, AceeGranted
  <2>5. CASE UNCHANGED <<acls, bound>>
    BY <2>1, <2>2, <2>4, <2>5 DEF GrantsOf, AcerGranted, AceeGranted, IsRow, BoundKeys, Ids
  <2>6. CASE /\ acls' = acls \cup {row}
             /\ bound' = {b \in bound : b.id # row.id} \cup
                      {[id |-> row.id, acer |-> p.acer, acee |-> p.acee]}
    <3> DEFINE n == [id |-> row.id, acer |-> p.acer, acee |-> p.acee]
    <3>1. n.id = row.id /\ n.acer = p.acer /\ n.acee = p.acee
      OBVIOUS
    <3> HIDE DEF n
    <3>2. bound' = bound \cup {n} /\ \A b \in bound : b.id # row.id
      BY <2>3, <2>6 DEF n, BoundKeys, HasRow, Ids
    <3>3. \A a \in acls : a.id # row.id
      BY <2>3 DEF HasRow
    <3>4. BoundKeys'
      <4>1. {b.id : b \in bound'} = {b.id : b \in bound} \cup {row.id}
        BY <3>1, <3>2
      <4>2. Ids(acls') = Ids(acls) \cup {row.id}
        BY <2>6 DEF Ids
      <4>3. \A b, c \in bound' : b.id = c.id => b = c
        BY <3>1, <3>2 DEF BoundKeys
      <4> QED BY <4>1, <4>2, <4>3 DEF BoundKeys
    <3>5. AcerGranted(t)' /\ AceeGranted(t)'
      BY <2>1, <2>3, <2>4, <2>6, <3>1, <3>2, <3>3 DEF AcerGranted, AceeGranted, IsRow
    <3> QED BY <2>2, <3>4, <3>5 DEF GrantsOf
  <2> QED BY <1>10, <2>5, <2>6 DEF PutAclRow
<1>11. CASE UpdateAccesserProfile(t)
  <2>1. /\ UNCHANGED <<acls, acees, job, bound>>
        /\ pc[t] = "updAccesser" /\ pc'[t] = "updAccessee"
        /\ acers' = Rewrite(acers, row.acer, p.acer)
    BY <1>1, <1>3, <1>11 DEF UpdateAccesserProfile
  <2>2. acers' = acers
    BY <1>1, <1>2, <1>17, <2>1, RewriteSame DEF JobGranted
  <2>3. JobGranted(t)'
    BY <1>17, <2>1, <2>2 DEF JobGranted
  <2>4. AcerGranted(t)' /\ AceeGranted(t)'
    BY <1>17, <2>1, <2>2 DEF AcerGranted, AceeGranted, IsRow
  <2> QED BY <2>1, <2>3, <2>4 DEF GrantsOf, BoundKeys, Ids
<1>12. CASE UpdateAccesseeProfile(t)
  <2>1. /\ UNCHANGED <<acls, acers, job, bound>>
        /\ pc[t] = "updAccessee" /\ pc'[t] = "updAcl"
        /\ acees' = Rewrite(acees, row.acee, p.acee)
    BY <1>1, <1>3, <1>12 DEF UpdateAccesseeProfile
  <2>2. acees' = acees
    BY <1>1, <1>2, <1>17, <2>1, RewriteSame DEF JobGranted
  <2>3. JobGranted(t)'
    BY <1>17, <2>1, <2>2 DEF JobGranted
  <2>4. AcerGranted(t)' /\ AceeGranted(t)'
    BY <1>17, <2>1, <2>2 DEF AcerGranted, AceeGranted, IsRow
  <2> QED BY <2>1, <2>3, <2>4 DEF GrantsOf, BoundKeys, Ids
<1>13. CASE UpdateAclRow(t)
  <2>1. /\ UNCHANGED <<acers, acees>> /\ pc[t] = "updAcl"
        /\ pc'[t] \in {"idle", "updAccount"}
    BY <1>1, <1>3, <1>13 DEF UpdateAclRow, Return
  <2>2. JobGranted(t)'
    BY <2>1 DEF JobGranted
  <2>3. IsRow(acers, row.acer, p.acer) /\ IsRow(acees, row.acee, p.acee) /\ HasRow(acls, row.id)
    BY <1>2, <1>17, <2>1 DEF JobGranted, UpdateOK, HasRow
  <2>4. /\ \A a \in acls, b \in bound : a.id = b.id => IsRow(acers, a.acer, b.acer)
        /\ \A a \in acls, b \in bound : a.id = b.id => IsRow(acees, a.acee, b.acee)
    BY <1>17, <2>1 DEF AcerGranted, AceeGranted
  <2>5. CASE UNCHANGED <<acls, bound>>
    BY <2>1, <2>2, <2>4, <2>5 DEF GrantsOf, AcerGranted, AceeGranted, IsRow, BoundKeys, Ids
  <2>6. CASE /\ acls' = {IF a.id = row.id THEN row ELSE a : a \in acls}
             /\ bound' = {b \in bound : b.id # row.id} \cup
                      {[id |-> row.id, acer |-> p.acer, acee |-> p.acee]}
    <3> DEFINE n == [id |-> row.id, acer |-> p.acer, acee |-> p.acee]
    <3>1. n.id = row.id /\ n.acer = p.acer /\ n.acee = p.acee
      OBVIOUS
    <3> HIDE DEF n
    <3>2. bound' = {b \in bound : b.id # row.id} \cup {n}
      BY <2>6 DEF n
    <3>3. Ids(acls') = Ids(acls)
      BY <2>6 DEF Ids
    <3>4. {b.id : b \in bound'} = {b.id : b \in bound}
      BY <2>3, <3>1, <3>2 DEF BoundKeys, HasRow, Ids
    <3>5. BoundKeys'
      BY <3>1, <3>2, <3>3, <3>4 DEF BoundKeys
    <3>6. \A a \in acls' : a = row \/ (a \in acls /\ a.id # row.id)
      BY <2>6
    <3>7. AcerGranted(t)' /\ AceeGranted(t)'
      BY <2>1, <2>3, <2>4, <3>1, <3>2, <3>6 DEF AcerGranted, AceeGranted, IsRow
    <3> QED BY <2>2, <3>5, <3>7 DEF GrantsOf
  <2> QED BY <1>13, <2>5, <2>6 DEF UpdateAclRow
<1>14. CASE DeleteAccesseeCheck(t)
  <2> DEFINE S == {a \in acls : a.acee = row.acee}
  <2>1. /\ UNCHANGED <<acls, acers, job, bound>>
        /\ pc[t] = "delAccessee" /\ pc'[t] = "delAccesser"
        /\ acees' = IF IsLastReference(S) THEN Delete(acees, row.acee) ELSE acees
    BY <1>1, <1>3, <1>14 DEF DeleteAccesseeCheck
  <2>2. row \in S /\ IsFiniteSet(S)
    BY <1>1, <1>2, <2>1, FS_Subset DEF DeleteOK
  <2>3. AcerGranted(t)' /\ JobGranted(t)'
    BY <1>17, <2>1 DEF AcerGranted, JobGranted, IsRow
  <2>4. IsLastReference(S) => \A b \in acls : b.acee = row.acee => b = row
    <3> HIDE DEF S
    <3>1. IsLastReference(S) => \A b \in S : b = row
      BY <2>2, CountOne DEF IsLastReference
    <3> QED BY <3>1 DEF S
  <2>5. \A q : \A a \in acls : a # row /\ IsRow(acees, a.acee, q) => IsRow(acees', a.acee, q)
    <3>1. CASE IsLastReference(S)
      <4>1. acees' = {r \in acees : r.id # row.acee}
        BY <2>1, <3>1 DEF Delete
      <4> QED BY <2>4, <3>1, <4>1 DEF IsRow
    <3>2. CASE ~IsLastReference(S)
      BY <2>1, <3>2
    <3> QED BY <3>1, <3>2
  <2>6. AceeGranted(t)'
    BY <1>17, <2>1, <2>5 DEF AceeGranted
  <2> QED BY <2>1, <2>3, <2>6 DEF GrantsOf, BoundKeys, Ids
<1>15. CASE DeleteAccesserCheck(t)
  <2> DEFINE S == {a \in acls : a.acer = row.acer}
  <2>1. /\ UNCHANGED <<acls, acees, job, bound>>
        /\ pc[t] = "delAccesser" /\ pc'[t] = "delAcl"
        /\ acers' = IF IsLastReference(S) THEN Delete(acers, row.acer) ELSE acers
    BY <1>1, <1>3, <1>15 DEF DeleteAccesserCheck
  <2>2. row \in S /\ IsFiniteSet(S)
    BY <1>1, <1>2, <2>1, FS_Subset DEF DeleteOK
  <2>3. AceeGranted(t)' /\ JobGranted(t)'
    BY <1>17, <2>1 DEF AceeGranted, JobGranted, IsRow
  <2>4. IsLastReference(S) => \A b \in acls : b.acer = row.acer => b = row
    <3> HIDE DEF S
    <3>1. IsLastReference(S) => \A b \in S : b = row
      BY <2>2, CountOne DEF IsLastReference
    <3> QED BY <3>1 DEF S
  <2>5. \A q : \A a \in acls : a # row /\ IsRow(acers, a.acer, q) => IsRow(acers', a.acer, q)
    <3>1. CASE IsLastReference(S)
      <4>1. acers' = {r \in acers : r.id # row.acer}
        BY <2>1, <3>1 DEF Delete
      <4> QED BY <2>4, <3>1, <4>1 DEF IsRow
    <3>2. CASE ~IsLastReference(S)
      BY <2>1, <3>2
    <3> QED BY <3>1, <3>2
  <2>6. AcerGranted(t)'
    BY <1>17, <2>1, <2>5 DEF AcerGranted
  <2> QED BY <2>1, <2>3, <2>6 DEF GrantsOf, BoundKeys, Ids
<1>16. CASE DeleteAclRow(t)
  <2>1. /\ UNCHANGED <<acers, acees>> /\ pc[t] = "delAcl"
        /\ pc'[t] = "delUserCheck" /\ acls' = Delete(acls, row.id) /\ bound' = Delete(bound, row.id)
    BY <1>1, <1>3, <1>16 DEF DeleteAclRow
  <2>2. JobGranted(t)'
    BY <2>1 DEF JobGranted
  <2>3. BoundKeys'
    BY <2>1 DEF BoundKeys, Delete, Ids
  <2>4. AcerGranted(t)' /\ AceeGranted(t)'
    BY <1>17, <2>1 DEF AcerGranted, AceeGranted, Delete, IsRow
  <2> QED BY <2>2, <2>3, <2>4 DEF GrantsOf
<1> QED BY <1>4, <1>5, <1>6, <1>7, <1>8, <1>9, <1>10, <1>11, <1>12, <1>13, <1>14, <1>15, <1>16 DEF LockedStep

\* The parties and the notifications of the phase outside aclMutex_ leave the history alone.
LEMMA UnlockedBound ==
    ASSUME NEW t \in Threads, UnlockedStep(t)
    PROVE  UNCHANGED bound
PROOF
  BY DEF UnlockedStep, tables, PutTrustDeviceProfile, DeleteTrustDeviceProfile, UpdateTrustDeviceProfile, PutAclCheckUser, PutAclCheckAccount, PutAclCheckTrust, PutAclCheckStatus, NotifyAccountAclCheck, NotifyCheckUser, NotifyCheckDevice, DeleteUserCheck, NotifyTrustDeviceProfileDelete, NotifyDeviceAclInactiveByDelete, DeleteAccountCheck, NotifyAccountAclDelete, DeleteTrustDeviceCheck, DeleteTrustSelect, GetStatus, SelectTrustDevice

\* Any step that no fault disturbs keeps the grants.
LEMMA GrantStep ==
    ASSUME UpdateFree = FALSE, KeyInv, KeyInv', RefInv, GrantInv, [Next]_vars
    PROVE  GrantInv'
PROOF
<1>2. TypeOK /\ MutexOK /\ MutexOK' /\ faults \in Nat
  BY DEF KeyInv, TypeOK
<1>3. ASSUME NEW t \in Threads, LockedStep(t), faults' = 0
      PROVE  BoundKeys' /\ \A u \in Threads : u \in lock' \/ lock' = {} => GrantsOf(u)'
  <2>1. /\ \A v \in Threads \ {t} :
              pc'[v] = pc[v] /\ job'[v] = job[v] /\ pc[v] \notin Locked
        /\ faults = 0
    BY <1>2, <1>3, LockedFrame
  <2>2. t \in lock \/ lock = {}
    BY <1>2, <2>1 DEF MutexOK, TypeOK
  <2>3. AceeRefs(t) /\ AcerRefs(t) /\ BoundKeys /\ GrantsOf(t)
    BY <2>1, <2>2 DEF RefInv, References, GrantInv
  <2>4. BoundKeys' /\ GrantsOf(t)'
    BY <1>3, <2>3, GrantLockedStep
  <2>5. ASSUME NEW u \in Threads, u \in lock' \/ lock' = {}, u # t PROVE GrantsOf(u)'
    <3>1. pc'[u] \notin Locked /\ u \notin lock'
      BY <1>2, <2>1, <2>5 DEF MutexOK
    <3>2. pc'[t] \notin Locked
      BY <2>5, <1>2, <3>1 DEF MutexOK
    <3> QED BY <2>4, <3>1, <3>2 DEF GrantsOf, AcerGranted, AceeGranted, JobGranted, Inserting, Updating, Deleting, At, Locked
  <2> QED BY <2>4, <2>5
<1>4. ASSUME NEW t \in Threads, UnlockedStep(t), faults' = 0
      PROVE  BoundKeys' /\ \A u \in Threads : u \in lock' \/ lock' = {} => GrantsOf(u)'
  <2>1. Frame(t) /\ UNCHANGED bound
    BY <1>2, <1>4, UnlockedFrame, UnlockedBound
  <2>2. BoundKeys /\ \A u \in Threads : u \in lock \/ lock = {} => GrantsOf(u)
    BY <1>4, <2>1 DEF GrantInv, Frame
  <2>3. BoundKeys'
    BY <2>1, <2>2 DEF BoundKeys, Frame, Ids
  <2>4. ASSUME NEW u \in Threads, GrantsOf(u), u = t PROVE GrantsOf(u)'
    BY <2>1, <2>4 DEF GrantsOf, AcerGranted, AceeGranted, JobGranted, Inserting, Updating, Deleting, Frame, At, Locked, IsRow
  <2>5. ASSUME NEW u \in Threads, GrantsOf(u), u # t PROVE GrantsOf(u)'
    BY <2>1, <2>5 DEF GrantsOf, AcerGranted, AceeGranted, JobGranted, Inserting, Updating, Deleting, Frame, At, IsRow
  <2> QED BY <2>1, <2>2, <2>3, <2>4, <2>5 DEF Frame
<1>5. CASE UnInit \/ Crash
  BY <1>2, <1>5 DEF UnInit, Crash, GrantInv
<1>6. CASE Reopen \/ UNCHANGED vars
  <2>1. UNCHANGED <<acls, acers, acees, lock, pc, job, faults, bound>>
    BY <1>6 DEF Reopen, vars, tables
  <2>2. \A u \in Threads : GrantsOf(u) => GrantsOf(u)'
    BY <2>1 DEF GrantsOf, AcerGranted, AceeGranted, JobGranted, At, IsRow
  <2>3. BoundKeys => BoundKeys'
    BY <2>1 DEF BoundKeys, Ids
  <2> QED BY <2>1, <2>2, <2>3 DEF GrantInv
<1> QED BY <1>3, <1>4, <1>5, <1>6, NextCases DEF Quiesce, GrantInv

\* As long as updates change statuses only and no statement fails, the parties of
\* every ACL are those it was granted to.
THEOREM GrantInvariant ==
    ASSUME UpdateFree = FALSE PROVE Spec => []GrantInv
PROOF
<1>1. Init => GrantInv
  BY DEF Init, GrantInv, BoundKeys, Ids, GrantsOf, AcerGranted, AceeGranted, JobGranted, Inserting, Updating, Deleting, At
<1>2. KeyInv /\ KeyInv' /\ RefInv /\ GrantInv /\ [Next]_vars => GrantInv'
  BY GrantStep
<1> QED BY <1>1, <1>2, KeyInvariant, ReferenceInvariant, PTL DEF Spec

\* Between two critical sections every ACL leads to the parties it was granted to,
\* whichever calls ran beside the one that granted it: neither a shared party row
\* nor the id of a deleted row that PutAccessControlProfile gives again rebinds it.
THEOREM GrantsStable ==
    ASSUME UpdateFree = FALSE PROVE Spec => [](faults = 0 => GrantStable)
PROOF
<1>1. KeyInv /\ GrantInv => (faults = 0 => GrantStable)
  <2> SUFFICES ASSUME KeyInv, GrantInv, faults = 0, lock = {}, NEW a \in acls, NEW b \in bound,
                      a.id = b.id
               PROVE  PartyOf(acers, a.acer) = b.acer /\ PartyOf(acees, a.acee) = b.acee
    BY DEF GrantStable
  <2>1. PICK t \in Threads : TRUE
    BY ThreadsAssumption
  <2>2. GrantsOf(t) /\ pc[t] \notin Locked
    BY <2>1 DEF GrantInv, KeyInv, MutexOK
  <2>3. IsRow(acers, a.acer, b.acer) /\ IsRow(acees, a.acee, b.acee)
    BY <2>2 DEF GrantsOf, AcerGranted, AceeGranted, At, Locked
  <2> QED BY <2>3, PartyFound, KeysByTable DEF KeyInv
<1> QED BY <1>1, KeyInvariant, GrantInvariant, PTL

-----------------------------------------------------------------------------
(* Trust rows, one call at a time *)

Matches(d) == IF AclsOf(d) = {} THEN TrustOf(d) = {}
              ELSE TrustOf(d) = {[dev |-> d, status |-> GetResultStatus(d)]}
\* The trust row of the device the call t works on, once its ACL has changed.
TrustOfCall(t) ==
    LET d == job[t].row.dev
        p == job[t].p
        l == pc[t]
        stale == TrustOf(d) = {[dev |-> d, status |-> 1]} /\ GetResultStatus(d) = 0
    IN  /\ l \in {"putUserSend", "putAccountSend", "putReadTrust", "putTrust"} =>
              /\ AclsOf(d) # {} /\ ~stale
              /\ TrustOf(d) = {} => \A a \in AclsOf(d) : a.status = p.status
        /\ l = "putTrust" => TrustOf(d) = {}
        /\ l \in {"putStatus", "putSelect", "putUpdate"} =>
              TrustOf(d) # {} /\ AclsOf(d) # {} /\ ~stale
        /\ l \in {"putSelect", "putUpdate", "select", "update"} =>
              job[t].status = GetResultStatus(d)
        /\ l \in {"updAccount", "updUser", "updDevice", "updStatus", "select", "update", "delStatus"} =>
              TrustOf(d) # {} /\ AclsOf(d) # {}
        /\ l \in {"delUserCheck", "delUserSend", "delDevice", "delAccountCheck", "delAccountSend",
                  "delCount", "delTrustSelect", "delTrust"} => TrustOf(d) # {}
        /\ l \in {"delTrustSelect", "delTrust"} => AclsOf(d) = {}
        /\ l \in {"updStatus", "select", "update", "delAccountCheck", "delAccountSend", "delCount",
                  "delStatus", "delTrustSelect", "delTrust"} =>
              p.lnn \/ "deviceInactive" \in sent[t] \/ GetResultStatus(d) = 1
\* The row of a call and its argument agree on what the second phase reads of either.
Ties(t) ==
    LET row == job[t].row
        p == job[t].p
    IN  /\ pc[t] # "idle" => row.dev = p.dev /\ row.lnn = p.lnn
        /\ pc[t] \in Inserting \cup {"putUserSend", "putAccountSend", "putReadTrust", "putTrust"}
              => row.status = p.status
Others(t) == \A d \in Devices : Matches(d) \/ (pc[t] \notin Locked \cup {"idle"} /\ d = job[t].row.dev)
TrustOK(t) == Others(t) /\ TrustOfCall(t) /\ Ties(t)
TrustInv == faults = 0 => \A t \in Threads : TrustOK(t)

\* A step that touches neither the ACLs nor the trust rows, before the ACL of the
\* call has changed.
LEMMA TrustQuiet ==
    ASSUME NEW t \in Threads, UNCHANGED <<acls, trust>>, TrustOK(t), Ties(t)',
           pc[t] \in Locked \cup {"idle"}, pc'[t] \in Locked \cup {"idle"}
    PROVE  TrustOK(t)'
PROOF
<1>1. Others(t)'
  BY DEF TrustOK, Others, Matches, AclsOf, TrustOf, GetResultStatus
<1>2. TrustOfCall(t)'
  BY DEF TrustOfCall, Locked
<1> QED BY <1>1, <1>2 DEF TrustOK

\* A statement under aclMutex_ leaves the trust rows right, except for that of the
\* device whose ACL it has just stored, updated or deleted.
LEMMA TrustLockedStep ==
    ASSUME KeyInv, NEW t \in Threads, LockedStep(t), faults' = 0, GrantsOf(t), TrustOK(t)
    PROVE  TrustOK(t)'
PROOF
<1>1. /\ acls \in SUBSET AclRow /\ pc \in [Threads -> Labels]
      /\ job \in [Threads -> Job \cup {NoJob}] /\ faults \in Nat
      /\ pc[t] # "idle" => job[t] \in Job
  BY DEF KeyInv, TypeOK
<1>2. AclKeys /\ UpdateOK(t) /\ DeleteOK(t) /\ PutOK(t)
  BY KeysByTable DEF KeyInv, JobOK
<1>3. faults' # faults + 1
  BY <1>1
<1>4. Others(t) /\ TrustOfCall(t) /\ Ties(t)
  BY DEF TrustOK
<1> DEFINE row == job[t].row
           p == job[t].p
<1> USE DEF Goto, At, Fault, Inserting, Updating, Deleting, Locked
<1>5. CASE \E q \in Profiles : PutAccessControlProfile(t, q)
  <2>1. PICK q \in Profiles : PutAccessControlProfile(t, q)
    BY <1>5
  <2>2. PICK u, a : job' = [job EXCEPT ![t] = PutJob(q, u, a)]
    BY <2>1, Zenon DEF PutAccessControlProfile
  <2>3. pc[t] = "idle" /\ pc'[t] = "putAccesser" /\ UNCHANGED <<acls, trust>>
    BY <1>1, <2>1 DEF PutAccessControlProfile, Enter, tables
  <2>4. Ties(t)'
    BY <1>1, <2>2, <2>3 DEF Ties, PutJob, RowOf
  <2> QED BY <2>3, <2>4, TrustQuiet
<1>6. CASE \E q \in Profiles : UpdateAccessControlProfile(t, q)
  <2>1. PICK q \in Profiles : UpdateAccessControlProfile(t, q)
    BY <1>6
  <2>2. /\ pc[t] = "idle" /\ pc'[t] = "updAccesser" /\ UNCHANGED <<acls, trust>>
        /\ job'[t].row.dev = job'[t].p.dev /\ job'[t].row.lnn = job'[t].p.lnn
    BY <1>1, <2>1 DEF UpdateAccessControlProfile, Enter, tables, RowOf
  <2> QED BY <2>2, TrustQuiet DEF Ties
<1>7. CASE \E a \in acls : DeleteAccessControlProfile(t, a)
  <2>1. PICK a \in acls : DeleteAccessControlProfile(t, a)
    BY <1>7
  <2>2. /\ pc[t] = "idle" /\ pc'[t] = "delAccessee" /\ UNCHANGED <<acls, trust>>
        /\ job'[t].row.dev = job'[t].p.dev /\ job'[t].row.lnn = job'[t].p.lnn
    BY <1>1, <2>1 DEF DeleteAccessControlProfile, Enter, tables
  <2> QED BY <2>2, TrustQuiet DEF Ties
<1>8. CASE \E r \in {"notfound", "notallowed", "fail"} : RejectAcl(t, r)
  <2>1. pc[t] = "idle" /\ UNCHANGED <<acls, trust, pc, job>>
    BY <1>8 DEF RejectAcl, tables, Enter
  <2> QED BY <2>1, TrustQuiet DEF Ties
<1>9. CASE PutAccesserProfile(t) \/ PutAccesseeProfile(t)
  <2>1. /\ UNCHANGED <<acls, trust, job>> /\ pc[t] \in {"putAccesser", "putAccessee"}
        /\ pc'[t] \in {"putAccessee", "putAcl"}
    BY <1>1, <1>3, <1>9 DEF PutAccesserProfile, PutAccesseeProfile
  <2> QED BY <1>4, <2>1, TrustQuiet DEF Ties
<1>10. CASE UpdateAccesserProfile(t) \/ UpdateAccesseeProfile(t)
  <2>1. /\ UNCHANGED <<acls, trust, job>> /\ pc[t] \in {"updAccesser", "updAccessee"}
        /\ pc'[t] \in {"updAccessee", "updAcl"}
    BY <1>1, <1>3, <1>10 DEF UpdateAccesserProfile, UpdateAccesseeProfile
  <2> QED BY <1>4, <2>1, TrustQuiet DEF Ties
<1>11. CASE DeleteAccesseeCheck(t) \/ DeleteAccesserCheck(t)
  <2>1. /\ UNCHANGED <<acls, trust, job>> /\ pc[t] \in {"delAccessee", "delAccesser"}
        /\ pc'[t] \in {"delAccesser", "delAcl"}
    BY <1>1, <1>3, <1>11 DEF DeleteAccesseeCheck, DeleteAccesserCheck
  <2> QED BY <1>4, <2>1, TrustQuiet DEF Ties
<1>12. CASE PutAclRow(t)
  <2>1. UNCHANGED trust /\ pc[t] = "putAcl"
    BY <1>12 DEF PutAclRow
  <2>2. CASE UNCHANGED acls /\ pc'[t] = "idle"
    BY <2>1, <2>2, TrustQuiet DEF Ties
  <2>3. CASE acls' = acls \cup {row} /\ pc'[t] = "putUserSend" /\ UNCHANGED job
    <3>1. row \in AclRow /\ row.dev \in Devices
      BY <1>1, <2>1 DEF Job, AclRow
    <3>2. Matches(row.dev)
      BY <1>4, <2>1, <3>1 DEF Others
    <3>3. Ties(t)'
      BY <1>4, <2>1, <2>3 DEF Ties
    <3>4. Others(t)'
      <4>1. \A e \in Devices : e # row.dev => AclsOf(e)' = AclsOf(e)
        BY <2>3 DEF AclsOf
      <4> QED BY <1>4, <2>1, <2>3, <4>1 DEF Others, Matches, TrustOf, GetResultStatus
    <3>5. TrustOfCall(t)'
      <4>1. row \in {a \in acls' : a.dev = row.dev}
        BY <2>3
      <4>2. {r \in trust : r.dev = row.dev} = {} =>
               \A a \in acls' : a.dev = row.dev => a.status = p.status
        BY <1>4, <2>1, <2>3, <3>2 DEF Matches, AclsOf, TrustOf, Ties
      <4>3. {r \in trust : r.dev = row.dev} = {[dev |-> row.dev, status |-> 1]} =>
               \E a \in acls : a.dev = row.dev /\ a.status = 1
        <5>1. [dev |-> row.dev, status |-> 1] # [dev |-> row.dev, status |-> 0]
          OBVIOUS
        <5> QED BY <3>2, <5>1 DEF Matches, AclsOf, TrustOf, GetResultStatus
      <4> QED BY <2>1, <2>3, <4>1, <4>2, <4>3 DEF TrustOfCall, AclsOf, TrustOf, GetResultStatus
    <3> QED BY <3>3, <3>4, <3>5 DEF TrustOK
  <2> QED BY <1>1, <1>3, <1>12, <2>2, <2>3 DEF PutAclRow, Return
<1>13. CASE UpdateAclRow(t)
  <2>1. UNCHANGED trust /\ pc[t] = "updAcl"
    BY <1>13 DEF UpdateAclRow
  <2>2. CASE UNCHANGED acls /\ pc'[t] = "idle"
    BY <2>1, <2>2, TrustQuiet DEF Ties
  <2>3. CASE /\ acls' = {IF a.id = row.id THEN row ELSE a : a \in acls}
             /\ pc'[t] = "updAccount" /\ UNCHANGED job
    <3>1. row \in AclRow /\ row.dev \in Devices
      BY <1>1, <2>1 DEF Job, AclRow
    <3>2. Matches(row.dev)
      BY <1>4, <2>1, <3>1 DEF Others
    <3>3. PICK o \in acls : o.id = row.id /\ o.dev = row.dev
      BY <2>1, <3>1 DEF GrantsOf, JobGranted, AclRow
    <3>4. \A a \in acls : a.id = row.id => a = o
      BY <1>2, <3>3 DEF AclKeys
    <3>5. Ties(t)'
      BY <1>4, <2>1, <2>3 DEF Ties
    <3>6. Others(t)'
      <4>1. \A e \in Devices : e # row.dev => AclsOf(e)' = AclsOf(e)
        BY <2>3, <3>3, <3>4 DEF AclsOf
      <4> QED BY <1>4, <2>1, <2>3, <4>1 DEF Others, Matches, TrustOf, GetResultStatus
    <3>7. TrustOfCall(t)'
      <4>1. row \in acls'
        BY <2>3, <3>3
      <4>2. TrustOf(row.dev) # {}
        BY <3>2, <3>3 DEF Matches, AclsOf
      <4> QED BY <2>1, <2>3, <4>1, <4>2 DEF TrustOfCall, AclsOf, TrustOf
    <3> QED BY <3>5, <3>6, <3>7 DEF TrustOK
  <2> QED BY <1>1, <1>3, <1>13, <2>2, <2>3 DEF UpdateAclRow, Return
<1>14. CASE DeleteAclRow(t)
  <2>1. /\ UNCHANGED <<trust, job>> /\ pc[t] = "delAcl" /\ pc'[t] = "delUserCheck"
        /\ acls' = Delete(acls, row.id)
    BY <1>1, <1>3, <1>14 DEF DeleteAclRow
  <2>2. row \in acls /\ row.dev \in Devices
    BY <1>1, <1>2, <2>1 DEF DeleteOK, AclRow
  <2>3. Matches(row.dev)
    BY <1>4, <2>1, <2>2 DEF Others
  <2>4. Ties(t)'
    BY <1>4, <2>1 DEF Ties
  <2>5. Others(t)'
    <3>1. \A a \in acls : a.id = row.id => a = row
      BY <1>2, <2>2 DEF AclKeys
    <3>2. \A e \in Devices : e # row.dev => AclsOf(e)' = AclsOf(e)
      BY <2>1, <3>1 DEF AclsOf, Delete
    <3> QED BY <1>4, <2>1, <3>2 DEF Others, Matches, TrustOf, GetResultStatus
  <2>6. TrustOfCall(t)'
    <3>1. TrustOf(row.dev) # {}
      BY <2>2, <2>3 DEF Matches, AclsOf
    <3> QED BY <2>1, <3>1 DEF TrustOfCall, TrustOf
  <2> QED BY <2>4, <2>5, <2>6 DEF TrustOK
<1> QED BY <1>5, <1>6, <1>7, <1>8, <1>9, <1>10, <1>11, <1>12, <1>13, <1>14 DEF LockedStep

\* Between two critical sections the scan of the ACLs with their parties finds
\* every ACL.
LEMMA AclsJoined ==
    ASSUME KeyInv, RefInv, faults = 0, lock = {}
    PROVE  /\ \A a \in acls : \E g \in GetAllAccessControlProfiles : g.dev = a.dev
           /\ \A g \in GetAllAccessControlProfiles :
                 \E a \in acls : g.dev = a.dev /\ g.status = a.status
PROOF
<1>1. \A x \in acls, y \in acers, z \in acees : x.acer = y.id /\ x.acee = z.id =>
          Join(x, y.party, z.party) \in GetAllAccessControlProfiles
  <2> SUFFICES ASSUME NEW x \in acls, NEW y \in acers, NEW z \in acees, x.acer = y.id /\ x.acee = z.id
               PROVE  Join(x, y.party, z.party) \in GetAllAccessControlProfiles
    OBVIOUS
  <2> DEFINE w == <<x, y, z>>
  <2>1. w \in {v \in acls \X acers \X acees : v[1].acer = v[2].id /\ v[1].acee = v[3].id}
    OBVIOUS
  <2>2. Join(w[1], w[2].party, w[3].party) = Join(x, y.party, z.party)
    OBVIOUS
  <2> QED BY <2>1, <2>2 DEF GetAllAccessControlProfiles
<1>2. ASSUME NEW a \in acls PROVE \E g \in GetAllAccessControlProfiles : g.dev = a.dev
  <2>1. PICK t \in Threads : TRUE
    BY ThreadsAssumption
  <2>2. AceeRefs(t) /\ AcerRefs(t) /\ pc[t] \notin Locked
    BY <2>1 DEF RefInv, References, KeyInv, MutexOK
  <2>3. HasRow(acers, a.acer) /\ HasRow(acees, a.acee)
    BY <2>2 DEF AceeRefs, AcerRefs, At, Locked
  <2>4. PICK y \in acers, z \in acees : a.acer = y.id /\ a.acee = z.id
    BY <2>3 DEF HasRow
  <2>5. Join(a, y.party, z.party) \in GetAllAccessControlProfiles
    BY <1>1, <2>4
  <2> QED BY <2>5 DEF Join
<1>3. ASSUME NEW g \in GetAllAccessControlProfiles
      PROVE  \E a \in acls : g.dev = a.dev /\ g.status = a.status
  BY DEF GetAllAccessControlProfiles, Join
<1> QED BY <1>2, <1>3

\* Where an active non-LNN ACL of a device is found the device has one.
LEMMA ActiveFound ==
    ASSUME KeyInv, RefInv, faults = 0, lock = {}, NEW p, CheckDeviceIdActiveAclExists(p)
    PROVE  GetResultStatus(p.dev) = 1
PROOF
  BY AclsJoined DEF CheckDeviceIdActiveAclExists, UserAcls, RemoveLnnAcl, GetResultStatus, AclsOf

\* The second phase brings the trust row of its device in line with the ACLs, and
\* announces a device it turns inactive.
LEMMA TrustUnlockedStep ==
    ASSUME KeyInv, RefInv, NEW t \in Threads, \A u \in Threads : u = t,
           UnlockedStep(t), faults' = 0, TrustOK(t)
    PROVE  TrustOK(t)'
PROOF
<1>1. /\ acls \in SUBSET AclRow /\ trust \in SUBSET TrustRow
      /\ pc \in [Threads -> Labels] /\ sent \in [Threads -> SUBSET Events]
      /\ job \in [Threads -> Job \cup {NoJob}] /\ faults \in Nat
      /\ pc[t] # "idle" => job[t] \in Job
  BY DEF KeyInv, TypeOK
<1>2. faults' # faults + 1
  BY <1>1
<1>3. Others(t) /\ TrustOfCall(t) /\ Ties(t)
  BY DEF TrustOK
<1>4. /\ UNCHANGED acls /\ pc[t] \notin Locked /\ faults = 0
  BY <1>1, UnlockedFrame DEF Frame, KeyInv
<1>5. lock = {}
  BY <1>4 DEF KeyInv, MutexOK, TypeOK
<1> DEFINE row == job[t].row
           p == job[t].p
           d == row.dev
\* A step that moves on.
<1>6. ASSUME UNCHANGED trust, pc[t] # "idle", pc'[t] \notin {"idle"} \cup Locked,
             job'[t].row = row, job'[t].p = p, TrustOfCall(t)',
             pc'[t] \in {"putUserSend", "putAccountSend", "putReadTrust", "putTrust"} =>
               pc[t] \in {"putUserSend", "putAccountSend", "putReadTrust", "putTrust"}
      PROVE  TrustOK(t)'
  <2>1. Others(t)'
    BY <1>3, <1>4, <1>6 DEF Others, Matches, AclsOf, TrustOf, GetResultStatus
  <2>2. Ties(t)'
    BY <1>3, <1>6 DEF Ties, Inserting, Locked
  <2> QED BY <1>6, <2>1, <2>2 DEF TrustOK
\* The step that ends the call.
<1>7. ASSUME pc'[t] = "idle",
             NEW dd, dd = d, Matches(dd)', \A e \in Devices : e # dd => TrustOf(e)' = TrustOf(e)
      PROVE  TrustOK(t)'
  <2>1. Others(t)'
    <3>1. \A e \in Devices : e # dd => Matches(e)
      BY <1>3, <1>7 DEF Others
    <3>2. \A e \in Devices : e # dd => Matches(e)'
      BY <1>4, <1>7, <3>1 DEF Matches, AclsOf, GetResultStatus
    <3> QED BY <1>7, <3>2 DEF Others
  <2>2. TrustOfCall(t)' /\ Ties(t)'
    BY <1>7 DEF TrustOfCall, Ties, Inserting
  <2> QED BY <2>1, <2>2 DEF TrustOK
<1> USE DEF Goto, At, Fault, Locked
<1>8. CASE PutAclCheckUser(t)
  <2>1. /\ UNCHANGED <<trust, job, sent>> /\ pc[t] = "putUserSend" /\ pc'[t] = "putAccountSend"
    BY <1>1, <1>8 DEF PutAclCheckUser, tables
  <2>2. TrustOfCall(t)'
    BY <1>3, <1>4, <2>1 DEF TrustOfCall, AclsOf, TrustOf, GetResultStatus
  <2> QED BY <1>6, <2>1, <2>2
<1>9. CASE PutAclCheckAccount(t)
  <2>1. /\ UNCHANGED <<trust, job, sent>> /\ pc[t] = "putAccountSend" /\ pc'[t] = "putReadTrust"
    BY <1>1, <1>9 DEF PutAclCheckAccount, tables
  <2>2. TrustOfCall(t)'
    BY <1>3, <1>4, <2>1 DEF TrustOfCall, AclsOf, TrustOf, GetResultStatus
  <2> QED BY <1>6, <2>1, <2>2
<1>10. CASE PutAclCheckTrust(t)
  <2>1. /\ UNCHANGED <<trust, job, sent>> /\ pc[t] = "putReadTrust"
        /\ pc'[t] = IF TrustOf(d) = {} THEN "putTrust" ELSE "putStatus"
    BY <1>1, <1>2, <1>10 DEF PutAclCheckTrust, tables
  <2>2. TrustOfCall(t)'
    BY <1>3, <1>4, <2>1 DEF TrustOfCall, AclsOf, TrustOf, GetResultStatus
  <2> QED BY <1>6, <2>1, <2>2
<1>11. CASE PutAclCheckStatus(t)
  <2>1. /\ UNCHANGED <<trust, sent>> /\ pc[t] = "putStatus" /\ pc'[t] = "putSelect"
        /\ job'[t].row = row /\ job'[t].p = p /\ job'[t].status = GetResultStatus(d)
    BY <1>1, <1>2, <1>3, <1>11 DEF PutAclCheckStatus, tables, TrustOfCall, Job
  <2>2. TrustOfCall(t)'
    BY <1>3, <1>4, <2>1 DEF TrustOfCall, AclsOf, TrustOf, GetResultStatus
  <2> QED BY <1>6, <2>1, <2>2
<1>12. CASE GetStatus(t)
  <2>1. /\ UNCHANGED <<trust, sent>> /\ pc[t] \in {"updStatus", "delStatus"} /\ pc'[t] = "select"
        /\ job'[t].row = row /\ job'[t].p = p /\ job'[t].status = GetResultStatus(d)
    BY <1>1, <1>2, <1>12 DEF GetStatus, tables, Job
  <2>2. TrustOfCall(t)'
    BY <1>3, <1>4, <2>1 DEF TrustOfCall, AclsOf, TrustOf, GetResultStatus
  <2> QED BY <1>6, <2>1, <2>2
<1>13. CASE SelectTrustDevice(t)
  <2>1. /\ UNCHANGED <<trust, sent, job>> /\ pc[t] \in {"putSelect", "select"}
        /\ pc'[t] = IF pc[t] = "putSelect" THEN "putUpdate" ELSE "update"
    BY <1>1, <1>2, <1>3, <1>13 DEF SelectTrustDevice, tables, TrustOfCall
  <2>2. TrustOfCall(t)'
    BY <1>3, <1>4, <2>1 DEF TrustOfCall, AclsOf, TrustOf, GetResultStatus
  <2> QED BY <1>6, <2>1, <2>2
<1>14. CASE NotifyAccountAclCheck(t)
  <2>1. /\ UNCHANGED <<trust, job>> /\ pc[t] = "updAccount" /\ pc'[t] = "updUser"
    BY <1>1, <1>14 DEF NotifyAccountAclCheck, tables
  <2>2. TrustOfCall(t)'
    BY <1>3, <1>4, <2>1 DEF TrustOfCall, AclsOf, TrustOf, GetResultStatus
  <2> QED BY <1>6, <2>1, <2>2
<1>15. CASE NotifyCheckUser(t)
  <2>1. pc[t] = "updUser"
    BY <1>15 DEF NotifyCheckUser
  <2>2. GetAllAccessControlProfiles # {}
    <3>1. PICK a \in acls : a.dev = d
      BY <1>3, <2>1 DEF TrustOfCall, AclsOf
    <3> QED BY <1>4, <1>5, <3>1, AclsJoined
  <2>3. UNCHANGED <<trust, job>> /\ pc'[t] = "updDevice"
    BY <1>1, <1>2, <1>15, <2>2 DEF NotifyCheckUser, tables
  <2>4. TrustOfCall(t)'
    BY <1>3, <1>4, <2>1, <2>3 DEF TrustOfCall, AclsOf, TrustOf, GetResultStatus
  <2> QED BY <1>6, <2>1, <2>3, <2>4
<1>16. CASE NotifyCheckDevice(t)
  <2>1. /\ UNCHANGED <<trust, job>> /\ pc[t] = "updDevice" /\ pc'[t] = "updStatus"
        /\ \/ CheckDeviceIdActiveAclExists(p)
           \/ p.lnn
           \/ "deviceInactive" \in sent'[t]
    BY <1>1, <1>2, <1>16 DEF NotifyCheckDevice, tables, Scan
  <2>2. p.lnn \/ "deviceInactive" \in sent'[t] \/ GetResultStatus(d) = 1
    BY <1>3, <1>4, <1>5, <2>1, ActiveFound DEF Ties
  <2>3. TrustOfCall(t)'
    BY <1>3, <1>4, <2>1, <2>2 DEF TrustOfCall, AclsOf, TrustOf, GetResultStatus
  <2> QED BY <1>6, <2>1, <2>3
<1>17. CASE DeleteUserCheck(t)
  <2>1. /\ UNCHANGED <<trust, job, sent>> /\ pc[t] = "delUserCheck"
        /\ pc'[t] \in {"delDevice", "delUserSend"}
    BY <1>1, <1>17 DEF DeleteUserCheck, tables
  <2>2. TrustOfCall(t)'
    BY <1>3, <1>4, <2>1 DEF TrustOfCall, AclsOf, TrustOf, GetResultStatus
  <2> QED BY <1>6, <2>1, <2>2
<1>18. CASE NotifyTrustDeviceProfileDelete(t)
  <2>1. /\ UNCHANGED <<trust, job, sent>> /\ pc[t] = "delUserSend" /\ pc'[t] = "delDevice"
    BY <1>1, <1>18 DEF NotifyTrustDeviceProfileDelete, tables
  <2>2. TrustOfCall(t)'
    BY <1>3, <1>4, <2>1 DEF TrustOfCall, AclsOf, TrustOf, GetResultStatus
  <2> QED BY <1>6, <2>1, <2>2
<1>19. CASE NotifyDeviceAclInactiveByDelete(t)
  <2>1. /\ UNCHANGED <<trust, job>> /\ pc[t] = "delDevice" /\ pc'[t] = "delAccountCheck"
        /\ \/ CheckDeviceIdActiveAclExists(p)
           \/ p.lnn
           \/ "deviceInactive" \in sent'[t]
    BY <1>1, <1>2, <1>19 DEF NotifyDeviceAclInactiveByDelete, tables, Scan
  <2>2. p.lnn \/ "deviceInactive" \in sent'[t] \/ GetResultStatus(d) = 1
    BY <1>3, <1>4, <1>5, <2>1, ActiveFound DEF Ties
  <2>3. TrustOfCall(t)'
    BY <1>3, <1>4, <2>1, <2>2 DEF TrustOfCall, AclsOf, TrustOf, GetResultStatus
  <2> QED BY <1>6, <2>1, <2>3
<1>20. CASE DeleteAccountCheck(t)
  <2>1. /\ UNCHANGED <<trust, job, sent>> /\ pc[t] = "delAccountCheck"
        /\ pc'[t] \in {"delCount", "delAccountSend"}
    BY <1>1, <1>20 DEF DeleteAccountCheck, tables
  <2>2. TrustOfCall(t)'
    BY <1>3, <1>4, <2>1 DEF TrustOfCall, AclsOf, TrustOf, GetResultStatus
  <2> QED BY <1>6, <2>1, <2>2
<1>21. CASE NotifyAccountAclDelete(t)
  <2>1. /\ UNCHANGED <<trust, job, sent>> /\ pc[t] = "delAccountSend" /\ pc'[t] = "delCount"
    BY <1>1, <1>21 DEF NotifyAccountAclDelete, tables
  <2>2. TrustOfCall(t)'
    BY <1>3, <1>4, <2>1 DEF TrustOfCall, AclsOf, TrustOf, GetResultStatus
  <2> QED BY <1>6, <2>1, <2>2
<1>22. CASE DeleteTrustDeviceCheck(t)
  <2>1. /\ UNCHANGED <<trust, job, sent>> /\ pc[t] = "delCount"
        /\ pc'[t] = IF AclsOf(d) = {} THEN "delTrustSelect" ELSE "delStatus"
    BY <1>1, <1>2, <1>22 DEF DeleteTrustDeviceCheck, tables
  <2>2. TrustOfCall(t)'
    BY <1>3, <1>4, <2>1 DEF TrustOfCall, AclsOf, TrustOf, GetResultStatus
  <2> QED BY <1>6, <2>1, <2>2
<1>23. CASE DeleteTrustSelect(t)
  <2>1. /\ UNCHANGED <<trust, job, sent>> /\ pc[t] = "delTrustSelect" /\ pc'[t] = "delTrust"
    BY <1>1, <1>2, <1>3, <1>23 DEF DeleteTrustSelect, tables, TrustOfCall
  <2>2. TrustOfCall(t)'
    BY <1>3, <1>4, <2>1 DEF TrustOfCall, AclsOf, TrustOf, GetResultStatus
  <2> QED BY <1>6, <2>1, <2>2
<1>24. CASE PutTrustDeviceProfile(t)
  <2>1. pc[t] = "putTrust" /\ pc'[t] = "idle" /\ TrustOf(d) = {}
        /\ trust' = trust \cup {[dev |-> d, status |-> p.status]}
    BY <1>1, <1>2, <1>3, <1>24 DEF PutTrustDeviceProfile, Return, TrustOfCall
  <2>2. PICK dd : dd = d
    OBVIOUS
  <2>3. AclsOf(dd) # {} /\ (\A a \in AclsOf(dd) : a.status = p.status) /\ p.status \in {0, 1}
    BY <1>1, <1>3, <2>1, <2>2 DEF TrustOfCall, Job, Request, Status
  <2>4. GetResultStatus(dd) = p.status
    BY <2>3 DEF GetResultStatus
  <2>5. Matches(dd)'
    BY <1>4, <2>1, <2>2, <2>3, <2>4 DEF Matches, AclsOf, TrustOf, GetResultStatus
  <2>6. \A e \in Devices : e # dd => TrustOf(e)' = TrustOf(e)
    BY <2>1, <2>2 DEF TrustOf
  <2> QED BY <1>7, <2>1, <2>2, <2>5, <2>6
<1>25. CASE UpdateTrustDeviceProfile(t)
  <2>1. /\ pc[t] \in {"putUpdate", "update"} /\ pc'[t] = "idle"
        /\ trust' = {IF r.dev = d THEN [r EXCEPT !.status = job[t].status] ELSE r : r \in trust}
    BY <1>1, <1>2, <1>25 DEF UpdateTrustDeviceProfile, Return
  <2>2. PICK dd : dd = d
    OBVIOUS
  <2>3. TrustOf(dd) # {} /\ AclsOf(dd) # {} /\ job[t].status = GetResultStatus(dd)
    BY <1>3, <2>1, <2>2 DEF TrustOfCall
  <2>4. \A r \in trust : r.dev = dd =>
            [r EXCEPT !.status = job[t].status] = [dev |-> dd, status |-> job[t].status]
    BY <1>1 DEF TrustRow
  <2>5. TrustOf(dd)' = {[dev |-> dd, status |-> GetResultStatus(dd)]}
    <3> DEFINE n == [dev |-> dd, status |-> job[t].status]
    <3>1. n.dev = dd
      OBVIOUS
    <3> HIDE DEF n
    <3>2. \A r \in trust : r.dev = dd => [r EXCEPT !.status = job[t].status] = n
      BY <2>4 DEF n
    <3>3. \A r \in trust' : r.dev = dd => r = n
      BY <2>1, <2>2, <3>2
    <3>4. n \in trust'
      BY <2>1, <2>2, <2>3, <3>2 DEF TrustOf
    <3>5. TrustOf(dd)' = {n}
      BY <3>1, <3>3, <3>4 DEF TrustOf
    <3> QED BY <2>3, <3>5 DEF n
  <2>6. Matches(dd)'
    BY <1>4, <2>3, <2>5 DEF Matches, AclsOf, GetResultStatus
  <2>7. \A e \in Devices : e # dd => TrustOf(e)' = TrustOf(e)
    BY <2>1, <2>2, <2>4 DEF TrustOf
  <2> QED BY <1>7, <2>1, <2>2, <2>6, <2>7
<1>26. CASE DeleteTrustDeviceProfile(t)
  <2>1. /\ pc[t] = "delTrust" /\ pc'[t] = "idle" /\ trust' = {r \in trust : r.dev # d}
    BY <1>1, <1>2, <1>26 DEF DeleteTrustDeviceProfile, Return
  <2>2. PICK dd : dd = d
    OBVIOUS
  <2>3. Matches(dd)'
    BY <1>3, <1>4, <2>1, <2>2 DEF TrustOfCall, Matches, AclsOf, TrustOf
  <2>4. \A e \in Devices : e # dd => TrustOf(e)' = TrustOf(e)
    BY <2>1, <2>2 DEF TrustOf
  <2> QED BY <1>7, <2>1, <2>2, <2>3, <2>4
<1> QED BY <1>8, <1>9, <1>10, <1>11, <1>12, <1>13, <1>14, <1>15, <1>16, <1>17, <1>18, <1>19, <1>20, <1>21, <1>22, <1>23, <1>24, <1>25, <1>26 DEF UnlockedStep

\* Any step that no fault disturbs, when one call runs at a time.
LEMMA TrustStep ==
    ASSUME UpdateFree = FALSE, \A t, u \in Threads : t = u,
           KeyInv, KeyInv', RefInv, GrantInv, TrustInv, [Next]_vars
    PROVE  TrustInv'
PROOF
<1>1. TypeOK /\ MutexOK /\ faults \in Nat
  BY DEF KeyInv, TypeOK
<1>2. ASSUME NEW t \in Threads, LockedStep(t), faults' = 0
      PROVE  TrustOK(t)'
  <2>1. /\ \A v \in Threads \ {t} : pc[v] \notin Locked
        /\ faults = 0
    BY <1>1, <1>2, LockedFrame
  <2>2. t \in lock \/ lock = {}
    BY <1>1, <2>1 DEF MutexOK, TypeOK
  <2>3. GrantsOf(t) /\ TrustOK(t)
    BY <2>1, <2>2 DEF GrantInv, TrustInv
  <2> QED BY <1>2, <2>3, TrustLockedStep
<1>3. ASSUME NEW t \in Threads, UnlockedStep(t), faults' = 0
      PROVE  TrustOK(t)'
  <2>1. faults = 0
    BY <1>1, <1>3, UnlockedFrame DEF Frame
  <2> QED BY <1>3, <2>1, TrustUnlockedStep DEF TrustInv
<1>4. ASSUME NEW t \in Threads, LockedStep(t) \/ UnlockedStep(t) PROVE TrustInv'
  BY <1>2, <1>3, <1>4 DEF TrustInv
<1>5. CASE UnInit \/ Crash
  BY <1>1, <1>5 DEF UnInit, Crash, TrustInv
<1>6. CASE Reopen \/ UNCHANGED vars
  <2>1. UNCHANGED <<acls, trust, pc, job, sent, faults>>
    BY <1>6 DEF Reopen, vars, tables
  <2>2. \A t \in Threads : TrustOK(t) => TrustOK(t)'
    BY <2>1 DEF TrustOK, Others, Matches, TrustOfCall, Ties, AclsOf, TrustOf, GetResultStatus
  <2> QED BY <2>1, <2>2 DEF TrustInv
<1> QED BY <1>4, <1>5, <1>6, NextCases DEF Quiesce

\* When one call runs at a time, the trust row of every device agrees with its ACLs,
\* but for the device whose ACL the call has changed and not followed up yet.
THEOREM TrustInvariant ==
    ASSUME UpdateFree = FALSE, \A t, u \in Threads : t = u
    PROVE  Spec => []TrustInv
PROOF
<1>1. Init => TrustInv
  BY DEF Init, TrustInv, TrustOK, Others, Matches, AclsOf, TrustOf, TrustOfCall, Ties, Inserting
<1>2. KeyInv /\ KeyInv' /\ RefInv /\ GrantInv /\ TrustInv /\ [Next]_vars => TrustInv'
  BY TrustStep
<1> QED BY <1>1, <1>2, KeyInvariant, ReferenceInvariant, GrantInvariant, PTL DEF Spec

\* Between calls that run one at a time a device has a trust row exactly when it has
\* an ACL, active exactly when one of them is: every path through the second phase
\* of a put, an update or a delete ends with the row in line.
THEOREM TrustRows ==
    ASSUME UpdateFree = FALSE, \A t, u \in Threads : t = u
    PROVE  Spec => []TrustRowsMatch
PROOF
<1>1. KeyInv /\ TrustInv => TrustRowsMatch
  <2> SUFFICES ASSUME KeyInv, TrustInv, faults = 0, Idle
               PROVE  /\ {r.dev : r \in trust} = {a.dev : a \in acls}
                      /\ \A r \in trust : r.status = 1 <=> \E a \in AclsOf(r.dev) : a.status = 1
    BY DEF TrustRowsMatch
  <2>1. PICK t \in Threads : TRUE
    BY ThreadsAssumption
  <2>2. \A d \in Devices : Matches(d)
    BY <2>1 DEF TrustInv, TrustOK, Others, Idle
  <2>3. (\A r \in trust : r.dev \in Devices) /\ (\A a \in acls : a.dev \in Devices)
    BY DEF KeyInv, TypeOK, TrustRow, AclRow
  <2>4. \A r \in trust : \E a \in acls : a.dev = r.dev
    BY <2>2, <2>3 DEF Matches, TrustOf, AclsOf
  <2>5. \A a \in acls : \E r \in trust : a.dev = r.dev
    BY <2>2, <2>3 DEF Matches, TrustOf, AclsOf
  <2>6. \A r \in trust : r.status = GetResultStatus(r.dev)
    <3> SUFFICES ASSUME NEW r \in trust PROVE r.status = GetResultStatus(r.dev)
      OBVIOUS
    <3>1. r \in TrustOf(r.dev) /\ AclsOf(r.dev) # {}
      BY <2>4 DEF TrustOf, AclsOf
    <3>2. r = [dev |-> r.dev, status |-> GetResultStatus(r.dev)]
      BY <2>2, <2>3, <3>1 DEF Matches
    <3> QED BY <3>2
  <2> QED BY <2>4, <2>5, <2>6 DEF GetResultStatus
<1> QED BY <1>1, KeyInvariant, TrustInvariant, PTL

\* ... and it does not become inactive, or disappear while it is active, before the
\* call has announced it: the subscribers hear of a device that is no longer
\* trusted before the row says so.
THEOREM DeactivationAnnounced ==
    ASSUME UpdateFree = FALSE, \A t, u \in Threads : t = u
    PROVE  Spec => NoSilentDeactivation
PROOF
<1> DEFINE Step == (faults' = 0 /\ ~(ActiveTrust \subseteq ActiveTrust')) =>
         \E t \in Threads : pc[t] \in {"update", "putUpdate", "delTrust"} /\
             (job[t].p.lnn \/ "deviceInactive" \in sent[t])
<1>1. KeyInv /\ TrustInv /\ [Next]_vars => Step
  <2> SUFFICES ASSUME KeyInv, TrustInv, [Next]_vars, faults' = 0, NEW r \in trust, r.status = 1,
                      \A s \in trust' : s.status = 1 => s.dev # r.dev
               PROVE  \E t \in Threads : pc[t] \in {"update", "putUpdate", "delTrust"} /\
                         (job[t].p.lnn \/ "deviceInactive" \in sent[t])
    BY DEF ActiveTrust
  <2>1. TypeOK /\ MutexOK /\ faults \in Nat /\ trust \in SUBSET TrustRow
    BY DEF KeyInv, TypeOK
  <2>2. trust' # trust
    OBVIOUS
  <2>3. ~(UnInit \/ Reopen \/ Crash \/ UNCHANGED vars)
    BY <2>2 DEF UnInit, Reopen, Crash, vars, tables
  <2>4. PICK t \in Threads : LockedStep(t) \/ UnlockedStep(t)
    BY <2>3, NextCases DEF Quiesce
  <2>5. UnlockedStep(t)
    BY <2>1, <2>2, <2>4, LockedFrame
  <2>6. faults = 0 /\ TrustOfCall(t)
    BY <2>1, <2>5, UnlockedFrame DEF Frame, TrustInv, TrustOK
  <2>7. PutTrustDeviceProfile(t) \/ DeleteTrustDeviceProfile(t) \/ UpdateTrustDeviceProfile(t)
    BY <2>2, <2>5 DEF UnlockedStep, tables, PutAclCheckUser, PutAclCheckAccount, PutAclCheckTrust, PutAclCheckStatus, NotifyAccountAclCheck, NotifyCheckUser, NotifyCheckDevice, DeleteUserCheck, NotifyTrustDeviceProfileDelete, NotifyDeviceAclInactiveByDelete, DeleteAccountCheck, NotifyAccountAclDelete, DeleteTrustDeviceCheck, DeleteTrustSelect, GetStatus, SelectTrustDevice
  <2>8. faults' # faults + 1
    BY <2>1
  <2>9. CASE PutTrustDeviceProfile(t)
    <3>1. trust \subseteq trust'
      BY <2>8, <2>9 DEF PutTrustDeviceProfile, Fault
    <3> QED BY <3>1
  <2>10. CASE DeleteTrustDeviceProfile(t)
    <3>1. pc[t] = "delTrust"
      BY <2>10 DEF DeleteTrustDeviceProfile, At
    <3> QED BY <2>6, <3>1 DEF TrustOfCall, GetResultStatus
  <2>11. CASE UpdateTrustDeviceProfile(t)
    <3>1. /\ pc[t] \in {"putUpdate", "update"}
          /\ trust' = {IF x.dev = job[t].row.dev THEN [x EXCEPT !.status = job[t].status] ELSE x : x \in trust}
      BY <2>8, <2>11 DEF UpdateTrustDeviceProfile, Fault, At
    <3> DEFINE n == [r EXCEPT !.status = job[t].status]
    <3>2. n.dev = r.dev /\ n.status = job[t].status
      BY <2>1 DEF TrustRow
    <3> HIDE DEF n
    <3>3. r.dev = job[t].row.dev /\ n \in trust'
      BY <3>1 DEF n
    <3>4. job[t].status # 1
      BY <3>2, <3>3
    <3>5. r = [dev |-> r.dev, status |-> 1]
      BY <2>1 DEF TrustRow
    <3>6. TrustOf(r.dev) = {r}
      <4>1. \A a \in trust : a.dev = r.dev => a = r
        BY KeysByTable DEF KeyInv, TrustKeys
      <4> QED BY <4>1 DEF TrustOf
    <3>7. GetResultStatus(r.dev) = 0
      BY <2>6, <3>1, <3>3, <3>4 DEF TrustOfCall, GetResultStatus
    <3>8. pc[t] # "putUpdate"
      BY <2>6, <3>3, <3>5, <3>6, <3>7 DEF TrustOfCall
    <3>9. pc[t] = "update"
      BY <3>1, <3>8
    <3> QED BY <2>6, <3>3, <3>7, <3>9 DEF TrustOfCall
  <2> QED BY <2>7, <2>9, <2>10, <2>11
<1> QED BY <1>1, KeyInvariant, TrustInvariant, PTL DEF Spec, NoSilentDeactivation

-----------------------------------------------------------------------------
(* What the subscribers know, one call at a time *)

\* The ACLs with the parties they were granted to.
GrantsIn(A, B) == {Join(x[1], x[2].acer, x[2].acee) : x \in {y \in A \X B : y[1].id = y[2].id}}
Grants == GrantsIn(acls, bound)
UserKeys == {UserKey(g) : g \in RemoveLnnAcl(Grants)}
AccountKeys == {AccountKey(g) : g \in RemoveLnnAcl(Grants)}

\* The trusted device of an ACL is that of one of its parties, and not of both.
Proper(p) == Peer(p).dev = p.dev /\ Local(p).dev # p.dev

\* What the call t has still to announce: user pairs, account pairs.
UsersOf(t) ==
    LET p == job[t].p
        u == UserKey(p)
        l == pc[t]
    IN  /\ l \in Inserting => (job[t].userExists <=> u \in UserKeys)
        /\ l = "putUserSend" =>
              UserKeys = users \cup (IF job[t].userExists \/ p.lnn THEN {} ELSE {u})
        /\ l = "delUserCheck" => UserKeys \subseteq users /\ users \ UserKeys \subseteq (IF p.lnn THEN {} ELSE {u})
        /\ l = "delUserSend" => UserKeys = users \ {u}
        /\ l \notin {"putUserSend", "delUserCheck", "delUserSend"} => UserKeys = users
AccountsOf(t) ==
    LET p == job[t].p
        u == AccountKey(p)
        l == pc[t]
    IN  /\ l \in Inserting => (job[t].accountExists <=> u \in AccountKeys)
        /\ l \in {"putUserSend", "putAccountSend"} =>
              AccountKeys = accounts \cup (IF job[t].accountExists \/ p.lnn THEN {} ELSE {u})
        /\ l \in {"delUserCheck", "delUserSend", "delDevice", "delAccountCheck"} =>
              AccountKeys \subseteq accounts /\ accounts \ AccountKeys \subseteq (IF p.lnn THEN {} ELSE {u})
        /\ l = "delAccountSend" => AccountKeys = accounts \ {u}
        /\ l \notin {"putUserSend", "putAccountSend", "delUserCheck", "delUserSend", "delDevice",
                     "delAccountCheck", "delAccountSend"} => AccountKeys = accounts
AllProper == \A g \in Grants : Proper(g)
MirrorOK(t) == UsersOf(t) /\ AccountsOf(t) /\ (pc[t] # "idle" => Proper(job[t].p))
MirrorInv == faults = 0 => AllProper /\ \A t \in Threads : MirrorOK(t)

\* A grant is a row with the parties of its id.
LEMMA GrantsFrom ==
    ASSUME NEW A, NEW B
    PROVE  \A g : g \in GrantsIn(A, B) <=> \E a \in A, b \in B : a.id = b.id /\ g = Join(a, b.acer, b.acee)
PROOF
<1>1. ASSUME NEW a \in A, NEW b \in B, a.id = b.id PROVE Join(a, b.acer, b.acee) \in GrantsIn(A, B)
  <2> DEFINE w == <<a, b>>
  <2>1. w \in {v \in A \X B : v[1].id = v[2].id}
    BY <1>1
  <2>2. Join(a, b.acer, b.acee) = Join(w[1], w[2].acer, w[2].acee)
    OBVIOUS
  <2> QED BY <2>1, <2>2 DEF GrantsIn
<1>2. ASSUME NEW g \in GrantsIn(A, B) PROVE \E a \in A, b \in B : a.id = b.id /\ g = Join(a, b.acer, b.acee)
  BY DEF GrantsIn
<1> QED BY <1>1, <1>2

\* Between two critical sections the scan of the ACLs with their parties returns the
\* grants.
LEMMA JoinedAreGrants ==
    ASSUME KeyInv, RefInv, GrantInv, faults = 0, lock = {}
    PROVE  GetAllAccessControlProfiles = Grants
PROOF
<1>1. PICK t \in Threads : TRUE
  BY ThreadsAssumption
<1>2. BoundKeys /\ GrantsOf(t) /\ pc[t] \notin Locked
  BY <1>1 DEF GrantInv, KeyInv, MutexOK
<1>3. \A a \in acls, b \in bound : a.id = b.id => IsRow(acers, a.acer, b.acer) /\ IsRow(acees, a.acee, b.acee)
  BY <1>2 DEF GrantsOf, AcerGranted, AceeGranted, At, Locked
<1>4. PartyKeys(acers) /\ PartyKeys(acees)
  BY KeysByTable DEF KeyInv
<1>5. ASSUME NEW g \in GetAllAccessControlProfiles PROVE g \in Grants
  <2>1. PICK a \in acls, y \in acers, z \in acees :
            a.acer = y.id /\ a.acee = z.id /\ g = Join(a, y.party, z.party)
    BY DEF GetAllAccessControlProfiles
  <2>2. PICK b \in bound : b.id = a.id
    BY <1>2 DEF BoundKeys, Ids
  <2>3. y.party = b.acer /\ z.party = b.acee
    BY <1>3, <1>4, <2>1, <2>2 DEF IsRow, PartyKeys
  <2> QED BY <2>1, <2>2, <2>3, GrantsFrom DEF Grants
<1>6. ASSUME NEW g \in Grants PROVE g \in GetAllAccessControlProfiles
  <2>1. PICK a \in acls, b \in bound : a.id = b.id /\ g = Join(a, b.acer, b.acee)
    BY GrantsFrom DEF Grants
  <2>2. PICK y \in acers, z \in acees : /\ y.id = a.acer /\ y.party = b.acer
                                        /\ z.id = a.acee /\ z.party = b.acee
    BY <1>3, <2>1 DEF IsRow
  <2> DEFINE w == <<a, y, z>>
  <2>3. w \in {v \in acls \X acers \X acees : v[1].acer = v[2].id /\ v[1].acee = v[3].id}
    BY <2>2
  <2>4. g = Join(w[1], w[2].party, w[3].party)
    BY <2>1, <2>2
  <2> QED BY <2>3, <2>4 DEF GetAllAccessControlProfiles
<1> QED BY <1>5, <1>6

\* CheckDeviceIdAndUserIdExists and CheckAccountAclExists compare both orientations
\* of an ACL; for a proper one that is a comparison of its key.
LEMMA KeysCompared ==
    ASSUME NEW g, NEW p, Proper(g), Proper(p)
    PROVE  /\ g.dev = p.dev /\ SameUsers(g, p) <=> UserKey(g) = UserKey(p)
           /\ g.dev = p.dev /\ SameAccounts(g, p) <=> AccountKey(g) = AccountKey(p)
PROOF
<1> DEFINE l == Local(p)
           r == Peer(p)
           U(x, y) == x.dev = l.dev /\ x.user = l.user /\ y.dev = p.dev /\ y.user = r.user
           A(x, y) == x.acct = l.acct /\ y.acct = r.acct
<1>1. SameUsers(g, p) <=> U(g.acer, g.acee) \/ U(g.acee, g.acer)
  <2>1. \A x, y : <<x, y>>[1] = x /\ <<x, y>>[2] = y
    OBVIOUS
  <2> QED BY <2>1 DEF SameUsers
<1>2. SameAccounts(g, p) <=> \/ U(g.acer, g.acee) /\ A(g.acer, g.acee)
                             \/ U(g.acee, g.acer) /\ A(g.acee, g.acer)
  <2>1. \A x, y : <<x, y>>[1] = x /\ <<x, y>>[2] = y
    OBVIOUS
  <2> QED BY <2>1 DEF SameAccounts
<1>3. UserKey(g) = UserKey(p) <=> g.dev = p.dev /\ U(Local(g), Peer(g))
  BY DEF UserKey, Proper
<1>4. AccountKey(g) = AccountKey(p) <=> UserKey(g) = UserKey(p) /\ A(Local(g), Peer(g))
  BY DEF AccountKey
<1>5. g.dev = p.dev => /\ U(g.acer, g.acee) => Local(g) = g.acer /\ Peer(g) = g.acee
                       /\ U(g.acee, g.acer) => Local(g) = g.acee /\ Peer(g) = g.acer
  BY DEF Local, Peer, Proper
<1>6. \/ Local(g) = g.acer /\ Peer(g) = g.acee
      \/ Local(g) = g.acee /\ Peer(g) = g.acer
  BY DEF Local, Peer
<1> HIDE DEF U, A
<1>7. g.dev = p.dev /\ SameUsers(g, p) <=> UserKey(g) = UserKey(p)
  BY <1>1, <1>3, <1>5, <1>6
<1>8. g.dev = p.dev /\ SameAccounts(g, p) <=> AccountKey(g) = AccountKey(p)
  BY <1>2, <1>3, <1>4, <1>5, <1>6
<1> QED BY <1>7, <1>8

\* What the scans of the two levels answer.
LEMMA Scanned ==
    ASSUME KeyInv, RefInv, GrantInv, faults = 0, lock = {}, AllProper, NEW p, Proper(p)
    PROVE  /\ CheckDeviceIdAndUserIdExists(p) <=> UserKey(p) \in UserKeys
           /\ CheckAccountAclExists(p) <=> AccountKey(p) \in AccountKeys
PROOF
<1>1. UserAcls = RemoveLnnAcl(Grants)
  BY JoinedAreGrants DEF UserAcls
<1>2. \A g \in UserAcls : Proper(g)
  BY <1>1 DEF RemoveLnnAcl, AllProper
<1>3. UserKey(p) \in UserKeys <=> \E g \in UserAcls : UserKey(g) = UserKey(p)
  BY <1>1 DEF UserKeys
<1>4. AccountKey(p) \in AccountKeys <=> \E g \in UserAcls : AccountKey(g) = AccountKey(p)
  BY <1>1 DEF AccountKeys
<1>5. CheckDeviceIdAndUserIdExists(p) <=> UserKey(p) \in UserKeys
  BY <1>2, <1>3, KeysCompared DEF CheckDeviceIdAndUserIdExists
<1>6. CheckAccountAclExists(p) <=> AccountKey(p) \in AccountKeys
  BY <1>2, <1>4, KeysCompared DEF CheckAccountAclExists
<1> QED BY <1>5, <1>6

\* The keys depend on the ACLs and their grants alone.
LEMMA KeysKept ==
    ASSUME UNCHANGED <<acls, bound>>
    PROVE  Grants' = Grants /\ UserKeys' = UserKeys /\ AccountKeys' = AccountKeys
PROOF
  BY DEF Grants, UserKeys, AccountKeys

\* A step under aclMutex_ that stores no ACL and deletes none.
LEMMA MirrorQuiet ==
    ASSUME NEW t \in Threads, UNCHANGED <<acls, bound, users, accounts>>, AllProper, MirrorOK(t),
           pc[t] \in Locked \cup {"idle"}, pc'[t] \in Locked \cup {"idle"},
           pc'[t] # "idle" => pc[t] # "idle" /\ UNCHANGED job, pc'[t] \in Inserting => pc[t] \in Inserting
    PROVE  AllProper' /\ MirrorOK(t)'
PROOF
<1>1. Grants' = Grants /\ UserKeys' = UserKeys /\ AccountKeys' = AccountKeys
  BY KeysKept
<1>2. UserKeys = users /\ AccountKeys = accounts
  BY DEF MirrorOK, UsersOf, AccountsOf, Locked
<1>3. AllProper'
  BY <1>1 DEF AllProper
<1>4. UsersOf(t)'
  BY <1>1, <1>2 DEF MirrorOK, UsersOf, Locked, Inserting
<1>5. AccountsOf(t)'
  BY <1>1, <1>2 DEF MirrorOK, AccountsOf, Locked, Inserting
<1>6. (pc[t] # "idle" => Proper(job[t].p))'
  BY DEF MirrorOK, Locked, Inserting
<1> QED BY <1>3, <1>4, <1>5, <1>6 DEF MirrorOK

ProfilesProper == \A p \in Profiles : Proper(p)

\* The first phase: the flags of a put say whether its keys are known already, and
\* the phase ends with what the second one has to announce.
LEMMA MirrorLockedStep ==
    ASSUME UpdateFree = FALSE, ProfilesProper, KeyInv, RefInv, NEW t \in Threads, LockedStep(t), faults' = 0,
           faults = 0, GrantInv, GrantsOf(t), BoundKeys, AllProper, MirrorOK(t), Ties(t)
    PROVE  AllProper' /\ MirrorOK(t)'
PROOF
<1>1. /\ acls \in SUBSET AclRow /\ pc \in [Threads -> Labels] /\ bound \in SUBSET Bound
      /\ job \in [Threads -> Job \cup {NoJob}] /\ faults \in Nat
      /\ pc[t] # "idle" => job[t] \in Job
  BY DEF KeyInv, TypeOK
<1>2. AclKeys /\ UpdateOK(t) /\ DeleteOK(t) /\ PutOK(t) /\ PartyKeys(acers) /\ PartyKeys(acees)
  BY KeysByTable DEF KeyInv, JobOK
<1>3. faults' # faults + 1
  BY <1>1
<1>4. UsersOf(t) /\ AccountsOf(t) /\ (pc[t] # "idle" => Proper(job[t].p))
  BY DEF MirrorOK
<1> DEFINE row == job[t].row
           p == job[t].p
<1> USE DEF Goto, At, Fault
<1>16. \A x : x \in Grants <=> \E a \in acls, b \in bound : a.id = b.id /\ x = Join(a, b.acer, b.acee)
  BY GrantsFrom DEF Grants
<1>17. \A x : x \in Grants' <=> \E a \in acls', b \in bound' : a.id = b.id /\ x = Join(a, b.acer, b.acee)
  BY GrantsFrom DEF Grants
<1>18. \A a, b : Join(a, b.acer, b.acee).id = a.id
  BY DEF Join
\* A call that starts.
<1>5. ASSUME UNCHANGED <<acls, bound, users, accounts>>, pc[t] = "idle", pc'[t] \in Locked,
             Proper(job'[t].p),
             pc'[t] \in Inserting => /\ job'[t].userExists <=> UserKey(job'[t].p) \in UserKeys
                                     /\ job'[t].accountExists <=> AccountKey(job'[t].p) \in AccountKeys
      PROVE  AllProper' /\ MirrorOK(t)'
  <2>1. Grants' = Grants /\ UserKeys' = UserKeys /\ AccountKeys' = AccountKeys
    BY <1>5, KeysKept
  <2>2. UserKeys = users /\ AccountKeys = accounts
    BY <1>4, <1>5 DEF UsersOf, AccountsOf
  <2>3. AllProper'
    BY <2>1 DEF AllProper
  <2>4. UsersOf(t)'
    BY <1>5, <2>1, <2>2 DEF UsersOf, Locked
  <2>5. AccountsOf(t)'
    BY <1>5, <2>1, <2>2 DEF AccountsOf, Locked
  <2>6. (pc[t] # "idle" => Proper(job[t].p))'
    BY <1>5
  <2> QED BY <2>3, <2>4, <2>5, <2>6 DEF MirrorOK
<1>6. CASE \E q \in Profiles : PutAccessControlProfile(t, q)
  <2>1. PICK q \in Profiles : PutAccessControlProfile(t, q)
    BY <1>6
  <2>2. /\ pc[t] = "idle" /\ lock = {} /\ UNCHANGED <<acls, bound, users, accounts>>
        /\ pc' = [pc EXCEPT ![t] = "putAccesser"]
    BY <2>1 DEF PutAccessControlProfile, Enter, tables, mirrors
  <2>3. job' = [job EXCEPT ![t] = PutJob(q, CheckDeviceIdAndUserIdExists(q), CheckAccountAclExists(q))]
    <3>1. PICK u, a : /\ IF u = CheckDeviceIdAndUserIdExists(q) /\ a = CheckAccountAclExists(q)
                         THEN UNCHANGED faults ELSE Fault
                      /\ job' = [job EXCEPT ![t] = PutJob(q, u, a)]
      BY <2>1, Zenon DEF PutAccessControlProfile
    <3>2. u = CheckDeviceIdAndUserIdExists(q) /\ a = CheckAccountAclExists(q)
      BY <1>3, <3>1
    <3> QED BY <3>1, <3>2
  <2>4. /\ job'[t].p = q /\ pc'[t] = "putAccesser"
        /\ job'[t].userExists = CheckDeviceIdAndUserIdExists(q)
        /\ job'[t].accountExists = CheckAccountAclExists(q)
    BY <1>1, <2>2, <2>3 DEF PutJob
  <2>5. Proper(q)
    BY DEF ProfilesProper
  <2>6. /\ CheckDeviceIdAndUserIdExists(q) <=> UserKey(q) \in UserKeys
        /\ CheckAccountAclExists(q) <=> AccountKey(q) \in AccountKeys
    BY <2>2, <2>5, Scanned
  <2> QED BY <1>5, <2>2, <2>4, <2>5, <2>6 DEF Locked
<1>7. CASE \E q \in Profiles : UpdateAccessControlProfile(t, q)
  <2>1. PICK q \in Profiles : UpdateAccessControlProfile(t, q)
    BY <1>7
  <2>2. /\ pc[t] = "idle" /\ UNCHANGED <<acls, bound, users, accounts>> /\ job'[t].p = q
        /\ pc'[t] = "updAccesser"
    BY <1>1, <2>1 DEF UpdateAccessControlProfile, Enter, tables, mirrors
  <2> QED BY <1>5, <2>2 DEF Locked, Inserting, ProfilesProper
<1>8. CASE \E a \in acls : DeleteAccessControlProfile(t, a)
  <2>1. PICK a \in acls : DeleteAccessControlProfile(t, a)
    BY <1>8
  <2>2. /\ pc[t] = "idle" /\ UNCHANGED <<acls, bound, users, accounts>>
        /\ pc'[t] = "delAccessee"
        /\ job'[t].p.acer = PartyOf(acers, a.acer) /\ job'[t].p.acee = PartyOf(acees, a.acee)
        /\ job'[t].p.dev = a.dev
    BY <1>1, <2>1 DEF DeleteAccessControlProfile, Enter, tables, mirrors
  <2>3. PICK b \in bound : b.id = a.id
    BY DEF BoundKeys, Ids
  <2>4. PartyOf(acers, a.acer) = b.acer /\ PartyOf(acees, a.acee) = b.acee
    BY <1>2, <2>2, <2>3, PartyFound DEF GrantsOf, AcerGranted, AceeGranted
  <2>5. Proper(Join(a, b.acer, b.acee))
    BY <1>16, <2>3 DEF AllProper
  <2>6. Proper(job'[t].p)
    BY <2>2, <2>4, <2>5 DEF Proper, Peer, Local, Join
  <2> QED BY <1>5, <2>2, <2>6 DEF Locked, Inserting
<1>9. CASE \E r \in {"notfound", "notallowed", "fail"} : RejectAcl(t, r)
  <2>1. pc[t] = "idle" /\ UNCHANGED <<acls, bound, users, accounts, pc, job>>
    BY <1>9 DEF RejectAcl, tables, mirrors, Enter
  <2> QED BY <2>1, MirrorQuiet DEF Inserting
<1>10. CASE PutAccesserProfile(t) \/ PutAccesseeProfile(t)
  <2>1. /\ UNCHANGED <<acls, bound, users, accounts, job>> /\ pc[t] \in {"putAccesser", "putAccessee"}
        /\ pc'[t] \in {"putAccessee", "putAcl"}
    BY <1>1, <1>3, <1>10 DEF PutAccesserProfile, PutAccesseeProfile, mirrors
  <2> QED BY <2>1, MirrorQuiet DEF Inserting, Locked
<1>11. CASE UpdateAccesserProfile(t) \/ UpdateAccesseeProfile(t)
  <2>1. /\ UNCHANGED <<acls, bound, users, accounts, job>> /\ pc[t] \in {"updAccesser", "updAccessee"}
        /\ pc'[t] \in {"updAccessee", "updAcl"}
    BY <1>1, <1>3, <1>11 DEF UpdateAccesserProfile, UpdateAccesseeProfile, mirrors
  <2> QED BY <2>1, MirrorQuiet DEF Inserting, Locked
<1>12. CASE DeleteAccesseeCheck(t) \/ DeleteAccesserCheck(t)
  <2>1. /\ UNCHANGED <<acls, bound, users, accounts, job>> /\ pc[t] \in {"delAccessee", "delAccesser"}
        /\ pc'[t] \in {"delAccesser", "delAcl"}
    BY <1>1, <1>3, <1>12 DEF DeleteAccesseeCheck, DeleteAccesserCheck, mirrors
  <2> QED BY <2>1, MirrorQuiet DEF Inserting, Locked
<1>13. CASE PutAclRow(t)
  <2>1. UNCHANGED <<users, accounts>> /\ pc[t] = "putAcl"
    BY <1>13 DEF PutAclRow, mirrors
  <2>2. CASE UNCHANGED <<acls, bound>> /\ pc'[t] = "idle"
    BY <2>1, <2>2, MirrorQuiet DEF Inserting, Locked
  <2>3. CASE /\ acls' = acls \cup {row} /\ pc'[t] = "putUserSend" /\ UNCHANGED job
             /\ bound' = {b \in bound : b.id # row.id} \cup
                      {[id |-> row.id, acer |-> p.acer, acee |-> p.acee]}
    <3>1. /\ UserKeys = users /\ AccountKeys = accounts /\ Proper(p)
          /\ job[t].userExists <=> UserKey(p) \in UserKeys
          /\ job[t].accountExists <=> AccountKey(p) \in AccountKeys
      BY <1>4, <2>1 DEF UsersOf, AccountsOf, Inserting
    <3>2. row.dev = p.dev /\ row.lnn = p.lnn
      BY <2>1 DEF Ties
    <3> DEFINE g == Join(row, p.acer, p.acee)
    <3>3. Proper(g) /\ UserKey(g) = UserKey(p) /\ AccountKey(g) = AccountKey(p) /\ g.lnn = p.lnn
      BY <3>1, <3>2 DEF Join, Proper, UserKey, AccountKey, Peer, Local
    <3>4. Grants' = Grants \cup {g}
      <4> DEFINE n == [id |-> row.id, acer |-> p.acer, acee |-> p.acee]
      <4>1. n.id = row.id /\ n.acer = p.acer /\ n.acee = p.acee
        OBVIOUS
      <4> HIDE DEF n
      <4>2. ~HasRow(acls, row.id)
        BY <1>2, <2>1 DEF PutOK, Inserting
      <4>3. bound' = bound \cup {n} /\ \A b \in bound : b.id # row.id
        BY <2>3, <4>2 DEF n, BoundKeys, HasRow, Ids
      <4>4. \A x : x \in Grants' <=> x \in Grants \/ x = g
        BY <1>16, <1>17, <2>3, <4>1, <4>2, <4>3 DEF HasRow
      <4> QED BY <4>4
    <3> HIDE DEF g
    <3>5. AllProper'
      BY <3>3, <3>4 DEF AllProper
    <3>6. UserKeys' = UserKeys \cup (IF p.lnn THEN {} ELSE {UserKey(p)})
      BY <3>3, <3>4 DEF UserKeys, RemoveLnnAcl
    <3>7. AccountKeys' = AccountKeys \cup (IF p.lnn THEN {} ELSE {AccountKey(p)})
      BY <3>3, <3>4 DEF AccountKeys, RemoveLnnAcl
    <3>8. UsersOf(t)'
      BY <2>1, <2>3, <3>1, <3>6 DEF UsersOf, Inserting
    <3>9. AccountsOf(t)'
      BY <2>1, <2>3, <3>1, <3>7 DEF AccountsOf, Inserting
    <3> QED BY <2>3, <3>1, <3>5, <3>8, <3>9 DEF MirrorOK
  <2> QED BY <1>1, <1>3, <1>13, <2>2, <2>3 DEF PutAclRow, Return
<1>14. CASE UpdateAclRow(t)
  <2>1. UNCHANGED <<users, accounts>> /\ pc[t] = "updAcl"
    BY <1>14 DEF UpdateAclRow, mirrors
  <2>2. CASE UNCHANGED <<acls, bound>> /\ pc'[t] = "idle"
    BY <2>1, <2>2, MirrorQuiet DEF Inserting, Locked
  <2>3. CASE /\ acls' = {IF a.id = row.id THEN row ELSE a : a \in acls} /\ pc'[t] = "updAccount" /\ UNCHANGED job
             /\ bound' = {b \in bound : b.id # row.id} \cup
                      {[id |-> row.id, acer |-> p.acer, acee |-> p.acee]}
    <3>1. UserKeys = users /\ AccountKeys = accounts
      BY <1>4, <2>1 DEF UsersOf, AccountsOf
    <3>2. PICK o \in acls : o.id = row.id /\ o.dev = row.dev /\ o.lnn = row.lnn /\ o.acer = row.acer /\ o.acee = row.acee
      <4>1. row \in AclRow
        BY <1>1, <2>1 DEF Job
      <4> QED BY <2>1, <4>1 DEF GrantsOf, JobGranted, AclRow, Updating
    <3>3. \A a \in acls : a.id = row.id => a = o
      BY <1>2, <3>2 DEF AclKeys
    <3>4. PICK e \in bound : e.id = row.id
      BY <3>2 DEF BoundKeys, Ids
    <3>5. \A b \in bound : b.id = row.id => b = e
      BY <3>4 DEF BoundKeys
    <3>6. e.acer = p.acer /\ e.acee = p.acee
      <4>1. IsRow(acers, o.acer, e.acer) /\ IsRow(acees, o.acee, e.acee)
        BY <2>1, <3>2, <3>4 DEF GrantsOf, AcerGranted, AceeGranted
      <4>2. IsRow(acers, o.acer, p.acer) /\ IsRow(acees, o.acee, p.acee)
        BY <2>1, <3>2 DEF GrantsOf, JobGranted, Updating
      <4> QED BY <1>2, <4>1, <4>2, PartyFound
    <3>7. bound' = bound
      <4>1. e = [id |-> row.id, acer |-> p.acer, acee |-> p.acee]
        BY <1>1, <3>4, <3>6 DEF Bound
      <4> QED BY <2>3, <3>4, <3>5, <4>1
    <3> DEFINE old == Join(o, e.acer, e.acee)
               new == Join(row, e.acer, e.acee)
               Rest == {x \in Grants : x.id # row.id}
    <3>8. Grants = Rest \cup {old}
      <4>1. \A x \in Grants : x.id = row.id => x = old
        <5> SUFFICES ASSUME NEW x \in Grants, x.id = row.id PROVE x = old
          OBVIOUS
        <5>1. PICK a \in acls, b \in bound : a.id = b.id /\ x = Join(a, b.acer, b.acee)
          BY <1>16
        <5>2. a.id = row.id
          BY <1>18, <5>1
        <5>3. a = o /\ b = e
          BY <3>3, <3>5, <5>1, <5>2
        <5> QED BY <5>1, <5>3
      <4>2. old \in Grants
        BY <1>16, <3>2, <3>4
      <4> QED BY <4>1, <4>2
    <3>9. Grants' = Rest \cup {new}
      <4>1. \A a : a \in acls' <=> a = row \/ (a \in acls /\ a.id # row.id)
        BY <2>3, <3>2
      <4>2. new \in Grants'
        BY <1>17, <3>4, <3>7, <4>1
      <4>3. \A x \in Grants' : x = new \/ (x \in Grants /\ x.id # row.id)
        <5> SUFFICES ASSUME NEW x \in Grants' PROVE x = new \/ (x \in Grants /\ x.id # row.id)
          OBVIOUS
        <5>1. PICK a \in acls', b \in bound : a.id = b.id /\ x = Join(a, b.acer, b.acee)
          BY <1>17, <3>7
        <5>2. CASE a = row
          BY <3>5, <5>1, <5>2
        <5>3. CASE a \in acls /\ a.id # row.id
          <6>1. x.id = a.id
            BY <1>18, <5>1
          <6>2. x \in Grants
            BY <1>16, <5>1, <5>3
          <6> QED BY <5>3, <6>1, <6>2
        <5> QED BY <4>1, <5>1, <5>2, <5>3
      <4>4. \A x \in Grants : x.id # row.id => x \in Grants'
        <5> SUFFICES ASSUME NEW x \in Grants, x.id # row.id PROVE x \in Grants'
          OBVIOUS
        <5>1. PICK a \in acls, b \in bound : a.id = b.id /\ x = Join(a, b.acer, b.acee)
          BY <1>16
        <5>2. a.id # row.id
          BY <1>18, <5>1
        <5> QED BY <1>17, <3>7, <4>1, <5>1, <5>2
      <4> QED BY <4>2, <4>3, <4>4
    <3>10. /\ old.lnn = new.lnn /\ UserKey(old) = UserKey(new) /\ AccountKey(old) = AccountKey(new)
           /\ Proper(old) <=> Proper(new)
      BY <3>2 DEF Join, UserKey, AccountKey, Proper, Peer, Local
    <3> HIDE DEF old, new, Rest
    <3>11. AllProper'
      BY <3>8, <3>9, <3>10 DEF AllProper
    <3>12. UserKeys' = UserKeys
      BY <3>8, <3>9, <3>10 DEF UserKeys, RemoveLnnAcl
    <3>13. AccountKeys' = AccountKeys
      BY <3>8, <3>9, <3>10 DEF AccountKeys, RemoveLnnAcl
    <3>14. UsersOf(t)' /\ AccountsOf(t)'
      BY <2>1, <2>3, <3>1, <3>12, <3>13 DEF UsersOf, AccountsOf, Inserting
    <3> QED BY <1>4, <2>1, <2>3, <3>11, <3>14 DEF MirrorOK
  <2> QED BY <1>1, <1>3, <1>14, <2>2, <2>3 DEF UpdateAclRow, Return
<1>15. CASE DeleteAclRow(t)
  <2>1. /\ UNCHANGED <<users, accounts, job>> /\ pc[t] = "delAcl" /\ pc'[t] = "delUserCheck"
        /\ acls' = Delete(acls, row.id) /\ bound' = Delete(bound, row.id)
    BY <1>1, <1>3, <1>15 DEF DeleteAclRow, mirrors
  <2>2. UserKeys = users /\ AccountKeys = accounts /\ Proper(p)
    BY <1>4, <2>1 DEF UsersOf, AccountsOf
  <2>3. row \in acls /\ row.dev = p.dev /\ row.lnn = p.lnn
    BY <1>2, <2>1 DEF DeleteOK, Ties, Deleting
  <2>4. Grants' = {x \in Grants : x.id # row.id}
    <3>1. /\ \A a : a \in acls' <=> a \in acls /\ a.id # row.id
          /\ \A b : b \in bound' <=> b \in bound /\ b.id # row.id
      BY <2>1 DEF Delete
    <3>2. ASSUME NEW x \in Grants' PROVE x \in Grants /\ x.id # row.id
      <4>1. PICK a \in acls', b \in bound' : a.id = b.id /\ x = Join(a, b.acer, b.acee)
        BY <1>17
      <4>2. x.id = a.id
        BY <1>18, <4>1
      <4> QED BY <1>16, <3>1, <4>1, <4>2
    <3>3. ASSUME NEW x \in Grants, x.id # row.id PROVE x \in Grants'
      <4>1. PICK a \in acls, b \in bound : a.id = b.id /\ x = Join(a, b.acer, b.acee)
        BY <1>16
      <4>2. x.id = a.id
        BY <1>18, <4>1
      <4> QED BY <1>17, <3>1, <3>3, <4>1, <4>2
    <3> QED BY <3>2, <3>3
  <2>5. \A x \in Grants : x.id = row.id => x.lnn = p.lnn /\ UserKey(x) = UserKey(p) /\ AccountKey(x) = AccountKey(p)
    <3> SUFFICES ASSUME NEW x \in Grants, x.id = row.id
                 PROVE  x.lnn = p.lnn /\ UserKey(x) = UserKey(p) /\ AccountKey(x) = AccountKey(p)
      OBVIOUS
    <3>1. PICK a \in acls, b \in bound : a.id = b.id /\ x = Join(a, b.acer, b.acee)
      BY <1>16
    <3>2. a = row
      BY <1>2, <2>3, <3>1 DEF Join, AclKeys
    <3>3. p.acer = b.acer /\ p.acee = b.acee
      BY <2>1, <3>1, <3>2 DEF GrantsOf, JobGranted, Deleting
    <3> QED BY <2>3, <3>1, <3>2, <3>3 DEF Join, UserKey, AccountKey, Peer, Local
  <2>6. AllProper'
    BY <2>4 DEF AllProper
  <2>7. UserKeys' \subseteq UserKeys /\ UserKeys \ UserKeys' \subseteq (IF p.lnn THEN {} ELSE {UserKey(p)})
    BY <2>4, <2>5 DEF UserKeys, RemoveLnnAcl
  <2>8. AccountKeys' \subseteq AccountKeys /\ AccountKeys \ AccountKeys' \subseteq (IF p.lnn THEN {} ELSE {AccountKey(p)})
    BY <2>4, <2>5 DEF AccountKeys, RemoveLnnAcl
  <2>9. UsersOf(t)'
    BY <2>1, <2>2, <2>7 DEF UsersOf, Inserting
  <2>10. AccountsOf(t)'
    BY <2>1, <2>2, <2>8 DEF AccountsOf, Inserting
  <2> QED BY <2>1, <2>2, <2>6, <2>9, <2>10 DEF MirrorOK
<1> QED BY <1>6, <1>7, <1>8, <1>9, <1>10, <1>11, <1>12, <1>13, <1>14, <1>15 DEF LockedStep

\* The second phase announces what the first one has changed.
LEMMA MirrorUnlockedStep ==
    ASSUME KeyInv, RefInv, GrantInv, NEW t \in Threads, \A u \in Threads : u = t,
           UnlockedStep(t), faults' = 0,
           AllProper, MirrorOK(t)
    PROVE  AllProper' /\ MirrorOK(t)'
PROOF
<1>1. /\ pc \in [Threads -> Labels] /\ job \in [Threads -> Job \cup {NoJob}] /\ faults \in Nat
      /\ pc[t] # "idle" => job[t] \in Job
  BY DEF KeyInv, TypeOK
<1>2. faults' # faults + 1
  BY <1>1
<1>3. UsersOf(t) /\ AccountsOf(t) /\ (pc[t] # "idle" => Proper(job[t].p))
  BY DEF MirrorOK
<1>4. UNCHANGED <<acls, lock, bound>> /\ pc[t] \notin Locked /\ pc'[t] \notin Locked /\ faults = 0
  BY UnlockedFrame, UnlockedBound DEF Frame, KeyInv
<1>5. Grants' = Grants /\ UserKeys' = UserKeys /\ AccountKeys' = AccountKeys
  BY <1>4, KeysKept
<1>6. AllProper'
  BY <1>5 DEF AllProper
<1> DEFINE p == job[t].p
           Busy == {"putUserSend", "putAccountSend", "delUserCheck", "delUserSend", "delDevice",
                    "delAccountCheck", "delAccountSend"}
<1> USE DEF Goto, At, Fault, Locked, Inserting
\* A step that has nothing to announce.
<1>7. ASSUME pc[t] \notin Busy, pc'[t] \notin Busy, UNCHANGED <<users, accounts>>,
             pc'[t] # "idle" => pc[t] # "idle" /\ job'[t].p = p
      PROVE  MirrorOK(t)'
  <2>1. UserKeys' = users' /\ AccountKeys' = accounts'
    BY <1>3, <1>4, <1>5, <1>7 DEF UsersOf, AccountsOf
  <2>2. UsersOf(t)' /\ AccountsOf(t)'
    BY <1>4, <1>7, <2>1 DEF UsersOf, AccountsOf
  <2>3. (pc[t] # "idle" => Proper(job[t].p))'
    BY <1>3, <1>7
  <2> QED BY <2>2, <2>3 DEF MirrorOK
\* A step between two announcements.
<1>8. ASSUME UNCHANGED job, pc[t] # "idle", UsersOf(t)', AccountsOf(t)' PROVE MirrorOK(t)'
  BY <1>3, <1>8 DEF MirrorOK
<1>9. lock = {}
  BY <1>4 DEF KeyInv, MutexOK, TypeOK
<1>10. CASE PutAclCheckUser(t)
  <2>1. /\ UNCHANGED <<job, accounts>> /\ pc[t] = "putUserSend" /\ pc'[t] = "putAccountSend"
        /\ users' = IF job[t].userExists \/ p.lnn THEN users ELSE users \cup {UserKey(p)}
    BY <1>1, <1>10 DEF PutAclCheckUser
  <2>2. UsersOf(t)'
    BY <1>3, <1>5, <2>1 DEF UsersOf
  <2>3. AccountsOf(t)'
    BY <1>3, <1>5, <2>1 DEF AccountsOf
  <2> QED BY <1>6, <1>8, <2>1, <2>2, <2>3
<1>11. CASE PutAclCheckAccount(t)
  <2>1. /\ UNCHANGED <<job, users>> /\ pc[t] = "putAccountSend" /\ pc'[t] = "putReadTrust"
        /\ accounts' = IF job[t].accountExists \/ p.lnn THEN accounts ELSE accounts \cup {AccountKey(p)}
    BY <1>1, <1>11 DEF PutAclCheckAccount
  <2>2. UsersOf(t)'
    BY <1>3, <1>5, <2>1 DEF UsersOf
  <2>3. AccountsOf(t)'
    BY <1>3, <1>5, <2>1 DEF AccountsOf
  <2> QED BY <1>6, <1>8, <2>1, <2>2, <2>3
<1>12. CASE DeleteUserCheck(t)
  <2>1. /\ UNCHANGED <<job, users, accounts>> /\ pc[t] = "delUserCheck"
        /\ pc'[t] = IF CheckDeviceIdAndUserIdExists(p) \/ p.lnn THEN "delDevice" ELSE "delUserSend"
    <3>1. PICK found \in BOOLEAN :
             /\ Scan(CheckDeviceIdAndUserIdExists(p), found)
             /\ pc' = [pc EXCEPT ![t] = IF found \/ p.lnn THEN "delDevice" ELSE "delUserSend"]
      BY <1>12, Zenon DEF DeleteUserCheck
    <3>2. found = CheckDeviceIdAndUserIdExists(p)
      BY <1>2, <3>1 DEF Scan
    <3> QED BY <1>1, <1>12, <3>1, <3>2 DEF DeleteUserCheck, mirrors
  <2>2. CheckDeviceIdAndUserIdExists(p) <=> UserKey(p) \in UserKeys
    BY <1>3, <1>4, <1>9, <2>1, Scanned
  <2>3. UsersOf(t)'
    BY <1>3, <1>5, <2>1, <2>2 DEF UsersOf
  <2>4. AccountsOf(t)'
    BY <1>3, <1>5, <2>1 DEF AccountsOf
  <2> QED BY <1>6, <1>8, <2>1, <2>3, <2>4
<1>13. CASE NotifyTrustDeviceProfileDelete(t)
  <2>1. /\ UNCHANGED <<job, accounts>> /\ pc[t] = "delUserSend" /\ pc'[t] = "delDevice"
        /\ users' = users \ {UserKey(p)}
    BY <1>1, <1>13 DEF NotifyTrustDeviceProfileDelete
  <2>2. UsersOf(t)'
    BY <1>3, <1>5, <2>1 DEF UsersOf
  <2>3. AccountsOf(t)'
    BY <1>3, <1>5, <2>1 DEF AccountsOf
  <2> QED BY <1>6, <1>8, <2>1, <2>2, <2>3
<1>14. CASE NotifyDeviceAclInactiveByDelete(t)
  <2>1. UNCHANGED <<job, users, accounts>> /\ pc[t] = "delDevice" /\ pc'[t] = "delAccountCheck"
    BY <1>1, <1>14 DEF NotifyDeviceAclInactiveByDelete, mirrors
  <2>2. UsersOf(t)'
    BY <1>3, <1>5, <2>1 DEF UsersOf
  <2>3. AccountsOf(t)'
    BY <1>3, <1>5, <2>1 DEF AccountsOf
  <2> QED BY <1>6, <1>8, <2>1, <2>2, <2>3
<1>15. CASE DeleteAccountCheck(t)
  <2>1. /\ UNCHANGED <<job, users, accounts>> /\ pc[t] = "delAccountCheck"
        /\ pc'[t] = IF CheckAccountAclExists(p) \/ p.lnn THEN "delCount" ELSE "delAccountSend"
    <3>1. PICK found \in BOOLEAN :
             /\ Scan(CheckAccountAclExists(p), found)
             /\ pc' = [pc EXCEPT ![t] = IF found \/ p.lnn THEN "delCount" ELSE "delAccountSend"]
      BY <1>15, Zenon DEF DeleteAccountCheck
    <3>2. found = CheckAccountAclExists(p)
      BY <1>2, <3>1 DEF Scan
    <3> QED BY <1>1, <1>15, <3>1, <3>2 DEF DeleteAccountCheck, mirrors
  <2>2. CheckAccountAclExists(p) <=> AccountKey(p) \in AccountKeys
    BY <1>3, <1>4, <1>9, <2>1, Scanned
  <2>3. UsersOf(t)'
    BY <1>3, <1>5, <2>1 DEF UsersOf
  <2>4. AccountsOf(t)'
    BY <1>3, <1>5, <2>1, <2>2 DEF AccountsOf
  <2> QED BY <1>6, <1>8, <2>1, <2>3, <2>4
<1>16. CASE NotifyAccountAclDelete(t)
  <2>1. /\ UNCHANGED <<job, users>> /\ pc[t] = "delAccountSend" /\ pc'[t] = "delCount"
        /\ accounts' = accounts \ {AccountKey(p)}
    BY <1>1, <1>16 DEF NotifyAccountAclDelete
  <2>2. UsersOf(t)'
    BY <1>3, <1>5, <2>1 DEF UsersOf
  <2>3. AccountsOf(t)'
    BY <1>3, <1>5, <2>1 DEF AccountsOf
  <2> QED BY <1>6, <1>8, <2>1, <2>2, <2>3
<1>17. CASE PutAclCheckTrust(t)
  BY <1>1, <1>6, <1>7, <1>17 DEF PutAclCheckTrust, mirrors, Return
<1>18. CASE PutTrustDeviceProfile(t)
  BY <1>1, <1>6, <1>7, <1>18 DEF PutTrustDeviceProfile, mirrors, Return
<1>19. CASE PutAclCheckStatus(t)
  BY <1>1, <1>6, <1>7, <1>19 DEF PutAclCheckStatus, mirrors, Return, Job
<1>20. CASE NotifyAccountAclCheck(t)
  BY <1>1, <1>6, <1>7, <1>20 DEF NotifyAccountAclCheck, mirrors
<1>21. CASE NotifyCheckUser(t)
  BY <1>1, <1>6, <1>7, <1>21 DEF NotifyCheckUser, mirrors
<1>22. CASE NotifyCheckDevice(t)
  BY <1>1, <1>6, <1>7, <1>22 DEF NotifyCheckDevice, mirrors
<1>23. CASE DeleteTrustDeviceCheck(t)
  BY <1>1, <1>6, <1>7, <1>23 DEF DeleteTrustDeviceCheck, mirrors, Return
<1>24. CASE DeleteTrustSelect(t)
  BY <1>1, <1>6, <1>7, <1>24 DEF DeleteTrustSelect, mirrors, Return
<1>25. CASE DeleteTrustDeviceProfile(t)
  BY <1>1, <1>6, <1>7, <1>25 DEF DeleteTrustDeviceProfile, mirrors, Return
<1>26. CASE GetStatus(t)
  BY <1>1, <1>6, <1>7, <1>26 DEF GetStatus, mirrors, Job
<1>27. CASE SelectTrustDevice(t)
  BY <1>1, <1>6, <1>7, <1>27 DEF SelectTrustDevice, mirrors, Return
<1>28. CASE UpdateTrustDeviceProfile(t)
  BY <1>1, <1>6, <1>7, <1>28 DEF UpdateTrustDeviceProfile, mirrors, Return
<1> QED BY <1>6, <1>10, <1>11, <1>12, <1>13, <1>14, <1>15, <1>16, <1>17, <1>18, <1>19, <1>20, <1>21, <1>22, <1>23, <1>24, <1>25, <1>26, <1>27, <1>28 DEF UnlockedStep

\* Any step that no fault disturbs, when one call runs at a time.
LEMMA MirrorStep ==
    ASSUME UpdateFree = FALSE, ProfilesProper, \A t, u \in Threads : t = u,
           KeyInv, KeyInv', RefInv, GrantInv, TrustInv, MirrorInv, [Next]_vars
    PROVE  MirrorInv'
PROOF
<1>1. TypeOK /\ MutexOK /\ faults \in Nat
  BY DEF KeyInv, TypeOK
<1>2. ASSUME NEW t \in Threads, LockedStep(t), faults' = 0
      PROVE  AllProper' /\ MirrorOK(t)'
  <2>1. /\ \A v \in Threads \ {t} : pc[v] \notin Locked
        /\ faults = 0
    BY <1>1, <1>2, LockedFrame
  <2>2. t \in lock \/ lock = {}
    BY <1>1, <2>1 DEF MutexOK, TypeOK
  <2>3. BoundKeys /\ GrantsOf(t) /\ AllProper /\ MirrorOK(t) /\ Ties(t)
    BY <2>1, <2>2 DEF GrantInv, MirrorInv, TrustInv, TrustOK
  <2> QED BY <1>2, <2>1, <2>3, MirrorLockedStep
<1>3. ASSUME NEW t \in Threads, UnlockedStep(t), faults' = 0
      PROVE  AllProper' /\ MirrorOK(t)'
  <2>1. faults = 0
    BY <1>1, <1>3, UnlockedFrame DEF Frame
  <2> QED BY <1>3, <2>1, MirrorUnlockedStep DEF MirrorInv
<1>4. ASSUME NEW t \in Threads, LockedStep(t) \/ UnlockedStep(t) PROVE MirrorInv'
  <2>1. ASSUME faults' = 0 PROVE AllProper' /\ MirrorOK(t)'
    BY <1>2, <1>3, <1>4, <2>1
  <2>2. \A u \in Threads : u = t
    OBVIOUS
  <2> QED BY <2>1, <2>2 DEF MirrorInv
<1>5. CASE UnInit \/ Crash
  BY <1>1, <1>5 DEF UnInit, Crash, MirrorInv
<1>6. CASE Reopen \/ UNCHANGED vars
  <2>1. UNCHANGED <<acls, bound, users, accounts, pc, job, faults>>
    BY <1>6 DEF Reopen, vars, tables, mirrors
  <2>2. Grants' = Grants /\ UserKeys' = UserKeys /\ AccountKeys' = AccountKeys
    BY <2>1, KeysKept
  <2>3. \A t \in Threads : MirrorOK(t) => MirrorOK(t)'
    BY <2>1, <2>2 DEF MirrorOK, UsersOf, AccountsOf
  <2>4. AllProper => AllProper'
    BY <2>2 DEF AllProper
  <2> QED BY <2>1, <2>3, <2>4 DEF MirrorInv
<1> QED BY <1>4, <1>5, <1>6, NextCases DEF Quiesce

\* When one call runs at a time, a subscriber lacks only what the call in progress
\* has still to announce.
THEOREM MirrorInvariant ==
    ASSUME UpdateFree = FALSE, ProfilesProper, \A t, u \in Threads : t = u
    PROVE  Spec => []MirrorInv
PROOF
<1>1. Init => MirrorInv
  <2> SUFFICES ASSUME Init PROVE MirrorInv
    OBVIOUS
  <2>1. Grants = {}
    BY GrantsFrom DEF Init, Grants
  <2>2. UserKeys = {} /\ AccountKeys = {}
    BY <2>1 DEF UserKeys, AccountKeys, RemoveLnnAcl
  <2>3. \A t \in Threads : MirrorOK(t)
    BY <2>2 DEF Init, MirrorOK, UsersOf, AccountsOf, Inserting
  <2> QED BY <2>1, <2>3 DEF MirrorInv, AllProper
<1>2. KeyInv /\ KeyInv' /\ RefInv /\ GrantInv /\ TrustInv /\ MirrorInv /\ [Next]_vars => MirrorInv'
  BY MirrorStep
<1> QED BY <1>1, <1>2, KeyInvariant, ReferenceInvariant, GrantInvariant, TrustInvariant, PTL DEF Spec

\* Between calls that run one at a time, a subscriber that applied every Add and
\* Delete notification knows exactly the user and account pairs that have a non-LNN
\* ACL, provided the trusted device of an ACL is that of one party and not of both:
\* the "exists" scans before an ACL is stored and after it is deleted decide right,
\* in whichever orientation the parties were stored.
THEOREM SubscribersKnow ==
    ASSUME UpdateFree = FALSE, ProfilesProper, \A t, u \in Threads : t = u
    PROVE  Spec => []MirrorsExact
PROOF
<1>1. KeyInv /\ RefInv /\ GrantInv /\ MirrorInv => MirrorsExact
  <2> SUFFICES ASSUME KeyInv, RefInv, GrantInv, MirrorInv, faults = 0, Idle
               PROVE  /\ users = {UserKey(a) : a \in UserAcls}
                      /\ accounts = {AccountKey(a) : a \in UserAcls}
    BY DEF MirrorsExact
  <2>1. PICK t \in Threads : TRUE
    BY ThreadsAssumption
  <2>2. lock = {}
    BY DEF KeyInv, MutexOK, TypeOK, Idle, Locked
  <2>3. UserAcls = RemoveLnnAcl(Grants)
    BY <2>2, JoinedAreGrants DEF UserAcls
  <2>4. users = UserKeys /\ accounts = AccountKeys
    BY <2>1 DEF MirrorInv, MirrorOK, UsersOf, AccountsOf, Idle
  <2> QED BY <2>3, <2>4 DEF UserKeys, AccountKeys
<1> QED BY <1>1, KeyInvariant, ReferenceInvariant, GrantInvariant, MirrorInvariant, PTL
=============================================================================
