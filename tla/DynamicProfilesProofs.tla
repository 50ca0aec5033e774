------------------------ MODULE DynamicProfilesProofs ------------------------
(***************************************************************************)
(* Proofs about DynamicProfiles, for all sets of names, users, values,     *)
(* clients and tasks and all bounds: types, with every entry under a       *)
(* user's key put by that user; that a user change leaves the entries of   *)
(* users alone and a repair removes what is misplaced; and, while nothing  *)
(* has disturbed user changes, that plain keys show the foreground user,   *)
(* nothing is left of a removed one and a get returns its user's profile.  *)
(***************************************************************************)
EXTENDS DynamicProfiles, TLAPS

-----------------------------------------------------------------------------
(* The inductive invariant *)

\* Entries under the keys of users are theirs.
Owned(e) == \A k \in Keys : k[2] # NoUser /\ e[k] # None => e[k][1] = k[2]
PlainOnly(e) == \A k \in Keys : k[2] # NoUser => e[k] = None

StoreOK == store \in Entries /\ mine \subseteq Present(store) /\ Owned(store)
UsersOK == /\ kv \in {"open", "dead", "reset"}
           /\ fg \in Owners /\ osFg \in Users /\ gone \subseteq Users
           /\ fgLock \in {Free} \cup Tasks /\ storeLock \in {Free} \cup Clients
           /\ who \in [Tasks -> Users]
           /\ fix \in [peer : {"none", "unknown", "oh", "nonoh"}, owned : SUBSET Keys]
CallsOK == pc \in [Threads -> Pcs] /\ req \in [Clients -> [name : Names, user : Owners]]
EntsOK == ents \in [Threads -> Entries] /\ \A c \in Clients : Owned(ents[c])
DelOK == del \in [Threads -> SUBSET Keys]
BoundsOK == /\ fresh \subseteq Keys /\ overtaken \subseteq Clients
            /\ upset \subseteq Upsets /\ starts \in Nat
\* What a user change is about to write and to delete has plain keys.
SwitchOK == \A t \in Tasks :
               /\ pc[t] = "save" => PlainOnly(ents[t])
               /\ pc[t] \in {"save", "clear"} => \A k \in del[t] : k[2] = NoUser

Inv == StoreOK /\ UsersOK /\ CallsOK /\ EntsOK /\ DelOK /\ BoundsOK /\ SwitchOK

\* TypeOK is the conjunction of the parts without EntsOK's and SwitchOK's extras.
LEMMA InvTypes == Inv => TypeOK
PROOF
  BY DEF Inv, StoreOK, UsersOK, CallsOK, EntsOK, DelOK, BoundsOK, TypeOK, Owned, Present

-----------------------------------------------------------------------------
(* Lemmas *)

\* The plain key of a name, and the key of a user.
LEMMA KeyFacts ==
    /\ \A n \in Names, u \in Owners : <<n, u>> \in Keys
    /\ \A n \in Names : Plain(n) \in Keys /\ Plain(n)[2] = NoUser
    /\ PutNames \subseteq Names /\ LocalNames \subseteq Names
    /\ Users \subseteq Owners /\ NoUser \in Owners
    /\ NoEntries \in Entries /\ Owned(NoEntries) /\ PlainOnly(NoEntries)
PROOF
  BY NamesAssumption DEF Keys, Plain, Names, Owners, NoEntries, Entries, Owned, PlainOnly

\* The call of an idle client.
LEMMA NoReqOK == NoReq \in [name : Names, user : Owners]
PROOF
<1>1. Names # {}
  BY NamesAssumption DEF Names
<1>2. (CHOOSE n \in Names : TRUE) \in Names
  BY <1>1
<1> QED BY <1>2, KeyFacts DEF NoReq

\* Writing entries that belong to their users keeps the store so.
LEMMA PutBatchOK ==
    ASSUME StoreOK, NEW e \in Entries, Owned(e), fresh \subseteq Keys, PutBatch(e)
    PROVE  StoreOK' /\ fresh' \subseteq Keys
PROOF
<1>1. Changed(e) \subseteq Keys /\ \A k \in Changed(e) : e[k] # None
  BY DEF Changed, Present
<1>2. store' \in Entries
  BY <1>1 DEF PutBatch, StoreOK, Entries
<1>3. \A k \in Keys : store'[k] = IF k \in Changed(e) THEN e[k] ELSE store[k]
  BY DEF PutBatch
<1>4. mine' \subseteq Present(store')
  BY <1>1, <1>3 DEF PutBatch, StoreOK, Present
<1>5. Owned(store')
  BY <1>3 DEF StoreOK, Owned
<1>6. fresh' \subseteq Keys
  BY <1>1 DEF PutBatch, Refresh
<1> QED BY <1>2, <1>4, <1>5, <1>6 DEF StoreOK

\* Deleting keeps it so as well.
LEMMA DeleteBatchOK ==
    ASSUME StoreOK, NEW ks, DeleteBatch(ks)
    PROVE  StoreOK'
PROOF
<1>1. store' \in Entries
  BY DEF DeleteBatch, StoreOK, Entries
<1>2. \A k \in Keys : store'[k] = IF k \in ks THEN None ELSE store[k]
  BY DEF DeleteBatch
<1>3. mine' \subseteq Present(store')
  BY <1>2 DEF DeleteBatch, StoreOK, Present
<1>4. Owned(store')
  BY <1>2 DEF StoreOK, Owned
<1> QED BY <1>1, <1>3, <1>4 DEF StoreOK

\* The bounds.
LEMMA StartOK ==
    ASSUME starts \in Nat
    PROVE  (Start => starts' \in Nat) /\ (Fault => starts' \in Nat)
           /\ (NoFault => starts' \in Nat)
PROOF
  BY DEF Start, Fault, NoFault

\* What is recorded of user changes.
LEMMA DisturbedOK ==
    ASSUME upset \subseteq Upsets, NEW how \in Upsets, NEW when, Disturbed(how, when)
    PROVE  upset' \subseteq Upsets
PROOF
  BY DEF Disturbed

\* The foreground user asked for is an owner of entries.
LEMMA ForegroundOK ==
    ASSUME UsersOK
    PROVE  /\ Foreground \in Owners
           /\ \A u : AskForeground(u) => fg' \in Owners
PROOF
  BY KeyFacts DEF UsersOK, Foreground, AskForeground

\* The keys under which a profile goes.
LEMMA TargetsOK ==
    ASSUME NEW n \in PutNames, NEW u \in Owners
    PROVE  /\ Targets(n, u) \subseteq Keys
           /\ \A k \in Targets(n, u) : k[2] # NoUser => k[2] = u
PROOF
  BY KeyFacts DEF Targets, Plain

\* One profile turned into entries.
LEMMA ProfileOK ==
    ASSUME UsersOK, EntsOK, NEW c \in Clients,
           NEW n \in PutNames, NEW u \in Owners, NEW v \in Values, Profile(c, n, u, v)
    PROVE  EntsOK' /\ fg' \in Owners
PROOF
<1> DEFINE new == [k \in Keys |-> IF k \in Targets(n, u) THEN <<u, v>> ELSE ents[c][k]]
<1>0. c \in Threads
  BY DEF Threads
<1>1. ents' = [ents EXCEPT ![c] = new]
  BY DEF Profile
<1>2. new \in Entries
  BY <1>0 DEF EntsOK, Entries, Value
<1>3. Owned(new)
  BY TargetsOK DEF EntsOK, Owned
<1> HIDE DEF new
<1>4. ents' \in [Threads -> Entries]
  BY <1>0, <1>1, <1>2 DEF EntsOK
<1>5. \A d \in Clients : Owned(ents'[d])
  BY <1>0, <1>1, <1>3 DEF EntsOK, Threads
<1> QED BY <1>4, <1>5, ForegroundOK DEF EntsOK, Profile
-----------------------------------------------------------------------------
(* The clients *)

\* A call returns.
LEMMA ReturnOK ==
    ASSUME CallsOK, BoundsOK, NEW c \in Clients, Return(c)
    PROVE  /\ CallsOK' /\ overtaken' \subseteq Clients
           /\ \A t \in Tasks : pc'[t] = pc[t]
PROOF
<1>1. c \in Threads /\ c \notin Tasks /\ "idle" \in Pcs
  BY ThreadsAssumption DEF Threads, Pcs
<1> QED BY <1>1, NoReqOK DEF Return, Goto, CallsOK, BoundsOK, Threads

\* The steps of a client keep the invariant.
LEMMA ClientInv ==
    ASSUME Inv, NEW c \in Clients, ClientNext(c)
    PROVE  Inv'
PROOF
<1> USE DEF Inv
<1>0. /\ c \in Threads /\ c \notin Tasks /\ Tasks \subseteq Threads
      /\ {"put", "get", "delete"} \subseteq Pcs
  BY ThreadsAssumption DEF Threads, Pcs
<1>1. Living \subseteq Owners
  BY DEF Living
<1>2. CASE Put(c)
  <2>1. PICK n \in PutNames, u \in Living, v \in Values : Profile(c, n, u, v)
    BY <1>2 DEF Put
  <2>2. EntsOK' /\ fg' \in Owners
    BY <2>1, <1>1, ProfileOK
  <2>3. CallsOK'
    BY <2>1, <1>0, <1>1, <1>2, KeyFacts DEF Put, Profile, Goto, CallsOK
  <2>4. BoundsOK'
    BY <1>2, StartOK DEF Put, Calls, BoundsOK, history
  <2>5. StoreOK' /\ DelOK' /\ UsersOK'
    BY <1>2, <2>2 DEF Put, data, users, locks, StoreOK, DelOK, UsersOK, Present
  <2>6. SwitchOK'
    BY <1>0, <1>2, <2>1 DEF Put, Profile, Goto, SwitchOK, EntsOK, CallsOK
  <2> QED BY <2>2, <2>3, <2>4, <2>5, <2>6
<1>3. CASE PutMore(c)
  <2>1. PICK n \in PutNames, u \in Living, v \in Values : Profile(c, n, u, v)
    BY <1>3 DEF PutMore
  <2>2. EntsOK' /\ fg' \in Owners
    BY <2>1, <1>1, ProfileOK
  <2>3. CallsOK'
    BY <2>1, <1>0, <1>1, <1>3, KeyFacts DEF PutMore, Profile, CallsOK
  <2>4. BoundsOK'
    BY <1>3 DEF PutMore, BoundsOK, history
  <2>5. StoreOK' /\ DelOK' /\ UsersOK'
    BY <1>3, <2>2 DEF PutMore, data, users, locks, StoreOK, DelOK, UsersOK, Present
  <2>6. SwitchOK'
    BY <1>0, <1>3, <2>1 DEF PutMore, Profile, SwitchOK, EntsOK, CallsOK
  <2> QED BY <2>2, <2>3, <2>4, <2>5, <2>6
<1>4. CASE PutStore(c)
  <2>1. StoreOK' /\ fresh' \subseteq Keys
    <3>1. CASE PutBatch(ents[c])
      BY <1>0, <3>1, PutBatchOK DEF EntsOK, BoundsOK
    <3>2. CASE UNCHANGED <<data, fresh, upset>>
      BY <3>2 DEF data, StoreOK, BoundsOK, Present
    <3> QED BY <1>4, <3>1, <3>2 DEF PutStore
  <2>2. upset' \subseteq Upsets
    BY <1>4, DisturbedOK DEF PutStore, BoundsOK, Upsets
  <2>3. starts' \in Nat
    BY <1>4, StartOK DEF PutStore, BoundsOK
  <2>4. CallsOK' /\ overtaken' \subseteq Clients /\ \A t \in Tasks : pc'[t] = pc[t]
    BY <1>4, ReturnOK DEF PutStore
  <2>5. EntsOK'
    BY <1>0, <1>4, KeyFacts DEF PutStore, EntsOK, Threads
  <2>6. UsersOK' /\ DelOK'
    BY <1>4 DEF PutStore, users, locks, UsersOK, DelOK
  <2>7. SwitchOK'
    BY <1>0, <1>4, <2>4 DEF PutStore, SwitchOK, EntsOK
  <2> QED BY <2>1, <2>2, <2>3, <2>4, <2>5, <2>6, <2>7 DEF BoundsOK
<1>5. CASE Get(c)
  <2>1. PICK n \in PutNames, u \in Living :
            AskForeground(u) /\ req' = [req EXCEPT ![c] = [name |-> n, user |-> u]]
    BY <1>5 DEF Get
  <2>2. fg' \in Owners
    BY <2>1, ForegroundOK
  <2>3. CallsOK'
    BY <2>1, <1>0, <1>1, <1>5, KeyFacts DEF Get, Goto, CallsOK
  <2>4. BoundsOK'
    BY <1>5, StartOK DEF Get, Calls, BoundsOK, history
  <2>5. StoreOK' /\ DelOK' /\ UsersOK' /\ EntsOK'
    BY <1>5, <2>2 DEF Get, data, users, locks, locals, StoreOK, DelOK, UsersOK, EntsOK, Present
  <2>6. SwitchOK'
    BY <1>0, <1>5 DEF Get, Goto, locals, SwitchOK, CallsOK
  <2> QED BY <2>3, <2>4, <2>5, <2>6
<1>6. CASE Delete(c)
  <2>1. PICK n \in PutNames, u \in Living :
            req' = [req EXCEPT ![c] = [name |-> n, user |-> u]]
    BY <1>6 DEF Delete
  <2>3. CallsOK'
    BY <2>1, <1>0, <1>1, <1>6, KeyFacts DEF Delete, Goto, CallsOK
  <2>4. BoundsOK'
    BY <1>6, StartOK DEF Delete, Calls, BoundsOK, history
  <2>5. StoreOK' /\ DelOK' /\ UsersOK' /\ EntsOK'
    BY <1>6 DEF Delete, data, users, locals, StoreOK, DelOK, UsersOK, EntsOK, Present
  <2>6. SwitchOK'
    BY <1>0, <1>6 DEF Delete, Goto, locals, SwitchOK, CallsOK
  <2> QED BY <2>3, <2>4, <2>5, <2>6
<1>7. CASE GetRead(c)
  <2>1. CallsOK' /\ overtaken' \subseteq Clients /\ \A t \in Tasks : pc'[t] = pc[t]
    BY <1>7, ReturnOK DEF GetRead
  <2>2. StoreOK' /\ DelOK' /\ UsersOK' /\ EntsOK' /\ BoundsOK'
    BY <1>7, <2>1 DEF GetRead, data, users, locks, locals, StoreOK, DelOK, UsersOK,
       EntsOK, BoundsOK, Present
  <2>3. SwitchOK'
    BY <1>7, <2>1 DEF GetRead, locals, SwitchOK
  <2> QED BY <2>1, <2>2, <2>3
<1>8. CASE DeleteRun(c)
  <2>1. CallsOK' /\ overtaken' \subseteq Clients /\ \A t \in Tasks : pc'[t] = pc[t]
    BY <1>8, ReturnOK DEF DeleteRun
  <2>2. StoreOK'
    <3>1. CASE DeleteBatch(Targets(req[c].name, req[c].user))
      BY <3>1, DeleteBatchOK
    <3>2. CASE UNCHANGED data
      BY <3>2 DEF data, StoreOK, Present
    <3> QED BY <1>8, <3>1, <3>2 DEF DeleteRun
  <2>3. starts' \in Nat
    BY <1>8, StartOK DEF DeleteRun, BoundsOK
  <2>4. fg' \in Owners /\ storeLock' \in {Free} \cup Clients
    BY <1>8, ForegroundOK DEF DeleteRun, Unlock
  <2>5. DelOK' /\ UsersOK' /\ EntsOK' /\ BoundsOK'
    BY <1>8, <2>1, <2>3, <2>4 DEF DeleteRun, users, locals, DelOK, UsersOK, EntsOK, BoundsOK
  <2>6. SwitchOK'
    BY <1>8, <2>1 DEF DeleteRun, locals, SwitchOK
  <2> QED BY <2>1, <2>2, <2>5, <2>6
<1> QED BY <1>2, <1>3, <1>4, <1>5, <1>6, <1>7, <1>8 DEF ClientNext, ClientReturns
-----------------------------------------------------------------------------
(* Account events *)

\* A task ends.
LEMMA DoneOK ==
    ASSUME CallsOK, UsersOK, NEW t \in Tasks, Done(t)
    PROVE  /\ pc' \in [Threads -> Pcs] /\ who' \in [Tasks -> Users]
           /\ \A x \in Tasks : pc'[x] = IF x = t THEN "idle" ELSE pc[x]
PROOF
<1>1. NoUserYet \in Users
  BY UsersAssumption DEF NoUserYet
<1> QED BY <1>1 DEF Done, Goto, CallsOK, UsersOK, Threads, Pcs

\* A user change ends.
LEMMA SwitchEndOK ==
    ASSUME Inv, NEW t \in Tasks, SwitchEnd(t)
    PROVE  /\ pc' \in [Threads -> Pcs] /\ who' \in [Tasks -> Users]
           /\ fg' \in Owners /\ fgLock' = Free
           /\ EntsOK' /\ DelOK' /\ SwitchOK'
PROOF
<1> USE DEF Inv
<1>1. t \in Threads /\ t \notin Clients
  BY ThreadsAssumption DEF Threads
<1>2. /\ pc' \in [Threads -> Pcs] /\ who' \in [Tasks -> Users]
      /\ \A x \in Tasks : pc'[x] = IF x = t THEN "idle" ELSE pc[x]
  BY DoneOK DEF SwitchEnd
<1>3. EntsOK' /\ DelOK'
  BY <1>1, KeyFacts DEF SwitchEnd, EntsOK, DelOK, Threads
<1>4. SwitchOK'
  BY <1>1, <1>2 DEF SwitchEnd, SwitchOK, EntsOK, DelOK, Threads
<1>5. fg' \in Owners /\ fgLock' = Free
  BY KeyFacts DEF SwitchEnd, UsersOK
<1> QED BY <1>2, <1>3, <1>4, <1>5

\* The steps of a task keep the invariant.
LEMMA TaskInv ==
    ASSUME Inv, NEW t \in Tasks, TaskNext(t)
    PROVE  Inv'
PROOF
<1> USE DEF Inv
<1>0. /\ t \in Threads /\ t \notin Clients /\ Tasks \subseteq Threads
      /\ {"switch", "scan", "save", "clear", "remove", "removeKeys"} \subseteq Pcs
      /\ {"overtaken", "reordered", "aborted"} \subseteq Upsets
  BY ThreadsAssumption DEF Threads, Pcs, Upsets
<1>1. UnderWay \subseteq Clients
  BY DEF UnderWay
<1>2. CASE UserSwitched(t) \/ UserRemoved(t)
  <2>1. pc' \in [Threads -> Pcs] /\ \A x \in Tasks \ {t} : pc'[x] = pc[x]
    BY <1>0, <1>2 DEF UserSwitched, UserRemoved, Goto, CallsOK
  <2>2. pc'[t] \notin {"save", "clear"}
    BY <1>0, <1>2 DEF UserSwitched, UserRemoved, Goto, CallsOK
  <2>3. UsersOK'
    BY <1>2 DEF UserSwitched, UserRemoved, UsersOK, locks
  <2>4. upset' \subseteq Upsets /\ starts' \in Nat
    BY <1>0, <1>2, DisturbedOK, StartOK DEF UserSwitched, UserRemoved, Submits, BoundsOK
  <2>5. StoreOK' /\ EntsOK' /\ DelOK' /\ BoundsOK' /\ CallsOK'
    BY <1>2, <2>1, <2>4 DEF UserSwitched, UserRemoved, data, locals, StoreOK, EntsOK,
       DelOK, BoundsOK, CallsOK, Present
  <2>6. SwitchOK'
    BY <1>2, <2>1, <2>2 DEF UserSwitched, UserRemoved, locals, SwitchOK
  <2> QED BY <2>3, <2>5, <2>6
<1>3. CASE SwitchBegin(t)
  <2>1. CASE who[t] = fg
    BY <1>0, <1>3, <2>1, DoneOK DEF SwitchBegin, data, users, locals, StoreOK, UsersOK,
       CallsOK, EntsOK, DelOK, BoundsOK, SwitchOK, Present
  <2>2. CASE who[t] # fg
    <3>1. /\ pc' \in [Threads -> Pcs] /\ \A x \in Tasks \ {t} : pc'[x] = pc[x]
          /\ pc'[t] = "scan"
      BY <1>0, <1>3, <2>2 DEF SwitchBegin, Goto, CallsOK
    <3>2. StoreOK' /\ UsersOK' /\ CallsOK' /\ EntsOK' /\ DelOK' /\ BoundsOK'
      BY <1>0, <1>1, <1>3, <2>2, <3>1 DEF SwitchBegin, data, users, locals, StoreOK,
         UsersOK, CallsOK, EntsOK, DelOK, BoundsOK, Present
    <3>3. SwitchOK'
      BY <1>3, <3>1 DEF SwitchBegin, locals, SwitchOK
    <3> QED BY <3>2, <3>3
  <2> QED BY <2>1, <2>2
<1>4. CASE SwitchScan(t)
  <2>1. CASE Scannable(LocalNames)
    <3> DEFINE new == [k \in Keys |-> IF k[2] = NoUser /\ k[1] \in NamesWith(who[t])
                                     THEN store[<<k[1], who[t]>>] ELSE None]
    <3>1. /\ ents' = [ents EXCEPT ![t] = new] /\ del' = [del EXCEPT ![t] = LastKeys(t)]
          /\ Goto(t, "save") /\ UNCHANGED <<fg, fgLock, who, upset>>
      BY <1>4, <2>1 DEF SwitchScan
    <3>2. who[t] \in Owners
      BY KeyFacts DEF UsersOK
    <3>3. new \in Entries /\ PlainOnly(new)
      BY <3>2, KeyFacts DEF NamesWith, StoreOK, Entries, PlainOnly
    <3>4. LastKeys(t) \subseteq Keys /\ \A k \in LastKeys(t) : k[2] = NoUser
      BY KeyFacts DEF LastKeys, NamesWith, Plain
    <3> HIDE DEF new
    <3>5. EntsOK' /\ DelOK'
      BY <1>0, <3>1, <3>3, <3>4 DEF EntsOK, DelOK, Threads
    <3>6. pc' \in [Threads -> Pcs] /\ \A x \in Tasks \ {t} : pc'[x] = pc[x]
      BY <1>0, <3>1 DEF Goto, CallsOK
    <3>7. SwitchOK'
      BY <1>0, <3>1, <3>3, <3>4, <3>6 DEF SwitchOK, EntsOK, DelOK
    <3>8. StoreOK' /\ UsersOK' /\ CallsOK' /\ BoundsOK'
      BY <1>4, <3>1, <3>6 DEF SwitchScan, data, users, StoreOK, UsersOK, CallsOK, BoundsOK,
         Present
    <3> QED BY <3>5, <3>7, <3>8
  <2>2. CASE ~Scannable(LocalNames)
    <3>1. SwitchEnd(t) /\ Disturbed("aborted", TRUE)
      BY <1>4, <2>2 DEF SwitchScan
    <3>2. upset' \subseteq Upsets
      BY <1>0, <3>1, DisturbedOK DEF BoundsOK
    <3>3. StoreOK' /\ UsersOK' /\ CallsOK' /\ BoundsOK'
      BY <1>4, <3>1, <3>2, SwitchEndOK DEF SwitchScan, data, users, StoreOK, UsersOK, CallsOK,
         BoundsOK, Present
    <3> QED BY <3>1, <3>3, SwitchEndOK
  <2> QED BY <2>1, <2>2
<1>5. CASE SwitchSave(t)
  <2>1. PlainOnly(ents[t]) /\ ents[t] \in Entries /\ Owned(ents[t])
    BY <1>0, <1>5 DEF SwitchSave, SwitchOK, EntsOK, PlainOnly, Owned
  <2>2. StoreOK' /\ fresh' \subseteq Keys
    <3>1. CASE PutBatch(ents[t])
      BY <2>1, <3>1, PutBatchOK DEF BoundsOK
    <3>2. CASE UNCHANGED <<data, fresh>>
      BY <3>2 DEF data, StoreOK, BoundsOK, Present
    <3> QED BY <1>5, <3>1, <3>2 DEF SwitchSave
  <2>3. starts' \in Nat /\ upset' \subseteq Upsets
    BY <1>0, <1>5, StartOK, DisturbedOK DEF SwitchSave, BoundsOK
  <2>4. CASE Goto(t, "clear") /\ UNCHANGED <<fg, fgLock, locals, who, upset>>
    <3>1. /\ pc' \in [Threads -> Pcs] /\ \A x \in Tasks \ {t} : pc'[x] = pc[x]
          /\ pc[t] = "save" /\ pc'[t] = "clear"
      BY <1>0, <1>5, <2>4 DEF SwitchSave, Goto, CallsOK
    <3>2. UsersOK' /\ CallsOK' /\ EntsOK' /\ DelOK' /\ BoundsOK'
      BY <1>5, <2>2, <2>3, <2>4, <3>1 DEF SwitchSave, users, locals, UsersOK, CallsOK,
         EntsOK, DelOK, BoundsOK
    <3>3. SwitchOK'
      BY <2>4, <3>1 DEF locals, SwitchOK
    <3> QED BY <2>2, <3>2, <3>3
  <2>5. CASE SwitchEnd(t)
    <3>1. UsersOK' /\ CallsOK' /\ BoundsOK'
      BY <1>5, <2>2, <2>3, <2>5, SwitchEndOK DEF SwitchSave, users, UsersOK, CallsOK, BoundsOK
    <3> QED BY <2>2, <2>5, <3>1, SwitchEndOK
  <2> QED BY <1>5, <2>4, <2>5 DEF SwitchSave
<1>6. CASE SwitchClear(t)
  <2>1. StoreOK'
    <3>1. CASE DeleteBatch(del[t])
      BY <3>1, DeleteBatchOK
    <3>2. CASE UNCHANGED data
      BY <3>2 DEF data, StoreOK, Present
    <3> QED BY <1>6, <3>1, <3>2 DEF SwitchClear
  <2>2. starts' \in Nat /\ upset' \subseteq Upsets
    BY <1>0, <1>6, StartOK, DisturbedOK DEF SwitchClear, BoundsOK
  <2>3. SwitchEnd(t)
    BY <1>6 DEF SwitchClear
  <2>4. UsersOK' /\ CallsOK' /\ BoundsOK'
    BY <1>6, <2>2, <2>3, SwitchEndOK DEF SwitchClear, users, UsersOK, CallsOK, BoundsOK
  <2> QED BY <2>1, <2>3, <2>4, SwitchEndOK
<1>7. CASE RemoveScan(t)
  <2>1. upset' \subseteq Upsets /\ overtaken' \subseteq Clients
    BY <1>0, <1>1, <1>7, DisturbedOK DEF RemoveScan, BoundsOK
  <2>2. DelOK'
    BY <1>0, <1>7 DEF RemoveScan, DelOK, KeysOf, Scanned, Present
  <2>3. /\ pc' \in [Threads -> Pcs] /\ \A x \in Tasks \ {t} : pc'[x] = pc[x]
        /\ pc'[t] \notin {"save", "clear"} /\ who' \in [Tasks -> Users]
    <3>1. CASE Goto(t, "removeKeys") /\ UNCHANGED who
      BY <1>0, <3>1 DEF Goto, CallsOK, UsersOK
    <3>2. CASE Done(t)
      BY <3>2, DoneOK
    <3> QED BY <1>7, <3>1, <3>2 DEF RemoveScan
  <2>4. /\ \A x \in Tasks \ {t} : del'[x] = del[x]
        /\ UNCHANGED ents
    BY <1>0, <1>7 DEF RemoveScan, DelOK
  <2>5. SwitchOK'
    BY <2>3, <2>4 DEF SwitchOK
  <2>6. StoreOK' /\ UsersOK' /\ CallsOK' /\ EntsOK' /\ BoundsOK'
    BY <1>7, <2>1, <2>3 DEF RemoveScan, data, users, locks, StoreOK, UsersOK, CallsOK, EntsOK,
       BoundsOK, Present
  <2> QED BY <2>2, <2>5, <2>6
<1>8. CASE RemoveKeys(t)
  <2>1. StoreOK'
    <3>1. CASE DeleteBatch(del[t])
      BY <3>1, DeleteBatchOK
    <3>2. CASE UNCHANGED data
      BY <3>2 DEF data, StoreOK, Present
    <3> QED BY <1>8, <3>1, <3>2 DEF RemoveKeys
  <2>2. starts' \in Nat /\ upset' \subseteq Upsets
    BY <1>0, <1>8, StartOK, DisturbedOK DEF RemoveKeys, BoundsOK
  <2>3. /\ pc' \in [Threads -> Pcs] /\ who' \in [Tasks -> Users]
        /\ \A x \in Tasks : pc'[x] = IF x = t THEN "idle" ELSE pc[x]
    BY <1>8, DoneOK DEF RemoveKeys
  <2>4. DelOK' /\ SwitchOK'
    BY <1>0, <1>8, <2>3 DEF RemoveKeys, DelOK, SwitchOK
  <2>5. UsersOK' /\ CallsOK' /\ EntsOK' /\ BoundsOK'
    BY <1>8, <2>2, <2>3 DEF RemoveKeys, users, locks, UsersOK, CallsOK, EntsOK, BoundsOK
  <2> QED BY <2>1, <2>4, <2>5
<1> QED BY <1>2, <1>3, <1>4, <1>5, <1>6, <1>7, <1>8 DEF TaskNext, TaskRuns
-----------------------------------------------------------------------------
(* The handler thread and the environment *)

\* A step of the handler moves no task.
LEMMA HandlerGoto ==
    ASSUME CallsOK, NEW l \in Pcs, Goto(Handler, l)
    PROVE  pc' \in [Threads -> Pcs] /\ \A t \in Tasks : pc'[t] = pc[t]
PROOF
  BY ThreadsAssumption DEF Goto, CallsOK, Threads

\* A repair ends.
LEMMA FixEndOK ==
    ASSUME Inv, FixEnd
    PROVE  /\ pc' \in [Threads -> Pcs] /\ \A t \in Tasks : pc'[t] = pc[t]
           /\ del' \in [Threads -> SUBSET Keys] /\ \A t \in Tasks : del'[t] = del[t]
           /\ fix' \in [peer : {"none", "unknown", "oh", "nonoh"}, owned : SUBSET Keys]
           /\ fresh' = {}
PROOF
<1>1. "idle" \in Pcs
  BY DEF Pcs
<1>2. pc' \in [Threads -> Pcs] /\ \A t \in Tasks : pc'[t] = pc[t]
  BY <1>1, HandlerGoto DEF Inv, FixEnd
<1>3. del' \in [Threads -> SUBSET Keys] /\ \A t \in Tasks : del'[t] = del[t]
  BY ThreadsAssumption DEF FixEnd, Inv, DelOK, Threads
<1> QED BY <1>2, <1>3 DEF FixEnd, NoFix

\* The deletion of a repair.
LEMMA FixDeleteOK ==
    ASSUME Inv, FixDelete
    PROVE  StoreOK' /\ starts' \in Nat /\ upset' \subseteq Upsets
PROOF
<1>1. StoreOK'
  <2>1. CASE DeleteBatch(del[Handler])
    BY <2>1, DeleteBatchOK DEF Inv
  <2>2. CASE UNCHANGED data
    BY <2>2 DEF Inv, data, StoreOK, Present
  <2> QED BY <2>1, <2>2 DEF FixDelete
<1>2. starts' \in Nat
  BY StartOK DEF FixDelete, Inv, BoundsOK
<1>3. upset' \subseteq Upsets
  BY DisturbedOK DEF FixDelete, Inv, BoundsOK, Upsets
<1> QED BY <1>1, <1>2, <1>3

\* The steps of the handler keep the invariant.
LEMMA HandlerInv ==
    ASSUME Inv, DeviceOnline \/ HandlerRuns
    PROVE  Inv'
PROOF
<1> USE DEF Inv
<1>0. /\ Handler \in Threads /\ Handler \notin Clients \cup Tasks
      /\ {"idle", "fixLocal", "fixLocalKeys", "fixPeer", "fixPeerKeys", "reopen"} \subseteq Pcs
  BY ThreadsAssumption DEF Threads, Pcs
<1>1. CASE DeviceOnline
  <2>1. pc' \in [Threads -> Pcs] /\ \A t \in Tasks : pc'[t] = pc[t]
    BY <1>0, <1>1, HandlerGoto DEF DeviceOnline
  <2>2. fix' \in [peer : {"none", "unknown", "oh", "nonoh"}, owned : SUBSET Keys]
    BY <1>1 DEF DeviceOnline, StoreOK, Present
  <2>3. starts' \in Nat
    BY <1>1, StartOK DEF DeviceOnline, BoundsOK
  <2> QED BY <1>1, <2>1, <2>2, <2>3 DEF DeviceOnline, data, users, locks, locals, history,
          StoreOK, UsersOK, CallsOK, EntsOK, DelOK, BoundsOK, SwitchOK, Present
<1>2. CASE FixLocal
  <2>1. pc' \in [Threads -> Pcs] /\ \A t \in Tasks : pc'[t] = pc[t]
    BY <1>0, <1>2, HandlerGoto DEF FixLocal
  <2>2. DelOK' /\ \A t \in Tasks : del'[t] = del[t]
    BY <1>0, <1>2, ThreadsAssumption DEF FixLocal, DelOK, Misplaced, Scanned, Present, Threads
  <2> QED BY <1>2, <2>1, <2>2 DEF FixLocal, data, users, locks, history,
          StoreOK, UsersOK, CallsOK, EntsOK, BoundsOK, SwitchOK, Present
<1>3. CASE FixLocalKeys
  <2>1. pc' \in [Threads -> Pcs] /\ \A t \in Tasks : pc'[t] = pc[t]
    BY <1>0, <1>3, HandlerGoto DEF FixLocalKeys
  <2>2. DelOK' /\ \A t \in Tasks : del'[t] = del[t]
    BY <1>0, <1>3, ThreadsAssumption DEF FixLocalKeys, DelOK, Threads
  <2>3. StoreOK' /\ starts' \in Nat /\ upset' \subseteq Upsets
    BY <1>3, FixDeleteOK DEF FixLocalKeys
  <2> QED BY <1>3, <2>1, <2>2, <2>3 DEF FixLocalKeys, users, locks,
          UsersOK, CallsOK, EntsOK, BoundsOK, SwitchOK
<1>4. CASE FixPeer
  <2>1. PICK ks \in SUBSET Keys :
            IF ks = {} THEN FixEnd
            ELSE /\ del' = [del EXCEPT ![Handler] = ks]
                 /\ Goto(Handler, "fixPeerKeys") /\ UNCHANGED <<fix, fresh>>
    <3> DEFINE ks == CASE fix.peer = "oh" -> WrittenForPeer
                       [] fix.peer = "nonoh" /\ Scannable(PeerNames) -> OhEntries
                       [] OTHER -> {}
    <3>1. ks \in SUBSET Keys
      BY DEF UsersOK, WrittenForPeer, OhEntries, Scanned, Present
    <3>2. IF ks = {} THEN FixEnd
          ELSE /\ del' = [del EXCEPT ![Handler] = ks]
               /\ Goto(Handler, "fixPeerKeys") /\ UNCHANGED <<fix, fresh>>
      BY <1>4 DEF FixPeer
    <3> HIDE DEF ks
    <3> QED BY <3>1, <3>2
  <2>2. CASE FixEnd
    BY <1>4, <2>2, FixEndOK DEF FixPeer, data, users, locks, history,
       StoreOK, UsersOK, CallsOK, EntsOK, DelOK, BoundsOK, SwitchOK, Present
  <2>3. CASE ~FixEnd
    <3>1. pc' \in [Threads -> Pcs] /\ \A t \in Tasks : pc'[t] = pc[t]
      BY <1>0, <2>1, <2>3, HandlerGoto
    <3>2. DelOK' /\ \A t \in Tasks : del'[t] = del[t]
      BY <1>0, <2>1, <2>3, ThreadsAssumption DEF DelOK, Threads
    <3> QED BY <1>4, <2>1, <2>3, <3>1, <3>2 DEF FixPeer, data, users, locks, history,
            StoreOK, UsersOK, CallsOK, EntsOK, BoundsOK, SwitchOK, Present
  <2> QED BY <2>2, <2>3
<1>5. CASE FixPeerKeys
  <2>1. StoreOK' /\ starts' \in Nat /\ upset' \subseteq Upsets
    BY <1>5, FixDeleteOK DEF FixPeerKeys
  <2> QED BY <1>5, <2>1, FixEndOK DEF FixPeerKeys, users, locks,
          UsersOK, CallsOK, EntsOK, DelOK, BoundsOK, SwitchOK
<1>6. CASE ReInitClose \/ ReInitOpen
  <2>1. pc' \in [Threads -> Pcs] /\ \A t \in Tasks : pc'[t] = pc[t]
    BY <1>0, <1>6, HandlerGoto DEF ReInitClose, ReInitOpen
  <2> QED BY <1>6, <2>1 DEF ReInitClose, ReInitOpen, data, users, locks, locals, history,
          StoreOK, UsersOK, CallsOK, EntsOK, DelOK, BoundsOK, SwitchOK, Present
<1> QED BY <1>1, <1>2, <1>3, <1>4, <1>5, <1>6 DEF HandlerRuns

\* The environment keeps the invariant.
LEMMA EnvironmentInv ==
    ASSUME Inv, KvDies \/ Restart \/ \E k \in ForeignKeys : Synced(k)
    PROVE  Inv'
PROOF
<1> USE DEF Inv
<1>1. CASE KvDies
  <2>1. starts' \in Nat
    BY <1>1, StartOK DEF KvDies, BoundsOK
  <2> QED BY <1>1, <2>1 DEF KvDies, data, users, locks, locals, history,
          StoreOK, UsersOK, CallsOK, EntsOK, DelOK, BoundsOK, SwitchOK, Present
<1>2. CASE Restart
  <2>1. PICK u \in Users \ gone, t \in Tasks :
            /\ osFg' = u
            /\ pc' = [x \in Threads |-> IF x = t THEN "switch" ELSE "idle"]
            /\ who' = [x \in Tasks |-> IF x = t THEN u ELSE NoUserYet]
            /\ Disturbed("restarted", u # fg \/ \E x \in Tasks : pc[x] # "idle")
    BY <1>2 DEF Restart
  <2>2. NoUserYet \in Users
    BY UsersAssumption DEF NoUserYet
  <2>3. pc' \in [Threads -> Pcs] /\ \A x \in Tasks : pc'[x] \notin {"save", "clear"}
    BY <2>1 DEF Pcs, Threads
  <2>5. upset' \subseteq Upsets
    BY <2>1, DisturbedOK DEF BoundsOK, Upsets
  <2>6. starts' \in Nat
    BY <1>2, StartOK DEF Restart, BoundsOK
  <2>7. StoreOK' /\ BoundsOK' /\ SwitchOK'
    BY <1>2, <2>3, <2>5, <2>6 DEF Restart, data, StoreOK, BoundsOK, SwitchOK, Present
  <2>8. UsersOK'
    BY <1>2, <2>1, <2>2, KeyFacts DEF Restart, UsersOK, NoFix
  <2>9. CallsOK' /\ EntsOK' /\ DelOK'
    BY <1>2, <2>3, NoReqOK, KeyFacts DEF Restart, CallsOK, EntsOK, DelOK, Threads
  <2> QED BY <2>7, <2>8, <2>9
<1>3. CASE \E k \in ForeignKeys : Synced(k)
  <2>1. PICK k \in ForeignKeys : Synced(k)
    BY <1>3
  <2>2. PICK v \in Values :
            /\ store' = [store EXCEPT ![k] = <<k[2], v>>]
            /\ mine' \in {mine \ {k}} \cup (IF k[1] \in PeerNames THEN {mine \cup {k}} ELSE {})
    BY <2>1 DEF Synced
  <2>3. k \in Keys /\ <<k[2], v>> \in Value /\ <<k[2], v>> # None
    BY StartAssumption, ValuesAssumption DEF Value, Keys
  <2>4. store' \in Entries /\ Owned(store')
    BY <2>2, <2>3 DEF StoreOK, Entries, Owned
  <2>5. mine' \subseteq Present(store')
    BY <2>2, <2>3 DEF StoreOK, Entries, Present
  <2>6. fresh' \subseteq Keys /\ starts' \in Nat
    BY <2>1, <2>3, StartOK DEF Synced, Refresh, BoundsOK
  <2> QED BY <2>1, <2>4, <2>5, <2>6 DEF Synced, users, locks, locals, history,
          StoreOK, UsersOK, CallsOK, EntsOK, DelOK, BoundsOK, SwitchOK
<1> QED BY <1>1, <1>2, <1>3
-----------------------------------------------------------------------------
(* Types, and the entries of users over a user change *)

LEMMA InitInv == Init => Inv
PROOF
<1> SUFFICES ASSUME Init PROVE Inv
  OBVIOUS
<1>1. NoUserYet \in Users
  BY UsersAssumption DEF NoUserYet
<1>2. StoreOK
  BY StartAssumption DEF Init, StoreOK, Owned, Present
<1>3. UsersOK
  BY <1>1, KeyFacts DEF Init, UsersOK, NoFix
<1>4. CallsOK /\ EntsOK /\ DelOK
  BY NoReqOK, KeyFacts DEF Init, CallsOK, EntsOK, DelOK, Threads, Pcs
<1>5. BoundsOK
  BY DEF Init, BoundsOK
<1>6. SwitchOK
  BY DEF Init, SwitchOK, Threads
<1> QED BY <1>2, <1>3, <1>4, <1>5, <1>6 DEF Inv

LEMMA NextInv == Inv /\ [Next]_vars => Inv'
PROOF
<1> SUFFICES ASSUME Inv, [Next]_vars PROVE Inv'
  OBVIOUS
<1>1. CASE Next
  BY <1>1, ClientInv, TaskInv, HandlerInv, EnvironmentInv DEF Next
<1>2. CASE UNCHANGED vars
  BY <1>2 DEF vars, data, users, locks, locals, history, Inv, StoreOK, UsersOK, CallsOK,
     EntsOK, DelOK, BoundsOK, SwitchOK, Present
<1> QED BY <1>1, <1>2

LEMMA SpecInv == Spec => []Inv
PROOF
  BY InitInv, NextInv, PTL DEF Spec

\* Every state is well typed, and every entry under the key of a user is a put
\* of that user (the Put functions, OnUserChange, the repairs).
THEOREM TypesHold == Spec => []TypeOK
PROOF
  BY SpecInv, InvTypes, PTL

\* A step of a user change leaves the entries of users alone.
LEMMA SwitchStepKeeps ==
    ASSUME Inv, NEW t \in Tasks, NEW k \in Keys, k[2] # NoUser,
           SwitchScan(t) \/ SwitchSave(t) \/ SwitchClear(t)
    PROVE  store'[k] = store[k]
PROOF
<1>1. CASE PutBatch(ents[t]) /\ SwitchSave(t)
  <2>1. ents[t][k] = None
    BY <1>1 DEF SwitchSave, Inv, SwitchOK, PlainOnly
  <2> QED BY <1>1, <2>1 DEF PutBatch, Changed, Present
<1>2. CASE DeleteBatch(del[t]) /\ SwitchClear(t)
  <2>1. pc[t] = "clear"
    BY <1>2 DEF SwitchClear
  <2>2. k \notin del[t]
    BY <2>1 DEF Inv, SwitchOK
  <2> QED BY <1>2, <2>2 DEF DeleteBatch
<1>3. CASE UNCHANGED data
  BY <1>3 DEF data
<1> QED BY <1>1, <1>2, <1>3 DEF SwitchScan, SwitchSave, SwitchClear, data

\* The other steps of tasks are not steps of a user change, and those of other
\* threads move no task, but for a restart.
LEMMA OthersKeepTasks ==
    ASSUME Inv, [Next]_vars, NEW t \in Tasks,
           pc[t] \in {"scan", "save", "clear"}, pc'[t] # pc[t]
    PROVE  \/ SwitchScan(t) \/ SwitchSave(t) \/ SwitchClear(t)
           \/ Restart
PROOF
<1>0. /\ Tasks \subseteq Threads /\ Handler \notin Tasks
      /\ \A c \in Clients : c \notin Tasks
  BY ThreadsAssumption DEF Threads
<1>1. ASSUME NEW c \in Clients, ClientNext(c) PROVE FALSE
  <2>1. PICK l : \/ pc' = [pc EXCEPT ![c] = l]
                 \/ pc' = pc
    BY <1>1, Zenon DEF ClientNext, ClientReturns, Put, PutMore, PutStore, Get, GetRead,
       Delete, DeleteRun, Return, Goto
  <2> QED BY <1>0, <2>1 DEF Inv, CallsOK
<1>2. ASSUME NEW x \in Tasks, x # t, TaskNext(x) PROVE FALSE
  <2>1. PICK l : pc' = [pc EXCEPT ![x] = l]
    BY <1>2, Zenon DEF TaskNext, TaskRuns, UserSwitched, UserRemoved, SwitchBegin, SwitchScan,
       SwitchSave, SwitchClear, SwitchEnd, RemoveScan, RemoveKeys, Done, Goto
  <2> QED BY <1>0, <1>2, <2>1 DEF Inv, CallsOK
<1>3. ASSUME DeviceOnline \/ HandlerRuns PROVE FALSE
  <2>1. PICK l : pc' = [pc EXCEPT ![Handler] = l]
    BY <1>3, Zenon DEF DeviceOnline, HandlerRuns, FixLocal, FixLocalKeys, FixPeer,
       FixPeerKeys, FixEnd, ReInitClose, ReInitOpen, Goto
  <2> QED BY <1>0, <2>1 DEF Inv, CallsOK
<1>4. ASSUME KvDies \/ (\E k \in ForeignKeys : Synced(k)) \/ UNCHANGED vars PROVE FALSE
  BY <1>4 DEF KvDies, Synced, vars
<1>5. ASSUME TaskNext(t) PROVE SwitchScan(t) \/ SwitchSave(t) \/ SwitchClear(t)
  BY <1>5 DEF TaskNext, TaskRuns, UserSwitched, UserRemoved, Submits, SwitchBegin,
     RemoveScan, RemoveKeys
<1> QED BY <1>1, <1>2, <1>3, <1>4, <1>5 DEF Next

\* A user change moves plain keys only: whatever the users and the order of
\* events, it never writes or deletes an entry under the key of a user
\* (OnUserChange).
THEOREM UserDataKept == Spec => SwitchKeepsUserData
PROOF
<1> DEFINE Step == (\E t \in Tasks : pc[t] \in {"scan", "save", "clear"} /\ pc'[t] # pc[t])
                   => \A k \in Keys : k[2] # NoUser => store'[k] = store[k]
<1>1. Inv /\ [Next]_vars => [Step]_vars
  <2> SUFFICES ASSUME Inv, [Next]_vars PROVE Step
    OBVIOUS
  <2> SUFFICES ASSUME NEW t \in Tasks, pc[t] \in {"scan", "save", "clear"}, pc'[t] # pc[t],
                      NEW k \in Keys, k[2] # NoUser
               PROVE  store'[k] = store[k]
    OBVIOUS
  <2>1. CASE Restart
    BY <2>1 DEF Restart, data
  <2> QED BY <2>1, OthersKeepTasks, SwitchStepKeeps
<1> QED BY <1>1, SpecInv, PTL DEF Spec, SwitchKeepsUserData
-----------------------------------------------------------------------------
(* What a repair removes *)

\* While a repair runs, what it has read as this device's entries differs from
\* those that now are by entries written or removed since; what it is about to
\* delete was misplaced when it looked.
Fixing == pc[Handler] \in {"fixLocal", "fixLocalKeys", "fixPeer", "fixPeerKeys"}
FixInv ==
    Fixing =>
        /\ mine \subseteq fix.owned \cup fresh
        /\ fix.owned \cap Present(store) \subseteq mine \cup fresh
        /\ pc[Handler] = "fixLocalKeys" =>
              \A k \in del[Handler] : k[1] \in LocalNames /\ k \notin fix.owned
        /\ pc[Handler] = "fixPeerKeys" =>
              \A k \in del[Handler] :
                  \/ fix.peer = "oh" /\ k[1] \in PeerNames /\ k \in fix.owned
                  \/ fix.peer = "nonoh" /\ k[1] \in OhNames

\* What a step may do to the store while a repair runs.
StoreStep ==
    \/ UNCHANGED <<data, fresh>>
    \/ \E e \in Entries : PutBatch(e)
    \/ UNCHANGED fresh /\ \E ks : DeleteBatch(ks)
    \/ \E k \in ForeignKeys : Synced(k)

\* Such a step, of the store alone, keeps the repair's knowledge up to date.
LEMMA StoreStepFix ==
    ASSUME Inv, Fixing, StoreStep, fix' = fix,
           mine \subseteq fix.owned \cup fresh,
           fix.owned \cap Present(store) \subseteq mine \cup fresh
    PROVE  /\ mine' \subseteq fix'.owned \cup fresh'
           /\ fix'.owned \cap Present(store') \subseteq mine' \cup fresh'
PROOF
<1>0. pc[Handler] # "idle"
  BY DEF Fixing
<1>1. CASE UNCHANGED <<data, fresh>>
  BY <1>1 DEF data, Present
<1>2. CASE \E e \in Entries : PutBatch(e)
  <2>1. PICK e \in Entries : PutBatch(e)
    BY <1>2
  <2>2. mine' = mine \cup Changed(e) /\ fresh' = fresh \cup Changed(e)
    BY <1>0, <2>1 DEF PutBatch, Refresh
  <2>3. Present(store') \subseteq Present(store) \cup Changed(e)
    BY <2>1 DEF PutBatch, Present
  <2> QED BY <2>2, <2>3
<1>3. CASE UNCHANGED fresh /\ \E ks : DeleteBatch(ks)
  <2>1. PICK ks : DeleteBatch(ks)
    BY <1>3
  <2>2. mine' = mine \ ks /\ fresh' = fresh
    BY <1>3, <2>1 DEF DeleteBatch
  <2>3. Present(store') \subseteq Present(store) \ ks
    BY <2>1 DEF DeleteBatch, Present
  <2> QED BY <2>2, <2>3
<1>4. CASE \E k \in ForeignKeys : Synced(k)
  <2>1. PICK k \in ForeignKeys : Synced(k)
    BY <1>4
  <2>2. fresh' = fresh \cup {k} /\ mine \ {k} \subseteq mine' /\ mine' \subseteq mine \cup {k}
    BY <1>0, <2>1 DEF Synced, Refresh
  <2>3. Present(store') \subseteq Present(store) \cup {k}
    BY <2>1 DEF Synced, Present, Inv, StoreOK, Entries
  <2> QED BY <2>2, <2>3
<1> QED BY <1>1, <1>2, <1>3, <1>4 DEF StoreStep

\* The other threads write the store, and leave the repair alone.
LEMMA OthersStore ==
    ASSUME Inv, \/ \E c \in Clients : ClientNext(c)
                \/ \E t \in Tasks : TaskNext(t)
                \/ KvDies \/ (\E k \in ForeignKeys : Synced(k)) \/ UNCHANGED vars
    PROVE  /\ StoreStep
           /\ fix' = fix /\ pc'[Handler] = pc[Handler] /\ del'[Handler] = del[Handler]
PROOF
<1>0. /\ Handler \in Threads /\ Handler \notin Clients /\ Handler \notin Tasks
      /\ Clients \subseteq Threads /\ Tasks \subseteq Threads
      /\ pc \in [Threads -> Pcs] /\ del \in [Threads -> SUBSET Keys]
      /\ ents \in [Threads -> Entries]
  BY ThreadsAssumption DEF Threads, Inv, CallsOK, DelOK, EntsOK
<1>1. CASE \E c \in Clients : ClientNext(c)
  <2>1. PICK c \in Clients : ClientNext(c)
    BY <1>1
  <2>2. PICK l : \/ pc' = [pc EXCEPT ![c] = l]
                 \/ pc' = pc
    BY <2>1, Zenon DEF ClientNext, ClientReturns, Put, PutMore, PutStore, Get, GetRead,
       Delete, DeleteRun, Return, Goto
  <2>3. fix' = fix /\ del' = del
    BY <2>1 DEF ClientNext, ClientReturns, Put, PutMore, PutStore, Get, GetRead, Delete,
       DeleteRun, locals
  <2>4. StoreStep
    <3>1. CASE PutStore(c)
      <4>1. PutBatch(ents[c]) \/ UNCHANGED <<data, fresh>>
        BY <3>1 DEF PutStore, data
      <4> QED BY <1>0, <4>1 DEF StoreStep
    <3>2. CASE DeleteRun(c)
      <4>1. UNCHANGED fresh /\ (UNCHANGED data \/ DeleteBatch(Targets(req[c].name, req[c].user)))
        BY <3>2 DEF DeleteRun
      <4> QED BY <4>1 DEF StoreStep
    <3>3. CASE Put(c) \/ PutMore(c) \/ Get(c) \/ GetRead(c) \/ Delete(c)
      BY <3>3 DEF Put, PutMore, Get, GetRead, Delete, StoreStep
    <3> QED BY <2>1, <3>1, <3>2, <3>3 DEF ClientNext, ClientReturns
  <2> QED BY <1>0, <2>2, <2>3, <2>4
<1>2. CASE \E t \in Tasks : TaskNext(t)
  <2>1. PICK t \in Tasks : TaskNext(t)
    BY <1>2
  <2>2. PICK l : pc' = [pc EXCEPT ![t] = l]
    BY <2>1, Zenon DEF TaskNext, TaskRuns, UserSwitched, UserRemoved, SwitchBegin, SwitchScan,
       SwitchSave, SwitchClear, SwitchEnd, RemoveScan, RemoveKeys, Done, Goto
  <2>3. PICK d : \/ del' = [del EXCEPT ![t] = d]
                 \/ del' = del
    BY <2>1, Zenon DEF TaskNext, TaskRuns, UserSwitched, UserRemoved, SwitchBegin, SwitchScan,
       SwitchSave, SwitchClear, SwitchEnd, RemoveScan, RemoveKeys, locals
  <2>4. fix' = fix
    BY <2>1 DEF TaskNext, TaskRuns, UserSwitched, UserRemoved, SwitchBegin, SwitchScan,
       SwitchSave, SwitchClear, RemoveScan, RemoveKeys
  <2>5. StoreStep
    <3>1. CASE SwitchSave(t)
      <4>1. PutBatch(ents[t]) \/ UNCHANGED <<data, fresh>>
        BY <3>1 DEF SwitchSave, data
      <4> QED BY <1>0, <4>1 DEF StoreStep
    <3>2. CASE SwitchClear(t) \/ RemoveKeys(t)
      <4>1. UNCHANGED fresh /\ (UNCHANGED data \/ DeleteBatch(del[t]))
        BY <3>2 DEF SwitchClear, RemoveKeys
      <4> QED BY <4>1 DEF StoreStep
    <3>3. CASE \/ UserSwitched(t) \/ UserRemoved(t) \/ SwitchBegin(t) \/ SwitchScan(t)
               \/ RemoveScan(t)
      BY <3>3 DEF UserSwitched, UserRemoved, SwitchBegin, SwitchScan, RemoveScan, StoreStep
    <3> QED BY <2>1, <3>1, <3>2, <3>3 DEF TaskNext, TaskRuns
  <2> QED BY <1>0, <2>2, <2>3, <2>4, <2>5
<1>3. CASE KvDies \/ (\E k \in ForeignKeys : Synced(k)) \/ UNCHANGED vars
  BY <1>3 DEF KvDies, Synced, vars, locals, StoreStep
<1> QED BY <1>1, <1>2, <1>3
\* Every step keeps the repair's knowledge up to date.
LEMMA NextFix == Inv /\ FixInv /\ [Next]_vars => FixInv'
PROOF
<1> SUFFICES ASSUME Inv, FixInv, [Next]_vars, Fixing' PROVE FixInv'
  BY DEF FixInv
<1>0. /\ Handler \in Threads /\ pc \in [Threads -> Pcs] /\ del \in [Threads -> SUBSET Keys]
      /\ fix \in [peer : {"none", "unknown", "oh", "nonoh"}, owned : SUBSET Keys]
  BY DEF Threads, Inv, CallsOK, DelOK, UsersOK
<1>1. CASE \/ \E c \in Clients : ClientNext(c)
           \/ \E t \in Tasks : TaskNext(t)
           \/ KvDies \/ (\E k \in ForeignKeys : Synced(k)) \/ UNCHANGED vars
  <2>1. /\ StoreStep
        /\ fix' = fix /\ pc'[Handler] = pc[Handler] /\ del'[Handler] = del[Handler]
    BY <1>1, OthersStore
  <2>2. Fixing
    BY <2>1 DEF Fixing
  <2>3. /\ mine' \subseteq fix'.owned \cup fresh'
        /\ fix'.owned \cap Present(store') \subseteq mine' \cup fresh'
    BY <2>1, <2>2, StoreStepFix DEF FixInv
  <2> QED BY <2>1, <2>2, <2>3 DEF FixInv
<1>2. CASE DeviceOnline
  <2>1. pc'[Handler] = "fixLocal" /\ fix'.owned = mine /\ UNCHANGED data
    BY <1>0, <1>2 DEF DeviceOnline, Goto
  <2> QED BY <2>1 DEF FixInv, data, Present
<1>3. CASE FixLocal
  <2>1. /\ Fixing /\ UNCHANGED <<data, fix, fresh>>
        /\ \/ pc'[Handler] = "fixLocalKeys" /\ del'[Handler] = Misplaced
           \/ pc'[Handler] = "fixPeer"
    BY <1>0, <1>3 DEF FixLocal, Fixing, Goto
  <2>2. \A k \in Misplaced : k[1] \in LocalNames /\ k \notin fix.owned
    BY DEF Misplaced, Scanned
  <2> QED BY <2>1, <2>2 DEF FixInv, data, Present
<1>4. CASE FixLocalKeys
  <2>1. /\ Fixing /\ UNCHANGED <<fix, fresh>> /\ pc'[Handler] = "fixPeer"
        /\ UNCHANGED data \/ DeleteBatch(del[Handler])
    BY <1>0, <1>4 DEF FixLocalKeys, FixDelete, Fixing, Goto
  <2>2. StoreStep
    BY <2>1 DEF StoreStep
  <2>3. /\ mine' \subseteq fix'.owned \cup fresh'
        /\ fix'.owned \cap Present(store') \subseteq mine' \cup fresh'
    BY <2>1, <2>2, StoreStepFix DEF FixInv
  <2> QED BY <2>1, <2>3 DEF FixInv
<1>5. CASE FixPeer
  <2>1. Fixing /\ pc[Handler] = "fixPeer" /\ UNCHANGED data
    BY <1>5 DEF FixPeer, Fixing
  <2>2. ~FixEnd
    BY <1>0 DEF FixEnd, Goto, Fixing
  <2>3. /\ UNCHANGED <<fix, fresh>> /\ pc'[Handler] = "fixPeerKeys"
        /\ \/ fix.peer = "oh" /\ del'[Handler] = WrittenForPeer
           \/ fix.peer = "nonoh" /\ del'[Handler] = OhEntries
    <3> DEFINE ks == CASE fix.peer = "oh" -> WrittenForPeer
                       [] fix.peer = "nonoh" /\ Scannable(PeerNames) -> OhEntries
                       [] OTHER -> {}
    <3>1. ks # {} /\ del' = [del EXCEPT ![Handler] = ks]
          /\ Goto(Handler, "fixPeerKeys") /\ UNCHANGED <<fix, fresh>>
      BY <1>5, <2>2 DEF FixPeer
    <3>2. \/ fix.peer = "oh" /\ ks = WrittenForPeer
          \/ fix.peer = "nonoh" /\ ks = OhEntries
      BY <3>1
    <3> HIDE DEF ks
    <3> QED BY <1>0, <3>1, <3>2 DEF Goto
  <2>4. /\ \A k \in WrittenForPeer : k[1] \in PeerNames /\ k \in fix.owned
        /\ \A k \in OhEntries : k[1] \in OhNames
    BY DEF WrittenForPeer, OhEntries
  <2> QED BY <2>1, <2>3, <2>4 DEF FixInv, data, Present
<1>6. CASE FixPeerKeys \/ ReInitClose \/ ReInitOpen \/ Restart
  <2>1. pc'[Handler] \in {"idle", "reopen"}
    BY <1>0, <1>6, ThreadsAssumption DEF FixPeerKeys, FixEnd, ReInitClose, ReInitOpen,
       Restart, Goto
  <2> QED BY <2>1 DEF Fixing
<1> QED BY <1>1, <1>2, <1>3, <1>4, <1>5, <1>6 DEF Next, HandlerRuns

\* A repair that deletes removes what it may, and what was written meanwhile.
LEMMA FixStepRemoves ==
    ASSUME Inv, FixInv, [Next]_vars, FixStep, NEW k \in Keys, Removes(k)
    PROVE  Removable(k) \/ k \in fresh
PROOF
<1>0. Fixing /\ k \in Present(store) /\ store'[k] # store[k]
  BY DEF FixStep, Fixing, Removes, Present
<1>1. FixLocalKeys \/ FixPeerKeys
  <2>1. CASE \/ \E c \in Clients : ClientNext(c)
             \/ \E t \in Tasks : TaskNext(t)
             \/ KvDies \/ (\E x \in ForeignKeys : Synced(x)) \/ UNCHANGED vars
    BY <2>1, OthersStore DEF FixStep
  <2>2. CASE Restart
    BY <1>0, <2>2 DEF Restart, data
  <2>3. CASE DeviceOnline \/ FixLocal \/ FixPeer \/ ReInitClose \/ ReInitOpen
    BY <2>3 DEF FixStep, DeviceOnline, FixLocal, FixPeer, ReInitClose, ReInitOpen
  <2> QED BY <2>1, <2>2, <2>3 DEF Next, HandlerRuns
<1>2. k \in del[Handler]
  BY <1>0, <1>1 DEF FixLocalKeys, FixPeerKeys, FixDelete, DeleteBatch, data
<1>3. CASE pc[Handler] = "fixLocalKeys"
  BY <1>0, <1>2, <1>3 DEF FixInv, Removable
<1>4. CASE pc[Handler] = "fixPeerKeys"
  BY <1>0, <1>2, <1>4 DEF FixInv, Removable
<1> QED BY <1>3, <1>4 DEF FixStep

\* A repair removes local entries this device has not written, what it has
\* written for an OpenHarmony peer, or the OpenHarmony entries of another peer,
\* and nothing else but what was written after it had read which entries are
\* this device's, however it interleaves with the other threads
\* (FixDataOnDeviceOnline).
THEOREM RepairsBounded == Spec => FixRemovesMisplaced
PROOF
<1> DEFINE Step == FixStep => \A k \in Keys : Removes(k) => Removable(k) \/ k \in fresh
<1>1. Init => FixInv
  BY DEF Init, FixInv, Fixing, Threads
<1>2. Spec => [](Inv /\ FixInv)
  BY <1>1, InitInv, NextInv, NextFix, PTL DEF Spec
<1>3. Inv /\ FixInv /\ [Next]_vars => [Step]_vars
  BY FixStepRemoves
<1> QED BY <1>2, <1>3, PTL DEF Spec, FixRemovesMisplaced
-----------------------------------------------------------------------------
(* What the plain keys show, and what is left of a removed user *)

\* foregroundUserIdLock_ is held over the three critical sections of OnUserChange.
Changing(t) == pc[t] \in {"scan", "save", "clear"}
Removing(t) == pc[t] \in {"remove", "removeKeys"}
Switching(t) == pc[t] = "switch" \/ Changing(t)
FgLockInv == \A t \in Tasks : Changing(t) => fgLock = t
\* Between puts a client has nothing to write.
IdleEnts == \A c \in Clients : pc[c] = "put" \/ ents[c] = NoEntries

\* While nothing has disturbed user changes: one account event is handled at a time, and
\* between switches MultiUserManager has the user that is in the foreground.
OneEvent == \A s, t \in Tasks : pc[s] # "idle" /\ pc[t] # "idle" => s = t
EventUsers ==
    /\ osFg \notin gone
    /\ \A t \in Tasks : /\ Switching(t) => who[t] = osFg
                        /\ Removing(t) => who[t] \in gone
                        /\ pc[t] = "removeKeys" => \A k \in del[t] : k[2] = who[t]
    /\ (\A t \in Tasks : ~Switching(t)) => fg = osFg

\* A plain key shows what the foreground user has put, and has still under his own key;
\* while a user change is under way, what it will overwrite or delete is in its hands.
Shown(n) == store[Plain(n)] # None /\ store[Plain(n)][1] # NoUser
Shower(n) == store[Plain(n)][1]
Held(n) ==
    /\ store[<<n, Shower(n)>>] # None
    /\ (\A t \in Tasks : pc[t] # "clear") => Shower(n) = Foreground
    /\ \A t \in Tasks :
          /\ pc[t] = "save" =>
                Shower(n) = who[t] \/ Plain(n) \in del[t] \/ ents[t][Plain(n)] # None
          /\ pc[t] = "clear" => Shower(n) = who[t] \/ Plain(n) \in del[t]
PlainShows == \A n \in LocalNames : Shown(n) => Held(n)
SaveShows ==
    \A t \in Tasks, n \in LocalNames : pc[t] = "save" /\ ents[t][Plain(n)] # None =>
        ents[t][Plain(n)][1] = who[t] /\ store[<<n, who[t]>>] # None

\* A put or a get that no user change has overtaken knows the foreground user.
PutsCalm ==
    \A c \in Clients : pc[c] = "put" =>
        /\ fg # NoUser
        /\ c \notin overtaken => \A n \in LocalNames :
              ents[c][Plain(n)] # None /\ ents[c][Plain(n)][1] # NoUser =>
                  /\ ents[c][Plain(n)][1] = fg /\ ents[c][<<n, fg>>] # None
                  /\ \A t \in Tasks : ~Changing(t)
GetsCalm ==
    \A c \in Clients : pc[c] = "get" =>
        /\ req[c].name \in PutNames
        /\ c \notin overtaken /\ req[c].user # NoUser =>
              req[c].user = fg /\ \A t \in Tasks : ~Changing(t)

\* What is left of a removed user is about to be found and deleted.
GoneCalm ==
    \A u \in gone, n \in LocalNames :
        /\ store[<<n, u>>] # None =>
              \E t \in Tasks : /\ who[t] = u
                              /\ \/ pc[t] = "remove"
                                 \/ pc[t] = "removeKeys" /\ <<n, u>> \in del[t]
        /\ \A c \in Clients : pc[c] = "put" /\ c \notin overtaken /\ ents[c][<<n, u>>] # None =>
              \E t \in Tasks : who[t] = u /\ pc[t] = "remove"

Calm == OneEvent /\ EventUsers /\ PlainShows /\ SaveShows /\ PutsCalm /\ GetsCalm /\ GoneCalm
CalmInv == FgLockInv /\ IdleEnts /\ (upset = {} => Calm)

\* What is neither changed nor removed.
TaskStays(t) == /\ pc'[t] = pc[t] /\ who'[t] = who[t]
                /\ del'[t] = del[t] /\ ents'[t] = ents[t]
TasksStay == (\A t \in Tasks : TaskStays(t)) /\ UNCHANGED <<who, osFg, gone>>
ClientStays(c) == /\ pc'[c] = pc[c] /\ ents'[c] = ents[c] /\ req'[c] = req[c]
                  /\ (c \in overtaken => c \in overtaken')

\* A local name and its keys.
LEMMA LocalKeys ==
    /\ \A n \in Names : Plain(n) = <<n, NoUser>> /\ Plain(n) \in Keys
    /\ \A n \in Names, u \in Owners : <<n, u>> \in Keys
    /\ \A n \in Names, u \in Users : Plain(n) # <<n, u>>
    /\ LocalNames \subseteq Names /\ PutNames \subseteq LocalNames
    /\ NoUser \notin Users /\ Owners = Users \cup {NoUser}
PROOF
  BY NamesAssumption, UsersAssumption DEF Keys, Plain, Names, Owners

\* A stored value is somebody's.
LEMMA ValueOwners == \A v \in Value : v[1] \in Owners
PROOF
  BY DEF Value

\* Nothing is recorded as a disturbance and nothing was before.
LEMMA NotDisturbed ==
    ASSUME NEW how, NEW when, Disturbed(how, when), upset' = {}
    PROVE  upset = {} /\ ~when
PROOF
  BY DEF Disturbed

\* While no task moves and the foreground user is at most asked for, events go on.
LEMMA EventsStay ==
    ASSUME Inv, OneEvent, EventUsers, TasksStay, fg' \in {fg, Foreground}
    PROVE  /\ OneEvent' /\ EventUsers' /\ Foreground' = Foreground
           /\ \A t \in Tasks : Changing(t)' <=> Changing(t)
PROOF
<1>1. \A t \in Tasks : /\ pc'[t] = pc[t] /\ who'[t] = who[t] /\ del'[t] = del[t]
                       /\ Changing(t)' = Changing(t) /\ Switching(t)' = Switching(t)
                       /\ Removing(t)' = Removing(t)
  BY DEF TasksStay, TaskStays, Changing, Switching, Removing
<1>2. OneEvent'
  BY <1>1 DEF OneEvent
<1>3. Foreground' = Foreground
  BY UsersAssumption DEF TasksStay, Foreground, Inv, UsersOK
<1>4. (\A t \in Tasks : ~Switching(t)') => fg' = osFg'
  BY <1>1, UsersAssumption DEF EventUsers, TasksStay, Foreground, Inv, UsersOK
<1>5. EventUsers'
  BY <1>1, <1>4 DEF EventUsers, TasksStay
<1> QED BY <1>1, <1>2, <1>3, <1>5

\* A change of the store that keeps what the plain keys show: a plain key is as it was, shows
\* nothing or what was put without a user, or shows a put for the foreground user while no
\* user change is under way; and of the entries of users those go whose plain key goes too,
\* or that are not the foreground user's.
StoreFine ==
    /\ \A n \in LocalNames :
          \/ store'[Plain(n)] = store[Plain(n)]
          \/ ~Shown(n)'
          \/ /\ store'[Plain(n)][1] = Foreground /\ store'[<<n, Foreground>>] # None
             /\ \A t \in Tasks : ~Changing(t)
    /\ \A n \in LocalNames, u \in Users : store[<<n, u>>] # None =>
          \/ store'[<<n, u>>] # None
          \/ (\A t \in Tasks : ~Changing(t)) /\ (u # Foreground \/ ~Shown(n)')

\* The owner of a plain entry that shows a user's put is a user.
LEMMA ShownOwner ==
    ASSUME Inv, NEW n \in LocalNames, Shown(n)
    PROVE  store[Plain(n)][1] \in Users
PROOF
<1>1. Plain(n) \in Keys
  BY LocalKeys
<1>2. store[Plain(n)] \in Value
  BY <1>1 DEF Inv, StoreOK, Entries, Shown
<1> QED BY <1>2, ValueOwners, LocalKeys DEF Shown

\* Such a change, beside which no user change moves, keeps what plain keys show.
LEMMA ShowsStay ==
    ASSUME Inv, Inv', PlainShows, SaveShows, StoreFine, Foreground' = Foreground,
           \A t \in Tasks : /\ pc'[t] \in {"save", "clear"} => TaskStays(t)
                            /\ pc[t] = "clear" => pc'[t] = "clear"
    PROVE  PlainShows' /\ SaveShows'
PROOF
<1>1. ASSUME NEW n \in LocalNames, Shown(n)' PROVE Held(n)'
  <2>1. CASE store'[Plain(n)] = store[Plain(n)]
    <3>1. Shown(n) /\ Shower(n)' = Shower(n)
      BY <1>1, <2>1 DEF Shown, Shower
    <3>2. Shower(n) \in Users /\ Held(n)
      BY <3>1, ShownOwner DEF PlainShows, Shower
    <3>3. (\A t \in Tasks : ~Changing(t)) => Shower(n) = Foreground
      BY <3>2 DEF Held, Changing
    <3>4. store'[<<n, Shower(n)>>] # None
      BY <1>1, <3>2, <3>3 DEF StoreFine, Held
    <3>5. (\A t \in Tasks : pc'[t] # "clear") => Shower(n) = Foreground'
      BY <3>2 DEF Held
    <3>6. \A t \in Tasks :
              /\ pc'[t] = "save" =>
                    Shower(n) = who'[t] \/ Plain(n) \in del'[t] \/ ents'[t][Plain(n)] # None
              /\ pc'[t] = "clear" => Shower(n) = who'[t] \/ Plain(n) \in del'[t]
      BY <3>2 DEF Held, TaskStays
    <3> QED BY <3>1, <3>4, <3>5, <3>6 DEF Held
  <2>2. CASE /\ store'[Plain(n)][1] = Foreground /\ store'[<<n, Foreground>>] # None
             /\ \A t \in Tasks : ~Changing(t)
    <3>1. \A t \in Tasks : pc'[t] \notin {"save", "clear"}
      BY <2>2 DEF TaskStays, Changing
    <3> QED BY <2>2, <3>1 DEF Held, Shower
  <2> QED BY <1>1, <2>1, <2>2 DEF StoreFine
<1>2. ASSUME NEW t \in Tasks, NEW n \in LocalNames, pc'[t] = "save", ents'[t][Plain(n)] # None
      PROVE  ents'[t][Plain(n)][1] = who'[t] /\ store'[<<n, who'[t]>>] # None
  <2>1. pc[t] = "save" /\ ents'[t] = ents[t] /\ who'[t] = who[t] /\ Changing(t)
    BY <1>2 DEF TaskStays, Changing
  <2>2. who[t] \in Users
    BY DEF Inv, UsersOK
  <2> QED BY <1>2, <2>1, <2>2 DEF SaveShows, StoreFine
<1>3. PlainShows'
  BY <1>1 DEF PlainShows
<1>4. SaveShows'
  BY <1>2 DEF SaveShows
<1> QED BY <1>3, <1>4

\* Puts and gets that are not overtaken stay so while no user change begins.
LEMMA CallsStay ==
    ASSUME Inv, PutsCalm, GetsCalm, fg' \in {fg, Foreground}, NEW C \in SUBSET Clients,
           \A c \in C : pc'[c] \in {"put", "get"} => ClientStays(c),
           \A t \in Tasks : Changing(t)' => Changing(t)
    PROVE  /\ \A c \in C : pc'[c] = "put" => fg' # NoUser
           /\ \A c \in C, n \in LocalNames :
                 pc'[c] = "put" /\ c \notin overtaken'
                 /\ ents'[c][Plain(n)] # None /\ ents'[c][Plain(n)][1] # NoUser =>
                     /\ ents'[c][Plain(n)][1] = fg' /\ ents'[c][<<n, fg'>>] # None
                     /\ \A t \in Tasks : ~Changing(t)'
           /\ \A c \in C : pc'[c] = "get" => req'[c].name \in PutNames
           /\ \A c \in C : pc'[c] = "get" /\ c \notin overtaken' /\ req'[c].user # NoUser =>
                 req'[c].user = fg' /\ \A t \in Tasks : ~Changing(t)'
PROOF
<1>1. \A c \in Clients : pc[c] = "put" => fg' = fg /\ fg # NoUser
  BY DEF PutsCalm, Foreground
<1>2. \A c \in Clients : pc[c] = "get" /\ req[c].user # NoUser /\ c \notin overtaken =>
          fg' = fg /\ req[c].user = fg
  BY DEF GetsCalm, Foreground
<1>3. \A c \in C : pc'[c] = "put" => pc[c] = "put" /\ ents'[c] = ents[c] /\ (c \in overtaken => c \in overtaken')
  BY DEF ClientStays
<1>4. \A c \in C : pc'[c] = "get" => pc[c] = "get" /\ req'[c] = req[c] /\ (c \in overtaken => c \in overtaken')
  BY DEF ClientStays
<1>5. \A c \in C : pc'[c] = "put" => fg' # NoUser
  BY <1>1, <1>3
<1>6. \A c \in C, n \in LocalNames :
         pc'[c] = "put" /\ c \notin overtaken'
         /\ ents'[c][Plain(n)] # None /\ ents'[c][Plain(n)][1] # NoUser =>
             /\ ents'[c][Plain(n)][1] = fg' /\ ents'[c][<<n, fg'>>] # None
             /\ \A t \in Tasks : ~Changing(t)'
  BY <1>1, <1>3 DEF PutsCalm
<1>7. \A c \in C : pc'[c] = "get" => req'[c].name \in PutNames
  BY <1>4 DEF GetsCalm
<1>8. \A c \in C : pc'[c] = "get" /\ c \notin overtaken' /\ req'[c].user # NoUser =>
         req'[c].user = fg' /\ \A t \in Tasks : ~Changing(t)'
  BY <1>2, <1>4 DEF GetsCalm
<1> QED BY <1>5, <1>6, <1>7, <1>8

\* A call of a client moves no task and no other client.
LEMMA ClientFrame ==
    ASSUME Inv, NEW c \in Clients, ClientNext(c)
    PROVE  /\ TasksStay /\ fgLock' = fgLock /\ fg' \in {fg, Foreground}
           /\ \A d \in Clients \ {c} : ClientStays(d)
           /\ upset' = {} => upset = {}
PROOF
<1>0. /\ c \notin Tasks /\ Tasks \subseteq Threads /\ Clients \subseteq Threads
      /\ pc \in [Threads -> Pcs] /\ ents \in [Threads -> Entries]
      /\ req \in [Clients -> [name : Names, user : Owners]]
  BY ThreadsAssumption DEF Threads, Inv, CallsOK, EntsOK
<1>1. PICK l : \/ pc' = [pc EXCEPT ![c] = l]
               \/ pc' = pc
  BY Zenon DEF ClientNext, ClientReturns, Put, PutMore, PutStore, Get, GetRead,
     Delete, DeleteRun, Return, Goto
<1>2. PICK e : \/ ents' = [ents EXCEPT ![c] = e]
               \/ ents' = ents
  BY Zenon DEF ClientNext, ClientReturns, Put, PutMore, PutStore, Get, GetRead,
     Delete, DeleteRun, Profile, locals
<1>3. PICK r : req' = [req EXCEPT ![c] = r]
  BY Zenon DEF ClientNext, ClientReturns, Put, PutMore, PutStore, Get, GetRead,
     Delete, DeleteRun, Profile, Return
<1>4. UNCHANGED <<who, osFg, gone, del, fgLock>>
  BY DEF ClientNext, ClientReturns, Put, PutMore, PutStore, Get, GetRead,
     Delete, DeleteRun, users, locals, locks
<1>5. fg' \in {fg, Foreground}
  BY DEF ClientNext, ClientReturns, Put, PutMore, PutStore, Get, GetRead,
     Delete, DeleteRun, Profile, AskForeground
<1>6. overtaken \ {c} \subseteq overtaken'
  BY DEF ClientNext, ClientReturns, Put, PutMore, PutStore, Get, GetRead,
     Delete, DeleteRun, Return, history
<1>7. upset' = {} => upset = {}
  BY DEF ClientNext, ClientReturns, Put, PutMore, PutStore, Get, GetRead,
     Delete, DeleteRun, Disturbed, history
<1>8. TasksStay
  BY <1>0, <1>1, <1>2, <1>4 DEF TasksStay, TaskStays
<1>9. \A d \in Clients \ {c} : ClientStays(d)
  BY <1>0, <1>1, <1>2, <1>3, <1>6 DEF ClientStays
<1> QED BY <1>4, <1>5, <1>7, <1>8, <1>9

\* What a call changes in the store: nothing, the entries of a put, or the keys of a delete.
LEMMA ClientStores ==
    ASSUME Inv, NEW c \in Clients, ClientNext(c)
    PROVE  \/ store' = store
           \/ PutStore(c) /\ PutBatch(ents[c]) /\ Disturbed("overtaken", c \in overtaken)
           \/ DeleteRun(c) /\ DeleteBatch(Targets(req[c].name, req[c].user))
PROOF
  BY DEF ClientNext, ClientReturns, Put, PutMore, PutStore, Get, GetRead, Delete, DeleteRun, data

\* A call of a client keeps what the plain keys show.
LEMMA ClientShows ==
    ASSUME Inv, FgLockInv, Calm, NEW c \in Clients, ClientNext(c), upset' = {}
    PROVE  StoreFine
PROOF
<1>1. CASE store' = store
  BY <1>1, LocalKeys DEF StoreFine
<1>2. CASE PutStore(c) /\ PutBatch(ents[c]) /\ Disturbed("overtaken", c \in overtaken)
  <2>1. \A k \in Keys : store'[k] = IF k \in Changed(ents[c]) THEN ents[c][k] ELSE store[k]
    BY <1>2 DEF PutBatch
  <2>2. \A k \in Keys : ents[c][k] # None => store'[k] = ents[c][k]
    BY <2>1 DEF Changed, Present
  <2>3. \A k \in Keys : store'[k] = store[k] \/ (store'[k] = ents[c][k] /\ ents[c][k] # None)
    BY <2>1 DEF Changed, Present
  <2>4. c \notin overtaken /\ pc[c] = "put"
    BY <1>2 DEF PutStore, Disturbed
  <2>5. fg # NoUser /\ Foreground = fg /\ fg \in Users
    BY <2>4, LocalKeys DEF Calm, PutsCalm, Foreground, Inv, UsersOK
  <2>6. ASSUME NEW n \in LocalNames, Shown(n)', store'[Plain(n)] # store[Plain(n)]
        PROVE  /\ store'[Plain(n)][1] = Foreground /\ store'[<<n, Foreground>>] # None
               /\ \A t \in Tasks : ~Changing(t)
    <3>1. /\ Plain(n) \in Keys /\ <<n, fg>> \in Keys
      BY <2>5, LocalKeys
    <3>2. store'[Plain(n)] = ents[c][Plain(n)] /\ ents[c][Plain(n)] # None /\ ents[c][Plain(n)][1] # NoUser
      BY <2>3, <2>6, <3>1 DEF Shown
    <3>3. /\ ents[c][Plain(n)][1] = fg /\ ents[c][<<n, fg>>] # None
          /\ \A t \in Tasks : ~Changing(t)
      BY <2>4, <3>2 DEF Calm, PutsCalm
    <3> QED BY <2>2, <2>5, <3>1, <3>2, <3>3
  <2>7. \A n \in LocalNames, u \in Users : store[<<n, u>>] # None => store'[<<n, u>>] # None
    BY <2>3, LocalKeys
  <2> QED BY <2>6, <2>7 DEF StoreFine
<1>3. CASE DeleteRun(c) /\ DeleteBatch(Targets(req[c].name, req[c].user))
  <2> DEFINE m == req[c].name
             w == req[c].user
  <2>1. \A k \in Keys : store'[k] = IF k \in Targets(m, w) THEN None ELSE store[k]
    BY <1>3 DEF DeleteBatch
  <2>2. Targets(m, w) \subseteq {<<m, w>>, Plain(m)}
    BY DEF Targets
  <2>3. \A n \in LocalNames : store'[Plain(n)] = store[Plain(n)] \/ ~Shown(n)'
    BY <2>1, LocalKeys DEF Shown
  <2>4. ASSUME NEW n \in LocalNames, NEW u \in Users, store[<<n, u>>] # None, store'[<<n, u>>] = None
        PROVE  (\A t \in Tasks : ~Changing(t)) /\ (u # Foreground \/ ~Shown(n)')
    <3>1. <<n, u>> \in Keys /\ Plain(n) \in Keys /\ u # NoUser
      BY LocalKeys
    <3>2. <<n, u>> \in Targets(m, w)
      BY <2>1, <2>4, <3>1
    <3>3. n = m /\ u = w
      BY <2>2, <3>1, <3>2 DEF Plain
    <3>4. fgLock = Free
      BY <1>3, <3>1, <3>3 DEF DeleteRun, AskForeground
    <3>5. \A t \in Tasks : ~Changing(t)
      BY <3>4, ThreadsAssumption DEF FgLockInv, Threads
    <3>6. u = Foreground => Plain(n) \in Targets(m, w)
      BY <3>3 DEF Targets
    <3>7. u = Foreground => ~Shown(n)'
      BY <2>1, <3>1, <3>6 DEF Shown
    <3> QED BY <3>5, <3>7
  <2> QED BY <2>3, <2>4 DEF StoreFine
<1> QED BY <1>1, <1>2, <1>3, ClientStores

\* One profile of a put is written for the foreground user, and for nobody who is gone.
LEMMA ProfileCalm ==
    ASSUME Inv, FgLockInv, Calm, NEW c \in Clients, NEW m \in PutNames, NEW w \in Living,
           NEW v \in Values, Profile(c, m, w, v), fg # NoUser
    PROVE  /\ fg' = fg
           /\ \A n \in LocalNames :
                 /\ ents'[c][Plain(n)] # None /\ ents'[c][Plain(n)][1] # NoUser =>
                       \/ ents'[c][Plain(n)] = ents[c][Plain(n)]
                       \/ /\ ents'[c][Plain(n)][1] = fg /\ ents'[c][<<n, fg>>] # None
                          /\ \A t \in Tasks : ~Changing(t)
                 /\ \A u \in Users : ents[c][<<n, u>>] # None => ents'[c][<<n, u>>] # None
                 /\ \A u \in gone : ents'[c][<<n, u>>] = ents[c][<<n, u>>]
PROOF
<1>0. c \in Threads /\ w \in Owners /\ Foreground = fg /\ fg \in Users /\ gone \subseteq Users
  BY LocalKeys DEF Threads, Living, Foreground, Inv, UsersOK
<1>1. fg' = fg
  BY <1>0 DEF Profile, AskForeground
<1>2. \A k \in Keys : ents'[c][k] = IF k \in Targets(m, w) THEN <<w, v>> ELSE ents[c][k]
  BY <1>0 DEF Profile, Inv, EntsOK
<1>3. <<w, v>> # None
  BY <1>0, ValuesAssumption DEF Value
<1>4. ASSUME NEW n \in LocalNames, ents'[c][Plain(n)] # None, ents'[c][Plain(n)][1] # NoUser,
             ents'[c][Plain(n)] # ents[c][Plain(n)]
      PROVE  /\ ents'[c][Plain(n)][1] = fg /\ ents'[c][<<n, fg>>] # None
             /\ \A t \in Tasks : ~Changing(t)
  <2>1. Plain(n) \in Keys /\ <<n, fg>> \in Keys
    BY <1>0, LocalKeys
  <2>2. Plain(n) \in Targets(m, w) /\ ents'[c][Plain(n)] = <<w, v>> /\ w # NoUser
    BY <1>2, <1>4, <2>1
  <2>3. n = m /\ w = fg
    BY <1>0, <2>2 DEF Targets, Plain
  <2>4. fgLock = Free
    BY <2>2 DEF Profile, AskForeground
  <2>5. \A t \in Tasks : ~Changing(t)
    BY <2>4, ThreadsAssumption DEF FgLockInv, Threads
  <2>6. <<n, fg>> \in Targets(m, w)
    BY <2>3 DEF Targets
  <2> QED BY <1>2, <1>3, <2>1, <2>2, <2>3, <2>5, <2>6
<1>5. \A n \in LocalNames, u \in Users : ents[c][<<n, u>>] # None => ents'[c][<<n, u>>] # None
  BY <1>2, <1>3, LocalKeys
<1>6. ASSUME NEW n \in LocalNames, NEW u \in gone
      PROVE  ents'[c][<<n, u>>] = ents[c][<<n, u>>]
  <2>1. u # w /\ <<n, u>> \in Keys /\ u # NoUser
    BY <1>0, LocalKeys DEF Living
  <2>2. <<n, u>> \notin Targets(m, w)
    BY <2>1 DEF Targets, Plain
  <2> QED BY <1>2, <2>1, <2>2
<1> QED BY <1>1, <1>4, <1>5, <1>6

\* A call of a client keeps what puts and gets know.
LEMMA ClientCalls ==
    ASSUME Inv, FgLockInv, IdleEnts, Calm, NEW c \in Clients, ClientNext(c)
    PROVE  PutsCalm' /\ GetsCalm'
PROOF
<1>0. /\ TasksStay /\ fg' \in {fg, Foreground} /\ \A d \in Clients \ {c} : ClientStays(d)
      /\ \A t \in Tasks : Changing(t)' <=> Changing(t)
      /\ c \in Threads /\ pc \in [Threads -> Pcs] /\ ents \in [Threads -> Entries]
      /\ req \in [Clients -> [name : Names, user : Owners]]
  BY ClientFrame, EventsStay DEF Calm, Threads, Inv, CallsOK, EntsOK
<1>1. /\ \A d \in Clients \ {c} : pc'[d] = "put" => fg' # NoUser
      /\ \A d \in Clients \ {c}, n \in LocalNames :
            pc'[d] = "put" /\ d \notin overtaken'
            /\ ents'[d][Plain(n)] # None /\ ents'[d][Plain(n)][1] # NoUser =>
                /\ ents'[d][Plain(n)][1] = fg' /\ ents'[d][<<n, fg'>>] # None
                /\ \A t \in Tasks : ~Changing(t)'
      /\ \A d \in Clients \ {c} : pc'[d] = "get" => req'[d].name \in PutNames
      /\ \A d \in Clients \ {c} : pc'[d] = "get" /\ d \notin overtaken' /\ req'[d].user # NoUser =>
            req'[d].user = fg' /\ \A t \in Tasks : ~Changing(t)'
  BY <1>0, CallsStay DEF Calm
<1>2. CASE Put(c) \/ PutMore(c)
  <2>1. PICK m \in PutNames, w \in Living, v \in Values : Profile(c, m, w, v)
    BY <1>2 DEF Put, PutMore
  <2>2. fg # NoUser
    BY <1>2 DEF Put, PutMore, Calm, PutsCalm
  <2>3. fg' = fg /\ pc'[c] = "put" /\ (c \in overtaken <=> c \in overtaken')
    BY <1>0, <1>2, <2>1, <2>2, ProfileCalm DEF Put, PutMore, Goto, history
  <2>4. CASE PutMore(c)
    <3>1. ASSUME NEW n \in LocalNames, c \notin overtaken',
                 ents'[c][Plain(n)] # None, ents'[c][Plain(n)][1] # NoUser
          PROVE  /\ ents'[c][Plain(n)][1] = fg' /\ ents'[c][<<n, fg'>>] # None
                 /\ \A t \in Tasks : ~Changing(t)'
      <4>1. fg \in Users
        BY <2>2, LocalKeys DEF Inv, UsersOK
      <4>2. pc[c] = "put" /\ c \notin overtaken
        BY <2>3, <2>4, <3>1 DEF PutMore
      <4>3. CASE ents'[c][Plain(n)] = ents[c][Plain(n)]
        BY <1>0, <2>1, <2>2, <2>3, <3>1, <4>1, <4>2, <4>3, ProfileCalm DEF Calm, PutsCalm
      <4>4. CASE ents'[c][Plain(n)] # ents[c][Plain(n)]
        BY <1>0, <2>1, <2>2, <2>3, <3>1, <4>4, ProfileCalm
      <4> QED BY <4>3, <4>4
    <3>2. PutsCalm'
      BY <1>1, <2>2, <2>3, <3>1 DEF PutsCalm
    <3>3. GetsCalm'
      BY <1>1, <2>3 DEF GetsCalm
    <3> QED BY <3>2, <3>3
  <2>5. CASE Put(c)
    <3>1. ASSUME NEW n \in LocalNames,
                 ents'[c][Plain(n)] # None, ents'[c][Plain(n)][1] # NoUser
          PROVE  /\ ents'[c][Plain(n)][1] = fg' /\ ents'[c][<<n, fg'>>] # None
                 /\ \A t \in Tasks : ~Changing(t)'
      <4>1. ents[c] = NoEntries
        BY <2>5 DEF Put, Calls, IdleEnts
      <4>2. ents[c][Plain(n)] = None
        BY <4>1, LocalKeys DEF NoEntries
      <4> QED BY <1>0, <2>1, <2>2, <2>3, <3>1, <4>2, ProfileCalm
    <3>2. PutsCalm'
      BY <1>1, <2>2, <2>3, <3>1 DEF PutsCalm
    <3>3. GetsCalm'
      BY <1>1, <2>3 DEF GetsCalm
    <3> QED BY <3>2, <3>3
  <2> QED BY <1>2, <2>4, <2>5
<1>3. CASE Get(c)
  <2>1. PICK m \in PutNames, u \in Living : /\ AskForeground(u) /\ IsMultiUserValid(u)
                                            /\ req' = [req EXCEPT ![c] = [name |-> m, user |-> u]]
    BY <1>3 DEF Get
  <2>2. pc'[c] = "get" /\ req'[c].name \in PutNames /\ req'[c].user = u
    BY <1>0, <1>3, <2>1 DEF Get, Goto
  <2>3. u # NoUser => fg' = u /\ fgLock = Free
    BY <2>1 DEF AskForeground, IsMultiUserValid
  <2>4. u # NoUser => \A t \in Tasks : ~Changing(t)'
    BY <1>0, <2>3, ThreadsAssumption DEF FgLockInv, Threads
  <2>5. PutsCalm'
    BY <1>1, <2>2 DEF PutsCalm
  <2>6. GetsCalm'
    BY <1>1, <2>2, <2>3, <2>4 DEF GetsCalm
  <2> QED BY <2>5, <2>6
<1>4. CASE Delete(c) \/ PutStore(c) \/ GetRead(c) \/ DeleteRun(c)
  <2>1. pc'[c] \notin {"put", "get"}
    BY <1>0, <1>4 DEF Delete, PutStore, GetRead, DeleteRun, Return, Goto
  <2>2. PutsCalm'
    BY <1>1, <2>1 DEF PutsCalm
  <2>3. GetsCalm'
    BY <1>1, <2>1 DEF GetsCalm
  <2> QED BY <2>2, <2>3
<1> QED BY <1>2, <1>3, <1>4 DEF ClientNext, ClientReturns

\* A call of a client writes nothing for a user who is gone.
LEMMA ClientGone ==
    ASSUME Inv, FgLockInv, IdleEnts, Calm, NEW c \in Clients, ClientNext(c), upset' = {}
    PROVE  GoneCalm'
PROOF
<1>0. /\ TasksStay /\ \A d \in Clients \ {c} : ClientStays(d)
      /\ c \in Threads /\ pc \in [Threads -> Pcs] /\ ents \in [Threads -> Entries]
      /\ gone \subseteq Users
  BY ClientFrame DEF Threads, Inv, CallsOK, EntsOK, UsersOK
<1>1. /\ gone' = gone
      /\ \A t \in Tasks : pc'[t] = pc[t] /\ who'[t] = who[t] /\ del'[t] = del[t]
  BY <1>0 DEF TasksStay, TaskStays
<1>2. ASSUME NEW u \in gone, NEW n \in LocalNames, store'[<<n, u>>] # None
      PROVE  \E t \in Tasks : /\ who[t] = u
                              /\ \/ pc[t] = "remove"
                                 \/ pc[t] = "removeKeys" /\ <<n, u>> \in del[t]
  <2>0. <<n, u>> \in Keys
    BY <1>0, LocalKeys
  <2>1. CASE store[<<n, u>>] # None
    BY <2>1 DEF Calm, GoneCalm
  <2>2. CASE store[<<n, u>>] = None
    <3>1. ~\E ks : DeleteBatch(ks)
      BY <1>2, <2>0, <2>2 DEF DeleteBatch
    <3>2. PutStore(c) /\ PutBatch(ents[c]) /\ Disturbed("overtaken", c \in overtaken)
      BY <1>2, <2>2, <3>1, ClientStores
    <3>3. pc[c] = "put" /\ c \notin overtaken
      BY <3>2 DEF PutStore, Disturbed
    <3>4. ents[c][<<n, u>>] # None
      BY <1>2, <2>0, <2>2, <3>2 DEF PutBatch, Changed, Present
    <3> QED BY <3>3, <3>4 DEF Calm, GoneCalm
  <2> QED BY <2>1, <2>2
<1>3. ASSUME NEW u \in gone, NEW n \in LocalNames, NEW d \in Clients,
             pc'[d] = "put", d \notin overtaken', ents'[d][<<n, u>>] # None
      PROVE  \E t \in Tasks : who[t] = u /\ pc[t] = "remove"
  <2>0. <<n, u>> \in Keys
    BY <1>0, LocalKeys
  <2>1. CASE d # c
    BY <1>0, <1>3, <2>1 DEF ClientStays, Calm, GoneCalm
  <2>2. CASE d = c
    <3>1. CASE Put(c) \/ PutMore(c)
      <4>1. PICK m \in PutNames, w \in Living, v \in Values : Profile(c, m, w, v)
        BY <3>1 DEF Put, PutMore
      <4>2. fg # NoUser
        BY <3>1 DEF Put, PutMore, Calm, PutsCalm
      <4>3. ents[c][<<n, u>>] # None
        BY <1>3, <2>2, <4>1, <4>2, ProfileCalm
      <4>4. PutMore(c)
        BY <2>0, <3>1, <4>3 DEF Put, Calls, IdleEnts, NoEntries
      <4>5. pc[c] = "put" /\ c \notin overtaken
        BY <1>3, <2>2, <4>4 DEF PutMore, history
      <4> QED BY <4>3, <4>5 DEF Calm, GoneCalm
    <3>2. CASE Get(c) \/ Delete(c) \/ PutStore(c) \/ GetRead(c) \/ DeleteRun(c)
      BY <1>0, <1>3, <2>2, <3>2 DEF Get, Delete, PutStore, GetRead, DeleteRun, Return, Goto
    <3> QED BY <3>1, <3>2 DEF ClientNext, ClientReturns
  <2> QED BY <2>1, <2>2
<1>4. ASSUME NEW u \in gone', NEW n \in LocalNames
      PROVE  /\ store'[<<n, u>>] # None =>
                   \E t \in Tasks : /\ who'[t] = u
                                   /\ \/ pc'[t] = "remove"
                                      \/ pc'[t] = "removeKeys" /\ <<n, u>> \in del'[t]
             /\ \A d \in Clients : pc'[d] = "put" /\ d \notin overtaken' /\ ents'[d][<<n, u>>] # None =>
                   \E t \in Tasks : who'[t] = u /\ pc'[t] = "remove"
  <2>1. u \in gone
    BY <1>1
  <2>2. store'[<<n, u>>] # None =>
            \E t \in Tasks : /\ who'[t] = u
                            /\ \/ pc'[t] = "remove"
                               \/ pc'[t] = "removeKeys" /\ <<n, u>> \in del'[t]
    BY <1>1, <1>2, <2>1
  <2>3. \A d \in Clients : pc'[d] = "put" /\ d \notin overtaken' /\ ents'[d][<<n, u>>] # None =>
            \E t \in Tasks : who'[t] = u /\ pc'[t] = "remove"
    BY <1>1, <1>3, <2>1
  <2> QED BY <2>2, <2>3
<1> QED BY <1>4 DEF GoneCalm

\* A call of a client keeps the invariant.
LEMMA ClientCalm ==
    ASSUME Inv, Inv', CalmInv, NEW c \in Clients, ClientNext(c)
    PROVE  CalmInv'
PROOF
<1>0. /\ TasksStay /\ fgLock' = fgLock /\ fg' \in {fg, Foreground} /\ (upset' = {} => upset = {})
      /\ \A d \in Clients \ {c} : ClientStays(d)
      /\ c \in Threads /\ pc \in [Threads -> Pcs] /\ ents \in [Threads -> Entries]
  BY ClientFrame DEF Threads, Inv, CallsOK, EntsOK
<1>1. FgLockInv'
  BY <1>0 DEF CalmInv, FgLockInv, TasksStay, TaskStays, Changing
<1>2. IdleEnts'
  <2>1. (Put(c) \/ PutMore(c)) => pc'[c] = "put"
    BY <1>0 DEF Put, PutMore, Goto
  <2>2. PutStore(c) => ents'[c] = NoEntries
    BY <1>0 DEF PutStore
  <2>3. (Get(c) \/ Delete(c) \/ GetRead(c) \/ DeleteRun(c)) => ents'[c] = NoEntries
    <3>1. (Get(c) \/ Delete(c) \/ GetRead(c) \/ DeleteRun(c)) => ents' = ents /\ pc[c] # "put"
      BY DEF Get, Delete, GetRead, DeleteRun, Calls, locals
    <3> QED BY <3>1 DEF CalmInv, IdleEnts
  <2>4. pc'[c] = "put" \/ ents'[c] = NoEntries
    BY <2>1, <2>2, <2>3 DEF ClientNext, ClientReturns
  <2> QED BY <1>0, <2>4 DEF CalmInv, IdleEnts, ClientStays
<1>3. ASSUME upset' = {} PROVE Calm'
  <2>1. Calm
    BY <1>0, <1>3 DEF CalmInv
  <2>2. OneEvent' /\ EventUsers' /\ Foreground' = Foreground
    BY <1>0, <2>1, EventsStay DEF Calm
  <2>3. StoreFine
    BY <1>3, <2>1, ClientShows DEF CalmInv
  <2>4. PlainShows' /\ SaveShows'
    BY <1>0, <2>1, <2>2, <2>3, ShowsStay DEF Calm, TasksStay, TaskStays
  <2>5. PutsCalm' /\ GetsCalm'
    BY <2>1, ClientCalls DEF CalmInv
  <2>6. GoneCalm'
    BY <1>3, <2>1, ClientGone DEF CalmInv
  <2> QED BY <2>2, <2>4, <2>5, <2>6 DEF Calm
<1> QED BY <1>1, <1>2, <1>3 DEF CalmInv

\* A step of an event moves no other event and no client; the lock is his whose user
\* change goes on.
LEMMA TaskFrame ==
    ASSUME Inv, FgLockInv, IdleEnts, NEW t \in Tasks, TaskNext(t)
    PROVE  /\ \A s \in Tasks \ {t} : TaskStays(s)
           /\ \A c \in Clients : ClientStays(c)
           /\ upset' = {} => upset = {}
           /\ FgLockInv' /\ IdleEnts'
PROOF
<1>0. /\ t \in Threads /\ Clients \subseteq Threads /\ Tasks \subseteq Threads
      /\ Clients \cap Tasks = {} /\ Free \notin Tasks
      /\ pc \in [Threads -> Pcs] /\ ents \in [Threads -> Entries]
      /\ del \in [Threads -> SUBSET Keys] /\ who \in [Tasks -> Users]
  BY ThreadsAssumption DEF Threads, Inv, CallsOK, EntsOK, DelOK, UsersOK
<1>1. PICK l : pc' = [pc EXCEPT ![t] = l]
  BY Zenon DEF TaskNext, TaskRuns, UserSwitched, UserRemoved, SwitchBegin, SwitchScan, SwitchSave,
     SwitchClear, RemoveScan, RemoveKeys, SwitchEnd, Done, Goto
<1>2. PICK e : ents' = [ents EXCEPT ![t] = e] \/ ents' = ents
  BY Zenon DEF TaskNext, TaskRuns, UserSwitched, UserRemoved, SwitchBegin, SwitchScan, SwitchSave,
     SwitchClear, RemoveScan, RemoveKeys, SwitchEnd, locals
<1>3. PICK d : del' = [del EXCEPT ![t] = d] \/ del' = del
  BY Zenon DEF TaskNext, TaskRuns, UserSwitched, UserRemoved, SwitchBegin, SwitchScan, SwitchSave,
     SwitchClear, RemoveScan, RemoveKeys, SwitchEnd, locals
<1>4. PICK w : who' = [who EXCEPT ![t] = w] \/ who' = who
  BY Zenon DEF TaskNext, TaskRuns, UserSwitched, UserRemoved, SwitchBegin, SwitchScan, SwitchSave,
     SwitchClear, RemoveScan, RemoveKeys, SwitchEnd, Done
<1>5. req' = req /\ overtaken \subseteq overtaken'
  BY DEF TaskNext, TaskRuns, UserSwitched, UserRemoved, SwitchBegin, SwitchScan, SwitchSave,
     SwitchClear, RemoveScan, RemoveKeys
<1>6. upset' = {} => upset = {}
  BY DEF TaskNext, TaskRuns, UserSwitched, UserRemoved, SwitchBegin, SwitchScan, SwitchSave,
     SwitchClear, RemoveScan, RemoveKeys, Disturbed
<1>7. \A s \in Tasks \ {t} : TaskStays(s)
  BY <1>0, <1>1, <1>2, <1>3, <1>4 DEF TaskStays
<1>8. \A c \in Clients : ClientStays(c)
  BY <1>0, <1>1, <1>2, <1>5 DEF ClientStays
<1>9. IdleEnts'
  BY <1>8 DEF IdleEnts, ClientStays
<1>10. FgLockInv'
  <2>1. \/ fgLock = Free /\ fgLock' = t
        \/ fgLock' = Free /\ fgLock \in {Free, t} /\ pc'[t] = "idle"
        \/ fgLock' = fgLock /\ (Changing(t)' => Changing(t))
    <3>1. CASE UserSwitched(t) \/ UserRemoved(t) \/ RemoveScan(t) \/ RemoveKeys(t)
      BY <1>0, <3>1 DEF UserSwitched, UserRemoved, RemoveScan, RemoveKeys, Done, Goto, locks, Changing
    <3>2. CASE SwitchBegin(t)
      BY <1>0, <3>2 DEF SwitchBegin, Done, Goto, Changing
    <3>3. CASE SwitchScan(t)
      BY <1>0, <3>3 DEF SwitchScan, SwitchEnd, Done, Goto, Changing, FgLockInv
    <3>4. CASE SwitchSave(t)
      BY <1>0, <3>4 DEF SwitchSave, SwitchEnd, Done, Goto, Changing, FgLockInv
    <3>5. CASE SwitchClear(t)
      BY <1>0, <3>5 DEF SwitchClear, SwitchEnd, Done, Goto, Changing, FgLockInv
    <3> QED BY <3>1, <3>2, <3>3, <3>4, <3>5 DEF TaskNext, TaskRuns
  <2>2. \A s \in Tasks \ {t} : Changing(s)' <=> Changing(s)
    BY <1>7 DEF TaskStays, Changing
  <2> QED BY <1>0, <2>1, <2>2 DEF FgLockInv, Changing
<1> QED BY <1>6, <1>7, <1>8, <1>9, <1>10

\* While one event is handled at a time, the others are idle.
LEMMA OthersIdle ==
    ASSUME OneEvent, NEW t \in Tasks, pc[t] # "idle", \A s \in Tasks \ {t} : TaskStays(s)
    PROVE  OneEvent' /\ \A s \in Tasks \ {t} : pc[s] = "idle" /\ pc'[s] = "idle"
PROOF
<1>1. \A s \in Tasks \ {t} : pc[s] = "idle" /\ pc'[s] = "idle"
  BY DEF OneEvent, TaskStays
<1> QED BY <1>1 DEF OneEvent

\* Nothing of a removed user is about when no removal is under way.
LEMMA NothingLeft ==
    ASSUME GoneCalm, \A t \in Tasks : ~Removing(t)
    PROVE  \A u \in gone, n \in LocalNames :
              /\ store[<<n, u>>] = None
              /\ \A c \in Clients : pc[c] = "put" /\ c \notin overtaken => ents[c][<<n, u>>] = None
PROOF
  BY DEF GoneCalm, Removing

\* The same store, or less of the entries of users who are gone, needs no removal.
LEMMA NothingComes ==
    ASSUME Inv, Calm, \A t \in Tasks : ~Removing(t), \A c \in Clients : ClientStays(c), gone' = gone,
           \A u \in gone, n \in LocalNames : store'[<<n, u>>] # None => store[<<n, u>>] # None
    PROVE  GoneCalm'
PROOF
<1>1. \A u \in gone', n \in LocalNames : store'[<<n, u>>] = None
  BY NothingLeft DEF Calm
<1>2. \A u \in gone', n \in LocalNames, c \in Clients :
          pc'[c] = "put" /\ c \notin overtaken' => ents'[c][<<n, u>>] = None
  BY NothingLeft DEF Calm, ClientStays
<1>3. ASSUME NEW u \in gone', NEW n \in LocalNames
      PROVE  /\ store'[<<n, u>>] = None
             /\ \A c \in Clients : pc'[c] = "put" /\ c \notin overtaken' => ents'[c][<<n, u>>] = None
  BY <1>1, <1>2
<1> QED BY <1>3 DEF GoneCalm

\* An account event arrives while none is handled.
LEMMA EventArrives ==
    ASSUME Inv, Inv', Calm, NEW t \in Tasks, UserSwitched(t) \/ UserRemoved(t), upset' = {},
           \A s \in Tasks \ {t} : TaskStays(s), \A c \in Clients : ClientStays(c)
    PROVE  Calm'
PROOF
<1>0. /\ t \in Threads /\ pc \in [Threads -> Pcs] /\ who \in [Tasks -> Users] /\ osFg \in Users
      /\ gone \subseteq Users
  BY DEF Threads, Inv, CallsOK, UsersOK
<1>1. ~Busy
  BY NotDisturbed DEF UserSwitched, UserRemoved
<1>2. \A s \in Tasks : pc[s] = "idle" /\ (s # t => pc'[s] = "idle")
  BY <1>1 DEF Busy, TaskStays
<1>3. fg = osFg /\ osFg \notin gone /\ \A s \in Tasks : ~Removing(s) /\ ~Changing(s)
  BY <1>2 DEF Calm, EventUsers, Switching, Changing, Removing
<1>4. fg' = fg /\ store' = store
  BY DEF UserSwitched, UserRemoved, data
<1>5. \A s \in Tasks : ~Changing(s)' /\ pc'[s] \in {"idle", "switch", "remove"}
  BY <1>0, <1>2 DEF UserSwitched, UserRemoved, Goto, Changing
<1>6. OneEvent'
  BY <1>2 DEF OneEvent
<1>7. EventUsers'
  <2>1. CASE UserSwitched(t)
    BY <1>0, <1>2, <1>3, <2>1 DEF UserSwitched, Goto, EventUsers, Switching, Changing, Removing
  <2>2. CASE UserRemoved(t)
    BY <1>0, <1>2, <1>3, <2>2 DEF UserRemoved, Goto, EventUsers, Switching, Changing, Removing
  <2> QED BY <2>1, <2>2
<1>8. Foreground' = Foreground
  BY <1>0, <1>3, <1>4, LocalKeys DEF Foreground
<1>9. StoreFine
  BY <1>4 DEF StoreFine
<1>10. PlainShows' /\ SaveShows'
  BY <1>2, <1>5, <1>8, <1>9, ShowsStay DEF Calm
<1>11. PutsCalm' /\ GetsCalm'
  <2>1. \A c \in Clients : pc'[c] \in {"put", "get"} => ClientStays(c)
    OBVIOUS
  <2> QED BY <1>4, <1>5, <2>1, CallsStay DEF Calm, PutsCalm, GetsCalm
<1>12. GoneCalm'
  <2>1. CASE UserSwitched(t)
    BY <1>3, <1>4, <2>1, NothingComes DEF UserSwitched, Calm
  <2>2. CASE UserRemoved(t)
    <3>1. pc'[t] = "remove" /\ gone' = gone \cup {who'[t]}
      BY <1>0, <2>2 DEF UserRemoved, Goto
    <3>2. \A u \in gone, n \in LocalNames :
              /\ store'[<<n, u>>] = None
              /\ \A c \in Clients : pc'[c] = "put" /\ c \notin overtaken' => ents'[c][<<n, u>>] = None
      BY <1>3, <1>4, NothingLeft DEF Calm, ClientStays
    <3> QED BY <3>1, <3>2 DEF GoneCalm
  <2> QED BY <2>1, <2>2
<1> QED BY <1>6, <1>7, <1>10, <1>11, <1>12 DEF Calm

\* A user change begins: the calls under way are overtaken by it.
LEMMA BeginCalm ==
    ASSUME Inv, Inv', FgLockInv', Calm, NEW t \in Tasks, SwitchBegin(t),
           \A s \in Tasks \ {t} : TaskStays(s), \A c \in Clients : ClientStays(c)
    PROVE  Calm'
PROOF
<1>0. /\ t \in Threads /\ pc \in [Threads -> Pcs] /\ who \in [Tasks -> Users]
      /\ who[t] = osFg /\ osFg \in Users /\ pc[t] = "switch"
      /\ fg' = fg /\ osFg' = osFg /\ gone' = gone /\ store' = store
      /\ Clients \cap Tasks = {} /\ Clients \subseteq Threads
  BY ThreadsAssumption DEF Threads, Inv, CallsOK, UsersOK, Calm, EventUsers, Switching, SwitchBegin,
     users, data
<1>1. /\ OneEvent' /\ \A s \in Tasks \ {t} : pc[s] = "idle" /\ pc'[s] = "idle"
  BY <1>0, OthersIdle DEF Calm
<1>2. /\ pc'[t] \in {"idle", "scan"} /\ (pc'[t] = "scan" => who'[t] = who[t])
      /\ (pc'[t] = "idle" => fg = osFg)
  BY <1>0 DEF SwitchBegin, Done, Goto
<1>3. \A s \in Tasks : ~Changing(s) /\ ~Removing(s)
  BY <1>0, <1>1 DEF Changing, Removing
<1>4. EventUsers'
  BY <1>0, <1>1, <1>2 DEF Calm, EventUsers, Switching, Changing, Removing
<1>5. PlainShows' /\ SaveShows'
  <2>1. StoreFine /\ Foreground' = Foreground
    BY <1>0 DEF StoreFine, Foreground
  <2>2. \A s \in Tasks : pc'[s] \notin {"save", "clear"} /\ pc[s] # "clear"
    BY <1>0, <1>1, <1>2
  <2> QED BY <2>1, <2>2, ShowsStay DEF Calm
<1>6. PutsCalm' /\ GetsCalm'
  <2>1. CASE pc'[t] = "idle"
    <3>1. \A s \in Tasks : ~Changing(s)'
      BY <1>1, <2>1 DEF Changing
    <3> QED BY <1>0, <3>1, CallsStay DEF Calm, PutsCalm, GetsCalm
  <2>2. CASE pc'[t] = "scan"
    <3>1. overtaken' = overtaken \cup UnderWay
      BY <1>0, <2>2 DEF SwitchBegin, Done, Goto
    <3>2. \A c \in Clients : pc'[c] = pc[c]
      BY <1>0 DEF SwitchBegin, Done, Goto
    <3>3. \A c \in Clients : pc'[c] \in {"put", "get"} => c \in overtaken'
      BY <3>1, <3>2 DEF UnderWay
    <3>4. \A c \in Clients : pc'[c] = "put" => fg' # NoUser
      BY <1>0, <3>2 DEF Calm, PutsCalm
    <3>5. \A c \in Clients : pc'[c] = "get" => req'[c].name \in PutNames
      BY <3>2 DEF Calm, GetsCalm, ClientStays
    <3> QED BY <3>3, <3>4, <3>5 DEF PutsCalm, GetsCalm
  <2> QED BY <1>2, <2>1, <2>2
<1>7. GoneCalm'
  BY <1>0, <1>3, NothingComes DEF Calm
<1> QED BY <1>1, <1>4, <1>5, <1>6, <1>7 DEF Calm

\* The steps inside a user change leave the foreground user, calls and removed users alone.
LEMMA ChangeFrame ==
    ASSUME Inv, Calm, NEW t \in Tasks, Changing(t),
           \A s \in Tasks \ {t} : TaskStays(s), \A c \in Clients : ClientStays(c),
           UNCHANGED <<osFg, gone>>, fg' = fg \/ (fg' = who[t] /\ pc'[t] = "idle"),
           Changing(t)' => who'[t] = who[t], pc'[t] = "idle" \/ Changing(t)',
           pc'[t] = "idle" => fg' = who[t],
           \A u \in gone, n \in LocalNames : store'[<<n, u>>] # None => store[<<n, u>>] # None
    PROVE  /\ who[t] = osFg /\ osFg \in Users
           /\ \A s \in Tasks \ {t} : pc[s] = "idle" /\ pc'[s] = "idle"
           /\ OneEvent' /\ EventUsers' /\ PutsCalm' /\ GetsCalm' /\ GoneCalm'
PROOF
<1>0. who[t] = osFg /\ osFg \in Users /\ pc[t] # "idle"
  BY DEF Calm, EventUsers, Switching, Changing, Inv, UsersOK
<1>1. OneEvent' /\ \A s \in Tasks \ {t} : pc[s] = "idle" /\ pc'[s] = "idle"
  BY <1>0, OthersIdle DEF Calm
<1>2. EventUsers'
  BY <1>0, <1>1 DEF Calm, EventUsers, Switching, Changing, Removing
<1>3. /\ \A c \in Clients : pc[c] = "put" => fg # NoUser
      /\ \A c \in Clients, n \in LocalNames : pc[c] = "put" /\ c \notin overtaken =>
            ents[c][Plain(n)] = None \/ ents[c][Plain(n)][1] = NoUser
  BY DEF Calm, PutsCalm
<1>4. \A c \in Clients : pc[c] = "get" =>
          /\ req[c].name \in PutNames
          /\ c \notin overtaken => req[c].user = NoUser
  BY DEF Calm, GetsCalm
<1>5. fg # NoUser => fg' # NoUser
  BY <1>0, LocalKeys
<1>6. PutsCalm'
  <2>1. \A c \in Clients : pc'[c] = "put" => fg' # NoUser
    BY <1>3, <1>5 DEF ClientStays
  <2>2. \A c \in Clients, n \in LocalNames : pc'[c] = "put" /\ c \notin overtaken' =>
            ents'[c][Plain(n)] = None \/ ents'[c][Plain(n)][1] = NoUser
    BY <1>3 DEF ClientStays
  <2> QED BY <2>1, <2>2 DEF PutsCalm
<1>7. GetsCalm'
  BY <1>4 DEF GetsCalm, ClientStays
<1>8. GoneCalm'
  <2>1. \A s \in Tasks : ~Removing(s)
    BY <1>1 DEF Changing, Removing
  <2> QED BY <2>1, NothingComes DEF Calm
<1> QED BY <1>0, <1>1, <1>2, <1>6, <1>7, <1>8

\* What a user change has found of the two users covers every plain key that shows a put.
LEMMA ScanCalm ==
    ASSUME Inv, Inv', Calm, NEW t \in Tasks, SwitchScan(t), upset' = {},
           \A s \in Tasks \ {t} : TaskStays(s), \A c \in Clients : ClientStays(c)
    PROVE  Calm'
PROOF
<1> DEFINE found == [k \in Keys |-> IF k[2] = NoUser /\ k[1] \in NamesWith(who[t])
                                    THEN store[<<k[1], who[t]>>] ELSE None]
<1>0. /\ t \in Threads /\ pc \in [Threads -> Pcs] /\ ents \in [Threads -> Entries]
      /\ del \in [Threads -> SUBSET Keys]
  BY DEF Threads, Inv, CallsOK, EntsOK, DelOK
<1>1. /\ ents' = [ents EXCEPT ![t] = found]
      /\ del' = [del EXCEPT ![t] = LastKeys(t)]
      /\ Goto(t, "save") /\ UNCHANGED <<fg, fgLock, who, upset>>
  BY DEF SwitchScan, Disturbed
<1> HIDE DEF found
<1>2. ents'[t] = found /\ del'[t] = LastKeys(t) /\ pc'[t] = "save" /\ who'[t] = who[t]
  BY <1>0, <1>1 DEF Goto
<1>3. pc[t] = "scan" /\ store' = store /\ fg' = fg /\ UNCHANGED <<osFg, gone>>
  BY <1>1 DEF SwitchScan, data, users
<1>4. /\ who[t] = osFg /\ osFg \in Users
      /\ \A s \in Tasks \ {t} : pc[s] = "idle" /\ pc'[s] = "idle"
      /\ OneEvent' /\ EventUsers' /\ PutsCalm' /\ GetsCalm' /\ GoneCalm'
  <2>1. Changing(t) /\ Changing(t)'
    BY <1>2, <1>3 DEF Changing
  <2> HIDE DEF Changing
  <2> QED BY <1>2, <1>3, <2>1, ChangeFrame
<1>5. who[t] # NoUser
  BY <1>4, LocalKeys
<1>6. \A n \in LocalNames : found[Plain(n)] = store[<<n, who[t]>>]
  <2>1. \A n \in LocalNames : Plain(n) \in Keys /\ Plain(n)[1] = n /\ Plain(n)[2] = NoUser
    BY LocalKeys DEF Plain
  <2>2. \A n \in LocalNames : n \in NamesWith(who[t]) <=> store[<<n, who[t]>>] # None
    BY <1>5 DEF NamesWith
  <2> QED BY <2>1, <2>2 DEF found
<1>7. \A n \in LocalNames : store[<<n, who[t]>>] # None => store[<<n, who[t]>>][1] = who[t]
  BY <1>4, <1>5, LocalKeys DEF Inv, StoreOK, Owned
<1>8. SaveShows'
  BY <1>2, <1>3, <1>4, <1>6, <1>7 DEF SaveShows
<1>9. ASSUME NEW n \in LocalNames, Shown(n)' PROVE Held(n)'
  <2>1. Shown(n) /\ Held(n) /\ Shower(n)' = Shower(n)
    BY <1>3, <1>9 DEF Shown, Shower, Calm, PlainShows
  <2>2. Shower(n) = Foreground /\ store[<<n, Shower(n)>>] # None
    BY <1>3, <1>4, <2>1 DEF Held
  <2>3. Foreground' = Foreground
    BY <1>3 DEF Foreground
  <2>4. Shower(n) = who[t] \/ Plain(n) \in LastKeys(t) \/ found[Plain(n)] # None
    <3>1. CASE fg = NoUser
      BY <1>4, <2>2, <3>1 DEF Foreground
    <3>2. CASE fg # NoUser /\ found[Plain(n)] = None
      <4>1. n \in NamesWith(fg) /\ n \notin NamesWith(who[t])
        BY <1>6, <2>2, <3>2 DEF Foreground, NamesWith
      <4> QED BY <4>1 DEF LastKeys
    <3> QED BY <3>1, <3>2
  <2>5. \A s \in Tasks :
           /\ pc'[s] = "save" =>
                 Shower(n) = who'[s] \/ Plain(n) \in del'[s] \/ ents'[s][Plain(n)] # None
           /\ pc'[s] # "clear"
    BY <1>2, <1>4, <2>4
  <2> QED BY <1>3, <2>1, <2>2, <2>3, <2>5 DEF Held
<1>10. PlainShows'
  BY <1>9 DEF PlainShows
<1> QED BY <1>4, <1>8, <1>10 DEF Calm

\* A user change writes for the plain keys what its user has put.
LEMMA SaveCalm ==
    ASSUME Inv, Inv', Calm, NEW t \in Tasks, SwitchSave(t), upset' = {},
           \A s \in Tasks \ {t} : TaskStays(s), \A c \in Clients : ClientStays(c)
    PROVE  Calm'
PROOF
<1>0. /\ t \in Threads /\ pc \in [Threads -> Pcs] /\ pc[t] = "save"
      /\ UNCHANGED <<osFg, gone>> /\ Changing(t)
      /\ \A k \in Keys : k[2] # NoUser => ents[t][k] = None
  BY DEF Threads, Inv, CallsOK, SwitchSave, users, SwitchOK, PlainOnly, Changing
<1>1. /\ Goto(t, "clear") /\ UNCHANGED <<fg, locals, who>>
      /\ (Present(ents[t]) = {} /\ store' = store) \/ PutBatch(ents[t])
  BY DEF SwitchSave, Disturbed, data
<1>2. /\ pc'[t] = "clear" /\ who'[t] = who[t] /\ del'[t] = del[t] /\ Changing(t)'
  BY <1>0, <1>1 DEF Goto, locals, Changing
<1>3. \A k \in Keys : store'[k] = IF ents[t][k] # None THEN ents[t][k] ELSE store[k]
  BY <1>1 DEF PutBatch, Changed, Present
<1>4. \A n \in LocalNames, u \in Users : store'[<<n, u>>] = store[<<n, u>>]
  BY <1>0, <1>3, LocalKeys
<1>5. gone \subseteq Users
  BY DEF Inv, UsersOK
<1>6. /\ who[t] = osFg /\ osFg \in Users
      /\ \A s \in Tasks \ {t} : pc[s] = "idle" /\ pc'[s] = "idle"
      /\ OneEvent' /\ EventUsers' /\ PutsCalm' /\ GetsCalm' /\ GoneCalm'
  <2> HIDE DEF Changing
  <2>1. pc'[t] # "idle" /\ fg' = fg
    BY <1>1, <1>2
  <2> QED BY <1>0, <1>2, <1>4, <1>5, <2>1, ChangeFrame
<1>7. SaveShows'
  BY <1>2, <1>6 DEF SaveShows
<1>8. ASSUME NEW n \in LocalNames, Shown(n)' PROVE Held(n)'
  <2>0. Plain(n) \in Keys
    BY LocalKeys
  <2>1. /\ store'[<<n, Shower(n)'>>] # None
        /\ Shower(n)' = who[t] \/ Plain(n) \in del[t]
    <3>1. CASE ents[t][Plain(n)] # None
      <4>1. ents[t][Plain(n)][1] = who[t] /\ store[<<n, who[t]>>] # None
        BY <1>0, <3>1 DEF Calm, SaveShows
      <4>2. store'[Plain(n)] = ents[t][Plain(n)]
        BY <1>3, <2>0, <3>1
      <4>3. Shower(n)' = who[t] /\ who[t] \in Users
        BY <1>6, <4>1, <4>2 DEF Shower
      <4> QED BY <1>4, <4>1, <4>3
    <3>2. CASE ents[t][Plain(n)] = None
      <4>1. Shown(n) /\ Shower(n)' = Shower(n) /\ Held(n)
        BY <1>3, <1>8, <2>0, <3>2 DEF Shown, Shower, Calm, PlainShows
      <4>2. Shower(n) \in Users
        BY <4>1, ShownOwner DEF Shower
      <4> QED BY <1>0, <1>4, <3>2, <4>1, <4>2 DEF Held
    <3> QED BY <3>1, <3>2
  <2>2. \A s \in Tasks : /\ pc'[s] # "save"
                         /\ pc'[s] = "clear" => s = t
    BY <1>2, <1>6
  <2> QED BY <1>2, <2>1, <2>2 DEF Held
<1>9. PlainShows'
  BY <1>8 DEF PlainShows
<1> QED BY <1>6, <1>7, <1>9 DEF Calm

\* With what is left of the last user deleted, the plain keys show the new one.
LEMMA ClearCalm ==
    ASSUME Inv, Inv', Calm, NEW t \in Tasks, SwitchClear(t), upset' = {},
           \A s \in Tasks \ {t} : TaskStays(s), \A c \in Clients : ClientStays(c)
    PROVE  Calm'
PROOF
<1>0. /\ t \in Threads /\ pc \in [Threads -> Pcs] /\ pc[t] = "clear"
      /\ UNCHANGED <<osFg, gone>> /\ Changing(t) /\ fg' = who[t]
      /\ \A k \in del[t] : k[2] = NoUser
  BY DEF Threads, Inv, CallsOK, SwitchClear, SwitchEnd, users, SwitchOK, Changing
<1>1. pc'[t] = "idle" /\ ~Changing(t)'
  BY <1>0 DEF SwitchClear, SwitchEnd, Done, Goto, Changing
<1>2. (del[t] = {} /\ store' = store) \/ DeleteBatch(del[t])
  BY DEF SwitchClear, Disturbed, data
<1>3. \A k \in Keys : store'[k] = IF k \in del[t] THEN None ELSE store[k]
  BY <1>2 DEF DeleteBatch
<1>4. \A n \in LocalNames, u \in Users : store'[<<n, u>>] = store[<<n, u>>]
  BY <1>0, <1>3, LocalKeys
<1>5. gone \subseteq Users
  BY DEF Inv, UsersOK
<1>6. /\ who[t] = osFg /\ osFg \in Users
      /\ \A s \in Tasks \ {t} : pc[s] = "idle" /\ pc'[s] = "idle"
      /\ OneEvent' /\ EventUsers' /\ PutsCalm' /\ GetsCalm' /\ GoneCalm'
  <2> HIDE DEF Changing
  <2> QED BY <1>0, <1>1, <1>4, <1>5, ChangeFrame
<1>7. SaveShows'
  BY <1>1, <1>6 DEF SaveShows
<1>8. ASSUME NEW n \in LocalNames, Shown(n)' PROVE Held(n)'
  <2>0. Plain(n) \in Keys
    BY LocalKeys
  <2>1. Plain(n) \notin del[t] /\ store'[Plain(n)] = store[Plain(n)]
    BY <1>3, <1>8, <2>0 DEF Shown
  <2>2. Shown(n) /\ Held(n) /\ Shower(n)' = Shower(n)
    BY <1>8, <2>1 DEF Shown, Shower, Calm, PlainShows
  <2>3. Shower(n) = who[t] /\ store[<<n, Shower(n)>>] # None
    BY <1>0, <2>1, <2>2 DEF Held
  <2>4. store'[<<n, Shower(n)'>>] # None
    BY <1>4, <1>6, <2>2, <2>3
  <2>5. Foreground' = who[t]
    BY <1>0, <1>6, LocalKeys DEF Foreground
  <2>6. \A s \in Tasks : pc'[s] \notin {"save", "clear"}
    BY <1>1, <1>6
  <2> QED BY <2>2, <2>3, <2>4, <2>5, <2>6 DEF Held
<1>9. PlainShows'
  BY <1>8 DEF PlainShows
<1> QED BY <1>6, <1>7, <1>9 DEF Calm

\* A removal finds every entry of its user.
LEMMA FindCalm ==
    ASSUME Inv, Inv', Calm, NEW t \in Tasks, RemoveScan(t), upset' = {},
           \A s \in Tasks \ {t} : TaskStays(s), \A c \in Clients : ClientStays(c)
    PROVE  Calm'
PROOF
<1>0. /\ t \in Threads /\ pc \in [Threads -> Pcs] /\ who \in [Tasks -> Users]
      /\ del \in [Threads -> SUBSET Keys]
      /\ pc[t] = "remove" /\ gone \subseteq Users /\ Clients \subseteq Threads /\ t \notin Clients
      /\ store' = store /\ fg' = fg /\ UNCHANGED <<osFg, gone>>
      /\ who[t] \in gone
  BY ThreadsAssumption DEF Threads, Inv, CallsOK, UsersOK, DelOK, RemoveScan, users, data,
     Calm, EventUsers, Removing
<1>1. /\ OneEvent' /\ \A s \in Tasks \ {t} : pc[s] = "idle" /\ pc'[s] = "idle"
  BY <1>0, OthersIdle DEF Calm
<1>2. \A s \in Tasks : ~Switching(s) /\ ~Changing(s)
  BY <1>0, <1>1 DEF Switching, Changing
<1>3. Scannable(LocalNames)
  BY NotDisturbed DEF RemoveScan
<1>4. \/ KeysOf(who[t]) = {} /\ pc'[t] = "idle"
      \/ /\ del'[t] = KeysOf(who[t]) /\ pc'[t] = "removeKeys" /\ who'[t] = who[t]
  BY <1>0, <1>3 DEF RemoveScan, Done, Goto
<1>5. \A s \in Tasks : ~Switching(s)' /\ ~Changing(s)'
  BY <1>1, <1>4 DEF Switching, Changing
<1>6. EventUsers'
  <2>1. fg = osFg /\ osFg \notin gone
    BY <1>2 DEF Calm, EventUsers
  <2>2. \A s \in Tasks : /\ Removing(s)' => who'[s] \in gone'
                         /\ pc'[s] = "removeKeys" => \A k \in del'[s] : k[2] = who'[s]
    BY <1>0, <1>1, <1>4 DEF Removing, KeysOf
  <2> QED BY <1>0, <1>5, <2>1, <2>2 DEF EventUsers
<1>7. PlainShows' /\ SaveShows'
  <2>1. StoreFine /\ Foreground' = Foreground
    BY <1>0 DEF StoreFine, Foreground
  <2>2. \A s \in Tasks : pc'[s] \notin {"save", "clear"} /\ pc[s] # "clear"
    BY <1>2, <1>5 DEF Changing
  <2> QED BY <2>1, <2>2, ShowsStay DEF Calm
<1>8. PutsCalm' /\ GetsCalm'
  BY <1>0, <1>5, CallsStay DEF Calm, PutsCalm, GetsCalm
<1>9. ASSUME NEW u \in gone', NEW n \in LocalNames
      PROVE  /\ store'[<<n, u>>] # None =>
                   \E s \in Tasks : /\ who'[s] = u
                                   /\ \/ pc'[s] = "remove"
                                      \/ pc'[s] = "removeKeys" /\ <<n, u>> \in del'[s]
             /\ \A c \in Clients : pc'[c] = "put" /\ c \notin overtaken' /\ ents'[c][<<n, u>>] # None =>
                   \E s \in Tasks : who'[s] = u /\ pc'[s] = "remove"
  <2>0. u \in gone /\ <<n, u>> \in Keys /\ n \in Names
    BY <1>0, LocalKeys
  <2>1. ASSUME store'[<<n, u>>] # None
        PROVE  who'[t] = u /\ pc'[t] = "removeKeys" /\ <<n, u>> \in del'[t]
    <3>1. u = who[t]
      BY <1>0, <1>1, <2>0, <2>1 DEF Calm, GoneCalm
    <3>2. <<n, u>> \in KeysOf(who[t])
      BY <1>0, <2>0, <2>1, <3>1 DEF KeysOf, Scanned, Present
    <3> QED BY <1>4, <3>1, <3>2
  <2>2. \A c \in Clients : pc'[c] = "put" => c \in overtaken'
    <3>1. pc' = [pc EXCEPT ![t] = pc'[t]]
      BY <1>0 DEF RemoveScan, Done, Goto
    <3> QED BY <1>0, <3>1 DEF RemoveScan, UnderWay
  <2> QED BY <2>1, <2>2
<1>10. GoneCalm'
  BY <1>9 DEF GoneCalm
<1> QED BY <1>1, <1>6, <1>7, <1>8, <1>10 DEF Calm

\* ... and deletes it, and nothing that the foreground user has put.
LEMMA ForgetCalm ==
    ASSUME Inv, Inv', Calm, NEW t \in Tasks, RemoveKeys(t), upset' = {},
           \A s \in Tasks \ {t} : TaskStays(s), \A c \in Clients : ClientStays(c)
    PROVE  Calm'
PROOF
<1>0. /\ t \in Threads /\ pc \in [Threads -> Pcs] /\ who \in [Tasks -> Users]
      /\ pc[t] = "removeKeys" /\ gone \subseteq Users
      /\ fg' = fg /\ UNCHANGED <<osFg, gone>>
      /\ who[t] \in gone /\ \A k \in del[t] : k[2] = who[t]
  BY DEF Threads, Inv, CallsOK, UsersOK, RemoveKeys, users, Calm, EventUsers, Removing
<1>1. /\ OneEvent' /\ \A s \in Tasks \ {t} : pc[s] = "idle" /\ pc'[s] = "idle"
  BY <1>0, OthersIdle DEF Calm
<1>2. \A s \in Tasks : ~Switching(s) /\ ~Changing(s)
  BY <1>0, <1>1 DEF Switching, Changing
<1>3. pc'[t] = "idle" /\ DeleteBatch(del[t])
  BY <1>0 DEF RemoveKeys, Done, Goto, Disturbed
<1>4. \A s \in Tasks : ~Switching(s)' /\ ~Changing(s)' /\ ~Removing(s)'
  BY <1>1, <1>3 DEF Switching, Changing, Removing
<1>5. fg = osFg /\ osFg \notin gone
  BY <1>2 DEF Calm, EventUsers
<1>6. EventUsers'
  BY <1>0, <1>4, <1>3, <1>1, <1>5 DEF EventUsers
<1>7. \A k \in Keys : store'[k] = IF k \in del[t] THEN None ELSE store[k]
  BY <1>3 DEF DeleteBatch
<1>8. PlainShows' /\ SaveShows'
  <2>1. Foreground' = Foreground /\ Foreground \notin gone
    BY <1>0, <1>5 DEF Foreground
  <2>2. \A n \in LocalNames : store'[Plain(n)] = store[Plain(n)]
    BY <1>0, <1>7, LocalKeys DEF Plain
  <2>3. \A n \in LocalNames, u \in Users :
            store[<<n, u>>] # None => store'[<<n, u>>] # None \/ u \in gone
    BY <1>0, <1>7, LocalKeys
  <2>4. StoreFine
    BY <1>2, <2>1, <2>2, <2>3 DEF StoreFine
  <2>5. \A s \in Tasks : pc'[s] \notin {"save", "clear"} /\ pc[s] # "clear"
    BY <1>2, <1>4 DEF Changing
  <2> QED BY <2>1, <2>4, <2>5, ShowsStay DEF Calm
<1>9. PutsCalm' /\ GetsCalm'
  BY <1>0, <1>4, CallsStay DEF Calm, PutsCalm, GetsCalm
<1>10. ASSUME NEW u \in gone', NEW n \in LocalNames
       PROVE  /\ store'[<<n, u>>] = None
              /\ \A c \in Clients : pc'[c] = "put" /\ c \notin overtaken' => ents'[c][<<n, u>>] = None
  <2>0. u \in gone /\ <<n, u>> \in Keys
    BY <1>0, LocalKeys
  <2>1. store'[<<n, u>>] = None
    <3>1. store[<<n, u>>] # None => <<n, u>> \in del[t]
      BY <1>0, <1>1, <2>0 DEF Calm, GoneCalm
    <3> QED BY <1>7, <2>0, <3>1
  <2>2. \A c \in Clients : pc[c] = "put" /\ c \notin overtaken => ents[c][<<n, u>>] = None
    BY <1>0, <1>1, <2>0 DEF Calm, GoneCalm
  <2>3. \A c \in Clients : pc'[c] = "put" /\ c \notin overtaken' => ents'[c][<<n, u>>] = None
    BY <2>2 DEF ClientStays
  <2> QED BY <2>1, <2>3
<1>11. GoneCalm'
  BY <1>10 DEF GoneCalm
<1> QED BY <1>1, <1>6, <1>8, <1>9, <1>11 DEF Calm

\* A step of an event keeps the invariant.
LEMMA TaskCalm ==
    ASSUME Inv, Inv', CalmInv, NEW t \in Tasks, TaskNext(t)
    PROVE  CalmInv'
PROOF
<1>1. /\ \A s \in Tasks \ {t} : TaskStays(s)
      /\ \A c \in Clients : ClientStays(c)
      /\ upset' = {} => upset = {}
      /\ FgLockInv' /\ IdleEnts'
  BY TaskFrame DEF CalmInv
<1>2. ASSUME upset' = {} PROVE Calm'
  <2>1. Calm
    BY <1>1, <1>2 DEF CalmInv
  <2>2. CASE UserSwitched(t) \/ UserRemoved(t)
    BY <1>1, <1>2, <2>1, <2>2, EventArrives
  <2>3. CASE SwitchBegin(t)
    BY <1>1, <2>1, <2>3, BeginCalm
  <2>4. CASE SwitchScan(t)
    BY <1>1, <1>2, <2>1, <2>4, ScanCalm
  <2>5. CASE SwitchSave(t)
    BY <1>1, <1>2, <2>1, <2>5, SaveCalm
  <2>6. CASE SwitchClear(t)
    BY <1>1, <1>2, <2>1, <2>6, ClearCalm
  <2>7. CASE RemoveScan(t)
    BY <1>1, <1>2, <2>1, <2>7, FindCalm
  <2>8. CASE RemoveKeys(t)
    BY <1>1, <1>2, <2>1, <2>8, ForgetCalm
  <2> QED BY <2>2, <2>3, <2>4, <2>5, <2>6, <2>7, <2>8 DEF TaskNext, TaskRuns
<1> QED BY <1>1, <1>2 DEF CalmInv

\* What moves no call and no event keeps it, if the store goes on showing the foreground user
\* and gets nothing of a removed one.
LEMMA QuietCalm ==
    ASSUME Inv, Inv', CalmInv, TasksStay, \A c \in Clients : ClientStays(c), UNCHANGED <<fg, fgLock>>,
           upset' = {} =>
              /\ upset = {} /\ StoreFine
              /\ \A u \in gone, n \in LocalNames : store'[<<n, u>>] # None => store[<<n, u>>] # None
    PROVE  CalmInv'
PROOF
<1>1. FgLockInv' /\ IdleEnts'
  BY DEF CalmInv, FgLockInv, IdleEnts, TasksStay, TaskStays, ClientStays, Changing
<1>2. ASSUME upset' = {} PROVE Calm'
  <2>1. Calm /\ StoreFine
    BY <1>2 DEF CalmInv
  <2>2. /\ OneEvent' /\ EventUsers' /\ Foreground' = Foreground
        /\ \A t \in Tasks : Changing(t)' <=> Changing(t)
    BY <2>1, EventsStay DEF Calm
  <2>3. PlainShows' /\ SaveShows'
    BY <2>1, <2>2, ShowsStay DEF Calm, TasksStay, TaskStays
  <2>4. PutsCalm' /\ GetsCalm'
    <3>1. \A c \in Clients : pc'[c] \in {"put", "get"} => ClientStays(c)
      OBVIOUS
    <3> QED BY <2>1, <2>2, <3>1, CallsStay DEF Calm, PutsCalm, GetsCalm
  <2>5. ASSUME NEW u \in gone', NEW n \in LocalNames
        PROVE  /\ store'[<<n, u>>] # None =>
                     \E s \in Tasks : /\ who'[s] = u
                                     /\ \/ pc'[s] = "remove"
                                        \/ pc'[s] = "removeKeys" /\ <<n, u>> \in del'[s]
               /\ \A c \in Clients : pc'[c] = "put" /\ c \notin overtaken' /\ ents'[c][<<n, u>>] # None =>
                     \E s \in Tasks : who'[s] = u /\ pc'[s] = "remove"
    <3>1. u \in gone /\ \A s \in Tasks : pc'[s] = pc[s] /\ who'[s] = who[s] /\ del'[s] = del[s]
      BY DEF TasksStay, TaskStays
    <3>2. ASSUME store'[<<n, u>>] # None
          PROVE  \E s \in Tasks : /\ who[s] = u
                                 /\ \/ pc[s] = "remove"
                                    \/ pc[s] = "removeKeys" /\ <<n, u>> \in del[s]
      BY <1>2, <2>1, <3>1, <3>2 DEF Calm, GoneCalm
    <3>3. ASSUME NEW c \in Clients, pc'[c] = "put", c \notin overtaken', ents'[c][<<n, u>>] # None
          PROVE  \E s \in Tasks : who[s] = u /\ pc[s] = "remove"
      BY <2>1, <3>1, <3>3 DEF Calm, GoneCalm, ClientStays
    <3> QED BY <3>1, <3>2, <3>3
  <2>6. GoneCalm'
    BY <2>5 DEF GoneCalm
  <2> QED BY <2>1, <2>2, <2>3, <2>4, <2>6 DEF Calm
<1> QED BY <1>1, <1>2 DEF CalmInv

\* A repair that deletes no user's entry keeps it.
LEMMA FixCalm ==
    ASSUME Inv, FixDelete, upset' = {}
    PROVE  /\ upset = {} /\ StoreFine
           /\ \A u \in gone, n \in LocalNames : store'[<<n, u>>] # None => store[<<n, u>>] # None
PROOF
<1>1. upset = {} /\ \A k \in del[Handler] : k[2] = NoUser
  BY NotDisturbed DEF FixDelete
<1>2. \A k \in Keys : store'[k] = store[k] \/ (store'[k] = None /\ k \in del[Handler])
  BY DEF FixDelete, DeleteBatch, data
<1>3. \A n \in LocalNames, u \in Users : store'[<<n, u>>] = store[<<n, u>>]
  <2>1. \A n \in LocalNames, u \in Users : <<n, u>> \in Keys /\ <<n, u>>[2] # NoUser
    BY LocalKeys
  <2> QED BY <1>1, <1>2, <2>1
<1>4. StoreFine
  BY <1>2, <1>3, LocalKeys DEF StoreFine, Shown
<1> QED BY <1>1, <1>3, <1>4 DEF Inv, UsersOK

\* The handler thread keeps the invariant.
LEMMA HandlerCalm ==
    ASSUME Inv, Inv', CalmInv, DeviceOnline \/ HandlerRuns
    PROVE  CalmInv'
PROOF
<1>0. /\ Handler \in Threads /\ Handler \notin Clients /\ Handler \notin Tasks
      /\ Clients \subseteq Threads /\ Tasks \subseteq Threads
      /\ pc \in [Threads -> Pcs] /\ del \in [Threads -> SUBSET Keys]
  BY ThreadsAssumption DEF Threads, Inv, CallsOK, DelOK
<1>1. PICK l : pc' = [pc EXCEPT ![Handler] = l]
  BY Zenon DEF DeviceOnline, HandlerRuns, FixLocal, FixLocalKeys, FixPeer, FixPeerKeys, ReInitClose,
     ReInitOpen, FixEnd, Goto
<1>2. PICK d : del' = [del EXCEPT ![Handler] = d] \/ del' = del
  BY Zenon DEF DeviceOnline, HandlerRuns, FixLocal, FixLocalKeys, FixPeer, FixPeerKeys, ReInitClose,
     ReInitOpen, FixEnd, locals
<1>3. UNCHANGED <<fg, fgLock, who, osFg, gone, ents, req, overtaken>>
  BY DEF DeviceOnline, HandlerRuns, FixLocal, FixLocalKeys, FixPeer, FixPeerKeys, ReInitClose,
     ReInitOpen, locals, users, locks, history
<1>4. TasksStay /\ \A c \in Clients : ClientStays(c)
  BY <1>0, <1>1, <1>2, <1>3 DEF TasksStay, TaskStays, ClientStays
<1>5. \/ FixDelete
      \/ store' = store /\ upset' = upset
  BY DEF DeviceOnline, HandlerRuns, FixLocal, FixLocalKeys, FixPeer, FixPeerKeys, ReInitClose,
     ReInitOpen, data, history
<1>6. ASSUME upset' = {}
      PROVE  /\ upset = {} /\ StoreFine
             /\ \A u \in gone, n \in LocalNames : store'[<<n, u>>] # None => store[<<n, u>>] # None
  <2>1. CASE FixDelete
    BY <1>6, <2>1, FixCalm
  <2>2. CASE store' = store /\ upset' = upset
    BY <1>6, <2>2 DEF StoreFine
  <2> QED BY <1>5, <2>1, <2>2
<1> QED BY <1>3, <1>4, <1>6, QuietCalm

\* So do the KV service and synchronisation.
LEMMA OutsideCalm ==
    ASSUME Inv, Inv', CalmInv, KvDies \/ \E k \in ForeignKeys : Synced(k)
    PROVE  CalmInv'
PROOF
<1>1. UNCHANGED <<fg, fgLock, who, osFg, gone, pc, del, ents, req, overtaken, upset>>
  BY DEF KvDies, Synced, locals, users, locks, history
<1>2. TasksStay /\ \A c \in Clients : ClientStays(c)
  BY <1>1 DEF TasksStay, TaskStays, ClientStays
<1>3. CASE KvDies
  <2>1. store' = store
    BY <1>3 DEF KvDies, data
  <2>2. StoreFine
    BY <2>1 DEF StoreFine
  <2> QED BY <1>1, <1>2, <2>1, <2>2, QuietCalm
<1>4. ASSUME NEW k \in ForeignKeys, Synced(k) PROVE CalmInv'
  <2>1. k \in Keys /\ k[2] \notin gone
    BY <1>4, StartAssumption DEF Synced
  <2>2. PICK v \in Values : store' = [store EXCEPT ![k] = <<k[2], v>>]
    BY <1>4 DEF Synced
  <2>3. \A j \in Keys : store'[j] = IF j = k THEN <<k[2], v>> ELSE store[j]
    BY <2>1, <2>2 DEF Inv, StoreOK, Entries
  <2>4. <<k[2], v>> # None
    BY <2>1, ValuesAssumption DEF Value, Keys
  <2>5. \A n \in LocalNames : store'[Plain(n)] = store[Plain(n)] \/ ~Shown(n)'
    <3>1. \A n \in LocalNames : Plain(n) \in Keys /\ Plain(n)[2] = NoUser
      BY LocalKeys DEF Plain
    <3> QED BY <2>3, <3>1 DEF Shown
  <2>6. \A n \in LocalNames, u \in Users : store[<<n, u>>] # None => store'[<<n, u>>] # None
    BY <2>3, <2>4, LocalKeys
  <2>7. \A u \in gone, n \in LocalNames : store'[<<n, u>>] # None => store[<<n, u>>] # None
    BY <2>1, <2>3, LocalKeys DEF Inv, UsersOK
  <2>8. StoreFine
    BY <2>5, <2>6 DEF StoreFine
  <2> QED BY <1>1, <1>2, <2>7, <2>8, QuietCalm
<1> QED BY <1>3, <1>4

\* A restart that loses no user change keeps it.
LEMMA RestartCalm ==
    ASSUME Inv, Inv', CalmInv, Restart
    PROVE  CalmInv'
PROOF
<1>0. Clients \subseteq Threads /\ Tasks \subseteq Threads /\ Clients \cap Tasks = {}
  BY ThreadsAssumption DEF Threads
<1>1. PICK u \in Users \ gone, t \in Tasks :
          /\ osFg' = u
          /\ pc' = [x \in Threads |-> IF x = t THEN "switch" ELSE "idle"]
          /\ who' = [x \in Tasks |-> IF x = t THEN u ELSE NoUserYet]
          /\ Disturbed("restarted", u # fg \/ \E x \in Tasks : pc[x] # "idle")
  BY DEF Restart
<1>2. /\ \A c \in Clients : pc'[c] = "idle" /\ ents'[c] = NoEntries
      /\ pc'[t] = "switch" /\ who'[t] = u
      /\ \A s \in Tasks \ {t} : pc'[s] = "idle"
  BY <1>0, <1>1 DEF Restart
<1>3. FgLockInv' /\ IdleEnts'
  BY <1>2 DEF FgLockInv, IdleEnts, Changing
<1>4. ASSUME upset' = {} PROVE Calm'
  <2>1. upset = {} /\ u = fg /\ \A x \in Tasks : pc[x] = "idle"
    BY <1>1, <1>4, NotDisturbed
  <2>2. Calm
    BY <2>1 DEF CalmInv
  <2>3. \A x \in Tasks : ~Switching(x) /\ ~Changing(x) /\ ~Removing(x)
    BY <2>1 DEF Switching, Changing, Removing
  <2>4. /\ u = osFg /\ osFg' = u /\ gone' = gone /\ fg' = NoUser /\ store' = store
    BY <1>1, <2>1, <2>2, <2>3 DEF Calm, EventUsers, Restart, data
  <2>5. Foreground' = Foreground
    BY <2>1, <2>4, LocalKeys DEF Foreground
  <2>6. OneEvent'
    BY <1>2 DEF OneEvent
  <2>7. EventUsers'
    BY <1>2, <2>4 DEF EventUsers, Switching, Changing, Removing
  <2>8. PlainShows' /\ SaveShows'
    <3>1. StoreFine
      BY <2>4 DEF StoreFine
    <3>2. \A s \in Tasks : pc'[s] \notin {"save", "clear"} /\ pc[s] # "clear"
      BY <1>2, <2>1
    <3> QED BY <2>2, <2>5, <3>1, <3>2, ShowsStay DEF Calm
  <2>9. PutsCalm' /\ GetsCalm'
    BY <1>2 DEF PutsCalm, GetsCalm
  <2>10. ASSUME NEW v \in gone', NEW n \in LocalNames
         PROVE  store'[<<n, v>>] = None
    BY <2>2, <2>3, <2>4, NothingLeft DEF Calm
  <2>11. GoneCalm'
    BY <1>2, <2>10 DEF GoneCalm
  <2> QED BY <2>6, <2>7, <2>8, <2>9, <2>11 DEF Calm
<1> QED BY <1>3, <1>4 DEF CalmInv

\* At the start the plain keys show nobody's put, and all threads are idle.
LEMMA InitCalm == Init => CalmInv
PROOF
<1> SUFFICES ASSUME Init PROVE CalmInv
  OBVIOUS
<1>0. Clients \subseteq Threads /\ Tasks \subseteq Threads
  BY DEF Threads
<1>1. /\ \A t \in Threads : pc[t] = "idle" /\ ents[t] = NoEntries
      /\ fg = osFg /\ gone = {}
  BY DEF Init
<1>2. FgLockInv /\ IdleEnts
  BY <1>0, <1>1 DEF FgLockInv, IdleEnts, Changing
<1>3. OneEvent /\ EventUsers /\ SaveShows /\ PutsCalm /\ GetsCalm /\ GoneCalm
  BY <1>0, <1>1 DEF OneEvent, EventUsers, SaveShows, PutsCalm, GetsCalm, GoneCalm,
     Switching, Changing, Removing
<1>4. \A n \in LocalNames : ~Shown(n)
  <2>1. \A n \in LocalNames : Plain(n) \in Keys /\ Plain(n)[2] = NoUser
    BY LocalKeys DEF Plain
  <2> QED BY <2>1, StartAssumption DEF Init, Shown, Present
<1>5. PlainShows
  BY <1>4 DEF PlainShows
<1> QED BY <1>2, <1>3, <1>5 DEF CalmInv, Calm

\* Every step keeps it.
LEMMA NextCalm == Inv /\ Inv' /\ CalmInv /\ [Next]_vars => CalmInv'
PROOF
<1> SUFFICES ASSUME Inv, Inv', CalmInv, [Next]_vars PROVE CalmInv'
  OBVIOUS
<1>1. ASSUME NEW c \in Clients, ClientNext(c) PROVE CalmInv'
  BY <1>1, ClientCalm
<1>2. ASSUME NEW t \in Tasks, TaskNext(t) PROVE CalmInv'
  BY <1>2, TaskCalm
<1>3. CASE DeviceOnline \/ HandlerRuns
  BY <1>3, HandlerCalm
<1>4. CASE KvDies \/ \E k \in ForeignKeys : Synced(k)
  BY <1>4, OutsideCalm
<1>5. CASE Restart
  BY <1>5, RestartCalm
<1>6. CASE UNCHANGED vars
  <2>1. TasksStay /\ (\A c \in Clients : ClientStays(c)) /\ UNCHANGED <<fg, fgLock, upset, store>>
    BY <1>6 DEF vars, data, users, locks, locals, history, TasksStay, TaskStays, ClientStays
  <2>2. StoreFine
    BY <2>1 DEF StoreFine
  <2> QED BY <2>1, <2>2, QuietCalm
<1> QED BY <1>1, <1>2, <1>3, <1>4, <1>5, <1>6 DEF Next

\* So it holds in every state of every behaviour.
LEMMA SpecCalm == Spec => [](Inv /\ CalmInv)
PROOF
<1>1. Init => Inv /\ CalmInv
  BY InitInv, InitCalm
<1>2. (Inv /\ CalmInv) /\ [Next]_vars => (Inv /\ CalmInv)'
  BY NextInv, NextCalm
<1> QED BY <1>1, <1>2, PTL DEF Spec

\* Between account events a plain key shows what was put without a user or by the user in the
\* foreground, however puts, deletes, repairs, synchronisation and restarts come between the
\* critical sections of OnUserChange, unless one of the recorded disturbances has happened.
THEOREM PlainKeysIsolated == Spec => []Isolation
PROOF
<1>1. Inv /\ CalmInv => Isolation
  <2> SUFFICES ASSUME Inv, CalmInv, ~Busy, upset = {}, NEW n \in LocalNames, store[Plain(n)] # None,
                      store[Plain(n)][1] # NoUser
               PROVE  store[Plain(n)][1] = osFg
    BY DEF Isolation
  <2>1. \A t \in Tasks : pc[t] = "idle"
    BY DEF Busy
  <2>2. Shower(n) = Foreground
    BY <2>1 DEF CalmInv, Calm, PlainShows, Shown, Held
  <2>3. fg = osFg
    BY <2>1 DEF CalmInv, Calm, EventUsers, Switching, Changing
  <2> QED BY <2>2, <2>3 DEF Shower, Foreground
<1> QED BY <1>1, SpecCalm, PTL

\* Once the removal of a user has been handled no entry is left under his keys, on the same
\* conditions (DeleteRemovedUserData).
THEOREM RemovedUsersForgotten == Spec => []RemovedForgotten
PROOF
<1>1. Inv /\ CalmInv => RemovedForgotten
  <2> SUFFICES ASSUME CalmInv, ~Busy, upset = {} PROVE \A u \in gone, n \in LocalNames : store[<<n, u>>] = None
    BY DEF RemovedForgotten
  <2>1. \A t \in Tasks : ~Removing(t)
    BY DEF Busy, Removing
  <2> QED BY <2>1, NothingLeft DEF CalmInv, Calm
<1> QED BY <1>1, SpecCalm, PTL

\* A get for a user that no user change has overtaken returns what that user has put, or what
\* was put without a user (GetProfilePropertiesMap), on the same conditions.
THEOREM OwnProfilesRead == Spec => GetOwnUnlessOvertaken
PROOF
<1>1. Inv /\ CalmInv /\ [Next]_vars =>
        [\A c \in Clients : GetEnds(c) /\ c \notin overtaken /\ upset = {} => GetsOwn(c)]_vars
  <2> SUFFICES ASSUME Inv, CalmInv, NEW c \in Clients, GetEnds(c), c \notin overtaken, upset = {},
                      req[c].user # NoUser, Result(c) # None, Result(c)[1] # NoUser
               PROVE  Result(c)[1] = req[c].user
    BY DEF GetsOwn
  <2> DEFINE n == req[c].name
             u == req[c].user
  <2>1. n \in LocalNames /\ u = fg /\ \A t \in Tasks : ~Changing(t)
    BY LocalKeys DEF GetEnds, CalmInv, Calm, GetsCalm
  <2>2. u \in Users /\ Foreground = u
    BY <2>1, LocalKeys DEF Inv, UsersOK, Foreground
  <2>3. Result(c) = Lookup(n, u)
    BY DEF Result
  <2>4. CASE store[<<n, u>>] # None
    <3>1. store[<<n, u>>][1] = u
      BY <2>1, <2>2, <2>4, LocalKeys DEF Inv, StoreOK, Owned
    <3> QED BY <2>3, <2>4, <3>1 DEF Lookup
  <2>5. CASE store[<<n, u>>] = None
    <3>1. Result(c) = store[Plain(n)] /\ Shown(n)
      BY <2>3, <2>5 DEF Lookup, Shown
    <3>2. Shower(n) = Foreground
      BY <2>1, <3>1 DEF CalmInv, Calm, PlainShows, Held, Changing
    <3> QED BY <2>2, <3>1, <3>2 DEF Shower
  <2> QED BY <2>4, <2>5
<1> QED BY <1>1, SpecCalm, PTL DEF Spec, GetOwnUnlessOvertaken
=============================================================================
