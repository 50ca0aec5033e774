-------------------------- MODULE ProfileSyncProofs --------------------------
(***************************************************************************)
(* Proofs about ProfileSync, for any callers, devices, adapters, batches   *)
(* and bounds: its types; that ProfileCache forgets the callbacks of       *)
(* processes that died; that the callback of an accepted synchronisation   *)
(* is called once; that stores are re-opened after a death unless the task *)
(* was removed; and that a subscriber of profiles last heard the value     *)
(* that a reader sees.                                                     *)
(***************************************************************************)
EXTENDS ProfileSync, FiniteSetTheorems, TLAPS

NameSets == [1 .. 3 -> SUBSET Names]

\* An announcement holds three sets of names, and the records that were read.
ChangesInv ==
    /\ data \in [Names -> DataValues \cup {None}]
    /\ changes \in Seq(NameSets)
    /\ change.pc \in {"idle", "read", "handle"} /\ change.kind \in 1 .. 3
    /\ change = [pc |-> change.pc, kind |-> change.kind, names |-> change.names, recs |-> change.recs]
    /\ change.names \in NameSets
    /\ DOMAIN change.recs \subseteq Names
    /\ \A n \in DOMAIN change.recs : change.recs[n] \in DataValues \cup {Gone}
    /\ missed \subseteq SubKeys
    /\ subs \in [SubKeys -> [Subscribers -> SUBSET ChangeTypes]]
    /\ told \in [Subscribers -> [SubKeys -> DataValues \cup {Gone, None}]]

LEMMA NoChangeIs ==
    /\ NoChange.pc = "idle" /\ NoChange.kind = 1 /\ NoChange.recs = <<>> /\ NoChange.names \in NameSets
    /\ NoChange = [pc |-> "idle", kind |-> 1, names |-> NoChange.names, recs |-> <<>>]
    /\ DOMAIN NoChange.recs = {}
PROOF
  BY DEF NoChange, NameSets

LEMMA ChangesStart == SyncInit => ChangesInv
PROOF
<1> SUFFICES ASSUME SyncInit PROVE ChangesInv
  OBVIOUS
<1>1. change = NoChange /\ changes = <<>> /\ missed = {}
  BY DEF SyncInit, ChangesInit
<1>2. data \in [Names -> DataValues \cup {None}]
  BY DEF SyncInit, ChangesInit
<1>3. subs \in [SubKeys -> [Subscribers -> SUBSET ChangeTypes]]
  BY DEF SyncInit, ChangesInit, SubscriptionsInit, Nobody
<1>4. told \in [Subscribers -> [SubKeys -> DataValues \cup {Gone, None}]]
  BY DEF SyncInit, ChangesInit, SubscriptionsInit
<1> QED
  BY <1>1, <1>2, <1>3, <1>4, NoChangeIs DEF ChangesInv

\* A write of a batch.
LEMMA WriteKeeps ==
    ASSUME ChangesInv, NEW b \in Batches, Write(b)
    PROVE  ChangesInv'
PROOF
<1> DEFINE changed == {n \in DOMAIN b : data[n] # b[n]}
<1>1. DOMAIN b \subseteq Names /\ \A n \in DOMAIN b : b[n] \in DataValues \cup {None}
  BY ChangesAssumption
<1>2. KvWrite(b, Open("dynamic"))
  BY DEF Write
<1>3. data' \in [Names -> DataValues \cup {None}]
  BY <1>1, <1>2 DEF KvWrite, ChangesInv
<1>4. changes' \in Seq(NameSets)
  <2> DEFINE ins == {n \in changed : data[n] = None}
             del == {n \in changed : b[n] = None}
             c == <<ins, changed \ (ins \cup del), del>>
  <2>1. c \in NameSets
    BY <1>1 DEF NameSets
  <2>2. changes' = Append(changes, c) \/ changes' = changes
    BY <1>2 DEF KvWrite
  <2> HIDE DEF c
  <2> QED
    BY <2>1, <2>2 DEF ChangesInv
<1>5. missed' \subseteq SubKeys
  <2>1. \A n \in Names : n[1] \in SubKeys
    BY DEF Names
  <2>2. {n[1] : n \in changed} \subseteq SubKeys
    BY <1>1, <2>1
  <2> QED
    BY <1>2, <2>2 DEF KvWrite, ChangesInv
<1> QED
  BY <1>2, <1>3, <1>4, <1>5 DEF KvWrite, ChangesInv, subVars

\* The next kind of an announcement.
LEMMA NextKindKeeps ==
    ASSUME ChangesInv, change' = NextKind(change)
    PROVE  /\ change'.pc \in {"idle", "read", "handle"} /\ change'.kind \in 1 .. 3
           /\ change' = [pc |-> change'.pc, kind |-> change'.kind, names |-> change'.names, recs |-> change'.recs]
           /\ change'.names \in NameSets /\ DOMAIN change'.recs = {}
PROOF
<1>1. CASE change.kind = 3
  BY <1>1, NoChangeIs DEF NextKind
<1>2. CASE change.kind # 3
  <2>1. change' = [pc |-> "read", kind |-> change.kind + 1, names |-> change.names, recs |-> <<>>]
    BY <1>2 DEF NextKind, ChangesInv
  <2>2. change'.pc = "read" /\ change'.kind = change.kind + 1 /\ change'.names = change.names /\ change'.recs = <<>>
    BY <2>1
  <2>3. change.kind + 1 \in 1 .. 3
    BY <1>2 DEF ChangesInv
  <2> QED
    BY <2>1, <2>2, <2>3 DEF ChangesInv
<1> QED
  BY <1>1, <1>2

\* The steps of an announcement.
LEMMA DataChangeKeeps ==
    ASSUME ChangesInv, DataChange
    PROVE  ChangesInv'
PROOF
<1> DEFINE Goal == ChangesInv'
<1> SUFFICES Goal
  OBVIOUS
<1>1. \A n \in Names : n[1] \in SubKeys
  BY DEF Names
<1>2. CASE OnChange
  <2>1. change' = [pc |-> "read", kind |-> 1, names |-> Head(changes), recs |-> <<>>]
    BY <1>2, NoChangeIs DEF OnChange
  <2>2. change'.pc = "read" /\ change'.kind = 1 /\ change'.names = Head(changes) /\ change'.recs = <<>>
    BY <2>1
  <2>3. Head(changes) \in NameSets /\ Tail(changes) \in Seq(NameSets)
    BY <1>2 DEF OnChange, ChangesInv
  <2>4. DOMAIN change'.recs = {}
    BY <2>2
  <2> QED
    BY <1>2, <2>1, <2>2, <2>3, <2>4 DEF OnChange, ChangesInv, subVars
<1>3. CASE ReadRecords(Open("dynamic"))
  <2> DEFINE names == change.names[change.kind]
             recs == IF Kinds[change.kind] = "delete" THEN [n \in names |-> Gone]
                     ELSE GetEntriesByKeys(names, Open("dynamic"))
  <2>1. names \subseteq Names
    BY DEF ChangesInv, NameSets
  <2>2. DOMAIN recs \subseteq Names /\ \A n \in DOMAIN recs : recs[n] \in DataValues \cup {Gone}
    BY <2>1 DEF GetEntriesByKeys, ChangesInv
  <2>3. missed' \subseteq SubKeys
    <3>1. {n[1] : n \in names} \subseteq SubKeys
      BY <1>1, <2>1
    <3> QED
      BY <1>3, <3>1 DEF ReadRecords, ChangesInv
  <2>4. CASE change' = NextKind(change)
    <3>1. \A n \in DOMAIN change'.recs : change'.recs[n] \in DataValues \cup {Gone}
      BY <2>4, NextKindKeeps
    <3> QED
      BY <1>3, <2>3, <2>4, <3>1, NextKindKeeps DEF ReadRecords, ChangesInv, subVars
  <2>5. CASE change' = [change EXCEPT !.pc = "handle", !.recs = recs]
    <3> HIDE DEF recs
    <3>1. change' = [pc |-> "handle", kind |-> change.kind, names |-> change.names, recs |-> recs]
      BY <2>5 DEF ChangesInv
    <3>2. change'.pc = "handle" /\ change'.kind = change.kind /\ change'.names = change.names /\ change'.recs = recs
      BY <3>1
    <3> QED
      BY <1>3, <2>2, <2>3, <3>1, <3>2 DEF ReadRecords, ChangesInv, subVars
  <2> QED
    BY <1>3, <2>4, <2>5 DEF ReadRecords
<1>4. CASE HandleChange(Open("dynamic"))
  <2>1. change' = NextKind(change) /\ UNCHANGED <<data, changes, subs>>
    BY <1>4 DEF HandleChange
  <2>2. missed' \subseteq SubKeys
    <3>1. {n[1] : n \in DOMAIN change.recs} \subseteq SubKeys
      BY <1>1 DEF ChangesInv
    <3> QED
      BY <1>4, <3>1 DEF HandleChange, ChangesInv
  <2>3. told' \in [Subscribers -> [SubKeys -> DataValues \cup {Gone, None}]]
    <3> DEFINE kind == Kinds[change.kind]
               names == FilterEntries(change.recs, kind, Open("dynamic"))
    <3>1. names \subseteq DOMAIN change.recs
      BY DEF FilterEntries
    <3> HIDE DEF names
    <3>2. \A k \in SubKeys : (\E n \in names : n[1] = k) =>
              change.recs[CHOOSE n \in names : n[1] = k] \in DataValues \cup {Gone, None}
      BY <3>1 DEF ChangesInv
    <3>3. told' = [s \in Subscribers |-> [k \in SubKeys |->
                     IF kind \in subs[k][s] /\ \E n \in names : n[1] = k
                     THEN change.recs[CHOOSE n \in names : n[1] = k] ELSE told[s][k]]]
      BY <1>4 DEF HandleChange, NotifyEntries, names
    <3>4. \A s \in Subscribers, k \in SubKeys : told[s][k] \in DataValues \cup {Gone, None}
      BY DEF ChangesInv
    <3> QED
      BY <3>2, <3>3, <3>4
  <2>4. \A n \in DOMAIN change'.recs : change'.recs[n] \in DataValues \cup {Gone}
    BY <2>1, NextKindKeeps
  <2> QED
    BY <2>1, <2>2, <2>3, <2>4, NextKindKeeps DEF ChangesInv
<1> QED
  BY <1>2, <1>3, <1>4 DEF DataChange

LEMMA ChangesKept ==
    ASSUME ChangesInv, [SyncNext]_<<syncVars, dataVars, subVars>>
    PROVE  ChangesInv'
PROOF
<1>1. CASE UNCHANGED <<dataVars, subVars>>
  BY <1>1 DEF ChangesInv, dataVars, subVars
<1>2. CASE \E s \in Subscribers, k \in SubKeys : Subscribe(s, k) \/ UnSubscribe(s, k)
  <2>1. PICK s \in Subscribers, k \in SubKeys : Subscribe(s, k) \/ UnSubscribe(s, k)
    BY <1>2
  <2>2. \E types \in SUBSET ChangeTypes : subs' = [subs EXCEPT ![k][s] = types]
    BY <2>1 DEF Subscribe, UnSubscribe, SubscribeDeviceProfile, UnSubscribeDeviceProfile
  <2>3. told' = told \/ told' = [told EXCEPT ![s][k] = None]
    BY <2>1 DEF Subscribe, UnSubscribe, SubscribeDeviceProfile, UnSubscribeDeviceProfile
  <2>5. subs' \in [SubKeys -> [Subscribers -> SUBSET ChangeTypes]]
    <3>1. PICK types \in SUBSET ChangeTypes : subs' = [subs EXCEPT ![k] = [subs[k] EXCEPT ![s] = types]]
      BY <2>2
    <3>2. [subs[k] EXCEPT ![s] = types] \in [Subscribers -> SUBSET ChangeTypes]
      BY DEF ChangesInv
    <3> QED
      BY <3>1, <3>2 DEF ChangesInv
  <2>6. told' \in [Subscribers -> [SubKeys -> DataValues \cup {Gone, None}]]
    <3> DEFINE Heard == DataValues \cup {Gone, None}
    <3>1. told \in [Subscribers -> [SubKeys -> Heard]] /\ None \in Heard
      BY DEF ChangesInv
    <3> HIDE DEF Heard
    <3>2. [told[s] EXCEPT ![k] = None] \in [SubKeys -> Heard]
      BY <3>1
    <3>3. told' = told \/ told' = [told EXCEPT ![s] = [told[s] EXCEPT ![k] = None]]
      BY <2>3
    <3>4. told' \in [Subscribers -> [SubKeys -> Heard]]
      BY <3>1, <3>2, <3>3
    <3> QED
      BY <3>4 DEF Heard
  <2>4. UNCHANGED dataVars
    BY <2>1 DEF Subscribe, UnSubscribe
  <2> QED
    BY <2>4, <2>5, <2>6 DEF ChangesInv, dataVars
<1>3. CASE \E b \in Batches : Write(b)
  BY <1>3, WriteKeeps
<1>4. CASE DataChange
  BY <1>4, DataChangeKeeps
<1>5. CASE SyncCalls
  BY <1>1, <1>5 DEF SyncCalls, Sync, AddSyncListener, KvSync, LoadAdapter, SyncWithNotOHBasedDevice
<1>6. CASE Handler
  BY <1>1, <1>6 DEF Handler, RunTask, GetSyncListeners, OnSyncCompleted, RemoveListeners, E2ESync, UnInit, Init
<1>7. CASE Outside
  BY <1>1, <1>7 DEF Outside, SyncCompleted, CallerDies, OnRemoteDied, DeviceOnline, DeviceOffline, KvServiceDies, OnKvDied
<1> QED
  BY <1>1, <1>2, <1>3, <1>4, <1>5, <1>6, <1>7 DEF SyncNext, Changes

-----------------------------------------------------------------------------
(* What subscribers hear.  An announcement names what was inserted, updated and *)
(* deleted; the values are read when its turn comes, and may be newer than it.  *)

InQueue(n, m) == \E i \in DOMAIN changes : n \in changes[i][m]
UnderWay(n, m) ==
    IF change.pc = "handle" /\ m = change.kind THEN n \in DOMAIN change.recs
    ELSE m >= change.kind /\ n \in change.names[m]
Queued(n) == \E m \in 1 .. 3 : InQueue(n, m)
Coming(n) == Queued(n) \/ \E m \in 1 .. 3 : UnderWay(n, m)
Leaving(n) == InQueue(n, 3) \/ UnderWay(n, 3)
Apart(c) == \A l, m \in 1 .. 3 : l # m => c[l] \cap c[m] = {}
Seen == {n \in Names : n[1] \notin missed}

\* A name that is stored no more, but is still to be announced as inserted or updated, is
\* announced as deleted after that.
QueueInv ==
    /\ \A i \in DOMAIN changes : Apart(changes[i])
    /\ Apart(change.names) /\ (change.pc = "handle" => DOMAIN change.recs \subseteq change.names[change.kind])
    /\ \A n \in Seen : data[n] = None =>
          /\ \A i \in DOMAIN changes : n \in changes[i][1] \cup changes[i][2] =>
                 \E j \in DOMAIN changes : j > i /\ n \in changes[j][3]
          /\ UnderWay(n, 1) \/ UnderWay(n, 2) => InQueue(n, 3)
\* A value that was read and is out of date has been announced again.
RecsInv ==
    change.pc = "handle" =>
       \A n \in DOMAIN change.recs \cap Seen :
          IF change.kind = 3 THEN change.recs[n] = Gone
          ELSE change.recs[n] # data[n] => Queued(n)
\* A subscriber that holds an outdated value is to hear of the name that readers see; if
\* that is the plain name, of it or of the deletion of the OH name.
Fresh(s, k) ==
    /\ data[<<k, "oh">>] # None /\ told[s][k] # data[<<k, "oh">>] => Coming(<<k, "oh">>)
    /\ data[<<k, "oh">>] = None /\ told[s][k] # data[<<k, "plain">>] =>
           Leaving(<<k, "oh">>) \/ Coming(<<k, "plain">>)
Watched == SubKeys \ (CharKeys \cup missed)
FreshInv == \A s \in Subscribers, k \in Watched :
                told[s][k] \in DataValues => subs[k][s] = ChangeTypes /\ Fresh(s, k)
KindsInv == \A s \in Subscribers, k \in SubKeys : subs[k][s] = {} \/ subs[k][s] = ChangeTypes
HearInv == ChangesInv /\ QueueInv /\ RecsInv /\ FreshInv /\ KindsInv

LEMMA NamesOf ==
    /\ \A k \in Watched : /\ <<k, "oh">> \in Seen /\ <<k, "plain">> \in Seen
                          /\ <<k, "oh">>[1] = k /\ <<k, "plain">>[1] = k
    /\ Seen \subseteq Names
PROOF
  BY DEF Watched, Seen, Names

\* A write: what it changes is announced, unless no listener is registered.
LEMMA WriteHeard ==
    ASSUME HearInv, NEW b \in Batches, Write(b)
    PROVE  QueueInv' /\ RecsInv' /\ FreshInv'
PROOF
<1> DEFINE Goal == QueueInv' /\ RecsInv' /\ FreshInv'
<1> SUFFICES Goal
  OBVIOUS
<1> DEFINE changed == {n \in DOMAIN b : data[n] # b[n]}
           ins == {n \in changed : data[n] = None}
           del == {n \in changed : b[n] = None}
           c == <<ins, changed \ (ins \cup del), del>>
<1>1. /\ data' = [n \in Names |-> IF n \in changed THEN b[n] ELSE data[n]]
      /\ \/ changes' = Append(changes, c) /\ missed' = missed
         \/ changes' = changes /\ missed' = missed \cup {n[1] : n \in changed}
      /\ UNCHANGED <<change, subs, told>>
  BY DEF Write, KvWrite, subVars
<1>2. changed \subseteq Names /\ changes \in Seq(NameSets)
  BY ChangesAssumption DEF HearInv, ChangesInv
<1>3. c \in NameSets /\ Apart(c) /\ c[1] \cup c[2] \cup c[3] = changed
  BY <1>2 DEF NameSets, Apart
<1>4. \A n \in changed : n \in c[3] <=> b[n] = None
  OBVIOUS
<1>5. \A n \in changed : \E m \in 1 .. 3 : n \in c[m]
  BY <1>3
<1> HIDE DEF c
<1>6. /\ Seen' \subseteq Seen /\ Watched' \subseteq Watched
      /\ changes' = changes => Seen' \cap changed = {}
  <2>1. missed \subseteq missed'
    BY <1>1
  <2>2. changes' # changes \/ (\A n \in changed : n[1] \in missed')
    <3>1. CASE changes' = Append(changes, c)
      <4>1. Len(changes') = Len(changes) + 1
        BY <1>2, <1>3, <3>1
      <4> QED
        BY <1>2, <4>1
    <3> QED
      BY <1>1, <3>1
  <2> QED
    BY <2>1, <2>2 DEF Seen, Watched
<1>7. /\ DOMAIN changes \subseteq DOMAIN changes' /\ DOMAIN changes \subseteq Nat
      /\ \A i \in DOMAIN changes : changes'[i] = changes[i]
      /\ changes' # changes =>
             \E l \in DOMAIN changes' : /\ changes'[l] = c /\ l \in Nat
                                        /\ \A i \in DOMAIN changes : l > i
                                        /\ DOMAIN changes' = DOMAIN changes \cup {l}
  <2>1. CASE changes' = Append(changes, c)
    <3>1. DOMAIN changes = 1 .. Len(changes) /\ DOMAIN changes' = 1 .. (Len(changes) + 1) /\ Len(changes) \in Nat
          /\ changes'[Len(changes) + 1] = c /\ \A i \in 1 .. Len(changes) : changes'[i] = changes[i]
      BY <1>2, <1>3, <2>1
    <3> QED
      BY <3>1
  <2>2. CASE changes' = changes
    BY <1>2, <2>2
  <2> QED
    BY <1>1, <2>1, <2>2
<1>8. \A n, m : InQueue(n, m) => InQueue(n, m)'
  BY <1>7 DEF InQueue
<1>9. \A n \in Seen' \cap changed : Queued(n)' /\ (b[n] = None => InQueue(n, 3)')
  <2> SUFFICES ASSUME NEW n \in Seen' \cap changed PROVE Queued(n)' /\ (b[n] = None => InQueue(n, 3)')
    OBVIOUS
  <2>1. PICK l \in DOMAIN changes' : changes'[l] = c
    BY <1>6, <1>7
  <2> QED
    BY <1>4, <1>5, <2>1 DEF Queued, InQueue
<1>10. \A n \in Names : data'[n] = IF n \in changed THEN b[n] ELSE data[n]
  BY <1>1
<1>11. \A n, m : UnderWay(n, m)' <=> UnderWay(n, m)
  BY <1>1 DEF UnderWay
<1>12. /\ \A n : Coming(n) => Coming(n)'
       /\ \A n : Leaving(n) => Leaving(n)'
       /\ \A n : Queued(n) => Queued(n)'
  BY <1>8, <1>11 DEF Coming, Leaving, Queued
<1>13. QueueInv'
  <2>1. \A i \in DOMAIN changes' : Apart(changes'[i])
    BY <1>3, <1>7 DEF HearInv, QueueInv
  <2>2. Apart(change'.names) /\ (change'.pc = "handle" => DOMAIN change'.recs \subseteq change'.names[change'.kind])
    BY <1>1 DEF HearInv, QueueInv
  <2>3. ASSUME NEW n \in Seen', data'[n] = None
        PROVE  /\ \A i \in DOMAIN changes' : n \in changes'[i][1] \cup changes'[i][2] =>
                      \E j \in DOMAIN changes' : j > i /\ n \in changes'[j][3]
               /\ UnderWay(n, 1)' \/ UnderWay(n, 2)' => InQueue(n, 3)'
    <3>1. n \in Seen /\ n \in Names
      BY <1>6, <2>3, NamesOf
    <3>2. CASE n \in changed
      <4>1. b[n] = None
        BY <1>10, <2>3, <3>1, <3>2
      <4>2. PICK l \in DOMAIN changes' : changes'[l] = c /\ DOMAIN changes' = DOMAIN changes \cup {l}
                                         /\ \A i \in DOMAIN changes : l > i
        BY <1>6, <1>7, <2>3, <3>2
      <4>3. n \in c[3] /\ n \notin c[1] \cup c[2]
        BY <1>3, <1>4, <3>2, <4>1 DEF Apart
      <4> QED
        BY <1>9, <2>3, <3>2, <4>1, <4>2, <4>3
    <3>3. CASE n \notin changed
      <4>1. data[n] = None /\ n \notin c[1] \cup c[2]
        BY <1>3, <1>10, <2>3, <3>1, <3>3
      <4>2. \A i \in DOMAIN changes : n \in changes[i][1] \cup changes[i][2] =>
                \E j \in DOMAIN changes : j > i /\ n \in changes[j][3]
        BY <3>1, <4>1 DEF HearInv, QueueInv
      <4>3. UnderWay(n, 1) \/ UnderWay(n, 2) => InQueue(n, 3)
        BY <3>1, <4>1 DEF HearInv, QueueInv
      <4>4. ASSUME NEW i \in DOMAIN changes', n \in changes'[i][1] \cup changes'[i][2]
            PROVE  \E j \in DOMAIN changes' : j > i /\ n \in changes'[j][3]
        <5>1. i \in DOMAIN changes /\ n \in changes[i][1] \cup changes[i][2]
          BY <1>1, <1>7, <4>1, <4>4
        <5>2. PICK j \in DOMAIN changes : j > i /\ n \in changes[j][3]
          BY <4>2, <5>1
        <5> QED
          BY <1>7, <5>2
      <4> QED
        BY <1>8, <1>11, <4>3, <4>4
    <3> QED
      BY <3>2, <3>3
  <2> QED
    BY <2>1, <2>2, <2>3 DEF QueueInv
<1>14. RecsInv'
  <2> SUFFICES ASSUME change'.pc = "handle", NEW n \in DOMAIN change'.recs \cap Seen'
               PROVE  IF change'.kind = 3 THEN change'.recs[n] = Gone
                      ELSE change'.recs[n] # data'[n] => Queued(n)'
    BY DEF RecsInv
  <2>1. IF change.kind = 3 THEN change.recs[n] = Gone ELSE change.recs[n] # data[n] => Queued(n)
    BY <1>1, <1>6 DEF HearInv, RecsInv
  <2>2. n \in Names
    BY <1>6, NamesOf
  <2> QED
    BY <1>1, <1>9, <1>10, <1>12, <2>1, <2>2
<1>15. FreshInv'
  <2> SUFFICES ASSUME NEW s \in Subscribers, NEW k \in Watched', told'[s][k] \in DataValues
               PROVE  subs'[k][s] = ChangeTypes /\ Fresh(s, k)'
    BY DEF FreshInv
  <2>1. subs[k][s] = ChangeTypes /\ Fresh(s, k)
    BY <1>1, <1>6 DEF HearInv, FreshInv
  <2>2. <<k, "oh">> \in Seen' /\ <<k, "plain">> \in Seen' /\ <<k, "oh">> \in Names /\ <<k, "plain">> \in Names
    BY DEF Watched, Seen, Names
  <2>3. Leaving(<<k, "oh">>)' <=> InQueue(<<k, "oh">>, 3)' \/ UnderWay(<<k, "oh">>, 3)'
    BY DEF Leaving
  <2>4. \A n : Queued(n)' => Coming(n)'
    BY DEF Coming
  <2> DEFINE o == <<k, "oh">>
             p == <<k, "plain">>
  <2> HIDE DEF o, p
  <2>5. /\ data[o] # None /\ told[s][k] # data[o] => Coming(o)
        /\ data[o] = None /\ told[s][k] # data[p] => Leaving(o) \/ Coming(p)
    BY <2>1 DEF Fresh, o, p
  <2>6. o \in Seen' /\ p \in Seen' /\ o \in Names /\ p \in Names /\ (InQueue(o, 3)' => Leaving(o)')
    BY <2>2, <2>3 DEF o, p
  <2>7. /\ data'[o] # None /\ told[s][k] # data'[o] => Coming(o)'
        /\ data'[o] = None /\ told[s][k] # data'[p] => Leaving(o)' \/ Coming(p)'
    BY <1>9, <1>10, <1>12, <2>4, <2>5, <2>6
  <2>8. Fresh(s, k)'
    BY <1>1, <2>7 DEF Fresh, o, p
  <2> QED
    BY <1>1, <2>1, <2>8
<1> QED
  BY <1>13, <1>14, <1>15

LEMMA OnChangeHeard ==
    ASSUME HearInv, OnChange
    PROVE  QueueInv' /\ RecsInv' /\ FreshInv'
PROOF
<1> DEFINE Goal == QueueInv' /\ RecsInv' /\ FreshInv'
<1> SUFFICES Goal
  OBVIOUS
<1>1. /\ change'.pc = "read" /\ change'.kind = 1 /\ change'.names = Head(changes)
      /\ changes' = Tail(changes) /\ changes # <<>>
      /\ UNCHANGED <<data, missed, subs, told>>
  BY NoChangeIs DEF OnChange, subVars
<1>2. changes \in Seq(NameSets)
  BY DEF HearInv, ChangesInv
<1>3. /\ 1 \in DOMAIN changes /\ Head(changes) = changes[1] /\ DOMAIN changes \subseteq Nat
      /\ \A i \in DOMAIN changes' : i + 1 \in DOMAIN changes /\ changes'[i] = changes[i + 1]
      /\ \A i \in DOMAIN changes : i > 1 => i - 1 \in DOMAIN changes' /\ changes'[i - 1] = changes[i]
      /\ DOMAIN changes' \subseteq Nat
  BY <1>1, <1>2
<1>4. \A n, m : InQueue(n, m) => n \in Head(changes)[m] \/ InQueue(n, m)'
  <2> SUFFICES ASSUME NEW n, NEW m, InQueue(n, m) PROVE n \in Head(changes)[m] \/ InQueue(n, m)'
    OBVIOUS
  <2>1. PICK i \in DOMAIN changes : n \in changes[i][m]
    BY DEF InQueue
  <2>2. CASE i > 1
    BY <1>3, <2>1, <2>2 DEF InQueue
  <2>3. CASE ~(i > 1)
    <3>1. i = 1
      BY <1>1, <1>2, <2>3
    <3> QED
      BY <1>3, <2>1, <3>1
  <2> QED
    BY <2>2, <2>3
<1>5. \A n, m : ~UnderWay(n, m) \/ m \notin 1 .. 3
  BY DEF OnChange, NoChange, UnderWay
<1>6. \A n : \A m \in 1 .. 3 : UnderWay(n, m)' <=> n \in Head(changes)[m]
  BY <1>1 DEF UnderWay
<1>7. \A n : (Coming(n) => Coming(n)') /\ (Leaving(n) => Leaving(n)')
  BY <1>4, <1>5, <1>6 DEF Coming, Leaving, Queued
<1>8. Seen' = Seen /\ Watched' = Watched
  BY <1>1 DEF Seen, Watched
<1>9. QueueInv'
  <2>1. \A i \in DOMAIN changes' : Apart(changes'[i])
    BY <1>3 DEF HearInv, QueueInv
  <2>2. Apart(change'.names) /\ change'.pc # "handle"
    BY <1>1, <1>3 DEF HearInv, QueueInv
  <2>3. ASSUME NEW n \in Seen, data[n] = None
        PROVE  /\ \A i \in DOMAIN changes' : n \in changes'[i][1] \cup changes'[i][2] =>
                      \E j \in DOMAIN changes' : j > i /\ n \in changes'[j][3]
               /\ UnderWay(n, 1)' \/ UnderWay(n, 2)' => InQueue(n, 3)'
    <3>1. \A i \in DOMAIN changes : n \in changes[i][1] \cup changes[i][2] =>
              \E j \in DOMAIN changes : j > i /\ n \in changes[j][3]
      BY <2>3 DEF HearInv, QueueInv
    <3>2. ASSUME NEW i \in DOMAIN changes', n \in changes'[i][1] \cup changes'[i][2]
          PROVE  \E j \in DOMAIN changes' : j > i /\ n \in changes'[j][3]
      <4>1. PICK j \in DOMAIN changes : j > i + 1 /\ n \in changes[j][3]
        BY <1>3, <3>1, <3>2
      <4>2. j \in Nat /\ i \in Nat
        BY <1>3
      <4>3. j > 1 /\ j - 1 > i
        BY <4>1, <4>2
      <4> QED
        BY <1>3, <4>1, <4>3
    <3>3. ASSUME UnderWay(n, 1)' \/ UnderWay(n, 2)' PROVE InQueue(n, 3)'
      <4>1. n \in changes[1][1] \cup changes[1][2]
        BY <1>3, <1>6, <3>3
      <4>2. PICK j \in DOMAIN changes : j > 1 /\ n \in changes[j][3]
        BY <1>3, <3>1, <4>1
      <4> QED
        BY <1>3, <4>2 DEF InQueue
    <3> QED
      BY <3>2, <3>3
  <2>4. \A n \in Seen : data'[n] = data[n]
    BY <1>1
  <2> QED
    BY <1>8, <2>1, <2>2, <2>3, <2>4 DEF QueueInv
<1>10. RecsInv'
  BY <1>1 DEF RecsInv
<1>11. FreshInv'
  BY <1>1, <1>7, <1>8 DEF HearInv, FreshInv, Fresh
<1> QED
  BY <1>9, <1>10, <1>11

\* What is under way when a kind is done with.
LEMMA NextKindWay ==
    ASSUME ChangesInv, Apart(change.names), change' = NextKind(change)
    PROVE  /\ \A n : \A m \in 1 .. 3 : UnderWay(n, m)' <=> m > change.kind /\ n \in change.names[m]
           /\ Apart(change'.names) /\ change'.pc # "handle"
PROOF
<1>1. CASE change.kind = 3
  <2>1. change' = NoChange
    BY <1>1 DEF NextKind
  <2> QED
    BY <1>1, <2>1 DEF NoChange, UnderWay, Apart
<1>2. CASE change.kind # 3
  <2>1. change' = [pc |-> "read", kind |-> change.kind + 1, names |-> change.names, recs |-> <<>>]
    BY <1>2 DEF NextKind, ChangesInv
  <2>2. change'.pc = "read" /\ change'.kind = change.kind + 1 /\ change'.names = change.names
    BY <2>1
  <2>3. change.kind \in 1 .. 3
    BY DEF ChangesInv
  <2> QED
    BY <1>2, <2>2, <2>3 DEF UnderWay
<1> QED
  BY <1>1, <1>2

\* A name whose last state was read, or that is gone and is announced as deleted later.
LEMMA QueuedGone ==
    ASSUME QueueInv, NEW n \in Seen, data[n] = None, Queued(n)
    PROVE  InQueue(n, 3)
PROOF
<1>1. PICK m \in 1 .. 3, i \in DOMAIN changes : n \in changes[i][m]
  BY DEF Queued, InQueue
<1>2. CASE m = 3
  BY <1>1, <1>2 DEF InQueue
<1>3. CASE m # 3
  <2>1. m = 1 \/ m = 2
    BY <1>3
  <2>2. n \in changes[i][1] \cup changes[i][2]
    BY <1>1, <2>1
  <2> QED
    BY <2>2 DEF QueueInv, InQueue
<1> QED
  BY <1>2, <1>3

LEMMA ReadHeard ==
    ASSUME HearInv, NEW open \in BOOLEAN, ReadRecords(open)
    PROVE  QueueInv' /\ RecsInv' /\ FreshInv'
PROOF
<1> DEFINE Goal == QueueInv' /\ RecsInv' /\ FreshInv'
<1> SUFFICES Goal
  OBVIOUS
<1> DEFINE kind == change.kind
           names == change.names[kind]
           recs == IF Kinds[kind] = "delete" THEN [n \in names |-> Gone] ELSE GetEntriesByKeys(names, open)
<1>1. /\ change' = IF recs = <<>> THEN NextKind(change) ELSE [change EXCEPT !.pc = "handle", !.recs = recs]
      /\ missed' = IF open THEN missed ELSE missed \cup {n[1] : n \in names}
      /\ change.pc = "read" /\ UNCHANGED <<data, changes, subs, told>>
  BY DEF ReadRecords, subVars
<1>2. kind \in 1 .. 3 /\ Apart(change.names) /\ (Kinds[kind] = "delete" <=> kind = 3)
  BY DEF HearInv, ChangesInv, QueueInv, Kinds
<1>3. DOMAIN recs \subseteq names
  BY DEF GetEntriesByKeys
<1>4. Seen' \subseteq Seen /\ Watched' \subseteq Watched
  BY <1>1 DEF Seen, Watched
<1>5. \A n \in Seen' \cap names : n \in DOMAIN recs \/ (kind # 3 /\ data[n] = None)
  <2> SUFFICES ASSUME NEW n \in Seen' \cap names, kind # 3, data[n] # None PROVE n \in DOMAIN recs
    BY <1>2
  <2>1. open
    BY <1>1 DEF Seen
  <2> QED
    BY <1>2, <2>1 DEF GetEntriesByKeys
<1>6. \A n \in DOMAIN recs : recs[n] = IF kind = 3 THEN Gone ELSE data[n]
  BY <1>2 DEF GetEntriesByKeys
<1> HIDE DEF recs
<1>7. /\ \A n : \A m \in 1 .. 3 : UnderWay(n, m)' <=> IF m = kind THEN n \in DOMAIN recs ELSE UnderWay(n, m)
      /\ Apart(change'.names)
      /\ change'.pc = "handle" => change'.recs = recs /\ change'.kind = kind /\ change'.names = change.names
  <2>1. CASE recs = <<>>
    <3>1. DOMAIN recs = {}
      BY <2>1
    <3>2. change' = NextKind(change) /\ ChangesInv
      BY <1>1, <2>1 DEF HearInv
    <3>3. \A n : \A m \in 1 .. 3 : UnderWay(n, m) <=> m >= kind /\ n \in change.names[m]
      BY <1>1, <1>2 DEF UnderWay
    <3>4. \A m \in 1 .. 3 : m > kind <=> m >= kind /\ m # kind
      BY <1>2
    <3> QED
      BY <1>2, <3>1, <3>2, <3>3, <3>4, NextKindWay
  <2>2. CASE recs # <<>>
    <3>1. change' = [pc |-> "handle", kind |-> change.kind, names |-> change.names, recs |-> recs]
      BY <1>1, <2>2 DEF HearInv, ChangesInv
    <3>2. change'.pc = "handle" /\ change'.kind = kind /\ change'.names = change.names /\ change'.recs = recs
      BY <3>1
    <3> QED
      BY <1>1, <1>2, <3>2 DEF UnderWay
  <2> QED
    BY <2>1, <2>2
<1>8. \A n : UnderWay(n, kind) <=> n \in names
  BY <1>1, <1>2 DEF UnderWay
<1>9. \A n, m : InQueue(n, m)' <=> InQueue(n, m)
  BY <1>1 DEF InQueue
<1>10. \A n : \A m \in 1 .. 3 : UnderWay(n, m)' => UnderWay(n, m)
  BY <1>3, <1>7, <1>8
<1>11. \A n \in Seen' : (Coming(n) => Coming(n)') /\ (Leaving(n) => Leaving(n)')
  <2> SUFFICES ASSUME NEW n \in Seen' PROVE (Coming(n) => Coming(n)') /\ (Leaving(n) => Leaving(n)')
    OBVIOUS
  <2>1. CASE n \in names /\ n \notin DOMAIN recs
    <3>1. kind \in 1 .. 2 /\ data[n] = None /\ n \in Seen
      BY <1>2, <1>4, <1>5, <2>1
    <3>2. UnderWay(n, 1) \/ UnderWay(n, 2)
      BY <1>8, <2>1, <3>1
    <3>3. InQueue(n, 3)
      BY <3>1, <3>2 DEF HearInv, QueueInv
    <3> QED
      BY <1>9, <3>3 DEF Coming, Leaving, Queued
  <2>2. CASE n \notin names \/ n \in DOMAIN recs
    <3>1. \A m \in 1 .. 3 : UnderWay(n, m) => UnderWay(n, m)'
      BY <1>7, <1>8, <2>2
    <3> QED
      BY <1>9, <3>1 DEF Coming, Leaving, Queued
  <2> QED
    BY <2>1, <2>2
<1>12. QueueInv'
  <2>1. ASSUME NEW n \in Seen', data[n] = None
        PROVE  /\ \A i \in DOMAIN changes : n \in changes[i][1] \cup changes[i][2] =>
                      \E j \in DOMAIN changes : j > i /\ n \in changes[j][3]
               /\ UnderWay(n, 1)' \/ UnderWay(n, 2)' => InQueue(n, 3)'
    <3>1. n \in Seen
      BY <1>4
    <3> QED
      BY <1>9, <1>10, <2>1, <3>1 DEF HearInv, QueueInv
  <2>2. \A i \in DOMAIN changes : Apart(changes[i])
    BY DEF HearInv, QueueInv
  <2> QED
    BY <1>1, <1>3, <1>7, <2>1, <2>2 DEF QueueInv
<1>13. RecsInv'
  BY <1>1, <1>6, <1>7 DEF RecsInv
<1>14. FreshInv'
  <2> SUFFICES ASSUME NEW s \in Subscribers, NEW k \in Watched', told'[s][k] \in DataValues
               PROVE  subs'[k][s] = ChangeTypes /\ Fresh(s, k)'
    BY DEF FreshInv
  <2>1. subs[k][s] = ChangeTypes /\ Fresh(s, k)
    BY <1>1, <1>4 DEF HearInv, FreshInv
  <2>2. <<k, "oh">> \in Seen' /\ <<k, "plain">> \in Seen'
    BY DEF Watched, Seen, Names
  <2> QED
    BY <1>1, <1>11, <2>1, <2>2 DEF Fresh
<1> QED
  BY <1>12, <1>13, <1>14

LEMMA HandleHeard ==
    ASSUME HearInv, NEW open \in BOOLEAN, HandleChange(open)
    PROVE  QueueInv' /\ RecsInv' /\ FreshInv'
PROOF
<1> DEFINE Goal == QueueInv' /\ RecsInv' /\ FreshInv'
<1> SUFFICES Goal
  OBVIOUS
<1> DEFINE kind == change.kind
           recs == change.recs
           names == FilterEntries(recs, Kinds[kind], open)
<1>1. /\ change.pc = "handle" /\ change' = NextKind(change) /\ UNCHANGED <<data, changes, subs>>
      /\ missed' = IF open THEN missed ELSE missed \cup {n[1] : n \in DOMAIN recs}
      /\ told' = [s \in Subscribers |-> [k \in SubKeys |->
                     IF Kinds[kind] \in subs[k][s] /\ \E n \in names : n[1] = k
                     THEN recs[CHOOSE n \in names : n[1] = k] ELSE told[s][k]]]
  BY DEF HandleChange, NotifyEntries
<1>2. /\ kind \in 1 .. 3 /\ Apart(change.names) /\ (Kinds[kind] = "delete" <=> kind = 3)
      /\ DOMAIN recs \subseteq Names /\ Kinds[kind] \in ChangeTypes
  BY <1>1, ChangesAssumption DEF HearInv, ChangesInv, QueueInv, Kinds
<1>3. Seen' \subseteq Seen /\ Watched' \subseteq Watched
  BY <1>1 DEF Seen, Watched
<1>4. /\ \A n : \A m \in 1 .. 3 : UnderWay(n, m)' <=> m # kind /\ UnderWay(n, m)
      /\ Apart(change'.names) /\ change'.pc # "handle"
  <2>1. /\ \A n : \A m \in 1 .. 3 : UnderWay(n, m)' <=> m > kind /\ n \in change.names[m]
        /\ Apart(change'.names) /\ change'.pc # "handle"
    BY <1>1, <1>2, NextKindWay DEF HearInv
  <2>2. \A m \in 1 .. 3 : m > kind <=> m >= kind /\ m # kind
    BY <1>2
  <2> QED
    BY <2>1, <2>2 DEF UnderWay
<1>5. \A n, m : InQueue(n, m)' <=> InQueue(n, m)
  BY <1>1 DEF InQueue
<1>6. \A n : UnderWay(n, kind) <=> n \in DOMAIN recs
  BY <1>1 DEF UnderWay
<1>7. \A n : n \notin DOMAIN recs => (Coming(n) => Coming(n)') /\ (Leaving(n) => Leaving(n)')
  BY <1>4, <1>5, <1>6 DEF Coming, Leaving, Queued
<1>8. \A n : (Queued(n) => Coming(n)') /\ (InQueue(n, 3) => Leaving(n)')
  BY <1>5 DEF Coming, Leaving, Queued
<1>9. QueueInv'
  <2>1. ASSUME NEW n \in Seen', data[n] = None
        PROVE  /\ \A i \in DOMAIN changes : n \in changes[i][1] \cup changes[i][2] =>
                      \E j \in DOMAIN changes : j > i /\ n \in changes[j][3]
               /\ UnderWay(n, 1)' \/ UnderWay(n, 2)' => InQueue(n, 3)'
    <3>1. n \in Seen
      BY <1>3
    <3> QED
      BY <1>4, <1>5, <2>1, <3>1 DEF HearInv, QueueInv
  <2>2. \A i \in DOMAIN changes : Apart(changes[i])
    BY DEF HearInv, QueueInv
  <2> QED
    BY <1>1, <1>4, <2>1, <2>2 DEF QueueInv
<1>10. RecsInv'
  BY <1>4 DEF RecsInv
<1>11. FreshInv'
  <2> SUFFICES ASSUME NEW s \in Subscribers, NEW k \in Watched', told'[s][k] \in DataValues
               PROVE  subs'[k][s] = ChangeTypes /\ Fresh(s, k)'
    BY DEF FreshInv
  <2>1. k \in Watched /\ k \in SubKeys /\ k \notin CharKeys
    BY <1>3 DEF Watched
  <2> DEFINE o == <<k, "oh">>
             p == <<k, "plain">>
  <2>2. /\ o \in Seen /\ p \in Seen /\ o[1] = k /\ p[1] = k /\ o[2] = "oh" /\ p[2] = "plain"
        /\ \A n \in DOMAIN recs : n[1] = k => n = o \/ n = p
    BY <1>2, <2>1, NamesOf DEF Names
  <2>3. (\E n \in DOMAIN recs : n[1] = k) => open
    BY <1>1 DEF Watched
  <2>4. names \subseteq DOMAIN recs /\ (o \in DOMAIN recs => o \in names)
    BY <2>2 DEF FilterEntries, Paired
  <2>5. p \in names => o \notin DOMAIN recs
    BY <2>2 DEF FilterEntries, Paired
  <2>6. p \in names /\ kind # 3 => data[o] = None
    <3> SUFFICES ASSUME p \in names, kind # 3, data[o] # None PROVE FALSE
      OBVIOUS
    <3>1. open
      BY <2>2, <2>3, <2>4
    <3>2. o \in DOMAIN GetEntriesByKeys({o}, open)
      BY <3>1 DEF GetEntriesByKeys
    <3> QED
      BY <1>2, <2>1, <2>2, <3>2 DEF FilterEntries
  <2>7. p \in DOMAIN recs \ names => o \in DOMAIN recs \/ data[o] # None
    <3> SUFFICES ASSUME p \in DOMAIN recs \ names, o \notin DOMAIN recs PROVE data[o] # None
      OBVIOUS
    <3>1. o \in DOMAIN GetEntriesByKeys({o}, open)
      BY <2>2 DEF FilterEntries, Paired
    <3> QED
      BY <3>1 DEF GetEntriesByKeys
  <2> HIDE DEF names
  <2>8. told'[s][k] = IF Kinds[kind] \in subs[k][s] /\ \E n \in names : n[1] = k
                      THEN recs[CHOOSE n \in names : n[1] = k] ELSE told[s][k]
    BY <1>1, <2>1
  <2>9. told[s][k] \in DataValues => subs[k][s] = ChangeTypes /\ Fresh(s, k)
    BY <2>1 DEF HearInv, FreshInv
  <2>10. \A n \in DOMAIN recs \cap Seen :
             IF kind = 3 THEN recs[n] = Gone ELSE recs[n] # data[n] => Queued(n)
    BY <1>1 DEF HearInv, RecsInv
  <2>11. \A n \in Seen : Queued(n) /\ data[n] = None => InQueue(n, 3)
    BY QueuedGone DEF HearInv
  <2>12. Gone \notin DataValues /\ None \notin DataValues
    BY ChangesAssumption
  <2>13. subs[k][s] = ChangeTypes
    <3>1. CASE told'[s][k] = told[s][k]
      BY <2>9, <3>1
    <3>2. CASE Kinds[kind] \in subs[k][s]
      BY <2>1, <3>2 DEF HearInv, KindsInv
    <3> QED
      BY <2>8, <3>1, <3>2
  <2> SUFFICES Fresh(s, k)'
    BY <1>1, <2>13
  <2>14. CASE \E n \in names : n[1] = k
    <3> DEFINE n == CHOOSE n \in names : n[1] = k
    <3>1. n \in names /\ n[1] = k
      BY <2>14
    <3>2. told'[s][k] = recs[n]
      BY <1>2, <2>8, <2>13, <2>14
    <3> HIDE DEF n
    <3>3. kind # 3 /\ (n = o \/ n = p) /\ n \in DOMAIN recs /\ n \in Seen
      BY <2>2, <2>4, <2>10, <2>12, <3>1, <3>2
    <3>4. recs[n] # data[n] => Queued(n)
      BY <2>10, <3>3
    <3>5. CASE n = o
      <4>1. data[o] # None /\ told'[s][k] # data[o] => Coming(o)'
        BY <1>8, <3>2, <3>4, <3>5
      <4>2. data[o] = None => Leaving(o)'
        BY <1>8, <2>2, <2>11, <2>12, <3>2, <3>4, <3>5
      <4> QED
        BY <1>1, <4>1, <4>2 DEF Fresh
    <3>6. CASE n = p
      <4>1. data[o] = None
        BY <2>6, <3>1, <3>3, <3>6
      <4>2. told'[s][k] # data[p] => Coming(p)'
        BY <1>8, <3>2, <3>4, <3>6
      <4> QED
        BY <1>1, <4>1, <4>2 DEF Fresh
    <3> QED
      BY <3>3, <3>5, <3>6
  <2>15. CASE ~ \E n \in names : n[1] = k
    <3>1. told'[s][k] = told[s][k]
      BY <2>8, <2>15
    <3>2. Fresh(s, k)
      BY <2>9, <3>1
    <3>3. o \notin DOMAIN recs /\ (data[o] = None => p \notin DOMAIN recs)
      BY <2>2, <2>4, <2>7, <2>15
    <3>4. (Coming(o) => Coming(o)') /\ (Leaving(o) => Leaving(o)') /\ (data[o] = None /\ Coming(p) => Coming(p)')
      BY <1>7, <3>3
    <3> QED
      BY <1>1, <3>1, <3>2, <3>4 DEF Fresh
  <2> QED
    BY <2>14, <2>15
<1> QED
  BY <1>9, <1>10, <1>11

LEMMA SubscriptionHeard ==
    ASSUME HearInv, NEW s \in Subscribers, NEW k \in SubKeys, Subscribe(s, k) \/ UnSubscribe(s, k)
    PROVE  QueueInv' /\ RecsInv' /\ FreshInv' /\ KindsInv'
PROOF
<1>1. UNCHANGED <<data, changes, change, missed>>
  BY DEF Subscribe, UnSubscribe, dataVars
<1>2. \A n, m : (InQueue(n, m)' <=> InQueue(n, m)) /\ (UnderWay(n, m)' <=> UnderWay(n, m))
  BY <1>1 DEF InQueue, UnderWay
<1>3. \A n : (Coming(n) => Coming(n)') /\ (Leaving(n) => Leaving(n)') /\ (Queued(n) => Queued(n)')
  BY <1>2 DEF Coming, Leaving, Queued
<1>4. QueueInv'
  BY <1>1, <1>2 DEF HearInv, QueueInv, Seen
<1>5. RecsInv'
  BY <1>1, <1>3 DEF HearInv, RecsInv, Seen
<1>6. ChangeTypes # {} /\ None \notin DataValues
  BY ChangesAssumption
<1>7. PICK types : /\ subs' = [subs EXCEPT ![k] = [subs[k] EXCEPT ![s] = types]]
                   /\ types = {} \/ types = ChangeTypes
                   /\ \/ subs[k][s] = {} /\ told' = told
                      \/ told' = [told EXCEPT ![s] = [told[s] EXCEPT ![k] = None]]
  BY DEF Subscribe, UnSubscribe, SubscribeDeviceProfile, UnSubscribeDeviceProfile, SubscribersOf
<1>8. \A t \in Subscribers, j \in SubKeys : subs'[j][t] = IF j = k /\ t = s THEN types ELSE subs[j][t]
  <2>1. subs \in [SubKeys -> [Subscribers -> SUBSET ChangeTypes]]
    BY DEF HearInv, ChangesInv
  <2> QED
    BY <1>7, <2>1
<1>9. KindsInv'
  BY <1>7, <1>8 DEF HearInv, KindsInv
<1>10. \A t \in Subscribers, j \in Watched :
           told'[t][j] \in DataValues => told'[t][j] = told[t][j] /\ ~(t = s /\ j = k)
  <2> SUFFICES ASSUME NEW t \in Subscribers, NEW j \in Watched, told'[t][j] \in DataValues
               PROVE  told'[t][j] = told[t][j] /\ ~(t = s /\ j = k)
    OBVIOUS
  <2>1. j \in SubKeys /\ told \in [Subscribers -> [SubKeys -> DataValues \cup {Gone, None}]]
    BY DEF Watched, HearInv, ChangesInv
  <2>2. told[t][j] \in DataValues => subs[j][t] = ChangeTypes
    BY DEF HearInv, FreshInv
  <2>3. CASE subs[k][s] = {} /\ told' = told
    BY <1>6, <2>2, <2>3
  <2>4. CASE told' = [told EXCEPT ![s] = [told[s] EXCEPT ![k] = None]]
    <3>1. told'[t] = IF t = s THEN [told[s] EXCEPT ![k] = None] ELSE told[t]
      BY <2>1, <2>4
    <3>2. told'[t][j] = IF t = s /\ j = k THEN None ELSE told[t][j]
      BY <2>1, <3>1
    <3> QED
      BY <1>6, <3>2
  <2> QED
    BY <1>7, <2>3, <2>4
<1>11. FreshInv'
  <2> SUFFICES ASSUME NEW t \in Subscribers, NEW j \in Watched', told'[t][j] \in DataValues
               PROVE  subs'[j][t] = ChangeTypes /\ Fresh(t, j)'
    BY DEF FreshInv
  <2>1. j \in Watched /\ j \in SubKeys
    BY <1>1 DEF Watched
  <2>2. told'[t][j] = told[t][j] /\ subs'[j][t] = subs[j][t]
    BY <1>8, <1>10, <2>1
  <2>3. subs[j][t] = ChangeTypes /\ Fresh(t, j)
    BY <2>1, <2>2 DEF HearInv, FreshInv
  <2> QED
    BY <1>1, <1>3, <2>2, <2>3 DEF Fresh
<1> QED
  BY <1>4, <1>5, <1>9, <1>11

LEMMA HeardKept ==
    ASSUME HearInv, [SyncNext]_<<syncVars, dataVars, subVars>>
    PROVE  HearInv'
PROOF
<1>1. CASE UNCHANGED <<dataVars, subVars>>
  <2>1. UNCHANGED <<data, changes, change, missed, subs, told>>
    BY <1>1 DEF dataVars, subVars
  <2>2. \A n, m : (InQueue(n, m)' <=> InQueue(n, m)) /\ (UnderWay(n, m)' <=> UnderWay(n, m))
    BY <2>1 DEF InQueue, UnderWay
  <2>3. \A n : (Coming(n) => Coming(n)') /\ (Leaving(n) => Leaving(n)') /\ (Queued(n) => Queued(n)')
    BY <2>2 DEF Coming, Leaving, Queued
  <2>4. QueueInv'
    BY <2>1, <2>2 DEF HearInv, QueueInv, Seen
  <2>5. RecsInv'
    BY <2>1, <2>3 DEF HearInv, RecsInv, Seen
  <2>6. FreshInv' /\ KindsInv'
    BY <2>1, <2>3 DEF HearInv, FreshInv, Fresh, Watched, KindsInv
  <2> QED
    BY <2>4, <2>5, <2>6, ChangesKept DEF HearInv
<1>2. CASE \E s \in Subscribers, k \in SubKeys : Subscribe(s, k) \/ UnSubscribe(s, k)
  BY <1>2, SubscriptionHeard, ChangesKept DEF HearInv
<1>3. CASE \E b \in Batches : Write(b)
  <2>1. KindsInv'
    BY <1>3 DEF HearInv, KindsInv, Write, KvWrite, subVars
  <2> QED
    BY <1>3, <2>1, WriteHeard, ChangesKept DEF HearInv
<1>4. CASE DataChange
  <2>1. KindsInv'
    BY <1>4 DEF HearInv, KindsInv, DataChange, OnChange, ReadRecords, HandleChange, subVars
  <2>2. Open("dynamic") \in BOOLEAN
    BY DEF Open
  <2>3. OnChange \/ ReadRecords(Open("dynamic")) \/ HandleChange(Open("dynamic"))
    BY <1>4 DEF DataChange
  <2>4. QueueInv' /\ RecsInv' /\ FreshInv'
    BY <2>2, <2>3, OnChangeHeard, ReadHeard, HandleHeard
  <2> QED
    BY <2>1, <2>4, ChangesKept DEF HearInv
<1>5. CASE SyncCalls
  BY <1>1, <1>5 DEF SyncCalls, Sync, AddSyncListener, KvSync, LoadAdapter, SyncWithNotOHBasedDevice
<1>6. CASE Handler
  BY <1>1, <1>6 DEF Handler, RunTask, GetSyncListeners, OnSyncCompleted, RemoveListeners, E2ESync, UnInit, Init
<1>7. CASE Outside
  BY <1>1, <1>7 DEF Outside, SyncCompleted, CallerDies, OnRemoteDied, DeviceOnline, DeviceOffline, KvServiceDies, OnKvDied
<1> QED
  BY <1>1, <1>2, <1>3, <1>4, <1>5, <1>6, <1>7 DEF SyncNext, Changes

LEMMA HeardStart == SyncInit => HearInv
PROOF
<1> SUFFICES ASSUME SyncInit PROVE HearInv
  OBVIOUS
<1>1. change = NoChange /\ changes = <<>> /\ data = [n \in Names |-> None] /\ subs = [k \in SubKeys |-> Nobody]
      /\ told = [s \in Subscribers |-> [k \in SubKeys |-> None]]
  BY DEF SyncInit, ChangesInit, SubscriptionsInit
<1>2. QueueInv
  BY <1>1 DEF QueueInv, Apart, NoChange, UnderWay
<1>3. RecsInv
  BY <1>1 DEF RecsInv, NoChange
<1>4. FreshInv
  BY <1>1, ChangesAssumption DEF FreshInv, Watched
<1>5. KindsInv
  BY <1>1 DEF KindsInv, Nobody
<1> QED
  BY <1>2, <1>3, <1>4, <1>5, ChangesStart DEF HearInv

\* A subscriber of the dynamic profiles that holds a value holds the one that readers get
\* once every announcement has been handled, however writes, announcements and
\* subscriptions interleave, unless changes came while no listener was registered.
THEOREM LastHeardIsVisible == SyncSpec => []ToldVisible
PROOF
<1>1. HearInv => ToldVisible
  <2> SUFFICES ASSUME HearInv, changes = <<>>, change = NoChange, NEW s \in Subscribers, NEW k \in Watched,
                      told[s][k] \in DataValues
               PROVE  told[s][k] = Visible(k)
    BY DEF ToldVisible, Watched
  <2>1. \A n, m : ~InQueue(n, m)
    BY DEF InQueue
  <2>2. \A n : \A m \in 1 .. 3 : ~UnderWay(n, m)
    BY DEF UnderWay, NoChange
  <2>3. \A n : ~Coming(n) /\ ~Leaving(n)
    BY <2>1, <2>2 DEF Coming, Leaving, Queued
  <2> QED
    BY <2>3 DEF HearInv, FreshInv, Fresh, Visible
<1> QED
  BY <1>1, HeardStart, HeardKept, PTL DEF SyncSpec

-----------------------------------------------------------------------------
(* The callers' listeners.                                                 *)

Calls == [id : Ids, store : SyncStores, other : SUBSET Peers, pc : {"thread", "add", "sync", "run"}]

ListenersInv ==
    /\ owner \in Seq(Callers)
    /\ calls \subseteq Calls /\ \A t \in calls : t.id \in DOMAIN owner
    /\ listeners \in [SyncStores -> [Callers -> 0 .. MaxCalls]]
    /\ \A s \in SyncStores, c \in Callers :
           listeners[s][c] # 0 => listeners[s][c] \in DOMAIN owner /\ owner[listeners[s][c]] = c

\* A callback that ProfileCache keeps is watched while its process lives, and its
\* removal is under way when it has died, unless it was registered after that.
DeathsInv ==
    /\ watched \cap dead = {} /\ notices \subseteq dead
    /\ \A c \in Callers : listeners["dynamic"][c] # 0 =>
           listeners["dynamic"][c] \in IF listeners["dynamic"][c] \in dead THEN late \cup notices ELSE watched

StoresInv ==
    /\ st \in [Adapters -> {"open", "stale", "failed", "none"}] /\ dying \subseteq Adapters
    /\ events \in 0 .. MaxEvents

LEMMA SyncBounds == MaxCalls \in Nat /\ MaxEvents \in Nat /\ 0 \notin Ids
                    /\ "dynamic" \in SyncStores /\ Ids \subseteq 0 .. MaxCalls
PROOF
  BY SyncAssumption DEF Ids, SyncStores

LEMMA SyncStart == SyncInit => ListenersInv /\ DeathsInv /\ StoresInv
PROOF
<1> SUFFICES ASSUME SyncInit PROVE ListenersInv /\ DeathsInv /\ StoresInv
  OBVIOUS
<1>1. listeners = [s \in SyncStores |-> [c \in Callers |-> 0]] /\ owner = <<>> /\ calls = {}
      /\ watched = {} /\ notices = {} /\ dead = {}
  BY DEF SyncInit
<1>2. ListenersInv
  BY <1>1, SyncBounds DEF ListenersInv
<1>3. DeathsInv
  BY <1>1, SyncBounds DEF DeathsInv
<1>4. StoresInv
  BY SyncBounds DEF SyncInit, StoresInv
<1> QED
  BY <1>2, <1>3, <1>4

LEMMA StoresKept ==
    ASSUME StoresInv, [SyncNext]_<<syncVars, dataVars, subVars>>
    PROVE  StoresInv'
PROOF
<1>1. ASSUME Count PROVE events' \in 0 .. MaxEvents
  BY <1>1, SyncBounds DEF Count, StoresInv
<1>2. events' \in 0 .. MaxEvents
  <2>1. Count \/ events' = events
    BY DEF SyncNext, SyncCalls, Sync, AddSyncListener, KvSync, LoadAdapter, SyncWithNotOHBasedDevice,
       Handler, RunTask, GetSyncListeners, OnSyncCompleted, RemoveListeners, E2ESync, UnInit, Init,
       Outside, SyncCompleted, CallerDies, OnRemoteDied, DeviceOnline, DeviceOffline, KvServiceDies, OnKvDied,
       Changes, Write, Subscribe, UnSubscribe, DataChange, syncVars
  <2> QED
    BY <1>1, <2>1 DEF StoresInv
<1>3. \/ UNCHANGED <<st, dying>>
      \/ UnInit \/ Init \/ KvServiceDies \/ \E a \in Adapters : OnKvDied(a)
  BY DEF SyncNext, SyncCalls, Sync, AddSyncListener, KvSync, LoadAdapter, SyncWithNotOHBasedDevice,
     Handler, RunTask, GetSyncListeners, OnSyncCompleted, RemoveListeners, E2ESync,
     Outside, SyncCompleted, CallerDies, OnRemoteDied, DeviceOnline, DeviceOffline,
     Changes, Write, Subscribe, UnSubscribe, DataChange, syncVars, storeVars
<1>4. st' \in [Adapters -> {"open", "stale", "failed", "none"}] /\ dying' \subseteq Adapters
  <2>1. CASE UNCHANGED <<st, dying>>
    BY <2>1 DEF StoresInv
  <2>2. CASE UnInit
    BY <2>2 DEF UnInit, StoresInv
  <2>3. CASE Init
    BY <2>3 DEF Init, InitStores, StoresInv
  <2>4. CASE KvServiceDies
    BY <2>4 DEF KvServiceDies, StoresInv
  <2>5. CASE \E a \in Adapters : OnKvDied(a)
    BY <2>5 DEF OnKvDied, StoresInv
  <2> QED
    BY <1>3, <2>1, <2>2, <2>3, <2>4, <2>5
<1> QED
  BY <1>2, <1>4 DEF StoresInv

\* A new call, and the steps of the calls.
LEMMA CallsKeep ==
    ASSUME ListenersInv, DeathsInv, SyncCalls
    PROVE  ListenersInv' /\ DeathsInv'
PROOF
<1> DEFINE Goal == ListenersInv' /\ DeathsInv'
<1> SUFFICES Goal
  OBVIOUS
<1>1. CASE \E c \in Callers, s \in SyncStores, devs \in Requests : Sync(c, s, devs)
  <2>1. PICK c \in Callers, s \in SyncStores, devs \in Requests : Sync(c, s, devs)
    BY <1>1
  <2> DEFINE id == Len(owner) + 1
  <2>2. owner' = Append(owner, c) /\ id \in Ids /\ UNCHANGED <<listeners, watched, notices, dead, late>>
    BY <2>1 DEF Sync, listenerVars
  <2>3. owner' \in Seq(Callers) /\ DOMAIN owner \subseteq DOMAIN owner' /\ id \in DOMAIN owner'
        /\ \A i \in DOMAIN owner : owner'[i] = owner[i]
    BY <2>2 DEF ListenersInv
  <2>4. PICK new \in Calls : new.id = id /\ calls' = calls \cup {new}
    <3> DEFINE group == FilterAndGroupOnlineDevices(devs)
               other == IF s = "dynamic" THEN group.other ELSE {}
               new == [id |-> id, store |-> s, other |-> other, pc |-> IF group.oh = {} THEN "thread" ELSE "add"]
    <3>1. other \subseteq Peers
      BY DEF FilterAndGroupOnlineDevices, Peers
    <3>2. calls' = calls \cup {new}
      BY <2>1 DEF Sync
    <3> HIDE DEF other, group
    <3>3. new \in Calls /\ new.id = id
      BY <2>2, <3>1 DEF Calls
    <3> QED
      BY <3>2, <3>3
  <2>5. calls' \subseteq Calls /\ \A t \in calls' : t.id \in DOMAIN owner'
    BY <2>3, <2>4 DEF ListenersInv
  <2>6. ListenersInv'
    BY <2>2, <2>3, <2>5 DEF ListenersInv
  <2>7. DeathsInv'
    BY <2>2 DEF DeathsInv
  <2> QED
    BY <2>6, <2>7
<1>2. ASSUME NEW t \in calls, NEW u \in Calls, u.id = t.id,
             calls' = (calls \ {t}) \cup {u} \/ calls' = calls \ {t}, owner' = owner
      PROVE  calls' \subseteq Calls /\ \A v \in calls' : v.id \in DOMAIN owner'
  BY <1>2 DEF ListenersInv
<1>3. ASSUME NEW t \in calls, NEW pc \in {"sync", "thread", "run"}
      PROVE  [t EXCEPT !.pc = pc] \in Calls /\ [t EXCEPT !.pc = pc].id = t.id
  BY DEF ListenersInv, Calls
<1>4. \A t \in calls : t \in Calls
  BY DEF ListenersInv
<1>5. CASE \E t \in calls : KvSync(t) \/ LoadAdapter(t) \/ SyncWithNotOHBasedDevice(t)
  <2>1. PICK t \in calls : KvSync(t) \/ LoadAdapter(t) \/ SyncWithNotOHBasedDevice(t)
    BY <1>5
  <2>2. UNCHANGED <<listeners, watched, notices, dead, late, owner>>
    BY <2>1 DEF KvSync, LoadAdapter, SyncWithNotOHBasedDevice, listenerVars
  <2>3. \E u \in Calls : u.id = t.id /\ (calls' = (calls \ {t}) \cup {u} \/ calls' = calls \ {t})
    <3>1. CASE calls' = calls \ {t}
      BY <1>4, <3>1
    <3>2. CASE \E pc \in {"sync", "thread", "run"} : Goto(t, pc)
      BY <1>3, <3>2 DEF Goto
    <3>3. CASE \E p \in Peers : calls' = (calls \ {t}) \cup {[t EXCEPT !.other = @ \ {p}]}
      <4>1. \A p \in Peers : [t EXCEPT !.other = @ \ {p}] \in Calls /\ [t EXCEPT !.other = @ \ {p}].id = t.id
        BY <1>4 DEF Calls
      <4> QED
        BY <3>3, <4>1
    <3>4. t.other \subseteq Peers
      BY <1>4 DEF Calls
    <3> QED
      BY <2>1, <3>1, <3>2, <3>3, <3>4 DEF KvSync, LoadAdapter, SyncWithNotOHBasedDevice, End
  <2>4. calls' \subseteq Calls /\ \A v \in calls' : v.id \in DOMAIN owner'
    BY <1>2, <2>2, <2>3
  <2>5. ListenersInv'
    BY <2>2, <2>4 DEF ListenersInv
  <2>6. DeathsInv'
    BY <2>2 DEF DeathsInv
  <2> QED
    BY <2>5, <2>6
<1>6. CASE \E t \in calls : AddSyncListener(t)
  <2>1. PICK t \in calls : AddSyncListener(t)
    BY <1>6
  <2> DEFINE s == t.store
             c == owner[t.id]
  <2>2. UNCHANGED <<notices, dead, owner>>
    BY <2>1 DEF AddSyncListener
  <2>3. t.id \in Ids /\ s \in SyncStores /\ t.id \in DOMAIN owner /\ c \in Callers
    BY <1>4 DEF ListenersInv, Calls
  <2>4. calls' \subseteq Calls /\ \A v \in calls' : v.id \in DOMAIN owner'
    <3>1. \E u \in Calls : u.id = t.id /\ (calls' = (calls \ {t}) \cup {u} \/ calls' = calls \ {t})
      BY <1>3, <1>4, <2>1 DEF AddSyncListener, Goto, End
    <3> QED
      BY <1>2, <2>2, <3>1
  <2>5. CASE UNCHANGED <<listeners, watched, late>>
    <3>1. ListenersInv'
      BY <2>2, <2>4, <2>5 DEF ListenersInv
    <3>2. DeathsInv'
      BY <2>2, <2>5 DEF DeathsInv
    <3> QED
      BY <3>1, <3>2
  <2>6. CASE /\ listeners' = [listeners EXCEPT ![s][c] = t.id]
             /\ late' = IF t.id \in dead THEN late \cup {t.id} ELSE late
             /\ Watch(t)
    <3>1. /\ listeners' \in [SyncStores -> [Callers -> 0 .. MaxCalls]]
          /\ \A r \in SyncStores, d \in Callers :
                 listeners'[r][d] = IF r = s /\ d = c THEN t.id ELSE listeners[r][d]
      BY <2>3, <2>6, SyncBounds DEF ListenersInv
    <3>2. ListenersInv'
      <4>1. \A r \in SyncStores, d \in Callers :
                listeners'[r][d] # 0 => listeners'[r][d] \in DOMAIN owner /\ owner[listeners'[r][d]] = d
        <5> SUFFICES ASSUME NEW r \in SyncStores, NEW d \in Callers, listeners'[r][d] # 0
                     PROVE  listeners'[r][d] \in DOMAIN owner /\ owner[listeners'[r][d]] = d
          OBVIOUS
        <5>1. CASE r = s /\ d = c
          <6>1. listeners'[r][d] = t.id
            BY <3>1, <5>1
          <6> QED
            BY <2>3, <5>1, <6>1
        <5>2. CASE ~(r = s /\ d = c)
          <6>1. listeners'[r][d] = listeners[r][d]
            BY <3>1, <5>2
          <6> QED
            BY <6>1 DEF ListenersInv
        <5> QED
          BY <5>1, <5>2
      <4>2. owner' = owner /\ owner \in Seq(Callers)
        BY <2>2 DEF ListenersInv
      <4> QED
        BY <2>4, <3>1, <4>1, <4>2 DEF ListenersInv
    <3>3. watched \subseteq watched' /\ late \subseteq late' /\ (watched' \subseteq watched \cup {t.id})
          /\ (t.id \in dead => watched' = watched /\ t.id \in late')
          /\ (t.id \notin dead /\ s = "dynamic" => t.id \in watched')
      BY <2>6 DEF Watch
    <3>4. watched' \cap dead' = {} /\ notices' \subseteq dead'
      BY <2>2, <3>3 DEF DeathsInv
    <3>5. ASSUME NEW d \in Callers, listeners'["dynamic"][d] # 0
          PROVE  listeners'["dynamic"][d] \in
                     IF listeners'["dynamic"][d] \in dead' THEN late' \cup notices' ELSE watched'
      <4>1. CASE s = "dynamic" /\ d = c
        <5>1. listeners'["dynamic"][d] = t.id
          BY <3>1, <4>1, SyncBounds
        <5>2. dead' = dead
          BY <2>2
        <5> QED
          BY <3>3, <4>1, <5>1, <5>2
      <4>2. CASE ~(s = "dynamic" /\ d = c)
        <5>1. listeners'["dynamic"][d] = listeners["dynamic"][d]
          BY <3>1, <4>2, SyncBounds
        <5>2. listeners["dynamic"][d] \in
                  IF listeners["dynamic"][d] \in dead THEN late \cup notices ELSE watched
          BY <3>5, <5>1 DEF DeathsInv
        <5> QED
          BY <2>2, <3>3, <5>1, <5>2
      <4> QED
        BY <4>1, <4>2
    <3>6. DeathsInv'
      BY <3>4, <3>5 DEF DeathsInv
    <3> QED
      BY <3>2, <3>6
  <2> QED
    BY <2>1, <2>5, <2>6 DEF AddSyncListener
<1> QED
  BY <1>1, <1>5, <1>6 DEF SyncCalls

\* The removal of some listeners of a store.
LEMMA RemovalKeeps ==
    ASSUME ListenersInv, UNCHANGED <<owner, calls>>,
           listeners' \in [SyncStores -> [Callers -> 0 .. MaxCalls]],
           \A s \in SyncStores, c \in Callers : listeners'[s][c] \in {0, listeners[s][c]}
    PROVE  ListenersInv'
PROOF
  BY DEF ListenersInv

\* Completions, deaths of callers and what the death recipient does.
LEMMA RemovalsKeep ==
    ASSUME ListenersInv, DeathsInv,
           RemoveListeners \/ (\E c \in Callers : CallerDies(c)) \/ (\E i \in Ids : OnRemoteDied(i))
    PROVE  ListenersInv' /\ DeathsInv'
PROOF
<1> DEFINE Goal == ListenersInv' /\ DeathsInv'
<1> SUFFICES Goal
  OBVIOUS
<1>1. listeners \in [SyncStores -> [Callers -> 0 .. MaxCalls]]
  BY DEF ListenersInv
<1>2. CASE RemoveListeners
  <2> DEFINE s == running.store
             gone == RemoveSyncListeners(running.got)
             ids == {listeners[s][c] : c \in gone} \ {0}
  <2>1. /\ listeners' = [listeners EXCEPT ![s] = [c \in Callers |-> IF c \in gone THEN 0 ELSE listeners[s][c]]]
        /\ watched' = IF s = "dynamic" THEN watched \ ids ELSE watched
        /\ UNCHANGED <<owner, calls, notices, dead, late>>
    BY <1>2 DEF RemoveListeners, callVars
  <2>2. gone \subseteq Callers
    BY DEF RemoveSyncListeners
  <2> HIDE DEF gone
  <2>3. \A r \in SyncStores, c \in Callers :
            listeners'[r][c] = IF r = s /\ c \in gone THEN 0 ELSE listeners[r][c]
    BY <1>1, <2>1
  <2>4. listeners' \in [SyncStores -> [Callers -> 0 .. MaxCalls]]
    <3>1. s \in SyncStores =>
              [c \in Callers |-> IF c \in gone THEN 0 ELSE listeners[s][c]] \in [Callers -> 0 .. MaxCalls]
      BY <1>1, SyncBounds
    <3> QED
      BY <1>1, <2>1, <3>1
  <2>5. ListenersInv'
    BY <2>1, <2>3, <2>4, RemovalKeeps
  <2>6. ASSUME NEW c \in Callers, listeners'["dynamic"][c] # 0
        PROVE  listeners'["dynamic"][c] \in
                   IF listeners'["dynamic"][c] \in dead' THEN late' \cup notices' ELSE watched'
    <3> DEFINE i == listeners["dynamic"][c]
    <3>1. listeners'["dynamic"][c] = i /\ i # 0 /\ ~(s = "dynamic" /\ c \in gone)
      BY <2>3, <2>6, SyncBounds
    <3>2. i \in IF i \in dead THEN late \cup notices ELSE watched
      BY <3>1 DEF DeathsInv
    <3>3. s = "dynamic" => i \notin ids
      <4> SUFFICES ASSUME s = "dynamic", i \in ids PROVE FALSE
        OBVIOUS
      <4>1. PICK d \in gone : i = listeners["dynamic"][d]
        OBVIOUS
      <4>2. owner[i] = d /\ owner[i] = c
        BY <2>2, <3>1, <4>1, SyncBounds DEF ListenersInv
      <4> QED
        BY <3>1, <4>1, <4>2
    <3> QED
      BY <2>1, <3>1, <3>2, <3>3
  <2>7. watched' \cap dead' = {} /\ notices' \subseteq dead'
    BY <2>1 DEF DeathsInv
  <2>8. DeathsInv'
    BY <2>6, <2>7 DEF DeathsInv
  <2> QED
    BY <2>5, <2>8
<1>3. CASE \E c \in Callers : CallerDies(c)
  <2>1. PICK ids : /\ dead' = dead \cup ids /\ notices' = notices \cup (watched \cap ids)
                   /\ watched' = watched \ ids /\ UNCHANGED <<listeners, owner, calls, late>>
    BY <1>3 DEF CallerDies, callVars
  <2>2. ListenersInv'
    BY <1>1, <2>1, RemovalKeeps
  <2>3. DeathsInv'
    BY <2>1 DEF DeathsInv
  <2> QED
    BY <2>2, <2>3
<1>4. CASE \E i \in Ids : OnRemoteDied(i)
  <2>1. PICK i \in Ids : OnRemoteDied(i)
    BY <1>4
  <2>2. /\ listeners' = [listeners EXCEPT !["dynamic"] =
                             [c \in Callers |-> IF listeners["dynamic"][c] = i THEN 0 ELSE listeners["dynamic"][c]]]
        /\ notices' = notices \ {i} /\ UNCHANGED <<watched, owner, calls, dead, late>>
    BY <2>1 DEF OnRemoteDied, RemoveSyncListener, callVars, fates
  <2>3. \A r \in SyncStores, c \in Callers :
            listeners'[r][c] = IF r = "dynamic" /\ listeners[r][c] = i THEN 0 ELSE listeners[r][c]
    BY <1>1, <2>2
  <2>4. listeners' \in [SyncStores -> [Callers -> 0 .. MaxCalls]]
    <3>1. [c \in Callers |-> IF listeners["dynamic"][c] = i THEN 0 ELSE listeners["dynamic"][c]]
              \in [Callers -> 0 .. MaxCalls]
      BY <1>1, SyncBounds
    <3> QED
      BY <1>1, <2>2, <3>1
  <2>5. ListenersInv'
    BY <2>2, <2>3, <2>4, RemovalKeeps
  <2>6. ASSUME NEW c \in Callers, listeners'["dynamic"][c] # 0
        PROVE  listeners'["dynamic"][c] \in
                   IF listeners'["dynamic"][c] \in dead' THEN late' \cup notices' ELSE watched'
    <3>1. listeners'["dynamic"][c] = listeners["dynamic"][c] /\ listeners["dynamic"][c] # i
      BY <2>3, <2>6, SyncBounds
    <3>2. listeners["dynamic"][c] \in
              IF listeners["dynamic"][c] \in dead THEN late \cup notices ELSE watched
      BY <2>6, <3>1 DEF DeathsInv
    <3> QED
      BY <2>2, <3>1, <3>2
  <2>7. DeathsInv'
    BY <2>2, <2>6 DEF DeathsInv
  <2> QED
    BY <2>5, <2>7
<1> QED
  BY <1>2, <1>3, <1>4

LEMMA ListenersKept ==
    ASSUME ListenersInv, DeathsInv, [SyncNext]_<<syncVars, dataVars, subVars>>
    PROVE  ListenersInv' /\ DeathsInv'
PROOF
<1>1. CASE UNCHANGED <<listenerVars, calls, owner, dead, late>>
  BY <1>1 DEF ListenersInv, DeathsInv, listenerVars
<1>2. CASE SyncCalls
  BY <1>2, CallsKeep
<1>3. CASE Handler
  BY <1>1, <1>3, RemovalsKeep
     DEF Handler, RunTask, GetSyncListeners, OnSyncCompleted, E2ESync, UnInit, Init, callVars, fates
<1>4. CASE Outside
  BY <1>1, <1>4, RemovalsKeep
     DEF Outside, SyncCompleted, DeviceOnline, DeviceOffline, KvServiceDies, OnKvDied, callVars, fates
<1>5. CASE Changes
  BY <1>1, <1>5 DEF Changes, Write, Subscribe, UnSubscribe, DataChange, syncVars, callVars, fates
<1> QED
  BY <1>1, <1>2, <1>3, <1>4, <1>5 DEF SyncNext, syncVars, callVars, fates

-----------------------------------------------------------------------------
(* The tasks of the event handler.                                         *)

TaskKinds == {"onSync", "e2e", "reInit"}
Tasks == [kind : TaskKinds, store : Adapters, pc : {"start"}, got : [Callers -> {0}]]
Running == [kind : TaskKinds \cup {"idle"}, store : Adapters, pc : {"idle", "start", "call", "remove", "init"},
            got : [Callers -> 0 .. MaxCalls]]
OfSync(t) == t.kind \in {"onSync", "e2e"} => t.store \in SyncStores

HandlerInv ==
    /\ handler \in Seq(Tasks) /\ \A i \in DOMAIN handler : OfSync(handler[i])
    /\ running \in Running /\ OfSync(running) /\ (running.kind = "idle" => running = Idle)
    /\ syncing \in [SyncStores -> Nat]

Posted(kind, a) == \E i \in DOMAIN handler : handler[i].kind = kind /\ handler[i].store = a
Runs(kind, pc, a) == running.kind = kind /\ running.pc = pc /\ running.store = a

\* Tasks of some kinds are removed: the others stay, and nothing else is there.
LEMMA WithoutKeeps ==
    ASSUME NEW T, NEW tasks \in Seq(T), NEW kinds
    PROVE  /\ Without(tasks, kinds) \in Seq(T)
           /\ \A i \in DOMAIN tasks : tasks[i].kind \notin kinds =>
                  \E n \in DOMAIN Without(tasks, kinds) : Without(tasks, kinds)[n] = tasks[i]
           /\ \A n \in DOMAIN Without(tasks, kinds) :
                  \E i \in DOMAIN tasks : Without(tasks, kinds)[n] = tasks[i] /\ tasks[i].kind \notin kinds
PROOF
<1> DEFINE kept == {i \in DOMAIN tasks : tasks[i].kind \notin kinds}
           Below(i) == {j \in kept : j <= i}
           Place(i) == Cardinality(Below(i))
           size == Cardinality(kept)
           place == [i \in kept |-> Place(i)]
<1>1. kept \subseteq 1 .. Len(tasks) /\ Len(tasks) \in Nat
  OBVIOUS
<1>2. IsFiniteSet(kept) /\ size \in Nat
  <2>1. IsFiniteSet(1 .. Len(tasks))
    BY <1>1, FS_Interval
  <2>2. IsFiniteSet(kept)
    BY <1>1, <2>1, FS_Subset
  <2> QED
    BY <2>2, FS_CardinalityType
<1>3. ASSUME NEW i \in kept PROVE IsFiniteSet(Below(i)) /\ Place(i) \in 1 .. size
  <2>1. Below(i) \in SUBSET kept /\ i \in Below(i)
    BY <1>1
  <2>2. IsFiniteSet(Below(i)) /\ Place(i) <= size
    BY <1>2, <2>1, FS_Subset
  <2>3. Place(i) \in Nat /\ Place(i) # 0
    BY <2>1, <2>2, FS_CardinalityType, FS_EmptySet
  <2> QED
    BY <1>2, <2>2, <2>3
<1>4. ASSUME NEW i \in kept, NEW k \in kept, Place(i) = Place(k), i < k PROVE FALSE
  <2>1. Below(i) \in SUBSET Below(k) /\ k \in Below(k) /\ k \notin Below(i)
    BY <1>1, <1>4
  <2>2. IsFiniteSet(Below(k))
    BY <1>3
  <2>3. Below(k) = Below(i)
    BY <1>4, <2>1, <2>2, FS_Subset
  <2> QED
    BY <2>1, <2>3
<1>5. \A i, k \in kept : Place(i) = Place(k) => i = k
  <2> SUFFICES ASSUME NEW i \in kept, NEW k \in kept, Place(i) = Place(k), i # k PROVE FALSE
    OBVIOUS
  <2>1. i < k \/ k < i
    BY <1>1
  <2> HIDE DEF Place
  <2> QED
    BY <1>4, <2>1
<1>6. \A n \in 1 .. size : \E i \in kept : Place(i) = n
  <2>1. place \in [kept -> 1 .. size]
    BY <1>3
  <2>2. place \in Injection(kept, 1 .. size)
    BY <1>5, <2>1 DEF Injection, IsInjective
  <2>3. IsFiniteSet(1 .. size) /\ Cardinality(1 .. size) = size
    BY <1>2, FS_Interval
  <2>4. place \in Surjection(kept, 1 .. size)
    BY <2>2, <2>3, FS_Injection
  <2> QED
    BY <2>4 DEF Surjection
<1> DEFINE Nth(n) == CHOOSE i \in kept : Place(i) = n
<1>7. Without(tasks, kinds) = [n \in 1 .. size |-> tasks[Nth(n)]]
  BY DEF Without
<1>8. \A n \in 1 .. size : Nth(n) \in kept /\ Place(Nth(n)) = n
  BY <1>6
<1>9. \A i \in kept : Nth(Place(i)) = i /\ Place(i) \in 1 .. size
  <2> SUFFICES ASSUME NEW i \in kept PROVE Nth(Place(i)) = i /\ Place(i) \in 1 .. size
    OBVIOUS
  <2>1. Place(i) \in 1 .. size
    BY <1>3
  <2>2. Nth(Place(i)) \in kept /\ Place(Nth(Place(i))) = Place(i)
    BY <1>8, <2>1
  <2> QED
    BY <1>5, <2>1, <2>2
<1> HIDE DEF Nth, Place, size
<1>10. \A n \in 1 .. size : tasks[Nth(n)] \in T /\ Nth(n) \in DOMAIN tasks /\ tasks[Nth(n)].kind \notin kinds
  BY <1>8
<1>11. Without(tasks, kinds) \in Seq(T)
  BY <1>2, <1>7, <1>10
<1>12. DOMAIN Without(tasks, kinds) = 1 .. size /\ \A n \in 1 .. size : Without(tasks, kinds)[n] = tasks[Nth(n)]
  BY <1>7
<1>13. \A i \in kept : \E n \in DOMAIN Without(tasks, kinds) : Without(tasks, kinds)[n] = tasks[i]
  BY <1>9, <1>12
<1> QED
  BY <1>10, <1>11, <1>12, <1>13

LEMMA TaskIs ==
    ASSUME NEW kind \in TaskKinds, NEW s \in Adapters
    PROVE  Task(kind, s) \in Tasks /\ Task(kind, s).kind = kind /\ Task(kind, s).store = s
PROOF
  BY DEF Task, Idle, Tasks

LEMMA IdleIs == Idle \in Running /\ Idle.kind = "idle" /\ OfSync(Idle)
PROOF
  BY SyncAssumption DEF Idle, Running, OfSync, SyncStores, TaskKinds

\* What is posted, and what becomes of what was.
LEMMA PostedMore ==
    ASSUME HandlerInv, NEW t \in Tasks, Post(t)
    PROVE  \A kind, a : Posted(kind, a)' <=> Posted(kind, a) \/ (t.kind = kind /\ t.store = a)
PROOF
<1>1. handler' = Append(handler, t) /\ handler \in Seq(Tasks)
  BY DEF Post, HandlerInv
<1>2. /\ DOMAIN handler' = DOMAIN handler \cup {Len(handler) + 1}
      /\ \A i \in DOMAIN handler : handler'[i] = handler[i]
      /\ handler'[Len(handler) + 1] = t
  BY <1>1
<1> QED
  BY <1>2 DEF Posted

LEMMA PostedRun ==
    ASSUME HandlerInv, RunTask
    PROVE  /\ running' \in Tasks /\ OfSync(running')
           /\ \A kind, a : Posted(kind, a) => Posted(kind, a)' \/ Runs(kind, "start", a)'
           /\ \A kind, a : Posted(kind, a)' => Posted(kind, a)
           /\ handler' \in Seq(Tasks) /\ \A i \in DOMAIN handler' : OfSync(handler'[i])
PROOF
<1>1. handler \in Seq(Tasks) /\ handler # <<>> /\ running' = handler[1] /\ handler' = Tail(handler)
  BY DEF HandlerInv, RunTask
<1>2. /\ 1 \in DOMAIN handler /\ running' \in Tasks /\ handler' \in Seq(Tasks)
      /\ \A i \in DOMAIN handler : i = 1 \/ (i - 1 \in DOMAIN handler' /\ handler'[i - 1] = handler[i])
      /\ \A i \in DOMAIN handler' : i + 1 \in DOMAIN handler /\ handler'[i] = handler[i + 1]
  BY <1>1
<1>3. running'.pc = "start"
  BY <1>2 DEF Tasks
<1>4. OfSync(running') /\ \A i \in DOMAIN handler' : OfSync(handler'[i])
  BY <1>1, <1>2 DEF HandlerInv
<1>5. ASSUME NEW kind, NEW a, Posted(kind, a) PROVE Posted(kind, a)' \/ Runs(kind, "start", a)'
  <2>1. PICK i \in DOMAIN handler : handler[i].kind = kind /\ handler[i].store = a
    BY <1>5 DEF Posted
  <2> QED
    BY <1>1, <1>2, <1>3, <2>1 DEF Posted, Runs
<1>6. \A kind, a : Posted(kind, a)' => Posted(kind, a)
  BY <1>2 DEF Posted
<1> QED
  BY <1>2, <1>4, <1>5, <1>6

LEMMA PostedOnline ==
    ASSUME HandlerInv, NEW d, DeviceOnline(d)
    PROVE  /\ handler' \in Seq(Tasks) /\ \A i \in DOMAIN handler' : OfSync(handler'[i])
           /\ \A kind, a : kind # "e2e" => (Posted(kind, a)' <=> Posted(kind, a))
PROOF
<1>1. CASE handler' = handler
  BY <1>1 DEF HandlerInv, Posted
<1>2. CASE handler' = handler \o <<Task("e2e", "dynamic"), Task("e2e", "static")>>
  <2> DEFINE t == Task("e2e", "dynamic")
             u == Task("e2e", "static")
  <2>1. t \in Tasks /\ u \in Tasks /\ t.kind = "e2e" /\ u.kind = "e2e" /\ t.store \in SyncStores /\ u.store \in SyncStores
    BY TaskIs, SyncAssumption DEF TaskKinds, SyncStores
  <2> HIDE DEF t, u
  <2>2. handler \in Seq(Tasks) /\ handler' = handler \o <<t, u>>
    BY <1>2 DEF HandlerInv, t, u
  <2>3. /\ handler' \in Seq(Tasks) /\ DOMAIN handler \subseteq DOMAIN handler'
        /\ \A i \in DOMAIN handler : handler'[i] = handler[i]
        /\ \A i \in DOMAIN handler' : i \in DOMAIN handler \/ handler'[i] \in {t, u}
    BY <2>1, <2>2
  <2>4. \A i \in DOMAIN handler' : OfSync(handler'[i])
    BY <2>1, <2>3 DEF HandlerInv, OfSync
  <2> QED
    BY <2>1, <2>3, <2>4 DEF Posted
<1> QED
  BY <1>1, <1>2 DEF DeviceOnline

\* UnInit: the tasks of some kinds are removed.
LEMMA PostedWithout ==
    ASSUME HandlerInv, NEW kinds, handler' = Without(handler, kinds)
    PROVE  /\ handler' \in Seq(Tasks) /\ \A i \in DOMAIN handler' : OfSync(handler'[i])
           /\ \A kind, a : kind \notin kinds => (Posted(kind, a)' <=> Posted(kind, a))
           /\ \A kind, a : kind \in kinds => ~Posted(kind, a)'
PROOF
<1>1. handler \in Seq(Tasks)
  BY DEF HandlerInv
<1>2. /\ handler' \in Seq(Tasks)
      /\ \A i \in DOMAIN handler : handler[i].kind \notin kinds => \E n \in DOMAIN handler' : handler'[n] = handler[i]
      /\ \A n \in DOMAIN handler' : \E i \in DOMAIN handler : handler'[n] = handler[i] /\ handler[i].kind \notin kinds
  BY <1>1, WithoutKeeps
<1>3. \A i \in DOMAIN handler' : OfSync(handler'[i])
  BY <1>2 DEF HandlerInv
<1>4. \A kind, a : kind \notin kinds => (Posted(kind, a)' <=> Posted(kind, a))
  <2>1. ASSUME NEW kind, NEW a, kind \notin kinds, Posted(kind, a) PROVE Posted(kind, a)'
    <3>1. PICK i \in DOMAIN handler : handler[i].kind = kind /\ handler[i].store = a
      BY <2>1 DEF Posted
    <3> QED
      BY <1>2, <2>1, <3>1 DEF Posted
  <2>2. ASSUME NEW kind, NEW a, Posted(kind, a)' PROVE Posted(kind, a)
    <3>1. PICK n \in DOMAIN handler' : handler'[n].kind = kind /\ handler'[n].store = a
      BY <2>2 DEF Posted
    <3> QED
      BY <1>2, <3>1 DEF Posted
  <2> QED
    BY <2>1, <2>2
<1>5. \A kind, a : kind \in kinds => ~Posted(kind, a)'
  BY <1>2 DEF Posted
<1> QED
  BY <1>2, <1>3, <1>4, <1>5

LEMMA HandlerStart == SyncInit => HandlerInv
PROOF
  BY IdleIs DEF SyncInit, HandlerInv

LEMMA HandlerKept ==
    ASSUME HandlerInv, ListenersInv, [SyncNext]_<<syncVars, dataVars, subVars>>
    PROVE  HandlerInv'
PROOF
<1> DEFINE Goal == HandlerInv'
<1> SUFFICES Goal
  OBVIOUS
<1> DEFINE HandlerOK == handler' \in Seq(Tasks) /\ \A i \in DOMAIN handler' : OfSync(handler'[i])
           RunningOK == running' \in Running /\ OfSync(running') /\ (running'.kind = "idle" => running' = Idle)
           SyncingOK == syncing' \in [SyncStores -> Nat]
<1>1. handler \in Seq(Tasks) /\ \A i \in DOMAIN handler : OfSync(handler[i])
  BY DEF HandlerInv
<1>2. running \in Running /\ OfSync(running) /\ (running.kind = "idle" => running = Idle)
  BY DEF HandlerInv
<1>3. syncing \in [SyncStores -> Nat]
  BY DEF HandlerInv
<1>4. CASE UNCHANGED <<handler, running, syncing>>
  BY <1>4 DEF HandlerInv
<1>5. CASE SyncCalls
  <2>1. UNCHANGED <<handler, running>>
    BY <1>5 DEF SyncCalls, Sync, AddSyncListener, KvSync, LoadAdapter, SyncWithNotOHBasedDevice, storeVars
  <2>2. syncing' = syncing \/ \E s : syncing' = [syncing EXCEPT ![s] = @ + 1]
    BY <1>5 DEF SyncCalls, Sync, AddSyncListener, KvSync, LoadAdapter, SyncWithNotOHBasedDevice, storeVars
  <2>3. SyncingOK
    BY <1>3, <2>2
  <2> QED
    BY <1>1, <1>2, <2>1, <2>3 DEF HandlerInv
<1>6. CASE \E s \in SyncStores : SyncCompleted(s)
  <2>1. PICK s \in SyncStores : SyncCompleted(s)
    BY <1>6
  <2>2. /\ syncing' = [syncing EXCEPT ![s] = syncing[s] - 1] /\ syncing[s] > 0 /\ running' = running
        /\ handler' = Append(handler, Task("onSync", s))
    BY <2>1 DEF SyncCompleted, Post
  <2>3. SyncingOK
    BY <1>3, <2>2
  <2>4. Task("onSync", s) \in Tasks /\ OfSync(Task("onSync", s))
    BY TaskIs, SyncAssumption DEF TaskKinds, OfSync
  <2>5. HandlerOK
    <3> DEFINE t == Task("onSync", s)
    <3> HIDE DEF t
    <3>1. handler' = Append(handler, t) /\ t \in Tasks /\ OfSync(t)
      BY <2>2, <2>4 DEF t
    <3> QED
      BY <1>1, <3>1
  <2> QED
    BY <1>2, <2>2, <2>3, <2>5 DEF HandlerInv
<1>7. CASE \E a \in Adapters : OnKvDied(a)
  <2>1. PICK a \in Adapters : OnKvDied(a)
    BY <1>7
  <2>2. /\ UNCHANGED <<running, syncing>> /\ handler' = Append(handler, Task("reInit", a))
    BY <2>1 DEF OnKvDied, Post
  <2>3. Task("reInit", a) \in Tasks /\ OfSync(Task("reInit", a))
    BY TaskIs DEF TaskKinds, OfSync
  <2>4. HandlerOK
    <3> DEFINE t == Task("reInit", a)
    <3> HIDE DEF t
    <3>1. handler' = Append(handler, t) /\ t \in Tasks /\ OfSync(t)
      BY <2>2, <2>3 DEF t
    <3> QED
      BY <1>1, <3>1
  <2> QED
    BY <1>2, <1>3, <2>2, <2>4 DEF HandlerInv
<1>8. CASE \E d \in Peers : DeviceOnline(d)
  <2>1. PICK d \in Peers : DeviceOnline(d)
    BY <1>8
  <2>2. UNCHANGED <<running, syncing>>
    BY <2>1 DEF DeviceOnline
  <2> QED
    BY <1>2, <1>3, <2>1, <2>2, PostedOnline DEF HandlerInv
<1>9. CASE KvServiceDies
  <2>1. UNCHANGED <<handler, running>> /\ syncing' \in [SyncStores -> Nat]
    BY <1>3, <1>9 DEF KvServiceDies, Forget
  <2> QED
    BY <1>1, <1>2, <2>1 DEF HandlerInv
<1>10. CASE RunTask
  <2>1. running' \in Tasks /\ OfSync(running') /\ HandlerOK /\ syncing' = syncing
    BY <1>10, PostedRun DEF RunTask
  <2>2. RunningOK
    BY <2>1, SyncBounds DEF Tasks, Running, TaskKinds
  <2> QED
    BY <1>3, <2>1, <2>2 DEF HandlerInv
<1>11. CASE GetSyncListeners
  <2>1. /\ running' = [running EXCEPT !.pc = "call", !.got = listeners[running.store]]
        /\ UNCHANGED <<handler, syncing>> /\ running.kind = "onSync"
    BY <1>11 DEF GetSyncListeners
  <2>2. listeners[running.store] \in [Callers -> 0 .. MaxCalls]
    BY <1>2, <2>1 DEF ListenersInv, OfSync
  <2>3. RunningOK
    BY <1>2, <2>1, <2>2 DEF Running, OfSync
  <2> QED
    BY <1>1, <1>3, <2>1, <2>3 DEF HandlerInv
<1>12. CASE OnSyncCompleted
  <2>1. running' = [running EXCEPT !.pc = "remove"] /\ UNCHANGED <<handler, syncing>> /\ running.kind = "onSync"
    BY <1>12 DEF OnSyncCompleted
  <2>2. RunningOK
    BY <1>2, <2>1 DEF Running, OfSync
  <2> QED
    BY <1>1, <1>3, <2>1, <2>2 DEF HandlerInv
<1>13. CASE RemoveListeners \/ E2ESync
  <2>1. running' = Idle /\ handler' = handler
    BY <1>13 DEF RemoveListeners, E2ESync
  <2>2. SyncingOK
    BY <1>3, <1>13 DEF RemoveListeners, E2ESync
  <2>3. RunningOK
    BY <2>1, IdleIs
  <2> QED
    BY <1>1, <2>1, <2>2, <2>3 DEF HandlerInv
<1>14. CASE UnInit
  <2>1. /\ running' = [running EXCEPT !.pc = "init"] /\ running.kind = "reInit"
        /\ \E kinds : handler' = Without(handler, kinds)
    BY <1>14 DEF UnInit
  <2>2. RunningOK
    BY <1>2, <2>1 DEF Running, OfSync
  <2>3. SyncingOK
    BY <1>3, <1>14 DEF UnInit, Forget
  <2>4. HandlerOK
    BY <2>1, PostedWithout
  <2> QED
    BY <2>2, <2>3, <2>4 DEF HandlerInv
<1>15. CASE Init
  <2>1. running' = Idle /\ UNCHANGED <<handler, syncing>>
    BY <1>15 DEF Init
  <2> QED
    BY <1>1, <1>3, <2>1, IdleIs DEF HandlerInv
<1>16. CASE Handler
  BY <1>10, <1>11, <1>12, <1>13, <1>14, <1>15, <1>16 DEF Handler
<1>17. CASE Outside
  <2>1. CASE \E c \in Callers : CallerDies(c)
    BY <1>4, <2>1 DEF CallerDies, storeVars
  <2>2. CASE \E i \in Ids : OnRemoteDied(i)
    BY <1>4, <2>2 DEF OnRemoteDied, storeVars
  <2>3. CASE \E d \in Peers : DeviceOffline(d)
    BY <1>4, <2>3 DEF DeviceOffline, storeVars
  <2> QED
    BY <1>6, <1>7, <1>8, <1>9, <1>17, <2>1, <2>2, <2>3 DEF Outside
<1>18. CASE Changes
  BY <1>4, <1>18 DEF Changes, Write, Subscribe, UnSubscribe, DataChange, syncVars, storeVars
<1> QED
  BY <1>4, <1>5, <1>16, <1>17, <1>18 DEF SyncNext, syncVars, storeVars

-----------------------------------------------------------------------------
(* The death of the KV service.                                            *)

\* A store whose service died is about to be told of it, to be re-opened, or its task was
\* removed with another's; a store that is closed is being re-opened.
ReopenInv ==
    \A a \in Adapters :
        /\ st[a] = "stale" /\ a \in ReInitialised(a) =>
               a \in dying \cup dropped \/ Posted("reInit", a) \/ Runs("reInit", "start", a)
        /\ st[a] = "none" => running.kind = "reInit" /\ running.pc = "init" /\ a \in ReInitialised(running.store)

LEMMA ReopenKept ==
    ASSUME HandlerInv, StoresInv, ReopenInv, [SyncNext]_<<syncVars, dataVars, subVars>>
    PROVE  ReopenInv'
PROOF
<1> DEFINE Goal == ReopenInv'
<1> SUFFICES Goal
  OBVIOUS
<1>1. ASSUME UNCHANGED <<st, running>>, dying \subseteq dying', dropped \subseteq dropped',
             \A a : Posted("reInit", a) => Posted("reInit", a)'
      PROVE  Goal
  BY <1>1 DEF ReopenInv, Runs
<1>2. CASE UNCHANGED <<st, dying, handler, running, dropped>>
  BY <1>1, <1>2 DEF Posted
<1>3. CASE SyncCalls
  BY <1>2, <1>3 DEF SyncCalls, Sync, AddSyncListener, KvSync, LoadAdapter, SyncWithNotOHBasedDevice, storeVars
<1>4. CASE \E s \in SyncStores : SyncCompleted(s)
  <2>1. PICK s \in SyncStores : SyncCompleted(s)
    BY <1>4
  <2>2. Post(Task("onSync", s)) /\ Task("onSync", s) \in Tasks /\ UNCHANGED <<st, dying, running, dropped>>
    BY <2>1, TaskIs, SyncAssumption DEF SyncCompleted, TaskKinds, fates
  <2>3. \A a : Posted("reInit", a) => Posted("reInit", a)'
    BY <2>2, PostedMore
  <2> QED
    BY <1>1, <2>2, <2>3
<1>5. CASE \E b \in Adapters : OnKvDied(b)
  <2>1. PICK b \in Adapters : OnKvDied(b)
    BY <1>5
  <2>2. Post(Task("reInit", b)) /\ UNCHANGED <<st, running, dropped>> /\ dying' = dying \ {b}
    BY <2>1 DEF OnKvDied, fates
  <2>3. Task("reInit", b) \in Tasks /\ Task("reInit", b).kind = "reInit" /\ Task("reInit", b).store = b
    BY TaskIs DEF TaskKinds
  <2>4. \A a : Posted("reInit", a)' <=> Posted("reInit", a) \/ a = b
    BY <2>2, <2>3, PostedMore
  <2> QED
    BY <2>2, <2>4 DEF ReopenInv, Runs
<1>6. CASE \E d \in Peers : DeviceOnline(d)
  <2>1. PICK d \in Peers : DeviceOnline(d)
    BY <1>6
  <2>2. \A a : Posted("reInit", a) => Posted("reInit", a)'
    BY <2>1, PostedOnline
  <2>3. UNCHANGED <<st, dying, running, dropped>>
    BY <2>1 DEF DeviceOnline, fates
  <2> QED
    BY <1>1, <2>2, <2>3
<1>7. CASE KvServiceDies
  <2>1. PICK hit : /\ st' = [a \in Adapters |-> IF a \in hit THEN "stale" ELSE st[a]]
                   /\ dying' = dying \cup hit /\ UNCHANGED <<handler, running, dropped>>
    BY <1>7 DEF KvServiceDies
  <2> QED
    BY <2>1 DEF ReopenInv, Posted, Runs
<1>8. CASE RunTask
  <2>1. running.kind = "idle" /\ UNCHANGED <<st, dying, dropped>>
    BY <1>8, IdleIs DEF RunTask, fates
  <2>2. \A a : Posted("reInit", a) => Posted("reInit", a)' \/ Runs("reInit", "start", a)'
    BY <1>8, PostedRun
  <2> QED
    BY <2>1, <2>2 DEF ReopenInv, Runs
<1>9. CASE GetSyncListeners \/ OnSyncCompleted \/ RemoveListeners \/ E2ESync
  <2>1. running.kind \in {"onSync", "e2e"} /\ UNCHANGED <<st, dying, handler, dropped>>
    BY <1>9 DEF GetSyncListeners, OnSyncCompleted, RemoveListeners, E2ESync, fates
  <2> QED
    BY <2>1 DEF ReopenInv, Runs, Posted
<1>10. CASE UnInit
  <2> DEFINE as == ReInitialised(running.store)
             kinds == {"reInit"} \cup IF as \cap SyncStores # {} THEN {"onSync"} ELSE {}
             removed == {handler[i] : i \in {j \in DOMAIN handler : handler[j].kind \in kinds}}
  <2>1. /\ running.kind = "reInit" /\ running.pc = "start"
        /\ st' = [a \in Adapters |-> IF a \in as THEN "none" ELSE st[a]]
        /\ dying' = dying \ as
        /\ dropped' = dropped \cup {task.store : task \in {r \in removed : r.kind = "reInit"}}
        /\ running' = [running EXCEPT !.pc = "init"]
    BY <1>10 DEF UnInit
  <2>2. running'.kind = "reInit" /\ running'.pc = "init" /\ running'.store = running.store
    BY <2>1 DEF HandlerInv, Running
  <2>3. \A a : Posted("reInit", a) => a \in dropped'
    <3> SUFFICES ASSUME NEW a, Posted("reInit", a) PROVE a \in dropped'
      OBVIOUS
    <3>1. PICK i \in DOMAIN handler : handler[i].kind = "reInit" /\ handler[i].store = a
      BY DEF Posted
    <3>2. handler[i] \in {r \in removed : r.kind = "reInit"}
      BY <3>1
    <3> QED
      BY <2>1, <3>1, <3>2
  <2>4. dropped \subseteq dropped'
    BY <2>1
  <2> HIDE DEF as
  <2>5. ASSUME NEW a \in Adapters
        PROVE  /\ st'[a] = "stale" /\ a \in ReInitialised(a) => a \in dying' \cup dropped'
               /\ st'[a] = "none" => a \in as
    <3>1. CASE a \in as
      <4>1. st'[a] = "none"
        BY <2>1, <3>1
      <4> QED
        BY <3>1, <4>1
    <3>2. CASE a \notin as
      <4>1. st'[a] = st[a]
        BY <2>1, <3>2
      <4>2. st[a] # "none"
        BY <2>1 DEF ReopenInv
      <4>3. st[a] = "stale" /\ a \in ReInitialised(a) =>
                a \in dying \cup dropped \/ Posted("reInit", a) \/ Runs("reInit", "start", a)
        BY DEF ReopenInv
      <4>4. Runs("reInit", "start", a) => as = ReInitialised(a)
        BY DEF Runs, as
      <4> QED
        BY <2>1, <2>3, <2>4, <3>2, <4>1, <4>2, <4>3, <4>4
    <3> QED
      BY <3>1, <3>2
  <2>6. as = ReInitialised(running'.store)
    BY <2>2 DEF as
  <2> QED
    BY <2>2, <2>5, <2>6 DEF ReopenInv
<1>11. CASE Init
  <2> DEFINE as == ReInitialised(running.store)
  <2>1. /\ running.kind = "reInit" /\ running.pc = "init" /\ UNCHANGED <<handler, dying>> /\ dropped' = dropped \ as
        /\ \E v \in {"open", "failed"} : st' = [a \in Adapters |-> IF a \in as THEN v ELSE st[a]]
    BY <1>11 DEF Init, InitStores
  <2>2. \A a \in Adapters : (st[a] = "none" => a \in as) /\ ~Runs("reInit", "start", a)
    BY <2>1 DEF ReopenInv, Runs
  <2> HIDE DEF as
  <2>3. ASSUME NEW a \in Adapters
        PROVE  /\ st'[a] = "stale" /\ a \in ReInitialised(a) => a \in dying' \cup dropped' \/ Posted("reInit", a)'
               /\ st'[a] # "none"
    <3>1. CASE a \in as
      <4>1. st'[a] \in {"open", "failed"}
        BY <2>1, <3>1
      <4> QED
        BY <4>1
    <3>2. CASE a \notin as
      <4>1. st'[a] = st[a]
        BY <2>1, <3>2
      <4>2. Posted("reInit", a) => Posted("reInit", a)'
        BY <2>1 DEF Posted
      <4>3. st[a] = "stale" /\ a \in ReInitialised(a) => a \in dying \cup dropped \/ Posted("reInit", a)
        BY <2>2 DEF ReopenInv
      <4> QED
        BY <2>1, <2>2, <3>2, <4>1, <4>2, <4>3
    <3> QED
      BY <3>1, <3>2
  <2> QED
    BY <2>3 DEF ReopenInv
<1>12. CASE Handler
  BY <1>8, <1>9, <1>10, <1>11, <1>12 DEF Handler
<1>13. CASE Outside
  <2>1. CASE \E c \in Callers : CallerDies(c)
    BY <1>2, <2>1 DEF CallerDies, storeVars
  <2>2. CASE \E i \in Ids : OnRemoteDied(i)
    BY <1>2, <2>2 DEF OnRemoteDied, storeVars, fates
  <2>3. CASE \E d \in Peers : DeviceOffline(d)
    BY <1>2, <2>3 DEF DeviceOffline, storeVars, fates
  <2> QED
    BY <1>4, <1>5, <1>6, <1>7, <1>13, <2>1, <2>2, <2>3 DEF Outside
<1>14. CASE Changes
  BY <1>2, <1>14 DEF Changes, Write, Subscribe, UnSubscribe, DataChange, syncVars, storeVars, fates
<1> QED
  BY <1>2, <1>3, <1>12, <1>13, <1>14 DEF SyncNext, syncVars, storeVars, fates

\* However deaths of the KV service, re-openings and synchronisations follow one another,
\* at rest a store is left closed or dead only when its re-opening was removed from the
\* handler with another's, or opens another store.
THEOREM DeadStoresReopened == SyncSpec => []ReopenedUnlessDropped
PROOF
<1>1. ReopenInv => ReopenedUnlessDropped
  <2> SUFFICES ASSUME ReopenInv, Quiet, NEW a \in Adapters, st[a] \in {"stale", "none"}, a \in ReInitialised(a)
               PROVE  a \in dropped
    BY DEF ReopenedUnlessDropped
  <2>1. running = Idle /\ handler = <<>> /\ dying = {}
    BY DEF Quiet
  <2>2. ~Posted("reInit", a) /\ ~Runs("reInit", "start", a) /\ running.kind # "reInit"
    BY <2>1, IdleIs DEF Posted, Runs
  <2> QED
    BY <2>1, <2>2 DEF ReopenInv
<1>2. SyncInit => ReopenInv
  BY DEF SyncInit, ReopenInv
<1> QED
  BY <1>1, <1>2, SyncStart, HandlerStart, StoresKept, ListenersKept, HandlerKept, ReopenKept, PTL DEF SyncSpec

-----------------------------------------------------------------------------
(* What callbacks hear.                                                    *)

Copied == running.kind = "onSync" /\ running.pc \in {"call", "remove"}
Called == running.kind = "onSync" /\ running.pc = "remove"

\* A callback is registered by one call, once, for one store.
CallsInv ==
    /\ \A t, u \in calls : t.id = u.id => t = u
    /\ DOMAIN owner \subseteq Ids /\ accepted \subseteq DOMAIN owner
    /\ \A s, r \in SyncStores, c \in Callers : s # r /\ listeners[s][c] # 0 => listeners[s][c] # listeners[r][c]
NewInv ==
    /\ \A i \in Ids \ DOMAIN owner : heard[i] = 0
    /\ \A t \in calls : t.pc = "add" =>
          /\ heard[t.id] = 0 /\ t.id \notin accepted
          /\ \A s \in SyncStores : listeners[s][owner[t.id]] # t.id
          /\ Copied => running.got[owner[t.id]] # t.id
\* The callbacks of the copy that is being called are called once, and those that have
\* heard of a completion are registered no longer than until the copy is removed.
CopyInv ==
    Copied => \A c \in Callers : running.got[c] # 0 =>
          /\ running.got[c] \in DOMAIN owner /\ owner[running.got[c]] = c
          /\ \A s \in SyncStores \ {running.store} : listeners[s][c] # running.got[c]
          /\ ~Called => heard[running.got[c]] = 0
          /\ Called => heard[running.got[c]] = 1 \/ running.got[c] \in dead
HeardInv ==
    /\ heard \in [Ids -> 0 .. 1]
    /\ \A s \in SyncStores, c \in Callers : listeners[s][c] # 0 /\ heard[listeners[s][c]] = 1 =>
          Called /\ running.store = s /\ running.got[c] = listeners[s][c]
OnceInv == CallsInv /\ NewInv /\ CopyInv /\ HeardInv

\* A completion is on its way to a callback.
Due(s, i) == \/ syncing[s] > 0 \/ Posted("onSync", s) \/ Runs("onSync", "start", s)
             \/ Runs("onSync", "call", s) /\ running.got[owner[i]] = i
Fated == dead \cup lost
WaitInv ==
    /\ \A i \in accepted \ Fated : heard[i] = 1 \/ \E s \in SyncStores : listeners[s][owner[i]] = i /\ Due(s, i)
    /\ \A t \in calls : t.pc = "sync" /\ t.id \notin Fated =>
           heard[t.id] = 1 \/ listeners[t.store][owner[t.id]] = t.id
AnswerInv == OnceInv /\ WaitInv

LEMMA AnswerStart == SyncInit => AnswerInv
PROOF
<1> SUFFICES ASSUME SyncInit PROVE AnswerInv
  OBVIOUS
<1>1. /\ owner = <<>> /\ calls = {} /\ accepted = {} /\ heard = [i \in Ids |-> 0] /\ running = Idle
      /\ listeners = [s \in SyncStores |-> [c \in Callers |-> 0]]
  BY DEF SyncInit
<1>2. ~Copied /\ DOMAIN owner = {}
  BY <1>1, IdleIs DEF Copied
<1>3. CallsInv /\ NewInv
  BY <1>1, <1>2 DEF CallsInv, NewInv
<1>4. CopyInv /\ HeardInv
  BY <1>1, <1>2 DEF CopyInv, HeardInv
<1>5. WaitInv
  BY <1>1 DEF WaitInv
<1> QED
  BY <1>3, <1>4, <1>5 DEF AnswerInv, OnceInv

\* Steps that no callback notices.
LEMMA OnceFrame ==
    ASSUME OnceInv, UNCHANGED <<listeners, calls, owner, accepted, heard>>, dead \subseteq dead',
           running' = running \/ (~Copied /\ ~Copied')
    PROVE  OnceInv'
PROOF
<1>1. CallsInv'
  BY DEF OnceInv, CallsInv
<1>2. CASE running' = running
  <2>1. (Copied' <=> Copied) /\ (Called' <=> Called)
    BY <1>2 DEF Copied, Called
  <2>2. NewInv'
    BY <1>2, <2>1 DEF OnceInv, NewInv
  <2>3. CopyInv'
    BY <1>2, <2>1 DEF OnceInv, CopyInv
  <2>4. HeardInv'
    BY <1>2, <2>1 DEF OnceInv, HeardInv
  <2> QED
    BY <1>1, <2>2, <2>3, <2>4 DEF OnceInv
<1>3. CASE ~Copied /\ ~Copied'
  <2>1. ~Called
    BY <1>3 DEF Copied, Called
  <2>2. NewInv'
    BY <1>3 DEF OnceInv, NewInv
  <2>3. CopyInv'
    BY <1>3 DEF CopyInv
  <2>4. HeardInv'
    BY <2>1 DEF OnceInv, HeardInv
  <2> QED
    BY <1>1, <2>2, <2>3, <2>4 DEF OnceInv
<1> QED
  BY <1>2, <1>3

LEMMA WaitFrame ==
    ASSUME WaitInv, OnceInv, UNCHANGED <<listeners, calls, owner, accepted, heard>>,
           dead \subseteq dead', lost \subseteq lost',
           \A s \in SyncStores, i \in DOMAIN owner :
               listeners[s][owner[i]] = i /\ Due(s, i) => Due(s, i)' \/ i \in lost'
    PROVE  WaitInv'
PROOF
<1>1. \A i : i \notin Fated' => i \notin Fated /\ i \notin lost'
  BY DEF Fated
<1>2. ASSUME NEW i \in accepted, i \notin Fated'
      PROVE  heard[i] = 1 \/ \E s \in SyncStores : listeners[s][owner[i]] = i /\ Due(s, i)'
  <2>1. i \in DOMAIN owner
    BY DEF OnceInv, CallsInv
  <2>2. heard[i] = 1 \/ \E s \in SyncStores : listeners[s][owner[i]] = i /\ Due(s, i)
    BY <1>1, <1>2 DEF WaitInv
  <2> QED
    BY <1>1, <1>2, <2>1, <2>2
<1>3. ASSUME NEW t \in calls, t.pc = "sync", t.id \notin Fated'
      PROVE  heard[t.id] = 1 \/ listeners[t.store][owner[t.id]] = t.id
  BY <1>1, <1>3 DEF WaitInv
<1> QED
  BY <1>2, <1>3 DEF WaitInv

\* Nothing that is due changes.
LEMMA DueFrame ==
    ASSUME UNCHANGED <<syncing, handler, running, owner>>
    PROVE  \A s, i : Due(s, i)' <=> Due(s, i)
PROOF
  BY DEF Due, Posted, Runs

\* A new call.
LEMMA SyncAnswered ==
    ASSUME AnswerInv, ListenersInv, NEW c \in Callers, NEW s \in SyncStores, NEW devs \in Requests, Sync(c, s, devs)
    PROVE  AnswerInv'
PROOF
<1> DEFINE id == Len(owner) + 1
<1>1. PICK new : /\ owner' = Append(owner, c) /\ id \in Ids /\ calls' = calls \cup {new} /\ new.id = id /\ new.pc # "sync"
                 /\ UNCHANGED <<listeners, heard, accepted, dead, lost, running, syncing, handler>>
  <2> DEFINE group == FilterAndGroupOnlineDevices(devs)
             other == IF s = "dynamic" THEN group.other ELSE {}
             pc == IF group.oh = {} THEN "thread" ELSE "add"
             new == [id |-> id, store |-> s, other |-> other, pc |-> pc]
  <2>1. calls' = calls \cup {new}
    BY DEF Sync
  <2>2. pc # "sync"
    OBVIOUS
  <2> HIDE DEF other, pc
  <2>3. new.id = id /\ new.pc # "sync"
    BY <2>2
  <2>4. /\ owner' = Append(owner, c) /\ id \in Ids
        /\ UNCHANGED <<listeners, heard, accepted, dead, lost, running, syncing, handler>>
    BY DEF Sync, storeVars, listenerVars
  <2> QED
    BY <2>1, <2>3, <2>4
<1>2. /\ DOMAIN owner' = DOMAIN owner \cup {id} /\ id \notin DOMAIN owner /\ owner'[id] = c
      /\ \A i \in DOMAIN owner : owner'[i] = owner[i]
  BY <1>1 DEF ListenersInv
<1>3. (Copied' <=> Copied) /\ (Called' <=> Called)
  BY <1>1 DEF Copied, Called
<1>4. \A t \in calls : t.id \in DOMAIN owner
  BY DEF ListenersInv
<1>5. CallsInv'
  BY <1>1, <1>2, <1>4 DEF AnswerInv, OnceInv, CallsInv
<1>6. NewInv'
  <2>1. \A i \in Ids \ DOMAIN owner' : heard'[i] = 0
    BY <1>1, <1>2 DEF AnswerInv, OnceInv, NewInv
  <2>2. ASSUME NEW t \in calls, t.pc = "add"
        PROVE  /\ heard'[t.id] = 0 /\ t.id \notin accepted'
               /\ \A r \in SyncStores : listeners'[r][owner'[t.id]] # t.id
               /\ Copied' => running'.got[owner'[t.id]] # t.id
    <3>1. owner'[t.id] = owner[t.id]
      BY <1>2, <1>4
    <3> QED
      BY <1>1, <1>3, <2>2, <3>1 DEF AnswerInv, OnceInv, NewInv
  <2>3. /\ heard'[id] = 0 /\ id \notin accepted'
        /\ \A r \in SyncStores : listeners'[r][owner'[id]] # id
        /\ Copied' => running'.got[owner'[id]] # id
    <3>1. heard'[id] = 0 /\ id \notin accepted'
      BY <1>1, <1>2 DEF AnswerInv, OnceInv, NewInv, CallsInv
    <3>2. id # 0
      BY <1>1, SyncBounds
    <3>3. \A r \in SyncStores : listeners[r][c] # id
      BY <1>2, <3>2 DEF ListenersInv
    <3>4. Copied => running.got[c] # id
      BY <1>2, <3>2 DEF AnswerInv, OnceInv, CopyInv
    <3> QED
      BY <1>1, <1>2, <1>3, <3>1, <3>3, <3>4
  <2> QED
    BY <1>1, <2>1, <2>2, <2>3 DEF NewInv
<1>7. CopyInv'
  <2> SUFFICES ASSUME Copied, NEW d \in Callers, running.got[d] # 0
               PROVE  /\ running.got[d] \in DOMAIN owner' /\ owner'[running.got[d]] = d
                      /\ \A r \in SyncStores \ {running.store} : listeners[r][d] # running.got[d]
                      /\ ~Called => heard[running.got[d]] = 0
                      /\ Called => heard[running.got[d]] = 1 \/ running.got[d] \in dead
    BY <1>1, <1>3 DEF CopyInv
  <2> QED
    BY <1>2 DEF AnswerInv, OnceInv, CopyInv
<1>8. HeardInv'
  BY <1>1, <1>3 DEF AnswerInv, OnceInv, HeardInv
<1>9. WaitInv'
  <2>1. \A r, i : i \in DOMAIN owner /\ Due(r, i) => Due(r, i)'
    BY <1>1, <1>2 DEF Due, Posted, Runs
  <2>2. Fated' = Fated
    BY <1>1 DEF Fated
  <2>3. ASSUME NEW i \in accepted', i \notin Fated'
        PROVE  heard'[i] = 1 \/ \E r \in SyncStores : listeners'[r][owner'[i]] = i /\ Due(r, i)'
    <3>1. i \in DOMAIN owner /\ owner'[i] = owner[i] /\ i \in accepted
      BY <1>1, <1>2 DEF AnswerInv, OnceInv, CallsInv
    <3>2. heard[i] = 1 \/ \E r \in SyncStores : listeners[r][owner[i]] = i /\ Due(r, i)
      BY <2>2, <2>3, <3>1 DEF AnswerInv, WaitInv
    <3> QED
      BY <1>1, <2>1, <3>1, <3>2
  <2>4. ASSUME NEW t \in calls', t.pc = "sync", t.id \notin Fated'
        PROVE  heard'[t.id] = 1 \/ listeners'[t.store][owner'[t.id]] = t.id
    <3>1. t \in calls /\ owner'[t.id] = owner[t.id]
      BY <1>1, <1>2, <1>4, <2>4
    <3> QED
      BY <1>1, <2>2, <2>4, <3>1 DEF AnswerInv, WaitInv
  <2> QED
    BY <2>3, <2>4 DEF WaitInv
<1> QED
  BY <1>5, <1>6, <1>7, <1>8, <1>9 DEF AnswerInv, OnceInv

\* A call goes on or ends; it is new no more.
LEMMA CallStep ==
    ASSUME CallsInv, NEW t \in calls, NEW u, u.id = t.id, u.pc # "add",
           calls' = (calls \ {t}) \cup {u} \/ calls' = calls \ {t}
    PROVE  /\ \A v, w \in calls' : v.id = w.id => v = w
           /\ \A v \in calls' : v.pc = "add" => v \in calls /\ v.id # t.id
           /\ \A v \in calls' : v = u \/ (v \in calls /\ v.id # t.id)
PROOF
<1>1. \A v \in calls \ {t} : v.id # t.id
  BY DEF CallsInv
<1> QED
  BY <1>1 DEF CallsInv

\* The steps of a call that change no listener.
LEMMA KvSyncAnswered ==
    ASSUME AnswerInv, ListenersInv, HandlerInv, NEW t \in calls,
           KvSync(t) \/ LoadAdapter(t) \/ SyncWithNotOHBasedDevice(t)
    PROVE  AnswerInv'
PROOF
<1>1. UNCHANGED <<listeners, owner, heard, dead, lost, running, handler>>
  BY DEF KvSync, LoadAdapter, SyncWithNotOHBasedDevice, storeVars, listenerVars
<1>2. t \in Calls
  BY DEF ListenersInv
<1>3. t.pc \in {"sync", "thread", "run"}
  BY DEF KvSync, LoadAdapter, SyncWithNotOHBasedDevice
<1>4. PICK u : u.id = t.id /\ u.pc \notin {"add", "sync"} /\ (calls' = (calls \ {t}) \cup {u} \/ calls' = calls \ {t})
  <2>1. CASE calls' = calls \ {t}
    <3> DEFINE u == [t EXCEPT !.pc = "run"]
    <3>1. u.id = t.id /\ u.pc = "run"
      BY <1>2 DEF Calls
    <3> QED
      BY <2>1, <3>1
  <2>2. CASE \E pc \in {"thread", "run"} : Goto(t, pc)
    <3>1. PICK pc \in {"thread", "run"} : calls' = (calls \ {t}) \cup {[t EXCEPT !.pc = pc]}
      BY <2>2 DEF Goto
    <3>2. [t EXCEPT !.pc = pc].id = t.id /\ [t EXCEPT !.pc = pc].pc = pc
      BY <1>2 DEF Calls
    <3> QED
      BY <3>1, <3>2
  <2>3. CASE SyncWithNotOHBasedDevice(t)
    <3>1. PICK p : calls' = calls \ {t} \/ calls' = (calls \ {t}) \cup {[t EXCEPT !.other = @ \ {p}]}
      BY <2>3 DEF SyncWithNotOHBasedDevice, End
    <3>2. [t EXCEPT !.other = @ \ {p}].id = t.id /\ [t EXCEPT !.other = @ \ {p}].pc = "run"
      BY <1>2, <2>3 DEF Calls, SyncWithNotOHBasedDevice
    <3> QED
      BY <2>1, <3>1, <3>2
  <2> QED
    BY <2>1, <2>2, <2>3 DEF KvSync, LoadAdapter, End
<1>5. /\ \A v, w \in calls' : v.id = w.id => v = w
      /\ \A v \in calls' : v.pc = "add" => v \in calls /\ v.id # t.id
      /\ \A v \in calls' : v = u \/ (v \in calls /\ v.id # t.id)
  BY <1>4, CallStep DEF AnswerInv, OnceInv
<1>6. /\ accepted' = accepted \/ (t.pc = "sync" /\ syncing' = [syncing EXCEPT ![t.store] = @ + 1]
                                 /\ accepted' = accepted \cup {t.id})
      /\ syncing' = syncing \/ syncing' = [syncing EXCEPT ![t.store] = @ + 1]
  BY DEF KvSync, LoadAdapter, SyncWithNotOHBasedDevice, storeVars
<1>7. /\ \A s \in SyncStores : syncing[s] > 0 => syncing'[s] > 0
      /\ accepted' # accepted => syncing'[t.store] > 0 /\ t.store \in SyncStores
  BY <1>2, <1>6 DEF HandlerInv, Calls
<1>8. \A s \in SyncStores : \A i : Due(s, i) => Due(s, i)'
  BY <1>1, <1>7 DEF Due, Posted, Runs
<1>9. CallsInv'
  <2>1. accepted' \subseteq DOMAIN owner
    BY <1>6 DEF AnswerInv, OnceInv, CallsInv, ListenersInv
  <2> QED
    BY <1>1, <1>5, <2>1 DEF AnswerInv, OnceInv, CallsInv
<1>10. (Copied' <=> Copied) /\ (Called' <=> Called)
  BY <1>1 DEF Copied, Called
<1>11. NewInv'
  <2>1. ASSUME NEW v \in calls', v.pc = "add"
        PROVE  /\ heard[v.id] = 0 /\ v.id \notin accepted'
               /\ \A s \in SyncStores : listeners[s][owner[v.id]] # v.id
               /\ Copied => running.got[owner[v.id]] # v.id
    <3>1. v \in calls /\ v.id # t.id
      BY <1>5, <2>1
    <3> QED
      BY <1>6, <2>1, <3>1 DEF AnswerInv, OnceInv, NewInv
  <2> QED
    BY <1>1, <1>10, <2>1 DEF AnswerInv, OnceInv, NewInv
<1>12. CopyInv'
  BY <1>1, <1>10 DEF AnswerInv, OnceInv, CopyInv
<1>13. HeardInv'
  BY <1>1, <1>10 DEF AnswerInv, OnceInv, HeardInv
<1>14. WaitInv'
  <2>1. Fated' = Fated
    BY <1>1 DEF Fated
  <2>2. ASSUME NEW i \in accepted', i \notin Fated
        PROVE  heard[i] = 1 \/ \E s \in SyncStores : listeners[s][owner[i]] = i /\ Due(s, i)'
    <3>1. CASE i \in accepted
      <4>1. heard[i] = 1 \/ \E s \in SyncStores : listeners[s][owner[i]] = i /\ Due(s, i)
        BY <2>2, <3>1 DEF AnswerInv, WaitInv
      <4> QED
        BY <1>8, <4>1
    <3>2. CASE i \notin accepted
      <4>1. i = t.id /\ t.pc = "sync" /\ syncing'[t.store] > 0 /\ t.store \in SyncStores
        BY <1>6, <1>7, <2>2, <3>2
      <4>2. heard[i] = 1 \/ listeners[t.store][owner[i]] = i
        BY <2>2, <4>1 DEF AnswerInv, WaitInv
      <4> QED
        BY <4>1, <4>2 DEF Due
    <3> QED
      BY <3>1, <3>2
  <2>3. ASSUME NEW v \in calls', v.pc = "sync", v.id \notin Fated
        PROVE  heard[v.id] = 1 \/ listeners[v.store][owner[v.id]] = v.id
    <3>1. v \in calls
      BY <1>4, <1>5, <2>3
    <3> QED
      BY <2>3, <3>1 DEF AnswerInv, WaitInv
  <2> QED
    BY <1>1, <2>1, <2>2, <2>3 DEF WaitInv
<1> QED
  BY <1>9, <1>11, <1>12, <1>13, <1>14 DEF AnswerInv, OnceInv

\* The callback of a call is registered, or does not fit.
LEMMA AddAnswered ==
    ASSUME AnswerInv, ListenersInv, HandlerInv, NEW t \in calls, AddSyncListener(t)
    PROVE  AnswerInv'
PROOF
<1> DEFINE s == t.store
           c == owner[t.id]
<1>1. /\ t.pc = "add" /\ UNCHANGED <<owner, heard, dead, accepted, running, handler, syncing>>
  BY DEF AddSyncListener, storeVars
<1>2. t \in Calls /\ t.id \in DOMAIN owner /\ s \in SyncStores /\ c \in Callers /\ t.id # 0 /\ t.id \in Ids
  BY SyncBounds DEF ListenersInv, Calls
<1>3. PICK u : /\ u.id = t.id /\ u.pc = "sync" /\ u.store = s
               /\ calls' = (calls \ {t}) \cup {u} \/ (calls' = calls \ {t} /\ t.id \in lost')
  <2> DEFINE u == [t EXCEPT !.pc = "sync"]
  <2>1. u.id = t.id /\ u.pc = "sync" /\ u.store = s
    BY <1>2 DEF Calls
  <2>2. calls' = (calls \ {t}) \cup {u} \/ (calls' = calls \ {t} /\ t.id \in lost')
    BY DEF AddSyncListener, Goto, End
  <2> HIDE DEF u
  <2> QED
    BY <2>1, <2>2
<1>4. /\ \A v, w \in calls' : v.id = w.id => v = w
      /\ \A v \in calls' : v.pc = "add" => v \in calls /\ v.id # t.id
      /\ \A v \in calls' : v = u \/ (v \in calls /\ v.id # t.id)
  BY <1>3, CallStep DEF AnswerInv, OnceInv
<1>5. (Copied' <=> Copied) /\ (Called' <=> Called)
  BY <1>1 DEF Copied, Called
<1>6. \A r, i : Due(r, i)' <=> Due(r, i)
  BY <1>1, DueFrame
<1>7. \/ listeners' = listeners /\ lost' = lost \cup {t.id}
      \/ /\ listeners' = [listeners EXCEPT ![s][c] = t.id]
         /\ lost' = lost \cup ({listeners[s][c]} \ {0})
  BY DEF AddSyncListener
<1>8. /\ \A r \in SyncStores, d \in Callers :
             \/ listeners'[r][d] = listeners[r][d]
             \/ r = s /\ d = c /\ listeners'[r][d] = t.id /\ (listeners[r][d] # 0 => listeners[r][d] \in lost')
      /\ lost \subseteq lost' /\ (listeners'[s][c] = t.id \/ t.id \in lost')
  <2>1. CASE listeners' = listeners /\ lost' = lost \cup {t.id}
    BY <2>1
  <2>2. CASE /\ listeners' = [listeners EXCEPT ![s][c] = t.id]
             /\ lost' = lost \cup ({listeners[s][c]} \ {0})
    <3>1. \A r \in SyncStores, d \in Callers : listeners'[r][d] = IF r = s /\ d = c THEN t.id ELSE listeners[r][d]
      BY <2>2 DEF ListenersInv
    <3> QED
      BY <1>2, <2>2, <3>1
  <2> QED
    BY <1>7, <2>1, <2>2
<1>9. /\ heard[t.id] = 0 /\ t.id \notin accepted
      /\ \A r \in SyncStores : listeners[r][c] # t.id
      /\ Copied => running.got[c] # t.id
  BY <1>1 DEF AnswerInv, OnceInv, NewInv
<1> HIDE DEF s, c
<1>10. CallsInv'
  <2>1. ASSUME NEW r \in SyncStores, NEW q \in SyncStores, NEW d \in Callers, r # q, listeners'[r][d] # 0
        PROVE  listeners'[r][d] # listeners'[q][d]
    <3>1. listeners[r][d] # 0 => listeners[r][d] # listeners[q][d]
      BY <2>1 DEF AnswerInv, OnceInv, CallsInv
    <3> QED
      BY <1>2, <1>8, <1>9, <2>1, <3>1
  <2> QED
    BY <1>1, <1>4, <2>1 DEF AnswerInv, OnceInv, CallsInv
<1>11. NewInv'
  <2>1. ASSUME NEW v \in calls', v.pc = "add"
        PROVE  /\ heard[v.id] = 0 /\ v.id \notin accepted
               /\ \A r \in SyncStores : listeners'[r][owner[v.id]] # v.id
               /\ Copied => running.got[owner[v.id]] # v.id
    <3>1. v \in calls /\ v.id # t.id
      BY <1>4, <2>1
    <3>2. owner[v.id] \in Callers
      BY <3>1 DEF ListenersInv
    <3>3. /\ heard[v.id] = 0 /\ v.id \notin accepted
          /\ \A r \in SyncStores : listeners[r][owner[v.id]] # v.id
          /\ Copied => running.got[owner[v.id]] # v.id
      BY <2>1, <3>1 DEF AnswerInv, OnceInv, NewInv
    <3> QED
      BY <1>8, <3>1, <3>2, <3>3
  <2> QED
    BY <1>1, <1>5, <2>1 DEF AnswerInv, OnceInv, NewInv
<1>12. CopyInv'
  <2> SUFFICES ASSUME Copied, NEW d \in Callers, running.got[d] # 0
               PROVE  /\ running.got[d] \in DOMAIN owner /\ owner[running.got[d]] = d
                      /\ \A r \in SyncStores \ {running.store} : listeners'[r][d] # running.got[d]
                      /\ ~Called => heard[running.got[d]] = 0
                      /\ Called => heard[running.got[d]] = 1 \/ running.got[d] \in dead
    BY <1>1, <1>5 DEF CopyInv
  <2>1. /\ running.got[d] \in DOMAIN owner /\ owner[running.got[d]] = d
        /\ \A r \in SyncStores \ {running.store} : listeners[r][d] # running.got[d]
        /\ ~Called => heard[running.got[d]] = 0
        /\ Called => heard[running.got[d]] = 1 \/ running.got[d] \in dead
    BY DEF AnswerInv, OnceInv, CopyInv
  <2> QED
    BY <1>8, <1>9, <2>1
<1>13. HeardInv'
  <2>1. ASSUME NEW r \in SyncStores, NEW d \in Callers, listeners'[r][d] # 0, heard[listeners'[r][d]] = 1
        PROVE  Called /\ running.store = r /\ running.got[d] = listeners'[r][d]
    <3>1. listeners'[r][d] = listeners[r][d]
      BY <1>8, <1>9, <2>1
    <3> QED
      BY <2>1, <3>1 DEF AnswerInv, OnceInv, HeardInv
  <2> QED
    BY <1>1, <1>5, <2>1 DEF AnswerInv, OnceInv, HeardInv
<1>14. WaitInv'
  <2>1. \A i : i \notin Fated' => i \notin Fated /\ i \notin lost'
    BY <1>1, <1>8 DEF Fated
  <2>2. ASSUME NEW i \in accepted, i \notin Fated'
        PROVE  heard[i] = 1 \/ \E r \in SyncStores : listeners'[r][owner[i]] = i /\ Due(r, i)
    <3>1. owner[i] \in Callers /\ i # 0
      BY SyncBounds DEF AnswerInv, OnceInv, CallsInv, ListenersInv
    <3>2. heard[i] = 1 \/ \E r \in SyncStores : listeners[r][owner[i]] = i /\ Due(r, i)
      BY <2>1, <2>2 DEF AnswerInv, WaitInv
    <3> QED
      BY <1>8, <2>1, <2>2, <3>1, <3>2
  <2>3. ASSUME NEW v \in calls', v.pc = "sync", v.id \notin Fated'
        PROVE  heard[v.id] = 1 \/ listeners'[v.store][owner[v.id]] = v.id
    <3>1. CASE v = u
      <4>1. v.id = t.id /\ v.store = s /\ owner[v.id] = c
        BY <1>3, <3>1 DEF c
      <4> QED
        BY <1>8, <2>1, <2>3, <4>1
    <3>2. CASE v # u
      <4>1. v \in calls /\ v.id # t.id /\ v.store \in SyncStores /\ owner[v.id] \in Callers /\ v.id # 0
        BY <1>4, <2>3, <3>2, SyncBounds DEF ListenersInv, Calls
      <4>2. heard[v.id] = 1 \/ listeners[v.store][owner[v.id]] = v.id
        BY <2>1, <2>3, <4>1 DEF AnswerInv, WaitInv
      <4> QED
        BY <1>8, <2>1, <2>3, <4>1, <4>2
    <3> QED
      BY <3>1, <3>2
  <2> QED
    BY <1>1, <1>6, <2>2, <2>3 DEF WaitInv
<1> QED
  BY <1>10, <1>11, <1>12, <1>13, <1>14 DEF AnswerInv, OnceInv

\* The death recipient removes a callback of a process that died.
LEMMA DiedAnswered ==
    ASSUME AnswerInv, ListenersInv, DeathsInv, NEW i \in Ids, OnRemoteDied(i)
    PROVE  AnswerInv'
PROOF
<1>1. /\ UNCHANGED <<owner, calls, heard, dead, lost, accepted, running, handler, syncing>> /\ i \in dead
  BY DEF OnRemoteDied, storeVars, callVars, fates, DeathsInv
<1>2. \A r \in SyncStores, c \in Callers :
          listeners'[r][c] = listeners[r][c] \/ (listeners'[r][c] = 0 /\ listeners[r][c] = i)
  BY DEF OnRemoteDied, RemoveSyncListener, ListenersInv
<1>3. (Copied' <=> Copied) /\ (Called' <=> Called)
  BY <1>1 DEF Copied, Called
<1>4. \A r, k : Due(r, k)' <=> Due(r, k)
  BY <1>1, DueFrame
<1>5. CallsInv'
  <2>1. ASSUME NEW r \in SyncStores, NEW q \in SyncStores, NEW d \in Callers, r # q, listeners'[r][d] # 0
        PROVE  listeners'[r][d] # listeners'[q][d]
    <3>1. listeners[r][d] # 0 => listeners[r][d] # listeners[q][d]
      BY <2>1 DEF AnswerInv, OnceInv, CallsInv
    <3> QED
      BY <1>2, <2>1, <3>1
  <2> QED
    BY <1>1, <2>1 DEF AnswerInv, OnceInv, CallsInv
<1>6. NewInv'
  <2>1. ASSUME NEW v \in calls, v.pc = "add", NEW r \in SyncStores
        PROVE  listeners'[r][owner[v.id]] # v.id
    <3>1. listeners[r][owner[v.id]] # v.id /\ owner[v.id] \in Callers /\ v.id # 0
      BY <2>1, SyncBounds DEF AnswerInv, OnceInv, NewInv, ListenersInv, Calls
    <3> QED
      BY <1>2, <3>1
  <2> QED
    BY <1>1, <1>3, <2>1 DEF AnswerInv, OnceInv, NewInv
<1>7. CopyInv'
  <2> SUFFICES ASSUME Copied, NEW d \in Callers, running.got[d] # 0
               PROVE  /\ running.got[d] \in DOMAIN owner /\ owner[running.got[d]] = d
                      /\ \A r \in SyncStores \ {running.store} : listeners'[r][d] # running.got[d]
                      /\ ~Called => heard[running.got[d]] = 0
                      /\ Called => heard[running.got[d]] = 1 \/ running.got[d] \in dead
    BY <1>1, <1>3 DEF CopyInv
  <2>1. /\ running.got[d] \in DOMAIN owner /\ owner[running.got[d]] = d
        /\ \A r \in SyncStores \ {running.store} : listeners[r][d] # running.got[d]
        /\ ~Called => heard[running.got[d]] = 0
        /\ Called => heard[running.got[d]] = 1 \/ running.got[d] \in dead
    BY DEF AnswerInv, OnceInv, CopyInv
  <2> QED
    BY <1>2, <2>1
<1>8. HeardInv'
  <2>1. ASSUME NEW r \in SyncStores, NEW d \in Callers, listeners'[r][d] # 0, heard[listeners'[r][d]] = 1
        PROVE  Called /\ running.store = r /\ running.got[d] = listeners'[r][d]
    <3>1. listeners'[r][d] = listeners[r][d]
      BY <1>2, <2>1
    <3> QED
      BY <2>1, <3>1 DEF AnswerInv, OnceInv, HeardInv
  <2> QED
    BY <1>1, <1>3, <2>1 DEF AnswerInv, OnceInv, HeardInv
<1>9. WaitInv'
  <2>1. Fated' = Fated /\ i \in Fated
    BY <1>1 DEF Fated
  <2>2. ASSUME NEW k \in accepted, k \notin Fated
        PROVE  heard[k] = 1 \/ \E r \in SyncStores : listeners'[r][owner[k]] = k /\ Due(r, k)
    <3>1. owner[k] \in Callers
      BY DEF AnswerInv, OnceInv, CallsInv, ListenersInv
    <3>2. heard[k] = 1 \/ \E r \in SyncStores : listeners[r][owner[k]] = k /\ Due(r, k)
      BY <2>2 DEF AnswerInv, WaitInv
    <3> QED
      BY <1>2, <2>1, <2>2, <3>1, <3>2
  <2>3. ASSUME NEW v \in calls, v.pc = "sync", v.id \notin Fated
        PROVE  heard[v.id] = 1 \/ listeners'[v.store][owner[v.id]] = v.id
    <3>1. v.store \in SyncStores /\ owner[v.id] \in Callers
      BY DEF ListenersInv, Calls
    <3>2. heard[v.id] = 1 \/ listeners[v.store][owner[v.id]] = v.id
      BY <2>3 DEF AnswerInv, WaitInv
    <3> QED
      BY <1>2, <2>1, <2>3, <3>1, <3>2
  <2> QED
    BY <1>1, <1>4, <2>1, <2>2, <2>3 DEF WaitInv
<1> QED
  BY <1>5, <1>6, <1>7, <1>8, <1>9 DEF AnswerInv, OnceInv

\* A completion: the listeners are copied, called and removed.
LEMMA GetAnswered ==
    ASSUME AnswerInv, ListenersInv, HandlerInv, GetSyncListeners
    PROVE  AnswerInv'
PROOF
<1> DEFINE s == running.store
<1>1. /\ running.kind = "onSync" /\ running.pc = "start" /\ s \in SyncStores /\ running.got \in [Callers -> 0 .. MaxCalls]
      /\ running' = [running EXCEPT !.pc = "call", !.got = listeners[s]]
      /\ UNCHANGED <<listeners, owner, calls, heard, dead, lost, accepted, handler, syncing>>
  BY DEF GetSyncListeners, HandlerInv, OfSync, listenerVars, callVars, fates, Running
<1>2. running'.kind = "onSync" /\ running'.pc = "call" /\ running'.store = s /\ running'.got = listeners[s]
  BY <1>1 DEF HandlerInv, Running
<1> HIDE DEF s
<1>3. ~Copied /\ ~Called /\ Copied' /\ ~Called'
  BY <1>1, <1>2 DEF Copied, Called
<1>4. CallsInv'
  BY <1>1 DEF AnswerInv, OnceInv, CallsInv
<1>5. NewInv'
  <2>1. ASSUME NEW v \in calls, v.pc = "add"
        PROVE  running'.got[owner[v.id]] # v.id
    BY <1>1, <1>2, <2>1 DEF AnswerInv, OnceInv, NewInv
  <2> QED
    BY <1>1, <2>1 DEF AnswerInv, OnceInv, NewInv
<1>6. \A r \in SyncStores, d \in Callers : listeners[r][d] # 0 => heard[listeners[r][d]] = 0 /\ listeners[r][d] \in Ids
  <2> SUFFICES ASSUME NEW r \in SyncStores, NEW d \in Callers, listeners[r][d] # 0
               PROVE  heard[listeners[r][d]] = 0 /\ listeners[r][d] \in Ids
    OBVIOUS
  <2>1. listeners[r][d] \in Ids
    BY DEF ListenersInv, AnswerInv, OnceInv, CallsInv
  <2>2. heard[listeners[r][d]] \in 0 .. 1 /\ heard[listeners[r][d]] # 1
    BY <1>3, <2>1 DEF AnswerInv, OnceInv, HeardInv
  <2> QED
    BY <2>1, <2>2
<1>7. CopyInv'
  <2> SUFFICES ASSUME NEW d \in Callers, listeners[s][d] # 0
               PROVE  /\ listeners[s][d] \in DOMAIN owner /\ owner[listeners[s][d]] = d
                      /\ \A r \in SyncStores \ {s} : listeners[r][d] # listeners[s][d]
                      /\ heard[listeners[s][d]] = 0
    BY <1>1, <1>2, <1>3 DEF CopyInv
  <2>1. listeners[s][d] \in DOMAIN owner /\ owner[listeners[s][d]] = d
    BY <1>1 DEF ListenersInv
  <2>2. \A r \in SyncStores \ {s} : listeners[s][d] # listeners[r][d]
    BY <1>1 DEF AnswerInv, OnceInv, CallsInv
  <2> QED
    BY <1>1, <1>6, <2>1, <2>2
<1>8. HeardInv'
  BY <1>1, <1>6 DEF AnswerInv, OnceInv, HeardInv
<1>9. WaitInv'
  <2>1. \A r \in SyncStores, i \in DOMAIN owner :
            listeners[r][owner[i]] = i /\ Due(r, i) => Due(r, i)' \/ i \in lost'
    <3> SUFFICES ASSUME NEW r \in SyncStores, NEW i \in DOMAIN owner, listeners[r][owner[i]] = i, Due(r, i)
                 PROVE  Due(r, i)'
      OBVIOUS
    <3>1. CASE syncing[r] > 0 \/ Posted("onSync", r)
      BY <1>1, <3>1 DEF Due, Posted
    <3>2. CASE Runs("onSync", "start", r)
      <4>1. r = s
        BY <3>2 DEF Runs, s
      <4>2. running'.got[owner[i]] = i /\ owner' = owner
        BY <1>1, <1>2, <4>1
      <4> QED
        BY <1>2, <4>1, <4>2 DEF Due, Runs
    <3> QED
      BY <1>1, <3>1, <3>2 DEF Due, Runs
  <2> QED
    BY <1>1, <2>1, WaitFrame DEF AnswerInv
<1> QED
  BY <1>4, <1>5, <1>7, <1>8, <1>9 DEF AnswerInv, OnceInv

LEMMA CalledAnswered ==
    ASSUME AnswerInv, ListenersInv, HandlerInv, OnSyncCompleted
    PROVE  AnswerInv'
PROOF
<1> DEFINE got == {running.got[c] : c \in Callers} \ ({0} \cup dead)
<1>1. /\ running.kind = "onSync" /\ running.pc = "call" /\ running.store \in SyncStores
      /\ running' = [running EXCEPT !.pc = "remove"]
      /\ heard' = [i \in Ids |-> IF i \in got THEN heard[i] + 1 ELSE heard[i]]
      /\ UNCHANGED <<listeners, owner, calls, dead, lost, accepted, handler, syncing>>
  BY DEF OnSyncCompleted, HandlerInv, OfSync, listenerVars, callVars
<1>2. /\ running'.kind = "onSync" /\ running'.pc = "remove" /\ running'.store = running.store
      /\ running'.got = running.got
  BY <1>1 DEF HandlerInv, Running
<1>3. Copied /\ ~Called /\ Copied' /\ Called'
  BY <1>1, <1>2 DEF Copied, Called
<1>4. \A d \in Callers : running.got[d] # 0 =>
          /\ running.got[d] \in DOMAIN owner /\ owner[running.got[d]] = d
          /\ \A r \in SyncStores \ {running.store} : listeners[r][d] # running.got[d]
          /\ heard[running.got[d]] = 0 /\ running.got[d] \in Ids
  BY <1>3 DEF AnswerInv, OnceInv, CopyInv, CallsInv
<1>5. \A i \in got : i \in DOMAIN owner /\ i \in Ids /\ heard[i] = 0 /\ running.got[owner[i]] = i /\ i # 0 /\ i \notin dead
  BY <1>4
<1>6. \A d \in Callers : running.got[d] # 0 => running.got[d] \in got \/ running.got[d] \in dead
  OBVIOUS
<1> HIDE DEF got
<1>7. \A i \in Ids : heard'[i] = IF i \in got THEN 1 ELSE heard[i]
  BY <1>1, <1>5
<1>8. \A i \in Ids : heard[i] = 1 => heard'[i] = 1
  BY <1>7
<1>9. CallsInv'
  BY <1>1 DEF AnswerInv, OnceInv, CallsInv
<1>10. NewInv'
  <2>1. ASSUME NEW i \in Ids \ DOMAIN owner PROVE heard'[i] = 0
    BY <1>5, <1>7 DEF AnswerInv, OnceInv, NewInv
  <2>2. ASSUME NEW v \in calls, v.pc = "add"
        PROVE  heard'[v.id] = 0 /\ running.got[owner[v.id]] # v.id
    <3>1. v.id \in Ids /\ heard[v.id] = 0 /\ running.got[owner[v.id]] # v.id
      BY <1>3, <2>2 DEF AnswerInv, OnceInv, NewInv, ListenersInv, Calls
    <3> QED
      BY <1>5, <1>7, <3>1
  <2> QED
    BY <1>1, <1>2, <2>1, <2>2 DEF AnswerInv, OnceInv, NewInv
<1>11. CopyInv'
  <2> SUFFICES ASSUME NEW d \in Callers, running.got[d] # 0
               PROVE  /\ running.got[d] \in DOMAIN owner /\ owner[running.got[d]] = d
                      /\ \A r \in SyncStores \ {running.store} : listeners[r][d] # running.got[d]
                      /\ heard'[running.got[d]] = 1 \/ running.got[d] \in dead
    BY <1>1, <1>2, <1>3 DEF CopyInv
  <2> QED
    BY <1>4, <1>6, <1>7
<1>12. HeardInv'
  <2>1. heard' \in [Ids -> 0 .. 1]
    <3>1. \A i \in Ids : heard'[i] \in 0 .. 1
      BY <1>7 DEF AnswerInv, OnceInv, HeardInv
    <3> QED
      BY <1>1, <3>1
  <2>2. ASSUME NEW r \in SyncStores, NEW d \in Callers, listeners[r][d] # 0, heard'[listeners[r][d]] = 1
        PROVE  running.store = r /\ running.got[d] = listeners[r][d]
    <3> DEFINE i == listeners[r][d]
    <3>1. i \in DOMAIN owner /\ owner[i] = d /\ i \in Ids
      BY <2>2 DEF ListenersInv, AnswerInv, OnceInv, CallsInv
    <3>2. heard[i] # 1
      BY <1>3, <2>2 DEF AnswerInv, OnceInv, HeardInv
    <3>3. i \in got
      BY <1>7, <2>2, <3>1, <3>2
    <3>4. running.got[d] = i
      BY <1>5, <3>1, <3>3
    <3>5. r \notin SyncStores \ {running.store}
      BY <1>4, <2>2, <3>4
    <3> QED
      BY <3>4, <3>5
  <2> QED
    BY <1>1, <1>2, <1>3, <2>1, <2>2 DEF HeardInv
<1>13. WaitInv'
  <2>1. Fated' = Fated
    BY <1>1 DEF Fated
  <2>2. ASSUME NEW i \in accepted, i \notin Fated
        PROVE  heard'[i] = 1 \/ \E r \in SyncStores : listeners[r][owner[i]] = i /\ Due(r, i)'
    <3>1. i \in DOMAIN owner /\ i \in Ids /\ i # 0 /\ owner[i] \in Callers /\ i \notin dead
      BY <2>2, SyncBounds DEF AnswerInv, OnceInv, CallsInv, ListenersInv, Fated
    <3>2. CASE heard[i] = 1
      BY <1>8, <3>1, <3>2
    <3>3. CASE \E r \in SyncStores : listeners[r][owner[i]] = i /\ Due(r, i)
      <4>1. PICK r \in SyncStores : listeners[r][owner[i]] = i /\ Due(r, i)
        BY <3>3
      <4>2. CASE syncing[r] > 0 \/ Posted("onSync", r)
        <5>1. Due(r, i)'
          BY <1>1, <4>2 DEF Due, Posted
        <5> QED
          BY <4>1, <5>1
      <4>3. CASE running.got[owner[i]] = i
        <5>1. i \in got
          BY <1>6, <3>1, <4>3
        <5> QED
          BY <1>7, <3>1, <5>1
      <4> QED
        BY <1>1, <4>1, <4>2, <4>3 DEF Due, Runs
    <3> QED
      BY <2>2, <3>2, <3>3 DEF AnswerInv, WaitInv
  <2>3. ASSUME NEW v \in calls, v.pc = "sync", v.id \notin Fated
        PROVE  heard'[v.id] = 1 \/ listeners[v.store][owner[v.id]] = v.id
    BY <1>8, <2>3 DEF AnswerInv, WaitInv, ListenersInv, Calls
  <2> QED
    BY <1>1, <2>1, <2>2, <2>3 DEF WaitInv
<1> QED
  BY <1>9, <1>10, <1>11, <1>12, <1>13 DEF AnswerInv, OnceInv

LEMMA RemoveAnswered ==
    ASSUME AnswerInv, ListenersInv, HandlerInv, RemoveListeners
    PROVE  AnswerInv'
PROOF
<1> DEFINE s == running.store
           gone == RemoveSyncListeners(running.got)
           ids == {listeners[s][c] : c \in gone} \ {0}
<1>1. /\ running.kind = "onSync" /\ running.pc = "remove" /\ s \in SyncStores /\ running' = Idle
      /\ listeners' = [listeners EXCEPT ![s] = [c \in Callers |-> IF c \in gone THEN 0 ELSE listeners[s][c]]]
      /\ lost' = lost \cup {i \in ids : running.got[owner[i]] # i}
      /\ UNCHANGED <<owner, calls, heard, dead, accepted, handler, syncing>>
  BY DEF RemoveListeners, HandlerInv, OfSync, callVars
<1>2. \A d \in Callers : d \in gone <=> running.got[d] # 0
  BY DEF RemoveSyncListeners
<1>3. gone \subseteq Callers
  BY DEF RemoveSyncListeners
<1>4. \A r \in SyncStores, d \in Callers : listeners'[r][d] = IF r = s /\ d \in gone THEN 0 ELSE listeners[r][d]
  BY <1>1 DEF ListenersInv
<1>5. Copied /\ Called /\ ~Copied' /\ ~Called'
  BY <1>1, IdleIs DEF Copied, Called
<1>6. \A d \in gone : listeners[s][d] # 0 =>
          \/ listeners[s][d] \in lost'
          \/ running.got[d] = listeners[s][d] /\ (heard[listeners[s][d]] = 1 \/ listeners[s][d] \in dead)
  <2> SUFFICES ASSUME NEW d \in gone, listeners[s][d] # 0, listeners[s][d] \notin lost'
               PROVE  running.got[d] = listeners[s][d] /\ (heard[listeners[s][d]] = 1 \/ listeners[s][d] \in dead)
    OBVIOUS
  <2>1. owner[listeners[s][d]] = d /\ d \in Callers
    BY <1>1, <1>3 DEF ListenersInv
  <2>2. running.got[d] = listeners[s][d]
    BY <1>1, <2>1
  <2> QED
    BY <1>5, <2>1, <2>2 DEF AnswerInv, OnceInv, CopyInv
<1>7. lost \subseteq lost'
  BY <1>1
<1> HIDE DEF gone, ids
<1>8. CallsInv'
  <2>1. ASSUME NEW r \in SyncStores, NEW q \in SyncStores, NEW d \in Callers, r # q, listeners'[r][d] # 0
        PROVE  listeners'[r][d] # listeners'[q][d]
    <3>1. listeners[r][d] # 0 => listeners[r][d] # listeners[q][d]
      BY <2>1 DEF AnswerInv, OnceInv, CallsInv
    <3> QED
      BY <1>4, <2>1, <3>1
  <2> QED
    BY <1>1, <2>1 DEF AnswerInv, OnceInv, CallsInv
<1>9. NewInv'
  <2>1. ASSUME NEW v \in calls, v.pc = "add", NEW r \in SyncStores
        PROVE  listeners'[r][owner[v.id]] # v.id
    <3>1. listeners[r][owner[v.id]] # v.id /\ owner[v.id] \in Callers /\ v.id # 0
      BY <2>1, SyncBounds DEF AnswerInv, OnceInv, NewInv, ListenersInv, Calls
    <3> QED
      BY <1>4, <3>1
  <2> QED
    BY <1>1, <1>5, <2>1 DEF AnswerInv, OnceInv, NewInv
<1>10. CopyInv'
  BY <1>5 DEF CopyInv
<1>11. HeardInv'
  <2>1. ASSUME NEW r \in SyncStores, NEW d \in Callers, listeners'[r][d] # 0, heard[listeners'[r][d]] = 1
        PROVE  FALSE
    <3>1. listeners'[r][d] = listeners[r][d] /\ ~(r = s /\ d \in gone)
      BY <1>4, <2>1
    <3>2. s = r /\ running.got[d] = listeners[r][d]
      BY <2>1, <3>1 DEF AnswerInv, OnceInv, HeardInv
    <3> QED
      BY <1>2, <2>1, <3>1, <3>2
  <2> QED
    BY <1>1, <2>1 DEF AnswerInv, OnceInv, HeardInv
<1>12. WaitInv'
  <2>1. \A i : i \notin Fated' => i \notin Fated /\ i \notin lost' /\ i \notin dead
    BY <1>1, <1>7 DEF Fated
  <2>2. \A r, i : Due(r, i) => Due(r, i)'
    BY <1>1 DEF Due, Posted, Runs
  <2>3. ASSUME NEW i \in accepted, i \notin Fated'
        PROVE  heard[i] = 1 \/ \E r \in SyncStores : listeners'[r][owner[i]] = i /\ Due(r, i)
    <3>1. owner[i] \in Callers /\ i # 0
      BY SyncBounds DEF AnswerInv, OnceInv, CallsInv, ListenersInv
    <3>2. heard[i] = 1 \/ \E r \in SyncStores : listeners[r][owner[i]] = i /\ Due(r, i)
      BY <2>1, <2>3 DEF AnswerInv, WaitInv
    <3> QED
      BY <1>4, <1>6, <2>1, <2>3, <3>1, <3>2
  <2>4. ASSUME NEW v \in calls, v.pc = "sync", v.id \notin Fated'
        PROVE  heard[v.id] = 1 \/ listeners'[v.store][owner[v.id]] = v.id
    <3>1. v.store \in SyncStores /\ owner[v.id] \in Callers /\ v.id # 0
      BY SyncBounds DEF ListenersInv, Calls
    <3>2. heard[v.id] = 1 \/ listeners[v.store][owner[v.id]] = v.id
      BY <2>1, <2>4 DEF AnswerInv, WaitInv
    <3> QED
      BY <1>4, <1>6, <2>1, <2>4, <3>1, <3>2
  <2> QED
    BY <1>1, <2>2, <2>3, <2>4 DEF WaitInv
<1> QED
  BY <1>8, <1>9, <1>10, <1>11, <1>12 DEF AnswerInv, OnceInv

\* Steps in which a completion that is due stays due, or is lost.
LEMMA DueAnswered ==
    ASSUME AnswerInv, UNCHANGED <<listeners, calls, owner, accepted, heard>>,
           dead \subseteq dead', lost \subseteq lost', running' = running \/ (~Copied /\ ~Copied'),
           \A s \in SyncStores, i \in DOMAIN owner :
               listeners[s][owner[i]] = i /\ Due(s, i) => Due(s, i)' \/ i \in lost'
    PROVE  AnswerInv'
PROOF
<1>1. OnceInv'
  BY OnceFrame DEF AnswerInv
<1>2. WaitInv'
  BY WaitFrame DEF AnswerInv
<1> QED
  BY <1>1, <1>2 DEF AnswerInv

LEMMA RegisteredIs ==
    ASSUME ListenersInv, AnswerInv, NEW s \in SyncStores, NEW i \in DOMAIN owner, listeners[s][owner[i]] = i
    PROVE  i \in Registered(s)
PROOF
  BY DEF ListenersInv, AnswerInv, OnceInv, CallsInv, Registered

\* What the KV layer, the devices and the callers do.
LEMMA OutsideAnswered ==
    ASSUME AnswerInv, ListenersInv, DeathsInv, HandlerInv, Outside
    PROVE  AnswerInv'
PROOF
<1>1. CASE \E c \in Callers : CallerDies(c)
  <2>1. UNCHANGED <<listeners, calls, owner, accepted, heard, running, handler, syncing, lost>> /\ dead \subseteq dead'
    BY <1>1 DEF CallerDies, storeVars, callVars
  <2> QED
    BY <2>1, DueFrame, DueAnswered
<1>2. CASE \E d \in Peers : DeviceOffline(d)
  <2>1. UNCHANGED <<listeners, calls, owner, accepted, heard, running, handler, syncing, lost, dead>>
    BY <1>2 DEF DeviceOffline, storeVars, listenerVars, fates
  <2> QED
    BY <2>1, DueFrame, DueAnswered
<1>3. CASE \E d \in Peers : DeviceOnline(d)
  <2>1. PICK d \in Peers : DeviceOnline(d)
    BY <1>3
  <2>2. UNCHANGED <<listeners, calls, owner, accepted, heard, running, syncing, lost, dead>>
    BY <2>1 DEF DeviceOnline, listenerVars, fates
  <2>3. \A a : Posted("onSync", a)' <=> Posted("onSync", a)
    BY <2>1, PostedOnline
  <2>4. \A s, i : Due(s, i) => Due(s, i)'
    BY <2>2, <2>3 DEF Due, Runs
  <2> QED
    BY <2>2, <2>4, DueAnswered
<1>4. CASE \E i \in Ids : OnRemoteDied(i)
  BY <1>4, DiedAnswered
<1>5. CASE \E s \in SyncStores : SyncCompleted(s)
  <2>1. PICK s \in SyncStores : SyncCompleted(s)
    BY <1>5
  <2>2. /\ UNCHANGED <<listeners, calls, owner, accepted, heard, running, lost, dead>>
        /\ syncing' = [syncing EXCEPT ![s] = syncing[s] - 1] /\ Post(Task("onSync", s))
    BY <2>1 DEF SyncCompleted, listenerVars, callVars, fates
  <2>3. Task("onSync", s) \in Tasks /\ Task("onSync", s).kind = "onSync" /\ Task("onSync", s).store = s
    BY TaskIs, SyncAssumption DEF TaskKinds
  <2>4. \A a : Posted("onSync", a)' <=> Posted("onSync", a) \/ s = a
    BY <2>2, <2>3, PostedMore
  <2>5. \A r \in SyncStores : r = s \/ syncing'[r] = syncing[r]
    BY <2>2 DEF HandlerInv
  <2>6. \A r \in SyncStores : \A i : Due(r, i) => Due(r, i)'
    BY <2>2, <2>4, <2>5 DEF Due, Runs
  <2> QED
    BY <2>2, <2>6, DueAnswered
<1>6. CASE \E a \in Adapters : OnKvDied(a)
  <2>1. PICK a \in Adapters : OnKvDied(a)
    BY <1>6
  <2>2. UNCHANGED <<listeners, calls, owner, accepted, heard, running, syncing, lost, dead>> /\ Post(Task("reInit", a))
    BY <2>1 DEF OnKvDied, listenerVars, callVars, fates
  <2>3. Task("reInit", a) \in Tasks
    BY TaskIs DEF TaskKinds
  <2>4. \A s : Posted("onSync", s) => Posted("onSync", s)'
    BY <2>2, <2>3, PostedMore
  <2>5. \A s, i : Due(s, i) => Due(s, i)'
    BY <2>2, <2>4 DEF Due, Runs
  <2> QED
    BY <2>2, <2>5, DueAnswered
<1>7. CASE KvServiceDies
  <2>1. PICK stores : Forget(stores)
    BY <1>7 DEF KvServiceDies
  <2>2. UNCHANGED <<listeners, calls, owner, accepted, heard, running, handler, dead>>
    BY <1>7 DEF KvServiceDies, listenerVars, callVars
  <2>3. lost \subseteq lost' /\ \A s \in stores : Registered(s) \subseteq lost'
    BY <2>1 DEF Forget
  <2>4. \A s \in SyncStores : s \in stores \/ syncing'[s] = syncing[s]
    BY <2>1 DEF Forget
  <2>5. ASSUME NEW s \in SyncStores, NEW i \in DOMAIN owner, listeners[s][owner[i]] = i, Due(s, i)
        PROVE  Due(s, i)' \/ i \in lost'
    <3>1. CASE s \in stores
      BY <2>3, <2>5, <3>1, RegisteredIs
    <3>2. CASE syncing'[s] = syncing[s]
      BY <2>2, <2>5, <3>2 DEF Due, Posted, Runs
    <3> QED
      BY <2>4, <3>1, <3>2
  <2> QED
    BY <2>2, <2>3, <2>5, DueAnswered
<1> QED
  BY <1>1, <1>2, <1>3, <1>4, <1>5, <1>6, <1>7 DEF Outside

\* What the event handler does.
LEMMA HandlerAnswered ==
    ASSUME AnswerInv, ListenersInv, HandlerInv, Handler
    PROVE  AnswerInv'
PROOF
<1>1. CASE RunTask
  <2>1. UNCHANGED <<listeners, calls, owner, accepted, heard, lost, dead, syncing>> /\ running = Idle
    BY <1>1 DEF RunTask, listenerVars, callVars, fates
  <2>2. running' \in Tasks /\ \A a : Posted("onSync", a) => Posted("onSync", a)' \/ Runs("onSync", "start", a)'
    BY <1>1, PostedRun
  <2>3. running.kind = "idle" /\ running'.pc = "start"
    BY <2>1, <2>2, IdleIs DEF Tasks
  <2>4. ~Copied /\ ~Copied'
    BY <2>3 DEF Copied
  <2>5. \A s, i : Due(s, i) => Due(s, i)'
    BY <2>1, <2>2, <2>3 DEF Due, Runs
  <2> QED
    BY <2>1, <2>4, <2>5, DueAnswered
<1>2. CASE GetSyncListeners
  BY <1>2, GetAnswered
<1>3. CASE OnSyncCompleted
  BY <1>3, CalledAnswered
<1>4. CASE RemoveListeners
  BY <1>4, RemoveAnswered
<1>5. CASE E2ESync
  <2>1. UNCHANGED <<listeners, calls, owner, accepted, heard, lost, dead, handler>> /\ running.kind = "e2e" /\ running' = Idle
    BY <1>5 DEF E2ESync, listenerVars, callVars, fates
  <2>2. ~Copied /\ ~Copied' /\ \A s, i : ~Runs("onSync", "start", s) /\ ~Runs("onSync", "call", s)
    BY <2>1, IdleIs DEF Copied, Runs
  <2>3. \A s \in SyncStores : syncing[s] > 0 => syncing'[s] > 0
    <3>1. syncing' = syncing \/ \E r : syncing' = [syncing EXCEPT ![r] = @ + 1]
      BY <1>5 DEF E2ESync
    <3> QED
      BY <3>1 DEF HandlerInv
  <2>4. \A s \in SyncStores : \A i : Due(s, i) => Due(s, i)'
    BY <2>1, <2>2, <2>3 DEF Due, Posted
  <2> QED
    BY <2>1, <2>2, <2>4, DueAnswered
<1>6. CASE UnInit
  <2> DEFINE as == ReInitialised(running.store)
             kinds == {"reInit"} \cup IF as \cap SyncStores # {} THEN {"onSync"} ELSE {}
             removed == {handler[i] : i \in {j \in DOMAIN handler : handler[j].kind \in kinds}}
             stores == (as \cap SyncStores) \cup {task.store : task \in {r \in removed : r.kind = "onSync"}}
  <2>1. /\ UNCHANGED <<listeners, calls, owner, accepted, heard, dead>> /\ running.kind = "reInit"
        /\ running' = [running EXCEPT !.pc = "init"] /\ handler' = Without(handler, kinds) /\ Forget(stores)
    BY <1>6 DEF UnInit, listenerVars
  <2>2. \A i \in DOMAIN handler : handler[i].kind = "onSync" /\ "onSync" \in kinds => handler[i].store \in stores
    OBVIOUS
  <2> HIDE DEF kinds, stores
  <2>3. running'.kind = "reInit"
    BY <2>1 DEF HandlerInv, Running
  <2>4. ~Copied /\ ~Copied' /\ \A s : ~Runs("onSync", "start", s) /\ ~Runs("onSync", "call", s)
    BY <2>1, <2>3 DEF Copied, Runs
  <2>5. \A a : "onSync" \notin kinds => (Posted("onSync", a)' <=> Posted("onSync", a))
    BY <2>1, PostedWithout
  <2>6. \A a : Posted("onSync", a) => Posted("onSync", a)' \/ a \in stores
    BY <2>2, <2>5 DEF Posted
  <2>7. lost \subseteq lost' /\ \A s \in stores : Registered(s) \subseteq lost'
    BY <2>1 DEF Forget
  <2>8. \A s \in SyncStores : s \in stores \/ syncing'[s] = syncing[s]
    BY <2>1 DEF Forget
  <2>9. ASSUME NEW s \in SyncStores, NEW i \in DOMAIN owner, listeners[s][owner[i]] = i, Due(s, i)
        PROVE  Due(s, i)' \/ i \in lost'
    <3>1. CASE s \in stores
      BY <2>7, <2>9, <3>1, RegisteredIs
    <3>2. CASE s \notin stores
      BY <2>4, <2>6, <2>8, <2>9, <3>2 DEF Due
    <3> QED
      BY <3>1, <3>2
  <2> QED
    BY <2>1, <2>4, <2>7, <2>9, DueAnswered
<1>7. CASE Init
  <2>1. UNCHANGED <<listeners, calls, owner, accepted, heard, lost, dead, handler, syncing>>
        /\ running.kind = "reInit" /\ running' = Idle
    BY <1>7 DEF Init, listenerVars
  <2>2. ~Copied /\ ~Copied' /\ \A s : ~Runs("onSync", "start", s) /\ ~Runs("onSync", "call", s)
    BY <2>1, IdleIs DEF Copied, Runs
  <2>3. \A s, i : Due(s, i) => Due(s, i)'
    BY <2>1, <2>2 DEF Due, Posted
  <2> QED
    BY <2>1, <2>2, <2>3, DueAnswered
<1> QED
  BY <1>1, <1>2, <1>3, <1>4, <1>5, <1>6, <1>7 DEF Handler

LEMMA AnswerKept ==
    ASSUME AnswerInv, ListenersInv, DeathsInv, HandlerInv, [SyncNext]_<<syncVars, dataVars, subVars>>
    PROVE  AnswerInv'
PROOF
<1>1. CASE UNCHANGED <<listeners, calls, owner, accepted, heard, running, handler, syncing, lost, dead>>
  BY <1>1, DueFrame, DueAnswered
<1>2. CASE SyncCalls
  BY <1>2, SyncAnswered, AddAnswered, KvSyncAnswered DEF SyncCalls
<1>3. CASE Handler
  BY <1>3, HandlerAnswered
<1>4. CASE Outside
  BY <1>4, OutsideAnswered
<1>5. CASE Changes
  BY <1>1, <1>5 DEF Changes, Write, Subscribe, UnSubscribe, DataChange, syncVars, storeVars, listenerVars, callVars, fates
<1> QED
  BY <1>1, <1>2, <1>3, <1>4, <1>5 DEF SyncNext, syncVars, storeVars, listenerVars, callVars, fates

\* Whatever calls, completions and failures come between, no callback of a synchronisation
\* hears of two completions, and at rest each callback of a successful call was called, but
\* for those whose process died, that were replaced or did not fit, or whose completion was
\* lost with the KV service or the listener of the store.
THEOREM CallbacksAnswered == SyncSpec => []AnsweredOnce
PROOF
<1>1. AnswerInv => AnsweredOnce
  <2> SUFFICES ASSUME AnswerInv PROVE AnsweredOnce
    OBVIOUS
  <2>1. \A i \in Ids : heard[i] <= 1
    BY DEF AnswerInv, OnceInv, HeardInv
  <2>2. ASSUME Quiet, NEW i \in accepted, i \notin dead \cup lost PROVE heard[i] = 1
    <3>1. handler = <<>> /\ running.kind = "idle" /\ \A s \in SyncStores : syncing[s] = 0
      BY <2>2, IdleIs DEF Quiet
    <3>2. \A s \in SyncStores : ~Due(s, i)
      BY <3>1 DEF Due, Posted, Runs
    <3> QED
      BY <2>2, <3>2 DEF AnswerInv, WaitInv, Fated
  <2> QED
    BY <2>1, <2>2 DEF AnsweredOnce
<1> QED
  BY <1>1, AnswerStart, AnswerKept, SyncStart, HandlerStart, ListenersKept, HandlerKept, PTL DEF SyncSpec

\* Types; a callback that is kept for a caller is one of its calls; no callback of a
\* process that died is watched any more.
THEOREM SyncTypeCorrect == SyncSpec => []SyncTypeOK
PROOF
<1>1. ListenersInv /\ DeathsInv /\ StoresInv /\ ChangesInv => SyncTypeOK
  BY DEF ListenersInv, DeathsInv, StoresInv, ChangesInv, SyncTypeOK, ChangesTypeOK
<1> QED
  BY <1>1, SyncStart, ChangesStart, StoresKept, ListenersKept, ChangesKept, PTL DEF SyncSpec

\* A caller that dies, whenever that is, leaves no callback behind in ProfileCache once
\* everything has come to rest, unless it had died before it was registered.
THEOREM DeadCallersGone == SyncSpec => []DeadGone
PROOF
<1>1. ListenersInv /\ DeathsInv => DeadGone
  <2> SUFFICES ASSUME DeathsInv, Quiet, NEW i \in Registered("dynamic") \cap dead PROVE i \in late
    BY DEF DeadGone
  <2>1. PICK c \in Callers : listeners["dynamic"][c] = i
    BY DEF Registered
  <2>2. i # 0
    BY SyncBounds DEF Registered
  <2> QED
    BY <2>1, <2>2 DEF DeathsInv, Quiet
<1> QED
  BY <1>1, SyncStart, ListenersKept, PTL DEF SyncSpec
====
