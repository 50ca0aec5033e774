-------------------------- MODULE ServiceInfosProofs --------------------------
(***************************************************************************)
(* Proofs about ServiceInfos, for any keys, infos, subscribers, observers  *)
(* and bounds.  The types, among them what a thread holds at each step:    *)
(* whatever fails and however threads overlap, the local store only ever   *)
(* holds infos that parse, and a subscriber is told of other devices only. *)
(* That the stores agree, and the subscribers with them, once the threads  *)
(* of a key are through: what is on its way for a key is known at every    *)
(* moment, by who wrote it last and whether that was a deletion.           *)
(***************************************************************************)
EXTENDS ServiceInfos, FiniteSetTheorems, TLAPS

PCs == {"put", "putSync", "read", "info", "find", "del", "delSync", "tell", "told"}
JobStates == [pc : PCs, change : {None, "insert", "update", "delete"}, user : Keys \cup UserInfos,
              value : Values, keys : SUBSET Keys, sub : Subscribers \cup {None}]

\* What a thread holds: the value it is to write or to tell; a thread that deletes after
\* an announcement, the value it will tell of.
JobOK(j) ==
    /\ j \in JobStates
    /\ j.pc \in {"put", "putSync", "read"} => j.user \in Keys
    /\ j.pc \in {"put", "putSync", "tell", "told"} => j.value \in Infos
    /\ j.pc \in {"find", "del"} /\ j.change # None => j.value \in Infos
    /\ j.pc \in {"tell", "told"} => j.user \notin OwnKeys
Threads == \A j \in DOMAIN jobs : JobOK(j) /\ (j.pc = "told" => j.sub \in listeners)
Stored == /\ local \in [Keys -> Values] /\ synced \in [Keys -> Values \cup {Broken}]
          /\ told \in [Subscribers -> [Keys -> Values]]
State == /\ adapters \in [local : {"none", "closed", "open"}, sync : {"none", "open"}]
         /\ reinit \in {"idle", "unInit", "unInitSync", "init", "initSync"}
         /\ listeners \subseteq Subscribers
History == asked \in [Keys -> Values] /\ tainted \subseteq Keys
IInv == Threads /\ Stored /\ State /\ History

-----------------------------------------------------------------------------
(* Bags and sets of keys.                                                  *)
LEMMA BagDomains ==
    /\ DOMAIN EmptyBag = {}
    /\ \A S : DOMAIN SetToBag(S) = S
    /\ \A B, C, D : D = B (+) C => DOMAIN D = DOMAIN B \cup DOMAIN C
    /\ \A B, C, D : D = B (-) C => DOMAIN D \subseteq DOMAIN B
PROOF
  BY DEF EmptyBag, SetToBag, (+), (-)

LEMMA KeySets == InFlight \subseteq Keys /\ \A u : Matching(u) \subseteq Keys
PROOF
  BY DEF InFlight, Matching

LEMMA Announced == ASSUME NEW keys \in SUBSET Keys, NEW op \in {"insert", "update", "delete"},
                          NEW j \in DOMAIN OnChange(keys, op)
                   PROVE  JobOK(j) /\ j.pc # "told"
PROOF
<1>1. PICK k \in keys : j = Job(IF op = "delete" THEN "info" ELSE "read", op, k, None)
  BY BagDomains DEF OnChange
<1>2. j \in JobStates /\ j.pc \in {"info", "read"} /\ j.user \in Keys
  BY <1>1 DEF Job, JobStates, PCs, Values
<1> QED
  BY <1>2 DEF JobOK

-----------------------------------------------------------------------------
(* Steps.  What a step leaves of the jobs it found, and what it adds.      *)
Adds(new) == DOMAIN jobs' \subseteq DOMAIN jobs \cup new

LEMMA ThreadsKept ==
    ASSUME Threads, NEW new, Adds(new), listeners \subseteq listeners',
           \A j \in new : JobOK(j) /\ (j.pc = "told" => j.sub \in listeners)
    PROVE  Threads'
PROOF
  BY DEF Threads, Adds, JobOK, JobStates, OwnKeys

LEMMA JobAdds ==
    /\ \A j, k : GoesOn(j, k) => Adds({k})
    /\ \A j : Ends(j) => Adds({})
    /\ \A j : Failed(j) => Adds({})
    /\ \A j, B : jobs' = Others(j) (+) B => Adds(DOMAIN B)
    /\ \A B : jobs' = jobs (+) B => Adds(DOMAIN B)
PROOF
<1>1. \A j : DOMAIN Others(j) \subseteq DOMAIN jobs
  BY BagDomains DEF Others
<1>2. \A j, B : jobs' = Others(j) (+) B => DOMAIN jobs' = DOMAIN Others(j) \cup DOMAIN B
  BY BagDomains
<1>3. \A B : jobs' = jobs (+) B => DOMAIN jobs' = DOMAIN jobs \cup DOMAIN B
  BY BagDomains
<1>4. \A k : DOMAIN SetToBag({k}) = {k}
  BY BagDomains
<1>5. \A j, k : GoesOn(j, k) => Adds({k})
  <2> SUFFICES ASSUME NEW j, NEW k, GoesOn(j, k) PROVE Adds({k})
    OBVIOUS
  <2>1. jobs' = Others(j) (+) SetToBag({k})
    BY DEF GoesOn
  <2>2. DOMAIN jobs' = DOMAIN Others(j) \cup DOMAIN SetToBag({k})
    BY <1>2, <2>1
  <2> QED
    BY <1>1, <1>4, <2>2 DEF Adds
<1>6. \A j : Ends(j) => Adds({})
  BY <1>1 DEF Ends, Adds
<1>7. \A j : Failed(j) => Adds({})
  BY <1>6 DEF Failed
<1>8. \A j, B : jobs' = Others(j) (+) B => Adds(DOMAIN B)
  BY <1>1, <1>2 DEF Adds
<1>9. \A B : jobs' = jobs (+) B => Adds(DOMAIN B)
  BY <1>3 DEF Adds
<1> QED
  BY <1>5, <1>6, <1>7, <1>8, <1>9

\* A thread that goes on, with another step and value.
LEMMA GoesOnKept ==
    ASSUME Threads, NEW j \in DOMAIN jobs, NEW k, GoesOn(j, k), JobOK(k), k.pc # "told", listeners' = listeners
    PROVE  Threads'
PROOF
<1>1. Adds({k})
  BY JobAdds
<1> QED
  BY <1>1, ThreadsKept

LEMMA EndsKept ==
    ASSUME Threads, NEW j, Ends(j) \/ Failed(j), listeners' = listeners
    PROVE  Threads'
PROOF
<1>1. Adds({})
  BY JobAdds
<1> QED
  BY <1>1, ThreadsKept

LEMMA AnnouncedKept ==
    ASSUME Threads, NEW keys \in SUBSET Keys, NEW op \in {"insert", "update", "delete"}, listeners' = listeners,
           \/ jobs' = jobs (+) OnChange(keys, op)
           \/ \E j : jobs' = Others(j) (+) OnChange(keys, op)
    PROVE  Threads'
PROOF
<1>1. Adds(DOMAIN OnChange(keys, op))
  BY JobAdds
<1> QED
  BY <1>1, Announced, ThreadsKept

LEMMA StartedKept ==
    ASSUME Threads, NEW k, jobs' = jobs (+) SetToBag({k}), JobOK(k), k.pc # "told", listeners' = listeners
    PROVE  Threads'
PROOF
<1>1. Adds(DOMAIN SetToBag({k}))
  BY JobAdds
<1>2. DOMAIN SetToBag({k}) = {k}
  BY BagDomains
<1> QED
  BY <1>1, <1>2, ThreadsKept

LEMMA JobOf ==
    ASSUME Threads, NEW j \in DOMAIN jobs
    PROVE  j \in JobStates /\ JobOK(j)
PROOF
  BY DEF Threads, JobOK

-----------------------------------------------------------------------------
(* What the actions keep of the threads.                                   *)
LEMMA CallThreads ==
    ASSUME IInv,
           \/ \E k \in Keys, v \in Infos : PutServiceInfo(k, v)
           \/ \E u \in UserInfos : DeleteServiceInfo(u)
    PROVE  Threads'
PROOF
<1>1. PICK k : jobs' = jobs (+) SetToBag({k}) /\ JobOK(k) /\ k.pc # "told"
  <2>1. ASSUME NEW k \in Keys, NEW v \in Infos, PutServiceInfo(k, v)
        PROVE  \E j : jobs' = jobs (+) SetToBag({j}) /\ JobOK(j) /\ j.pc # "told"
    <3>1. JobOK(Job("put", None, k, v)) /\ Job("put", None, k, v).pc # "told"
      BY DEF JobOK, Job, JobStates, PCs, Values
    <3> QED
      BY <2>1, <3>1 DEF PutServiceInfo
  <2>2. ASSUME NEW u \in UserInfos, DeleteServiceInfo(u)
        PROVE  \E j : jobs' = jobs (+) SetToBag({j}) /\ JobOK(j) /\ j.pc # "told"
    <3>1. JobOK(Job("find", None, u, None)) /\ Job("find", None, u, None).pc # "told"
      BY DEF JobOK, Job, JobStates, PCs, Values
    <3> QED
      BY <2>2, <3>1 DEF DeleteServiceInfo
  <2> QED
    BY <2>1, <2>2
<1>2. listeners' = listeners
  BY DEF PutServiceInfo, DeleteServiceInfo
<1> QED
  BY <1>1, <1>2, StartedKept DEF IInv

LEMMA PeerThreads ==
    ASSUME IInv, NEW k \in Keys, NEW v \in Values \cup {Broken}, PeerChange(k, v)
    PROVE  Threads'
PROOF
<1>1. Op(k, v) \in {"insert", "update", "delete"}
  BY DEF Op
<1>2. jobs' = jobs (+) OnChange({k}, Op(k, v)) /\ listeners' = listeners /\ {k} \in SUBSET Keys
  BY DEF PeerChange
<1> QED
  BY <1>1, <1>2, AnnouncedKept DEF IInv

LEMMA StepThreads ==
    ASSUME IInv, NEW j \in DOMAIN jobs, Step(j)
    PROVE  Threads'
PROOF
<1>1. j \in JobStates /\ JobOK(j) /\ Threads
  BY JobOf DEF IInv
<1>2. listeners' = listeners
  BY DEF Step, ReadSynced, PutLocal, PutSynced, EntriesToUserInfo, FindKeys, DeleteLocal, DeleteSyncServiceInfo, Notify,
     Told, history
<1>3. ASSUME NEW pc \in PCs, pc # "told", NEW v \in Values, NEW keys \in SUBSET Keys,
             GoesOn(j, [j EXCEPT !.pc = pc, !.value = v, !.keys = keys]),
             pc \in {"put", "putSync", "read"} => j.user \in Keys,
             pc \in {"put", "putSync", "tell"} => v \in Infos,
             pc \in {"find", "del"} /\ j.change # None => v \in Infos,
             pc = "tell" => j.user \notin OwnKeys
      PROVE  Threads'
  <2> DEFINE k == [j EXCEPT !.pc = pc, !.value = v, !.keys = keys]
  <2>1. k \in JobStates /\ k.pc = pc /\ k.value = v /\ k.user = j.user /\ k.change = j.change
    BY <1>1, <1>3 DEF JobStates
  <2> HIDE DEF k
  <2>2. JobOK(k) /\ k.pc # "told"
    BY <1>3, <2>1 DEF JobOK
  <2> QED
    BY <1>1, <1>2, <1>3, <2>2, GoesOnKept DEF k
<1>14. ASSUME NEW pc \in PCs, pc # "told", NEW v \in Values, GoesOn(j, [j EXCEPT !.pc = pc, !.value = v]),
              pc \in {"put", "putSync", "read"} => j.user \in Keys,
              pc \in {"put", "putSync", "tell"} => v \in Infos,
              pc \in {"find", "del"} /\ j.change # None => v \in Infos,
              pc = "tell" => j.user \notin OwnKeys
       PROVE  Threads'
  <2>1. j.keys \in SUBSET Keys /\ [j EXCEPT !.pc = pc, !.value = v] = [j EXCEPT !.pc = pc, !.value = v, !.keys = j.keys]
    BY <1>1 DEF JobStates
  <2> QED
    BY <1>3, <1>14, <2>1
<1>15. ASSUME NEW pc \in PCs, pc # "told", NEW keys \in SUBSET Keys, GoesOn(j, [j EXCEPT !.pc = pc, !.keys = keys]),
              pc \notin {"put", "putSync", "read", "tell"},
              pc \in {"find", "del"} /\ j.change # None => j.value \in Infos
       PROVE  Threads'
  <2>1. j.value \in Values
        /\ [j EXCEPT !.pc = pc, !.keys = keys] = [j EXCEPT !.pc = pc, !.value = j.value, !.keys = keys]
    BY <1>1 DEF JobStates
  <2> QED
    BY <1>3, <1>15, <2>1
<1>4. /\ j.value \in Values /\ j.keys \in SUBSET Keys
      /\ \A pc, v, keys : /\ [j EXCEPT !.pc = pc] = [j EXCEPT !.pc = pc, !.value = j.value, !.keys = j.keys]
                          /\ [j EXCEPT !.pc = pc, !.value = v] = [j EXCEPT !.pc = pc, !.value = v, !.keys = j.keys]
                          /\ [j EXCEPT !.pc = pc, !.keys = keys] = [j EXCEPT !.pc = pc, !.value = j.value, !.keys = keys]
  BY <1>1 DEF JobStates
<1>5. CASE ReadSynced(j)
  <2>1. CASE Failed(j)
    BY <1>1, <1>2, <2>1, EndsKept
  <2>2. CASE \E v \in Infos : GoesOn(j, [j EXCEPT !.pc = "put", !.value = v])
    <3>1. j.user \in Keys
      BY <1>1, <1>5 DEF ReadSynced, At, JobOK
    <3> QED
      BY <1>14, <2>2, <3>1 DEF PCs, Values
  <2> QED
    BY <1>5, <2>1, <2>2 DEF ReadSynced, ParseAndValidateJSON
<1>6. CASE PutLocal(j)
  <2>1. j.value \in Infos /\ j.user \in Keys
    BY <1>1, <1>6 DEF PutLocal, At, JobOK
  <2>2. \/ GoesOn(j, [j EXCEPT !.pc = "putSync"])
        \/ j.user \notin OwnKeys /\ GoesOn(j, [j EXCEPT !.pc = "tell"])
        \/ Ends(j) \/ Failed(j)
    BY <1>6 DEF PutLocal
  <2>3. CASE Ends(j) \/ Failed(j)
    BY <1>1, <1>2, <2>3, EndsKept
  <2>4. CASE GoesOn(j, [j EXCEPT !.pc = "putSync"])
    BY <1>3, <1>4, <2>1, <2>4 DEF PCs
  <2>5. CASE j.user \notin OwnKeys /\ GoesOn(j, [j EXCEPT !.pc = "tell"])
    BY <1>3, <1>4, <2>1, <2>5 DEF PCs
  <2> QED
    BY <2>2, <2>3, <2>4, <2>5
<1>7. CASE PutSynced(j)
  <2>1. CASE Ends(j) \/ Failed(j)
    BY <1>1, <1>2, <2>1, EndsKept
  <2>2. CASE synced[j.user] # j.value /\ synced' = [synced EXCEPT ![j.user] = j.value]
             /\ jobs' = Others(j) (+) OnChange({j.user}, Op(j.user, j.value))
    <3>1. Op(j.user, j.value) \in {"insert", "update", "delete"} 
      BY DEF Op
    <3>2. {j.user} \in SUBSET Keys
      BY <1>1, <1>7 DEF PutSynced, At, JobOK
    <3> QED
      BY <1>1, <1>2, <2>2, <3>1, <3>2, AnnouncedKept
  <2> QED
    BY <1>7, <2>1, <2>2 DEF PutSynced
<1>8. CASE EntriesToUserInfo(j)
  <2>1. j.pc = "info" /\ (\/ Failed(j) \/ Ends(j)
                          \/ \E v \in GetServiceInfosByUserInfo(j.user) : GoesOn(j, [j EXCEPT !.pc = "find", !.value = v]))
    BY <1>8 DEF EntriesToUserInfo, At
  <2>2. CASE Ends(j) \/ Failed(j)
    BY <1>1, <1>2, <2>2, EndsKept
  <2>3. CASE \E v \in GetServiceInfosByUserInfo(j.user) : GoesOn(j, [j EXCEPT !.pc = "find", !.value = v])
    <3>1. PICK v \in GetServiceInfosByUserInfo(j.user) : GoesOn(j, [j EXCEPT !.pc = "find", !.value = v])
      BY <2>3
    <3>2. v \in Infos /\ v \in Values
      BY <3>1, KeySets DEF GetServiceInfosByUserInfo, IInv, Stored, Values
    <3> QED
      BY <1>14, <3>1, <3>2 DEF PCs
  <2> QED
    BY <2>1, <2>2, <2>3
<1>9. CASE FindKeys(j)
  <2>1. j.pc = "find" /\ (\/ Failed(j) \/ Ends(j)
                          \/ \E keys \in SUBSET Keys : GoesOn(j, [j EXCEPT !.pc = "del", !.keys = keys]))
    BY <1>9, KeySets DEF FindKeys, At
  <2>2. CASE Ends(j) \/ Failed(j)
    BY <1>1, <1>2, <2>2, EndsKept
  <2>3. CASE \E keys \in SUBSET Keys : GoesOn(j, [j EXCEPT !.pc = "del", !.keys = keys])
    <3>1. j.change # None => j.value \in Infos
      BY <1>1, <2>1 DEF JobOK
    <3> QED
      BY <1>15, <2>3, <3>1 DEF PCs
  <2> QED
    BY <2>1, <2>2, <2>3
<1>10. CASE DeleteLocal(j)
  <2>1. j.pc = "del" /\ (\/ Failed(j) \/ Ends(j) \/ jobs' = EmptyBag
                         \/ GoesOn(j, [j EXCEPT !.pc = "delSync"])
                         \/ j.user.udid # Own /\ j.change # None /\ GoesOn(j, [j EXCEPT !.pc = "tell"]))
    BY <1>10 DEF DeleteLocal, At
  <2>2. CASE Ends(j) \/ Failed(j)
    BY <1>1, <1>2, <2>2, EndsKept
  <2>3. CASE jobs' = EmptyBag
    BY <2>3, BagDomains DEF Threads
  <2>4. CASE GoesOn(j, [j EXCEPT !.pc = "delSync"])
    BY <1>3, <1>4, <2>4 DEF PCs
  <2>5. CASE j.user.udid # Own /\ j.change # None /\ GoesOn(j, [j EXCEPT !.pc = "tell"])
    <3>1. j.value \in Infos /\ j.user \notin OwnKeys
      BY <1>1, <2>1, <2>5 DEF JobOK, OwnKeys
    <3> QED
      BY <1>3, <1>4, <2>5, <3>1 DEF PCs
  <2> QED
    BY <2>1, <2>2, <2>3, <2>4, <2>5
<1>11. CASE DeleteSyncServiceInfo(j)
  <2>1. CASE Ends(j) \/ Failed(j)
    BY <1>1, <1>2, <2>1, EndsKept
  <2>2. CASE \E keys \in SUBSET Keys : jobs' = Others(j) (+) OnChange(keys, "delete")
    BY <1>1, <1>2, <2>2, AnnouncedKept
  <2>3. {k \in j.keys : synced[k] # None} \in SUBSET Keys
    BY <1>4
  <2> QED
    BY <1>11, <2>1, <2>2, <2>3 DEF DeleteSyncServiceInfo
<1>12. CASE Notify(j)
  <2> DEFINE new == {[j EXCEPT !.pc = "told", !.sub = s, !.keys = {}] : s \in listeners}
  <2>1. jobs' = Others(j) (+) SetToBag(new)
    BY <1>12 DEF Notify
  <2>2. j.value \in Infos /\ j.user \notin OwnKeys
    BY <1>1, <1>12 DEF Notify, At, JobOK
  <2>3. \A k \in new : JobOK(k) /\ k.sub \in listeners
    <3> SUFFICES ASSUME NEW s \in listeners
                 PROVE  LET k == [j EXCEPT !.pc = "told", !.sub = s, !.keys = {}] IN JobOK(k) /\ k.sub \in listeners
      OBVIOUS
    <3> DEFINE k == [j EXCEPT !.pc = "told", !.sub = s, !.keys = {}]
    <3>1. s \in Subscribers
      BY DEF IInv, State
    <3>2. k \in JobStates /\ k.pc = "told" /\ k.value = j.value /\ k.user = j.user /\ k.sub = s
      BY <1>1, <3>1 DEF JobStates, PCs
    <3> HIDE DEF k
    <3>3. JobOK(k) /\ k.sub \in listeners
      BY <2>2, <3>2 DEF JobOK
    <3> QED
      BY <3>3 DEF k
  <2> HIDE DEF new
  <2>4. Adds(DOMAIN SetToBag(new)) /\ DOMAIN SetToBag(new) = new
    BY <2>1, JobAdds, BagDomains
  <2> QED
    BY <1>1, <1>2, <2>3, <2>4, ThreadsKept
<1>13. CASE Told(j)
  BY <1>1, <1>2, <1>13, EndsKept DEF Told
<1> QED
  BY <1>5, <1>6, <1>7, <1>8, <1>9, <1>10, <1>11, <1>12, <1>13 DEF Step

-----------------------------------------------------------------------------
(* What they keep of the rest.                                             *)
LEMMA StepState ==
    ASSUME IInv, NEW j \in DOMAIN jobs, Step(j)
    PROVE  Stored' /\ State' /\ History'
PROOF
<1>1. JobOK(j) /\ j.sub \in Subscribers \cup {None} /\ j.keys \subseteq Keys
  BY JobOf DEF IInv, JobStates
<1>2. State'
  BY DEF IInv, State, Step, ReadSynced, PutLocal, PutSynced, EntriesToUserInfo, FindKeys, DeleteLocal,
     DeleteSyncServiceInfo, Notify, Told, history
<1>3. asked' = asked /\ tainted' \subseteq tainted \cup Matching(j.user)
  BY DEF Step, ReadSynced, PutLocal, PutSynced, EntriesToUserInfo, FindKeys, DeleteLocal, DeleteSyncServiceInfo, Notify,
     Told, Failed, history
<1>4. History'
  BY <1>3, KeySets DEF IInv, History
<1>5. local' \in [Keys -> Values]
  <2>1. CASE local' = local
    BY <2>1 DEF IInv, Stored
  <2>2. CASE PutLocal(j)
    BY <1>1, <2>2 DEF PutLocal, At, JobOK, IInv, Stored, Values
  <2>3. CASE DeleteLocal(j)
    BY <2>3 DEF DeleteLocal, IInv, Stored, Values
  <2> QED
    BY <2>1, <2>2, <2>3 DEF Step, ReadSynced, PutSynced, EntriesToUserInfo, FindKeys, DeleteSyncServiceInfo, Notify, Told, stores
<1>6. synced' \in [Keys -> Values \cup {Broken}]
  <2>1. CASE synced' = synced
    BY <2>1 DEF IInv, Stored
  <2>2. CASE PutSynced(j)
    BY <1>1, <2>2 DEF PutSynced, At, JobOK, IInv, Stored, Values
  <2>3. CASE DeleteSyncServiceInfo(j)
    BY <2>3 DEF DeleteSyncServiceInfo, IInv, Stored, Values
  <2> QED
    BY <2>1, <2>2, <2>3 DEF Step, ReadSynced, PutLocal, EntriesToUserInfo, FindKeys, DeleteLocal, Notify, Told, stores
<1>7. told' \in [Subscribers -> [Keys -> Values]]
  <2>1. CASE told' = told
    BY <2>1 DEF IInv, Stored
  <2>2. CASE Told(j)
    <3> DEFINE v == IF j.change = "delete" THEN None ELSE j.value
    <3>1. v \in Values /\ told \in [Subscribers -> [Keys -> Values]]
      BY <1>1, <2>2 DEF Told, At, JobOK, Values, IInv, Stored
    <3>2. told' = [told EXCEPT ![j.sub] = [told[j.sub] EXCEPT ![j.user] = v]]
      BY <2>2 DEF Told
    <3> HIDE DEF v
    <3>3. j.sub \in Subscribers
      BY <2>2 DEF Told, At, IInv, Threads, State
    <3>4. [told[j.sub] EXCEPT ![j.user] = v] \in [Keys -> Values]
      BY <3>1, <3>3
    <3> QED
      BY <3>1, <3>2, <3>4
  <2> QED
    BY <2>1, <2>2 DEF Step, ReadSynced, PutLocal, PutSynced, EntriesToUserInfo, FindKeys, DeleteLocal,
       DeleteSyncServiceInfo, Notify
<1> QED
  BY <1>2, <1>4, <1>5, <1>6, <1>7 DEF Stored

LEMMA ReInitState == ASSUME IInv, Dies \/ ReInit PROVE IInv'
PROOF
<1>1. UNCHANGED <<stores, jobs, listeners, told, asked, tainted>>
  BY DEF Dies, ReInit, history
<1>2. State'
  BY <1>1 DEF Dies, ReInit, UnInitLocal, UnInitSync, InitLocal, InitSync, IInv, State
<1> QED
  BY <1>1, <1>2 DEF IInv, Threads, JobOK, JobStates, OwnKeys, Stored, History, stores

LEMMA OtherState ==
    ASSUME IInv,
           \/ \E k \in Keys, v \in Values \cup {Broken} : PeerChange(k, v)
           \/ \E k \in Keys, v \in Infos : PutServiceInfo(k, v)
           \/ \E u \in UserInfos : DeleteServiceInfo(u)
    PROVE  Stored' /\ State' /\ History'
PROOF
<1>1. ASSUME NEW k \in Keys, NEW v \in Values \cup {Broken}, PeerChange(k, v)
      PROVE  Stored' /\ State' /\ History'
  <2>1. synced' = [synced EXCEPT ![k] = v] /\ UNCHANGED <<local, adapters, reinit, listeners, told, asked>>
    BY <1>1 DEF PeerChange
  <2>2. tainted' \subseteq Keys
    BY <1>1 DEF PeerChange, Overlapping, IInv, History
  <2> QED
    BY <2>1, <2>2 DEF IInv, Stored, State, History
<1>2. ASSUME NEW k \in Keys, NEW v \in Infos, PutServiceInfo(k, v)
      PROVE  Stored' /\ State' /\ History'
  <2>1. UNCHANGED <<stores, adapters, reinit, listeners, told>> /\ tainted' \subseteq tainted \cup {k}
    BY <1>2 DEF PutServiceInfo, Overlapping
  <2>2. asked' = asked \/ asked' = [asked EXCEPT ![k] = v]
    BY <1>2 DEF PutServiceInfo
  <2>3. v \in Values
    BY DEF Values
  <2> QED
    BY <2>1, <2>2, <2>3 DEF IInv, Stored, State, History, stores
<1>3. ASSUME NEW u \in UserInfos, DeleteServiceInfo(u)
      PROVE  Stored' /\ State' /\ History'
  <2>1. UNCHANGED <<stores, adapters, reinit, listeners, told>> /\ tainted' \subseteq tainted \cup Matching(u)
    BY <1>3 DEF DeleteServiceInfo, Overlapping
  <2>2. asked' \in [Keys -> Values]
    BY <1>3 DEF DeleteServiceInfo, IInv, History, Values
  <2> QED
    BY <2>1, <2>2, KeySets DEF IInv, Stored, State, History, stores
<1> QED
  BY <1>1, <1>2, <1>3

LEMMA SubscribeState ==
    ASSUME IInv, NEW s \in Subscribers, SubscribeServiceInfo(s)
    PROVE  IInv'
PROOF
<1>1. UNCHANGED <<stores, jobs, adapters, reinit, asked>> /\ listeners' = listeners \cup {s}
      /\ told' = [told EXCEPT ![s] = local] /\ tainted' = tainted \cup InFlight
  BY DEF SubscribeServiceInfo, GetAllServiceInfoList
<1>2. Adds({})
  BY <1>1 DEF Adds
<1>3. Threads'
  BY <1>1, <1>2, ThreadsKept DEF IInv
<1> QED
  BY <1>1, <1>3, KeySets DEF IInv, Stored, State, History, stores

-----------------------------------------------------------------------------
LEMMA Kept == IInv /\ [Next]_vars => IInv'
PROOF
<1> SUFFICES ASSUME IInv, [Next]_vars PROVE IInv'
  OBVIOUS
<1>1. CASE \E k \in Keys, v \in Values \cup {Broken} : PeerChange(k, v)
  BY <1>1, PeerThreads, OtherState DEF IInv
<1>2. CASE \/ \E k \in Keys, v \in Infos : PutServiceInfo(k, v)
           \/ \E u \in UserInfos : DeleteServiceInfo(u)
  BY <1>2, CallThreads, OtherState DEF IInv
<1>3. CASE \E s \in Subscribers : SubscribeServiceInfo(s)
  BY <1>3, SubscribeState
<1>4. CASE Dies \/ ReInit
  BY <1>4, ReInitState
<1>5. CASE \E j \in BagToSet(jobs) : Step(j)
  <2>1. PICK j \in DOMAIN jobs : Step(j)
    BY <1>5 DEF BagToSet
  <2> QED
    BY <2>1, StepThreads, StepState DEF IInv
<1>6. CASE UNCHANGED vars
  BY <1>6 DEF vars, IInv, Threads, JobOK, JobStates, OwnKeys, Stored, State, History
<1> QED
  BY <1>1, <1>2, <1>3, <1>4, <1>5, <1>6 DEF Next

\* Whatever fails and however calls, announcements and notifications overlap: the local
\* store holds only infos that parse, a thread that writes or tells has a value, and a
\* subscriber is told of other devices only.
THEOREM ServiceInfosTypeCorrect == ServiceInfosSpec => []TypeOK
PROOF
<1>1. IInv => TypeOK
  BY DEF IInv, Threads, JobOK, JobStates, PCs, Stored, State, History, TypeOK, BagToSet
<1>2. Init => IInv
  <2> SUFFICES ASSUME Init PROVE IInv
    OBVIOUS
  <2>1. Threads
    BY BagDomains DEF Init, Threads
  <2>2. [k \in Keys |-> None] \in [Keys -> Values]
    BY DEF Values
  <2> QED
    BY <2>1, <2>2 DEF Init, IInv, Stored, State, History
<1> QED
  BY <1>1, <1>2, Kept, PTL DEF ServiceInfosSpec

-----------------------------------------------------------------------------
(* The threads of a key.                                                   *)

\* What each thread deletes is what it was asked to; each thread is there at least once.
BagInv ==
    /\ jobs \in [DOMAIN jobs -> Nat \ {0}]
    /\ \A j \in DOMAIN jobs : j.keys \subseteq Matching(j.user)

On(k) == {j \in DOMAIN jobs : k \in Matching(j.user)}
Sole(k, j) == jobs[j] = 1 /\ On(k) = {j}

\* An info of this device that its client put last: whatever is on its way writes that.
OwnWritten(k) ==
    /\ \A j \in On(k) : /\ j.user = k /\ j.pc \in {"read", "put", "putSync"}
                        /\ IF j.pc = "read" THEN synced[k] = asked[k] ELSE j.value = asked[k]
    /\ local[k] = asked[k] \/ \E j \in On(k) : j.pc = "put"
    /\ synced[k] = asked[k] \/ \E j \in On(k) : j.pc \in {"put", "putSync"}
\* One that its client deleted last: one call deletes it, and the echoes find nothing.
OwnDeleted(k) ==
    /\ \A j \in On(k) :
          \/ j.pc = "info" /\ j.user = k /\ local[k] = None /\ synced[k] = None
          \/ j.pc = "find" /\ Sole(k, j) /\ local[k] = synced[k]
          \/ j.pc = "del" /\ Sole(k, j) /\ local[k] = synced[k] /\ (local[k] # None <=> k \in j.keys)
          \/ j.pc = "delSync" /\ Sole(k, j) /\ local[k] = None /\ (synced[k] # None => k \in j.keys)
    /\ On(k) = {} => local[k] = None /\ synced[k] = None
\* An info of another device, as it is now: a thread brings it to the local store, and then
\* to each subscriber.
PeerWritten(k) ==
    /\ \A j \in On(k) : /\ j.user = k /\ j.pc \in {"read", "put", "tell", "told"}
                        /\ j.change \in {"insert", "update"} /\ (j.pc # "read" => j.value = synced[k])
    /\ local[k] = synced[k] \/ \E j \in On(k) : j.pc \in {"read", "put"}
    /\ \A s \in listeners : \/ told[s][k] = synced[k]
                            \/ \E j \in On(k) : j.pc \in {"read", "put", "tell"} \/ (j.pc = "told" /\ j.sub = s)
\* One that is gone: as long as the local store has it, a thread is to delete it there.
PeerDeleted(k) ==
    /\ \A j \in On(k) : j.user = k /\ j.pc \in {"info", "find", "del", "tell", "told"} /\ j.change = "delete"
    /\ local[k] = None \/ \E j \in On(k) : j.pc \in {"info", "find"} \/ (j.pc = "del" /\ k \in j.keys)
    /\ \A s \in listeners : \/ told[s][k] = None \/ local[k] # None
                            \/ \E j \in On(k) : j.pc = "tell" \/ (j.pc = "told" /\ j.sub = s)
CopyInv(k) ==
    /\ k \notin OwnKeys => synced[k] \in Values
    /\ IF k \in OwnKeys THEN IF asked[k] = None THEN OwnDeleted(k) ELSE OwnWritten(k)
                        ELSE IF synced[k] = None THEN PeerDeleted(k) ELSE PeerWritten(k)
CopiesInv == ~crashed => \A k \in Keys \ tainted : CopyInv(k)

LEMMA KeyOnly == \A k \in Keys : Matching(k) = {k}
PROOF
  BY KeysAssumption DEF Matching, IsKeyMatch

LEMMA NoneApart == None \notin Infos /\ Values = Infos \cup {None}
PROOF
  BY ServiceInfosAssumption DEF Values

LEMMA OverlapIs == \A keys : \A k \in keys : k \notin Overlapping(keys) => On(k) = {}
PROOF
  BY DEF Overlapping, InFlight, On, BagToSet

\* One thread goes on, or ends, and leaves others behind.
Replaced(j, new) ==
    /\ DOMAIN jobs \ {j} \subseteq DOMAIN jobs' /\ DOMAIN jobs' \subseteq DOMAIN jobs \cup new /\ new \subseteq DOMAIN jobs'
    /\ jobs[j] = 1 /\ j \notin new => j \notin DOMAIN jobs'
    /\ \A i \in DOMAIN jobs' : i \notin new /\ i # j => jobs'[i] = jobs[i]
    /\ jobs' \in [DOMAIN jobs' -> Nat \ {0}]

LEMMA BagMinus ==
    ASSUME jobs \in [DOMAIN jobs -> Nat \ {0}], NEW j \in DOMAIN jobs
    PROVE  /\ DOMAIN jobs \ {j} \subseteq DOMAIN Others(j) /\ DOMAIN Others(j) \subseteq DOMAIN jobs
           /\ jobs[j] = 1 => j \notin DOMAIN Others(j)
           /\ \A i \in DOMAIN Others(j) : i # j => Others(j)[i] = jobs[i]
           /\ Others(j) \in [DOMAIN Others(j) -> Nat \ {0}]
PROOF
<1> DEFINE left == [e \in DOMAIN jobs |-> IF e \in {j} THEN jobs[e] - 1 ELSE jobs[e]]
<1>1. Others(j) = [e \in {d \in DOMAIN left : left[d] > 0} |-> left[e]]
  BY DEF Others, (-), SetToBag
<1>2. \A e \in DOMAIN jobs : left[e] \in Int /\ jobs[e] \in Nat /\ jobs[e] > 0
  OBVIOUS
<1>3. left[j] = jobs[j] - 1 /\ \A e \in DOMAIN jobs : e # j => left[e] = jobs[e]
  OBVIOUS
<1>4. DOMAIN left = DOMAIN jobs
  OBVIOUS
<1> HIDE DEF left
<1>5. DOMAIN Others(j) = {d \in DOMAIN jobs : left[d] > 0} /\ \A e \in DOMAIN Others(j) : Others(j)[e] = left[e]
  BY <1>1, <1>4
<1>6. Others(j) \in [DOMAIN Others(j) -> Nat \ {0}]
  BY <1>1, <1>2, <1>4
<1> QED
  BY <1>2, <1>3, <1>5, <1>6

LEMMA BagPlus ==
    ASSUME NEW A, NEW B, A \in [DOMAIN A -> Nat \ {0}], B \in [DOMAIN B -> Nat \ {0}]
    PROVE  /\ DOMAIN (A (+) B) = DOMAIN A \cup DOMAIN B
           /\ \A e \in DOMAIN A \ DOMAIN B : (A (+) B)[e] = A[e]
           /\ \A e \in DOMAIN B \ DOMAIN A : (A (+) B)[e] = B[e]
           /\ A (+) B \in [DOMAIN (A (+) B) -> Nat \ {0}]
PROOF
<1> DEFINE S(e) == (IF e \in DOMAIN A THEN A[e] ELSE 0) + (IF e \in DOMAIN B THEN B[e] ELSE 0)
<1>1. A (+) B = [e \in DOMAIN A \cup DOMAIN B |-> S(e)]
  BY DEF (+)
<1>2. \A e \in DOMAIN A \cup DOMAIN B : S(e) \in Nat \ {0}
  OBVIOUS
<1>3. (\A e \in DOMAIN A \ DOMAIN B : S(e) = A[e]) /\ (\A e \in DOMAIN B \ DOMAIN A : S(e) = B[e])
  OBVIOUS
<1> HIDE DEF S
<1> QED
  BY <1>1, <1>2, <1>3

LEMMA EndsIs ==
    ASSUME BagInv, NEW j \in DOMAIN jobs, Ends(j)
    PROVE  Replaced(j, {})
PROOF
<1>1. jobs' = Others(j) /\ jobs \in [DOMAIN jobs -> Nat \ {0}]
  BY DEF Ends, BagInv
<1> QED
  BY <1>1, BagMinus DEF Replaced

LEMMA LeavesIs ==
    ASSUME BagInv, NEW j \in DOMAIN jobs, NEW B, B \in [DOMAIN B -> Nat \ {0}], jobs' = Others(j) (+) B
    PROVE  /\ Replaced(j, DOMAIN B)
           /\ \A i \in DOMAIN B : i \notin DOMAIN jobs => jobs'[i] = B[i]
PROOF
<1> DEFINE A == Others(j)
<1>1. jobs' = A (+) B /\ jobs \in [DOMAIN jobs -> Nat \ {0}]
  BY DEF BagInv
<1>2. /\ DOMAIN jobs \ {j} \subseteq DOMAIN A /\ DOMAIN A \subseteq DOMAIN jobs /\ (jobs[j] = 1 => j \notin DOMAIN A)
      /\ \A i \in DOMAIN A : i # j => A[i] = jobs[i]
      /\ A \in [DOMAIN A -> Nat \ {0}]
  BY <1>1, BagMinus
<1> HIDE DEF A
<1>3. /\ DOMAIN jobs' = DOMAIN A \cup DOMAIN B
      /\ \A e \in DOMAIN A \ DOMAIN B : jobs'[e] = A[e]
      /\ \A e \in DOMAIN B \ DOMAIN A : jobs'[e] = B[e]
      /\ jobs' \in [DOMAIN jobs' -> Nat \ {0}]
  BY <1>1, <1>2, BagPlus
<1> QED
  BY <1>2, <1>3 DEF Replaced

LEMMA SetBag == \A S : DOMAIN SetToBag(S) = S /\ SetToBag(S) \in [DOMAIN SetToBag(S) -> Nat \ {0}] /\ \A e \in S : SetToBag(S)[e] = 1
PROOF
  BY DEF SetToBag

LEMMA GoesOnIs ==
    ASSUME BagInv, NEW j \in DOMAIN jobs, NEW i, GoesOn(j, i)
    PROVE  Replaced(j, {i}) /\ (i \notin DOMAIN jobs => jobs'[i] = 1)
PROOF
<1> DEFINE B == SetToBag({i})
<1>1. DOMAIN B = {i} /\ B \in [DOMAIN B -> Nat \ {0}] /\ B[i] = 1
  BY SetBag
<1>2. jobs' = Others(j) (+) B
  BY DEF GoesOn
<1> HIDE DEF B
<1> QED
  BY <1>1, <1>2, LeavesIs

LEMMA ObserversFinite == IsFiniteSet(Registered) /\ Cardinality(Registered) \in Nat /\ (Registered # {} => Cardinality(Registered) \in Nat \ {0})
PROOF
<1>1. IsFiniteSet({"services", "static"})
  <2>1. IsFiniteSet({"services"}) /\ IsFiniteSet({"static"})
    BY FS_Singleton
  <2>2. {"services", "static"} = {"services"} \cup {"static"}
    OBVIOUS
  <2> QED
    BY <2>1, <2>2, FS_Union
<1>2. Registered \subseteq {"services", "static"}
  BY ServiceInfosAssumption DEF Registered
<1>3. IsFiniteSet(Registered)
  BY <1>1, <1>2, FS_Subset
<1> QED
  BY <1>3, FS_CardinalityType, FS_EmptySet

Echo(op, k) == Job(IF op = "delete" THEN "info" ELSE "read", op, k, None)

LEMMA AnnouncedIs ==
    ASSUME NEW keys, NEW op
    PROVE  /\ OnChange(keys, op) \in [DOMAIN OnChange(keys, op) -> Nat \ {0}]
           /\ DOMAIN OnChange(keys, op) \subseteq {Echo(op, k) : k \in keys}
           /\ Registered # {} => DOMAIN OnChange(keys, op) = {Echo(op, k) : k \in keys}
PROOF
<1>1. CASE Registered = {}
  <2>1. OnChange(keys, op) = EmptyBag
    BY <1>1 DEF OnChange
  <2> QED
    BY <1>1, <2>1, SetBag DEF EmptyBag
<1>2. CASE Registered # {}
  <2>1. OnChange(keys, op) = [j \in {Echo(op, k) : k \in keys} |-> Cardinality(Registered)]
    BY <1>2 DEF OnChange, Echo
  <2> QED
    BY <1>2, <2>1, ObserversFinite
<1> QED
  BY <1>1, <1>2

LEMMA EchoIs ==
    \A op, k : /\ Echo(op, k).pc = (IF op = "delete" THEN "info" ELSE "read") /\ Echo(op, k).change = op
               /\ Echo(op, k).user = k /\ Echo(op, k).keys = {}
PROOF
  BY DEF Echo, Job

\* The jobs of a key after such a step.
LEMMA OnReplaced ==
    ASSUME NEW j, NEW new, Replaced(j, new), NEW k
    PROVE  /\ On(k) \ {j} \subseteq On(k)'
           /\ On(k)' \subseteq On(k) \cup new
           /\ \A i \in new : k \in Matching(i.user) => i \in On(k)'
           /\ jobs[j] = 1 /\ j \notin new => j \notin On(k)'
PROOF
<1>1. Matching(k)' = Matching(k) /\ \A i : (k \in Matching(i.user))' <=> k \in Matching(i.user)
  BY DEF Matching, IsKeyMatch
<1> QED
  BY <1>1 DEF Replaced, On

\* A step by which nothing of a key changes.
LEMMA CopyFrame ==
    ASSUME NEW k \in Keys, CopyInv(k), local'[k] = local[k], synced'[k] = synced[k], asked'[k] = asked[k],
           listeners' = listeners, \A s \in listeners : told'[s][k] = told[s][k],
           On(k)' = On(k), \A j \in On(k) : jobs'[j] = jobs[j]
    PROVE  CopyInv(k)'
PROOF
<1>1. CASE k \in OwnKeys /\ asked[k] = None
  <2>1. OwnDeleted(k)
    BY <1>1 DEF CopyInv
  <2>2. \A j \in On(k) : Sole(k, j) => Sole(k, j)'
    BY DEF Sole
  <2>3. OwnDeleted(k)'
    BY <2>1, <2>2 DEF OwnDeleted
  <2> QED
    BY <1>1, <2>3 DEF CopyInv, OwnKeys, Values
<1>2. CASE k \in OwnKeys /\ asked[k] # None
  <2>1. OwnWritten(k)
    BY <1>2 DEF CopyInv
  <2>2. OwnWritten(k)'
    BY <2>1 DEF OwnWritten
  <2> QED
    BY <1>2, <2>2 DEF CopyInv, OwnKeys, Values
<1>3. CASE k \notin OwnKeys /\ synced[k] = None
  <2>1. PeerDeleted(k)
    BY <1>3 DEF CopyInv
  <2>2. PeerDeleted(k)'
    BY <2>1 DEF PeerDeleted
  <2> QED
    BY <1>3, <2>2 DEF CopyInv, OwnKeys, Values
<1>4. CASE k \notin OwnKeys /\ synced[k] # None
  <2>1. PeerWritten(k)
    BY <1>4 DEF CopyInv
  <2>2. PeerWritten(k)'
    BY <2>1 DEF PeerWritten
  <2> QED
    BY <1>4, <2>2 DEF CopyInv, OwnKeys, Values
<1> QED
  BY <1>1, <1>2, <1>3, <1>4

\* Every step of a thread, but the crash: what it leaves behind is about keys of its own.
Within(j, new) == \A i \in new : Matching(i.user) \subseteq Matching(j.user) /\ i.keys \subseteq Matching(i.user)

LEMMA StepReplaces ==
    ASSUME IInv, BagInv, NEW j \in DOMAIN jobs, Step(j)
    PROVE  (crashed' /\ jobs' = EmptyBag) \/ \E new : Replaced(j, new) /\ Within(j, new)
PROOF
<1>1. j \in JobStates /\ j.keys \subseteq Matching(j.user)
  BY JobOf DEF IInv, BagInv
<1>2. ASSUME Ends(j) \/ Failed(j) PROVE \E new : Replaced(j, new) /\ Within(j, new)
  <2>1. Replaced(j, {})
    BY <1>2, EndsIs DEF Failed
  <2> QED
    BY <2>1 DEF Within
<1>3. ASSUME NEW i, GoesOn(j, i), i.user = j.user, i.keys \subseteq Matching(j.user)
      PROVE  \E new : Replaced(j, new) /\ Within(j, new)
  <2>1. Replaced(j, {i})
    BY <1>3, GoesOnIs
  <2> QED
    BY <1>3, <2>1 DEF Within
<1>4. ASSUME NEW pc, GoesOn(j, [j EXCEPT !.pc = pc])
      PROVE  \E new : Replaced(j, new) /\ Within(j, new)
  <2> DEFINE i == [j EXCEPT !.pc = pc]
  <2>1. i.user = j.user /\ i.keys = j.keys
    BY <1>1 DEF JobStates
  <2> HIDE DEF i
  <2> QED
    BY <1>1, <1>3, <1>4, <2>1 DEF i
<1>5. ASSUME NEW pc, NEW v, GoesOn(j, [j EXCEPT !.pc = pc, !.value = v])
      PROVE  \E new : Replaced(j, new) /\ Within(j, new)
  <2> DEFINE i == [j EXCEPT !.pc = pc, !.value = v]
  <2>1. i.user = j.user /\ i.keys = j.keys
    BY <1>1 DEF JobStates
  <2> HIDE DEF i
  <2> QED
    BY <1>1, <1>3, <1>5, <2>1 DEF i
<1>6. ASSUME NEW keys \in SUBSET Matching(j.user), NEW op, jobs' = Others(j) (+) OnChange(keys, op)
      PROVE  \E new : Replaced(j, new) /\ Within(j, new)
  <2> DEFINE B == OnChange(keys, op)
  <2>1. B \in [DOMAIN B -> Nat \ {0}] /\ DOMAIN B \subseteq {Echo(op, k) : k \in keys}
    BY AnnouncedIs
  <2>2. jobs' = Others(j) (+) B
    BY <1>6
  <2> HIDE DEF B
  <2>3. Replaced(j, DOMAIN B)
    BY <2>1, <2>2, LeavesIs
  <2>4. \A i \in DOMAIN B : i.keys = {} /\ i.user \in keys
    BY <2>1, EchoIs
  <2>5. \A i \in DOMAIN B : Matching(i.user) \subseteq Matching(j.user)
    BY <2>4, KeyOnly, KeySets
  <2> QED
    BY <2>3, <2>4, <2>5 DEF Within
<1>7. CASE ReadSynced(j)
  BY <1>2, <1>5, <1>7 DEF ReadSynced
<1>8. CASE PutLocal(j)
  BY <1>2, <1>4, <1>8 DEF PutLocal
<1>9. CASE PutSynced(j)
  <2>1. {j.user} \subseteq Matching(j.user)
    BY <1>9, KeyOnly, JobOf DEF PutSynced, At, JobOK, IInv
  <2> QED
    BY <1>2, <1>6, <1>9, <2>1 DEF PutSynced
<1>10. CASE EntriesToUserInfo(j)
  BY <1>2, <1>5, <1>10 DEF EntriesToUserInfo
<1>11. CASE FindKeys(j)
  <2>1. ASSUME NEW keys, GoesOn(j, [j EXCEPT !.pc = "del", !.keys = keys \cap Matching(j.user)])
        PROVE  \E new : Replaced(j, new) /\ Within(j, new)
    <3> DEFINE i == [j EXCEPT !.pc = "del", !.keys = keys \cap Matching(j.user)]
    <3>1. i.user = j.user /\ i.keys = keys \cap Matching(j.user)
      BY <1>1 DEF JobStates
    <3> HIDE DEF i
    <3> QED
      BY <1>3, <2>1, <3>1 DEF i
  <2> QED
    BY <1>2, <1>11, <2>1 DEF FindKeys
<1>12. CASE DeleteLocal(j)
  BY <1>2, <1>4, <1>12 DEF DeleteLocal
<1>13. CASE DeleteSyncServiceInfo(j)
  <2>1. {k \in j.keys : synced[k] # None} \subseteq Matching(j.user)
    BY <1>1
  <2> QED
    BY <1>2, <1>6, <1>13, <2>1 DEF DeleteSyncServiceInfo
<1>14. CASE Notify(j)
  <2> DEFINE new == {[j EXCEPT !.pc = "told", !.sub = s, !.keys = {}] : s \in listeners}
             B == SetToBag(new)
  <2>1. \A i \in new : i.user = j.user /\ i.keys = {}
    BY <1>1 DEF JobStates
  <2>2. DOMAIN B = new /\ B \in [DOMAIN B -> Nat \ {0}] /\ jobs' = Others(j) (+) B
    BY <1>14, SetBag DEF Notify
  <2> HIDE DEF new, B
  <2>3. Replaced(j, new)
    BY <2>2, LeavesIs
  <2> QED
    BY <2>1, <2>3 DEF Within
<1>15. CASE Told(j)
  BY <1>2, <1>15 DEF Told
<1> QED
  BY <1>7, <1>8, <1>9, <1>10, <1>11, <1>12, <1>13, <1>14, <1>15 DEF Step

LEMMA StepElsewhere ==
    ASSUME IInv, BagInv, NEW j \in DOMAIN jobs, Step(j), ~crashed', NEW k \in Keys, k \notin Matching(j.user), CopyInv(k)
    PROVE  CopyInv(k)'
PROOF
<1>1. PICK new : Replaced(j, new) /\ Within(j, new)
  BY StepReplaces
<1>2. \A i \in new : k \notin Matching(i.user)
  BY <1>1 DEF Within
<1>3. On(k)' = On(k)
  <2>1. On(k) \ {j} \subseteq On(k)' /\ On(k)' \subseteq On(k) \cup new
    BY <1>1, OnReplaced
  <2>2. \A i \in On(k)' : k \in Matching(i.user)
    BY DEF On, Matching, IsKeyMatch
  <2>3. j \notin On(k)
    BY DEF On
  <2> QED
    BY <1>2, <2>1, <2>2, <2>3
<1>4. \A i \in On(k) : jobs'[i] = jobs[i]
  <2> SUFFICES ASSUME NEW i \in On(k) PROVE jobs'[i] = jobs[i]
    OBVIOUS
  <2>1. i \notin new /\ i # j /\ i \in DOMAIN jobs'
    BY <1>2, <1>3 DEF On
  <2> QED
    BY <1>1, <2>1 DEF Replaced
<1>5. j.keys \subseteq Matching(j.user)
  BY DEF BagInv
<1>6. \A i \in Keys : j.user = i => i # k
  BY KeyOnly
<1>7. asked' = asked /\ listeners' = listeners
  BY DEF Step, ReadSynced, PutLocal, PutSynced, EntriesToUserInfo, FindKeys, DeleteLocal, DeleteSyncServiceInfo, Notify,
     Told, history
<1>8. local'[k] = local[k]
  <2>1. CASE local' = local
    BY <2>1
  <2>2. CASE PutLocal(j)
    BY <1>6, <2>2 DEF PutLocal, IInv, Stored
  <2>3. CASE DeleteLocal(j)
    BY <1>5, <2>3 DEF DeleteLocal
  <2> QED
    BY <2>1, <2>2, <2>3 DEF Step, ReadSynced, PutSynced, EntriesToUserInfo, FindKeys, DeleteSyncServiceInfo, Notify, Told, stores
<1>9. synced'[k] = synced[k]
  <2>1. CASE synced' = synced
    BY <2>1
  <2>2. CASE PutSynced(j)
    BY <1>6, <2>2 DEF PutSynced, IInv, Stored
  <2>3. CASE DeleteSyncServiceInfo(j)
    BY <1>5, <2>3 DEF DeleteSyncServiceInfo
  <2> QED
    BY <2>1, <2>2, <2>3 DEF Step, ReadSynced, PutLocal, EntriesToUserInfo, FindKeys, DeleteLocal, Notify, Told, stores
<1>10. \A s \in listeners : told'[s][k] = told[s][k]
  <2>1. CASE told' = told
    BY <2>1
  <2>2. CASE Told(j)
    <3> DEFINE v == IF j.change = "delete" THEN None ELSE j.value
    <3>1. told' = [told EXCEPT ![j.sub] = [told[j.sub] EXCEPT ![j.user] = v]]
      BY <2>2 DEF Told
    <3> HIDE DEF v
    <3>2. told \in [Subscribers -> [Keys -> Values]] /\ listeners \subseteq Subscribers
      BY DEF IInv, Stored, State
    <3>3. j.user # k
      BY <1>6
    <3> QED
      BY <3>1, <3>2, <3>3
  <2> QED
    BY <2>1, <2>2 DEF Step, ReadSynced, PutLocal, PutSynced, EntriesToUserInfo, FindKeys, DeleteLocal,
       DeleteSyncServiceInfo, Notify
<1> QED
  BY <1>3, <1>4, <1>7, <1>8, <1>9, <1>10, CopyFrame

LEMMA StepOf ==
    ASSUME NEW j, Step(j)
    PROVE  /\ j.pc = "read" => ReadSynced(j)
           /\ j.pc = "put" => PutLocal(j)
           /\ j.pc = "putSync" => PutSynced(j)
           /\ j.pc = "info" => EntriesToUserInfo(j)
           /\ j.pc = "find" => FindKeys(j)
           /\ j.pc = "del" => DeleteLocal(j)
           /\ j.pc = "delSync" => DeleteSyncServiceInfo(j)
           /\ j.pc = "tell" => Notify(j)
           /\ j.pc = "told" => Told(j)
PROOF
  BY DEF Step, At, ReadSynced, PutLocal, PutSynced, EntriesToUserInfo, FindKeys, DeleteLocal, DeleteSyncServiceInfo,
     Notify, Told

\* A step of a thread of a key, that does not fail.
Fine(j, k) == ~crashed' /\ k \notin tainted' /\ k \in Matching(j.user)

\* An info of this device that was put last.
LEMMA OwnWrittenKept ==
    ASSUME IInv, BagInv, NEW j \in DOMAIN jobs, Step(j), NEW k \in OwnKeys, Fine(j, k), asked[k] \in Infos, OwnWritten(k)
    PROVE  OwnWritten(k)' /\ synced'[k] \in {synced[k], asked[k]}
PROOF
<1> DEFINE v == asked[k]
<1>1. /\ j \in On(k) /\ j.user = k /\ j.pc \in {"read", "put", "putSync"}
      /\ IF j.pc = "read" THEN synced[k] = v ELSE j.value = v
  BY DEF OwnWritten, Fine, On
<1>2. k \in Keys /\ v \in Infos /\ ~Failed(j) /\ j \in JobStates /\ asked' = asked
  <2>1. asked' = asked
    BY DEF Step, ReadSynced, PutLocal, PutSynced, EntriesToUserInfo, FindKeys, DeleteLocal, DeleteSyncServiceInfo, Notify,
       Told, history
  <2> QED
    BY <2>1, JobOf DEF OwnKeys, Failed, Fine, IInv
<1>3. ASSUME NEW new, Replaced(j, new), local'[k] \in {local[k], v}, synced'[k] \in {synced[k], v},
             \A i \in new : /\ i.user = k /\ i.pc \in {"read", "put", "putSync"}
                            /\ IF i.pc = "read" THEN synced'[k] = v ELSE i.value = v,
             local'[k] = v \/ j.pc # "put", synced'[k] = v \/ \E i \in new : i.pc \in {"put", "putSync"}
      PROVE  OwnWritten(k)'
  <2>1. /\ On(k) \ {j} \subseteq On(k)' /\ On(k)' \subseteq On(k) \cup new
        /\ \A i \in new : i \in On(k)'
    BY <1>2, <1>3, OnReplaced, KeyOnly
  <2>2. \A i \in On(k)' : /\ i.user = k /\ i.pc \in {"read", "put", "putSync"}
                          /\ IF i.pc = "read" THEN synced'[k] = v ELSE i.value = v
    BY <1>3, <2>1 DEF OwnWritten
  <2>3. local'[k] = v \/ \E i \in On(k)' : i.pc = "put"
    BY <1>3, <2>1 DEF OwnWritten
  <2>4. synced'[k] = v \/ \E i \in On(k)' : i.pc \in {"put", "putSync"}
    BY <1>3, <2>1
  <2> QED
    BY <1>2, <2>2, <2>3, <2>4 DEF OwnWritten
<1>4. CASE j.pc = "read"
  <2>1. ReadSynced(j)
    BY <1>4, StepOf
  <2>2. UNCHANGED stores /\ GoesOn(j, [j EXCEPT !.pc = "put", !.value = v])
    BY <1>1, <1>2, <1>4, <2>1, NoneApart DEF ReadSynced, GetEntriesByKeys, ParseAndValidateJSON
  <2> DEFINE i == [j EXCEPT !.pc = "put", !.value = v]
  <2>3. i.user = k /\ i.pc = "put" /\ i.value = v
    BY <1>1, <1>2 DEF JobStates
  <2> HIDE DEF i
  <2>4. Replaced(j, {i})
    BY <2>2, GoesOnIs DEF i
  <2> QED
    BY <1>3, <1>4, <2>2, <2>3, <2>4 DEF stores
<1>5. CASE j.pc = "put"
  <2>1. PutLocal(j)
    BY <1>5, StepOf
  <2>2. local' = [local EXCEPT ![k] = v] /\ synced' = synced /\ GoesOn(j, [j EXCEPT !.pc = "putSync"])
    BY <1>1, <1>2, <1>5, <2>1 DEF PutLocal
  <2> DEFINE i == [j EXCEPT !.pc = "putSync"]
  <2>3. i.user = k /\ i.pc = "putSync" /\ i.value = v
    BY <1>1, <1>2, <1>5 DEF JobStates
  <2> HIDE DEF i
  <2>4. Replaced(j, {i})
    BY <2>2, GoesOnIs DEF i
  <2>5. local'[k] = v
    BY <1>2, <2>2 DEF IInv, Stored
  <2> QED
    BY <1>3, <2>2, <2>3, <2>4, <2>5
<1>6. CASE j.pc = "putSync"
  <2>1. PutSynced(j)
    BY <1>6, StepOf
  <2>2. local' = local
    BY <2>1 DEF PutSynced
  <2>3. CASE synced[k] = v /\ Ends(j) /\ synced' = synced
    BY <1>3, <1>6, <2>2, <2>3, EndsIs
  <2>4. CASE synced' = [synced EXCEPT ![k] = v] /\ jobs' = Others(j) (+) OnChange({k}, Op(k, v))
    <3> DEFINE B == OnChange({k}, Op(k, v))
    <3>1. B \in [DOMAIN B -> Nat \ {0}] /\ DOMAIN B \subseteq {Echo(Op(k, v), r) : r \in {k}}
      BY AnnouncedIs
    <3>2. Op(k, v) # "delete"
      BY <1>2, NoneApart DEF Op
    <3>4. jobs' = Others(j) (+) B
      BY <2>4
    <3> HIDE DEF B
    <3>3. \A i \in DOMAIN B : i.user = k /\ i.pc = "read"
      <4> SUFFICES ASSUME NEW i \in DOMAIN B PROVE i.user = k /\ i.pc = "read"
        OBVIOUS
      <4>1. i = Echo(Op(k, v), k)
        BY <3>1
      <4> QED
        BY <3>2, <4>1, EchoIs
    <3>5. Replaced(j, DOMAIN B)
      BY <3>1, <3>4, LeavesIs
    <3>6. synced'[k] = v
      BY <1>2, <2>4 DEF IInv, Stored
    <3> QED
      BY <1>3, <1>6, <2>2, <3>3, <3>5, <3>6
  <2> QED
    BY <1>1, <1>2, <1>6, <2>1, <2>3, <2>4 DEF PutSynced
<1>7. synced'[k] \in {synced[k], v}
  <2>1. CASE j.pc \in {"read", "put"}
    BY <2>1, StepOf DEF ReadSynced, PutLocal, stores
  <2>2. CASE j.pc = "putSync"
    <3>1. PutSynced(j)
      BY <2>2, StepOf
    <3> QED
      BY <1>1, <1>2, <2>2, <3>1 DEF PutSynced, IInv, Stored
  <2> QED
    BY <1>1, <2>1, <2>2
<1> QED
  BY <1>1, <1>4, <1>5, <1>6, <1>7

\* One that was deleted last.
LEMMA OwnDeletedKept ==
    ASSUME IInv, BagInv, NEW j \in DOMAIN jobs, Step(j), NEW k \in OwnKeys, Fine(j, k), asked[k] = None, OwnDeleted(k)
    PROVE  OwnDeleted(k)' /\ synced'[k] \in {synced[k], None}
PROOF
<1>1. j \in On(k) /\ k \in Matching(j.user) /\ j \in JobStates /\ j.keys \subseteq Keys
  BY JobOf DEF Fine, On, IInv, BagInv, JobStates
<1>2. k \in Keys /\ k.udid = Own /\ ~Failed(j) /\ ~crashed' /\ j.user.udid = Own
  BY <1>1 DEF OwnKeys, Failed, Fine, Matching, IsKeyMatch
<1>3. ASSUME Sole(k, j), NEW i, GoesOn(j, i), i.user = j.user, i.pc # j.pc
      PROVE  On(k)' = {i} /\ Sole(k, i)'
  <2>1. i \notin DOMAIN jobs
    BY <1>1, <1>3 DEF Sole, On
  <2>2. Replaced(j, {i}) /\ jobs'[i] = 1
    BY <1>3, <2>1, GoesOnIs
  <2>3. On(k)' \subseteq On(k) \cup {i} /\ i \in On(k)' /\ j \notin On(k)'
    BY <1>1, <1>3, <2>2, OnReplaced DEF Sole
  <2> QED
    BY <1>3, <2>2, <2>3 DEF Sole
<1>4. ASSUME Sole(k, j), Ends(j) PROVE On(k)' = {}
  <2>1. Replaced(j, {})
    BY <1>4, EndsIs
  <2>2. On(k)' \subseteq On(k) /\ j \notin On(k)'
    BY <1>4, <2>1, OnReplaced DEF Sole
  <2> QED
    BY <1>4, <2>2 DEF Sole
<1>5. CASE j.pc = "info"
  <2>1. EntriesToUserInfo(j) /\ j.user = k /\ local[k] = None /\ synced[k] = None
    BY <1>1, <1>5, StepOf DEF OwnDeleted
  <2>2. GetServiceInfosByUserInfo(k) = {}
    BY <1>2, <2>1, KeyOnly DEF GetServiceInfosByUserInfo
  <2>3. Ends(j) /\ UNCHANGED stores
    BY <1>2, <2>1, <2>2 DEF EntriesToUserInfo
  <2>4. \A i \in On(k) : i.pc = "info" /\ i.user = k
    BY <1>1, <1>5 DEF OwnDeleted, Sole
  <2>5. On(k)' \subseteq On(k)
    BY <2>3, EndsIs, OnReplaced
  <2> QED
    BY <2>1, <2>3, <2>4, <2>5 DEF OwnDeleted, stores
<1>6. CASE j.pc = "find"
  <2>1. FindKeys(j) /\ Sole(k, j) /\ local[k] = synced[k]
    BY <1>1, <1>6, StepOf DEF OwnDeleted
  <2>2. PICK keys, i : /\ UNCHANGED stores /\ ((keys = {} /\ Ends(j)) \/ GoesOn(j, i))
                       /\ (k \in keys <=> local[k] # None)
                       /\ i.user = j.user /\ i.pc = "del" /\ i.keys = keys \cap Matching(j.user)
    <3> DEFINE keys == {r \in Keys : r.udid = j.user.udid /\ local[r] # None}
               i == [j EXCEPT !.pc = "del", !.keys = keys \cap Matching(j.user)]
    <3>1. UNCHANGED stores /\ ((keys = {} /\ Ends(j)) \/ GoesOn(j, i))
      BY <1>2, <2>1 DEF FindKeys
    <3>2. k \in keys <=> local[k] # None
      BY <1>2
    <3>3. i.user = j.user /\ i.pc = "del" /\ i.keys = keys \cap Matching(j.user)
      BY <1>1 DEF JobStates
    <3> HIDE DEF keys, i
    <3> QED
      BY <3>1, <3>2, <3>3
  <2>5. CASE keys = {} /\ Ends(j)
    <3>1. On(k)' = {} /\ local[k] = None
      BY <1>4, <2>1, <2>2, <2>5
    <3> QED
      BY <2>1, <2>2, <3>1 DEF OwnDeleted, stores
  <2>6. CASE GoesOn(j, i)
    <3>1. On(k)' = {i} /\ Sole(k, i)'
      BY <1>3, <1>6, <2>1, <2>2, <2>6
    <3>2. local'[k] # None <=> k \in i.keys
      BY <1>1, <2>2 DEF stores
    <3> QED
      BY <2>1, <2>2, <3>1, <3>2 DEF OwnDeleted, stores
  <2> QED
    BY <2>2, <2>5, <2>6
<1>7. CASE j.pc = "del"
  <2>1. DeleteLocal(j) /\ Sole(k, j) /\ local[k] = synced[k] /\ (local[k] # None <=> k \in j.keys)
    BY <1>1, <1>7, StepOf DEF OwnDeleted
  <2>2. synced' = synced
    BY <2>1 DEF DeleteLocal
  <2>3. CASE j.keys = {} /\ Ends(j) /\ local' = local
    <3>1. On(k)' = {} /\ local[k] = None
      BY <1>4, <2>1, <2>3
    <3> QED
      BY <2>1, <2>2, <2>3, <3>1 DEF OwnDeleted
  <2>4. CASE local' = [r \in Keys |-> IF r \in j.keys THEN None ELSE local[r]] /\ GoesOn(j, [j EXCEPT !.pc = "delSync"])
    <3> DEFINE i == [j EXCEPT !.pc = "delSync"]
    <3>1. i.user = j.user /\ i.pc = "delSync" /\ i.keys = j.keys
      BY <1>1 DEF JobStates
    <3>2. GoesOn(j, i)
      BY <2>4
    <3> HIDE DEF i
    <3>3. On(k)' = {i} /\ Sole(k, i)'
      BY <1>3, <1>7, <2>1, <3>1, <3>2
    <3>4. local'[k] = None /\ (synced[k] # None => k \in i.keys)
      BY <1>2, <2>1, <2>4, <3>1
    <3> QED
      BY <2>2, <3>1, <3>3, <3>4 DEF OwnDeleted
  <2> QED
    BY <1>2, <2>1, <2>3, <2>4 DEF DeleteLocal
<1>8. CASE j.pc = "delSync"
  <2>1. DeleteSyncServiceInfo(j) /\ Sole(k, j) /\ local[k] = None /\ (synced[k] # None => k \in j.keys)
    BY <1>1, <1>8, StepOf DEF OwnDeleted
  <2> DEFINE gone == {r \in j.keys : synced[r] # None}
             B == OnChange(gone, "delete")
  <2>2. /\ local' = local /\ synced' = [r \in Keys |-> IF r \in j.keys THEN None ELSE synced[r]]
        /\ jobs' = Others(j) (+) B
    BY <1>2, <2>1 DEF DeleteSyncServiceInfo
  <2>3. gone \subseteq Keys
    BY <1>1
  <2>4. B \in [DOMAIN B -> Nat \ {0}] /\ DOMAIN B \subseteq {Echo("delete", r) : r \in gone}
    BY AnnouncedIs
  <2> HIDE DEF gone, B
  <2>5. Replaced(j, DOMAIN B)
    BY <2>2, <2>4, LeavesIs
  <2>6. \A i \in DOMAIN B : i.pc = "info" /\ i.user \in Keys
    BY <2>3, <2>4, EchoIs
  <2>7. On(k)' \subseteq On(k) \cup DOMAIN B /\ j \notin On(k)'
    BY <1>8, <2>1, <2>5, <2>6, OnReplaced DEF Sole
  <2>8. ASSUME NEW i \in On(k)' PROVE i.pc = "info" /\ i.user = k
    <3>1. i \in DOMAIN B
      BY <2>1, <2>7 DEF Sole
    <3>2. k \in Matching(i.user)
      BY DEF On, Matching, IsKeyMatch
    <3> QED
      BY <2>6, <3>1, <3>2, KeyOnly
  <2>9. local'[k] = None /\ synced'[k] = None
    BY <1>2, <2>1, <2>2
  <2> QED
    BY <2>8, <2>9 DEF OwnDeleted
<1> QED
  BY <1>1, <1>5, <1>6, <1>7, <1>8 DEF OwnDeleted

\* A notification, and the threads that carry it.
LEMMA ToldIs ==
    ASSUME IInv, NEW j \in DOMAIN jobs, Told(j), NEW k \in Keys, j.user = k
    PROVE  /\ j.sub \in listeners /\ Ends(j)
           /\ \A s \in listeners : told'[s][k] = IF s = j.sub THEN IF j.change = "delete" THEN None ELSE j.value
                                                 ELSE told[s][k]
PROOF
<1> DEFINE v == IF j.change = "delete" THEN None ELSE j.value
<1>1. told' = [told EXCEPT ![j.sub] = [told[j.sub] EXCEPT ![k] = v]] /\ Ends(j) /\ j.pc = "told"
  BY DEF Told, At
<1> HIDE DEF v
<1>2. told \in [Subscribers -> [Keys -> Values]] /\ listeners \subseteq Subscribers /\ j.sub \in listeners
  BY <1>1 DEF IInv, Stored, State, Threads
<1>3. \A s \in listeners : told'[s][k] = IF s = j.sub THEN v ELSE told[s][k]
  BY <1>1, <1>2
<1> QED
  BY <1>1, <1>2, <1>3 DEF v

LEMMA NotifyIs ==
    ASSUME IInv, BagInv, NEW j \in DOMAIN jobs, Notify(j)
    PROVE  \E new : /\ Replaced(j, new)
                    /\ \A i \in new : i.user = j.user /\ i.pc = "told" /\ i.value = j.value /\ i.change = j.change
                    /\ \A s \in listeners : \E i \in new : i.sub = s
PROOF
<1> DEFINE new == {[j EXCEPT !.pc = "told", !.sub = s, !.keys = {}] : s \in listeners}
           B == SetToBag(new)
<1>1. j \in JobStates
  BY JobOf DEF IInv
<1>2. \A i \in new : i.user = j.user /\ i.pc = "told" /\ i.value = j.value /\ i.change = j.change
  BY <1>1 DEF JobStates
<1>3. ASSUME NEW s \in listeners PROVE \E i \in new : i.sub = s
  <2> DEFINE i == [j EXCEPT !.pc = "told", !.sub = s, !.keys = {}]
  <2>1. i \in new
    OBVIOUS
  <2>2. i.sub = s
    BY <1>1 DEF JobStates
  <2> HIDE DEF i, new
  <2> QED
    BY <2>1, <2>2
<1>4. DOMAIN B = new /\ B \in [DOMAIN B -> Nat \ {0}] /\ jobs' = Others(j) (+) B
  BY SetBag DEF Notify
<1> HIDE DEF new, B
<1>5. Replaced(j, new)
  BY <1>4, LeavesIs
<1> QED
  BY <1>2, <1>3, <1>5

\* An info of another device.
LEMMA PeerWrittenKept ==
    ASSUME IInv, BagInv, NEW j \in DOMAIN jobs, Step(j), NEW k \in Keys \ OwnKeys, Fine(j, k), synced[k] \in Infos,
           PeerWritten(k)
    PROVE  PeerWritten(k)' /\ synced'[k] = synced[k]
PROOF
<1>1. PICK v : v = synced[k]
  OBVIOUS
<1>2. /\ j \in On(k) /\ j.user = k /\ j.pc \in {"read", "put", "tell", "told"} /\ j.change \in {"insert", "update"}
      /\ j.pc # "read" => j.value = v
  BY <1>1 DEF PeerWritten, Fine, On
<1>3. k \in Keys /\ k \notin OwnKeys /\ v \in Infos /\ ~Failed(j) /\ j \in JobStates /\ j.change # None
  <2>1. ~Failed(j) /\ j \in JobStates
    BY JobOf DEF Failed, Fine, IInv
  <2> QED
    BY <1>1, <1>2, <2>1, ServiceInfosAssumption
<1>4. synced' = synced /\ listeners' = listeners
  BY <1>2, StepOf DEF ReadSynced, PutLocal, Notify, Told, stores
<1>5. ASSUME NEW new, Replaced(j, new), local'[k] \in {local[k], v},
             \A i \in new : /\ i.user = k /\ i.pc \in {"read", "put", "tell", "told"}
                            /\ i.change \in {"insert", "update"} /\ (i.pc # "read" => i.value = v),
             local'[k] = v \/ j.pc \notin {"read", "put"} \/ \E i \in new : i.pc \in {"read", "put"},
             \A s \in listeners : \/ told'[s][k] = v
                                  \/ told'[s][k] = told[s][k] /\ ~(j.pc \in {"read", "put", "tell"} \/ (j.pc = "told" /\ j.sub = s))
                                  \/ \E i \in new : i.pc \in {"read", "put", "tell"} \/ (i.pc = "told" /\ i.sub = s)
      PROVE  PeerWritten(k)'
  <2>1. /\ On(k) \ {j} \subseteq On(k)' /\ On(k)' \subseteq On(k) \cup new
        /\ \A i \in new : i \in On(k)'
    BY <1>3, <1>5, OnReplaced, KeyOnly
  <2>2. \A i \in On(k)' : /\ i.user = k /\ i.pc \in {"read", "put", "tell", "told"}
                          /\ i.change \in {"insert", "update"} /\ (i.pc # "read" => i.value = v)
    BY <1>1, <1>5, <2>1 DEF PeerWritten
  <2>3. local'[k] = v \/ \E i \in On(k)' : i.pc \in {"read", "put"}
    BY <1>1, <1>5, <2>1 DEF PeerWritten
  <2>4. ASSUME NEW s \in listeners, told'[s][k] # v
        PROVE  \E i \in On(k)' : i.pc \in {"read", "put", "tell"} \/ (i.pc = "told" /\ i.sub = s)
    <3>1. CASE \E i \in new : i.pc \in {"read", "put", "tell"} \/ (i.pc = "told" /\ i.sub = s)
      BY <2>1, <3>1
    <3>2. CASE told'[s][k] = told[s][k] /\ ~(j.pc \in {"read", "put", "tell"} \/ (j.pc = "told" /\ j.sub = s))
      BY <1>1, <2>1, <2>4, <3>2 DEF PeerWritten
    <3> QED
      BY <1>5, <2>4, <3>1, <3>2
  <2> QED
    BY <1>1, <1>4, <2>2, <2>3, <2>4 DEF PeerWritten
<1> DEFINE Later(pc) == [j EXCEPT !.pc = pc, !.value = v]
<1>6. ASSUME NEW pc, GoesOn(j, Later(pc))
      PROVE  \E i : /\ i.user = k /\ i.pc = pc /\ i.value = v /\ i.change = j.change /\ Replaced(j, {i})
  <2> DEFINE i == Later(pc)
  <2>1. i.user = k /\ i.pc = pc /\ i.value = v /\ i.change = j.change
    BY <1>2, <1>3 DEF JobStates
  <2> HIDE DEF i
  <2>2. Replaced(j, {i})
    BY <1>6, GoesOnIs DEF i
  <2> QED
    BY <2>1, <2>2
<1> HIDE DEF Later
<1>7. CASE j.pc = "read"
  <2>1. UNCHANGED <<stores, told>> /\ GoesOn(j, Later("put"))
    BY <1>1, <1>2, <1>3, <1>7, StepOf, NoneApart DEF ReadSynced, GetEntriesByKeys, ParseAndValidateJSON, Later
  <2>2. PICK i : i.user = k /\ i.pc = "put" /\ i.value = v /\ i.change = j.change /\ Replaced(j, {i})
    BY <1>6, <2>1
  <2> QED
    BY <1>2, <1>4, <1>5, <2>1, <2>2 DEF stores
<1>8. CASE j.pc = "put"
  <2>1. local' = [local EXCEPT ![k] = v] /\ GoesOn(j, [j EXCEPT !.pc = "tell"]) /\ told' = told
    BY <1>2, <1>3, <1>8, StepOf DEF PutLocal
  <2>2. [j EXCEPT !.pc = "tell"] = [j EXCEPT !.pc = "tell", !.value = v]
    BY <1>2, <1>3, <1>8 DEF JobStates
  <2>3. PICK i : i.user = k /\ i.pc = "tell" /\ i.value = v /\ i.change = j.change /\ Replaced(j, {i})
    BY <1>6, <2>1, <2>2 DEF Later
  <2>4. local'[k] = v
    BY <1>3, <2>1 DEF IInv, Stored
  <2> QED
    BY <1>2, <1>4, <1>5, <2>1, <2>3, <2>4
<1>9. CASE j.pc = "tell"
  <2>1. Notify(j) /\ UNCHANGED <<stores, told>>
    BY <1>9, StepOf DEF Notify
  <2>2. PICK new : /\ Replaced(j, new)
                   /\ \A i \in new : i.user = j.user /\ i.pc = "told" /\ i.value = j.value /\ i.change = j.change
                   /\ \A s \in listeners : \E i \in new : i.sub = s
    BY <2>1, NotifyIs
  <2> QED
    BY <1>2, <1>4, <1>5, <1>9, <2>1, <2>2 DEF stores
<1>10. CASE j.pc = "told"
  <2>1. Told(j) /\ UNCHANGED stores
    BY <1>10, StepOf DEF Told
  <2>2. /\ Replaced(j, {})
        /\ \A s \in listeners : told'[s][k] = IF s = j.sub THEN v ELSE told[s][k]
    BY <1>2, <1>3, <1>10, <2>1, ToldIs, EndsIs
  <2> QED
    BY <1>2, <1>4, <1>5, <1>10, <2>1, <2>2 DEF stores
<1> QED
  BY <1>2, <1>4, <1>7, <1>8, <1>9, <1>10

\* One that is gone there.
LEMMA PeerDeletedKept ==
    ASSUME IInv, BagInv, NEW j \in DOMAIN jobs, Step(j), NEW k \in Keys \ OwnKeys, Fine(j, k), synced[k] = None,
           PeerDeleted(k)
    PROVE  PeerDeleted(k)' /\ synced'[k] = synced[k]
PROOF
<1>1. j \in On(k) /\ j.user = k /\ j.pc \in {"info", "find", "del", "tell", "told"} /\ j.change = "delete"
  BY DEF PeerDeleted, Fine, On
<1>2. /\ k \in Keys /\ k \notin OwnKeys /\ k.udid # Own /\ ~Failed(j) /\ ~crashed' /\ j.change # None
      /\ j \in JobStates /\ j.keys \subseteq {k}
  <2>1. ~Failed(j) /\ j \in JobStates /\ ~crashed' /\ j.keys \subseteq {k}
    BY <1>1, JobOf, KeyOnly DEF Failed, Fine, IInv, BagInv
  <2> QED
    BY <1>1, <2>1, ServiceInfosAssumption DEF OwnKeys
<1>3. synced' = synced /\ listeners' = listeners
  BY <1>1, StepOf DEF EntriesToUserInfo, FindKeys, DeleteLocal, Notify, Told, stores
<1>4. ASSUME NEW new, Replaced(j, new), local'[k] \in {local[k], None},
             \A i \in new : i.user = k /\ i.pc \in {"info", "find", "del", "tell", "told"} /\ i.change = "delete",
             \/ local'[k] = None \/ ~(j.pc \in {"info", "find"} \/ (j.pc = "del" /\ k \in j.keys))
             \/ \E i \in new : i.pc \in {"info", "find"} \/ (i.pc = "del" /\ k \in i.keys),
             \A s \in listeners : \/ told'[s][k] = None
                                  \/ /\ told'[s][k] = told[s][k] /\ local'[k] = local[k]
                                     /\ ~(j.pc = "tell" \/ (j.pc = "told" /\ j.sub = s))
                                  \/ \E i \in new : i.pc = "tell" \/ (i.pc = "told" /\ i.sub = s)
      PROVE  PeerDeleted(k)'
  <2>1. /\ On(k) \ {j} \subseteq On(k)' /\ On(k)' \subseteq On(k) \cup new
        /\ \A i \in new : i \in On(k)'
    BY <1>2, <1>4, OnReplaced, KeyOnly
  <2>2. \A i \in On(k)' : i.user = k /\ i.pc \in {"info", "find", "del", "tell", "told"} /\ i.change = "delete"
    BY <1>4, <2>1 DEF PeerDeleted
  <2>3. local'[k] = None \/ \E i \in On(k)' : i.pc \in {"info", "find"} \/ (i.pc = "del" /\ k \in i.keys)
    <3> SUFFICES ASSUME local'[k] # None
                 PROVE  \E i \in On(k)' : i.pc \in {"info", "find"} \/ (i.pc = "del" /\ k \in i.keys)
      OBVIOUS
    <3>1. PICK i \in On(k) : i.pc \in {"info", "find"} \/ (i.pc = "del" /\ k \in i.keys)
      BY <1>4 DEF PeerDeleted
    <3>2. CASE i # j
      BY <2>1, <3>1, <3>2
    <3>3. CASE i = j
      BY <1>4, <2>1, <3>1, <3>3
    <3> QED
      BY <3>2, <3>3
  <2>4. ASSUME NEW s \in listeners, told'[s][k] # None, local'[k] = None
        PROVE  \E i \in On(k)' : i.pc = "tell" \/ (i.pc = "told" /\ i.sub = s)
    <3>1. CASE \E i \in new : i.pc = "tell" \/ (i.pc = "told" /\ i.sub = s)
      BY <2>1, <3>1
    <3>2. CASE /\ told'[s][k] = told[s][k] /\ local'[k] = local[k]
               /\ ~(j.pc = "tell" \/ (j.pc = "told" /\ j.sub = s))
      BY <2>1, <2>4, <3>2 DEF PeerDeleted
    <3> QED
      BY <1>4, <2>4, <3>1, <3>2
  <2> QED
    BY <1>3, <2>2, <2>3, <2>4 DEF PeerDeleted
<1>5. CASE j.pc = "info"
  <2>1. EntriesToUserInfo(j) /\ UNCHANGED <<local, told>>
    BY <1>5, StepOf DEF EntriesToUserInfo, stores
  <2>2. CASE GetServiceInfosByUserInfo(k) = {}
    <3>1. Ends(j)
      BY <1>1, <1>2, <2>1, <2>2 DEF EntriesToUserInfo
    <3>2. local[k] = None
      BY <1>2, <2>2, KeyOnly DEF GetServiceInfosByUserInfo
    <3> QED
      BY <1>3, <1>4, <1>5, <2>1, <3>1, <3>2, EndsIs
  <2>3. CASE GetServiceInfosByUserInfo(k) # {}
    <3>1. PICK w : GoesOn(j, [j EXCEPT !.pc = "find", !.value = w])
      BY <1>1, <1>2, <2>1, <2>3 DEF EntriesToUserInfo
    <3> DEFINE i == [j EXCEPT !.pc = "find", !.value = w]
    <3>2. i.user = k /\ i.pc = "find" /\ i.change = "delete"
      BY <1>1, <1>2 DEF JobStates
    <3> HIDE DEF i
    <3>3. Replaced(j, {i})
      BY <3>1, GoesOnIs DEF i
    <3> QED
      BY <1>3, <1>4, <1>5, <2>1, <3>2, <3>3
  <2> QED
    BY <2>2, <2>3
<1>6. CASE j.pc = "find"
  <2>1. FindKeys(j) /\ UNCHANGED <<local, told>>
    BY <1>6, StepOf DEF FindKeys, stores
  <2>2. PICK keys, i : /\ (keys = {} /\ Ends(j)) \/ GoesOn(j, i)
                       /\ (k \in keys <=> local[k] # None)
                       /\ i.user = k /\ i.pc = "del" /\ i.change = "delete" /\ i.keys = keys \cap Matching(k)
    <3> DEFINE keys == {r \in Keys : r.udid = j.user.udid /\ local[r] # None}
               i == [j EXCEPT !.pc = "del", !.keys = keys \cap Matching(j.user)]
    <3>1. (keys = {} /\ Ends(j)) \/ GoesOn(j, i)
      BY <1>2, <2>1 DEF FindKeys
    <3>2. k \in keys <=> local[k] # None
      BY <1>1, <1>2
    <3>3. i.user = k /\ i.pc = "del" /\ i.change = "delete" /\ i.keys = keys \cap Matching(k)
      BY <1>1, <1>2 DEF JobStates
    <3> HIDE DEF keys, i
    <3> QED
      BY <3>1, <3>2, <3>3
  <2>3. CASE keys = {} /\ Ends(j)
    BY <1>3, <1>4, <1>6, <2>1, <2>2, <2>3, EndsIs
  <2>4. CASE GoesOn(j, i)
    <3>1. Replaced(j, {i})
      BY <2>4, GoesOnIs
    <3>2. local[k] = None \/ k \in i.keys
      BY <1>2, <2>2, KeyOnly
    <3> QED
      BY <1>3, <1>4, <1>6, <2>1, <2>2, <3>1, <3>2
  <2> QED
    BY <2>2, <2>3, <2>4
<1>7. CASE j.pc = "del"
  <2>1. DeleteLocal(j) /\ told' = told
    BY <1>7, StepOf DEF DeleteLocal
  <2>2. CASE j.keys = {} /\ Ends(j) /\ local' = local
    BY <1>3, <1>4, <1>7, <2>1, <2>2, EndsIs
  <2>3. CASE /\ j.keys # {} /\ local' = [r \in Keys |-> IF r \in j.keys THEN None ELSE local[r]]
             /\ GoesOn(j, [j EXCEPT !.pc = "tell"])
    <3> DEFINE i == [j EXCEPT !.pc = "tell"]
    <3>1. i.user = k /\ i.pc = "tell" /\ i.change = "delete"
      BY <1>1, <1>2 DEF JobStates
    <3> HIDE DEF i
    <3>2. Replaced(j, {i})
      BY <2>3, GoesOnIs DEF i
    <3>3. local'[k] = None
      BY <1>2, <2>3
    <3> QED
      BY <1>3, <1>4, <1>7, <3>1, <3>2, <3>3
  <2> QED
    BY <1>1, <1>2, <2>1, <2>2, <2>3 DEF DeleteLocal
<1>8. CASE j.pc = "tell"
  <2>1. Notify(j) /\ UNCHANGED <<local, told>>
    BY <1>8, StepOf DEF Notify, stores
  <2>2. PICK new : /\ Replaced(j, new)
                   /\ \A i \in new : i.user = j.user /\ i.pc = "told" /\ i.value = j.value /\ i.change = j.change
                   /\ \A s \in listeners : \E i \in new : i.sub = s
    BY <2>1, NotifyIs
  <2> QED
    BY <1>1, <1>3, <1>4, <1>8, <2>1, <2>2
<1>9. CASE j.pc = "told"
  <2>1. Told(j) /\ local' = local
    BY <1>9, StepOf DEF Told, stores
  <2>2. /\ Replaced(j, {})
        /\ \A s \in listeners : told'[s][k] = IF s = j.sub THEN None ELSE told[s][k]
    BY <1>1, <1>2, <2>1, ToldIs, EndsIs
  <2> QED
    BY <1>3, <1>4, <1>9, <2>1, <2>2
<1> QED
  BY <1>1, <1>3, <1>5, <1>6, <1>7, <1>8, <1>9

-----------------------------------------------------------------------------
(* What the actions keep of the copies.                                    *)
LEMMA StepCopies ==
    ASSUME IInv, BagInv, CopiesInv, NEW j \in DOMAIN jobs, Step(j)
    PROVE  BagInv' /\ CopiesInv'
PROOF
<1>1. BagInv'
  <2>1. CASE jobs' = EmptyBag
    BY <2>1, SetBag DEF BagInv, EmptyBag
  <2>2. ASSUME NEW new, Replaced(j, new), Within(j, new) PROVE BagInv'
    <3>1. \A i \in DOMAIN jobs' : i \in new \/ i \in DOMAIN jobs
      BY <2>2 DEF Replaced
    <3>2. \A i \in DOMAIN jobs' : i.keys \subseteq Matching(i.user)
      BY <2>2, <3>1 DEF BagInv, Within
    <3> QED
      BY <2>2, <3>2 DEF BagInv, Replaced, Matching, IsKeyMatch
  <2> QED
    BY <2>1, <2>2, StepReplaces
<1>2. asked' = asked /\ tainted \subseteq tainted' /\ (~crashed' => ~crashed)
  BY DEF Step, ReadSynced, PutLocal, PutSynced, EntriesToUserInfo, FindKeys, DeleteLocal, DeleteSyncServiceInfo, Notify,
     Told, Failed, At, history
<1>3. ASSUME NEW k \in Keys, k \notin tainted', ~crashed' PROVE CopyInv(k)'
  <2>1. CopyInv(k)
    BY <1>2, <1>3 DEF CopiesInv
  <2>2. CASE k \notin Matching(j.user)
    BY <1>3, <2>1, <2>2, StepElsewhere
  <2>3. CASE Fine(j, k) /\ k \in OwnKeys /\ asked[k] = None
    <3>1. OwnDeleted(k)'
      BY <2>1, <2>3, OwnDeletedKept DEF CopyInv
    <3> QED
      BY <1>2, <2>3, <3>1 DEF CopyInv, OwnKeys
  <2>4. CASE Fine(j, k) /\ k \in OwnKeys /\ asked[k] # None
    <3>1. asked[k] \in Infos
      BY <2>4, NoneApart DEF IInv, History
    <3>2. OwnWritten(k)'
      BY <2>1, <2>4, <3>1, OwnWrittenKept DEF CopyInv
    <3> QED
      BY <1>2, <2>4, <3>2 DEF CopyInv, OwnKeys
  <2>5. CASE Fine(j, k) /\ k \notin OwnKeys /\ synced[k] = None
    <3>1. PeerDeleted(k)' /\ synced'[k] = synced[k]
      BY <2>1, <2>5, PeerDeletedKept DEF CopyInv
    <3> QED
      BY <2>1, <2>5, <3>1 DEF CopyInv, OwnKeys, Values
  <2>6. CASE Fine(j, k) /\ k \notin OwnKeys /\ synced[k] # None
    <3>1. synced[k] \in Infos
      BY <2>1, <2>6, NoneApart DEF CopyInv
    <3>2. PeerWritten(k)' /\ synced'[k] = synced[k]
      BY <2>1, <2>6, <3>1, PeerWrittenKept DEF CopyInv
    <3> QED
      BY <2>1, <2>6, <3>2 DEF CopyInv, OwnKeys, Values
  <2> QED
    BY <1>3, <2>2, <2>3, <2>4, <2>5, <2>6 DEF Fine
<1> QED
  BY <1>1, <1>3 DEF CopiesInv

\* A thread that begins.
LEMMA StartsIs ==
    ASSUME BagInv, NEW B, B \in [DOMAIN B -> Nat \ {0}], jobs' = jobs (+) B,
           \A i \in DOMAIN B : i.keys = {}
    PROVE  /\ BagInv'
           /\ \A k \in Keys : /\ (\A i \in DOMAIN B : k \notin Matching(i.user))
                                    => On(k)' = On(k) /\ \A i \in On(k) : jobs'[i] = jobs[i]
                              /\ On(k) = {} => /\ On(k)' = {i \in DOMAIN B : k \in Matching(i.user)}
                                               /\ \A i \in On(k)' : jobs'[i] = B[i]
                              /\ On(k)' \subseteq On(k) \cup DOMAIN B
PROOF
<1>1. jobs \in [DOMAIN jobs -> Nat \ {0}]
  BY DEF BagInv
<1>2. /\ DOMAIN jobs' = DOMAIN jobs \cup DOMAIN B
      /\ \A e \in DOMAIN jobs \ DOMAIN B : jobs'[e] = jobs[e]
      /\ \A e \in DOMAIN B \ DOMAIN jobs : jobs'[e] = B[e]
      /\ jobs' \in [DOMAIN jobs' -> Nat \ {0}]
  BY <1>1, BagPlus
<1>3. \A i, k : (k \in Matching(i.user))' <=> k \in Matching(i.user)
  BY DEF Matching, IsKeyMatch
<1>4. \A k : On(k)' = {i \in DOMAIN jobs' : k \in Matching(i.user)}
  BY <1>3 DEF On
<1>5. BagInv'
  <2>1. \A i \in DOMAIN jobs' : i.keys \subseteq Matching(i.user)
    BY <1>2 DEF BagInv
  <2> QED
    BY <1>2, <2>1 DEF BagInv, Matching, IsKeyMatch
<1>6. ASSUME NEW k \in Keys, \A i \in DOMAIN B : k \notin Matching(i.user)
      PROVE  On(k)' = On(k) /\ \A i \in On(k) : jobs'[i] = jobs[i]
  BY <1>2, <1>4, <1>6 DEF On
<1>7. ASSUME NEW k \in Keys, On(k) = {}
      PROVE  On(k)' = {i \in DOMAIN B : k \in Matching(i.user)} /\ \A i \in On(k)' : jobs'[i] = B[i]
  BY <1>2, <1>4, <1>7 DEF On
<1>8. \A k \in Keys : On(k)' \subseteq On(k) \cup DOMAIN B
  BY <1>2, <1>4 DEF On
<1> QED
  BY <1>5, <1>6, <1>7, <1>8

LEMMA JobIs == \A pc, change, u, v : LET j == Job(pc, change, u, v) IN
                   j.pc = pc /\ j.change = change /\ j.user = u /\ j.value = v /\ j.keys = {}
PROOF
  BY DEF Job

LEMMA PutCopies ==
    ASSUME IInv, BagInv, CopiesInv, NEW r \in Keys, NEW v \in Infos, PutServiceInfo(r, v)
    PROVE  BagInv' /\ CopiesInv'
PROOF
<1> DEFINE i == Job("put", None, r, v)
           B == SetToBag({i})
<1>1. i.pc = "put" /\ i.user = r /\ i.value = v /\ i.keys = {}
  BY JobIs
<1>2. DOMAIN B = {i} /\ B \in [DOMAIN B -> Nat \ {0}] /\ jobs' = jobs (+) B
  BY SetBag DEF PutServiceInfo
<1> HIDE DEF i, B
<1>3. /\ BagInv'
      /\ \A k \in Keys : /\ k \notin Matching(r) => On(k)' = On(k) /\ \A e \in On(k) : jobs'[e] = jobs[e]
                         /\ On(k) = {} => On(k)' = {e \in {i} : k \in Matching(e.user)}
  BY <1>1, <1>2, StartsIs
<1>4. UNCHANGED <<stores, listeners, told, crashed>>
      /\ asked' = (IF r \in OwnKeys THEN [asked EXCEPT ![r] = v] ELSE asked)
      /\ tainted' = (IF r \in OwnKeys THEN (tainted \ {r}) \cup Overlapping({r}) ELSE tainted \cup {r})
  BY DEF PutServiceInfo
<1>5. ASSUME NEW k \in Keys, k \notin tainted', ~crashed', k # r PROVE CopyInv(k)'
  <2>1. k \notin tainted /\ ~crashed /\ k \notin Matching(r)
    BY <1>4, <1>5, KeyOnly
  <2>2. asked'[k] = asked[k] /\ local' = local /\ synced' = synced
    BY <1>4, <1>5 DEF IInv, History, stores
  <2>3. CopyInv(k)
    BY <2>1 DEF CopiesInv
  <2> QED
    BY <1>3, <1>4, <2>1, <2>2, <2>3, CopyFrame
<1>6. ASSUME r \notin tainted' PROVE CopyInv(r)'
  <2>1. r \in OwnKeys /\ r \notin Overlapping({r}) /\ asked'[r] = v
    BY <1>4, <1>6 DEF IInv, History
  <2>2. On(r)' = {i}
    BY <1>1, <1>3, <2>1, KeyOnly, OverlapIs
  <2>3. OwnWritten(r)'
    BY <1>1, <2>1, <2>2 DEF OwnWritten
  <2>4. asked'[r] # None
    BY <2>1, NoneApart
  <2> QED
    BY <2>1, <2>3, <2>4 DEF CopyInv, OwnKeys
<1> QED
  BY <1>3, <1>5, <1>6 DEF CopiesInv

LEMMA DeleteCopies ==
    ASSUME IInv, BagInv, CopiesInv, NEW u \in UserInfos, DeleteServiceInfo(u)
    PROVE  BagInv' /\ CopiesInv'
PROOF
<1> DEFINE i == Job("find", None, u, None)
           B == SetToBag({i})
<1>1. i.pc = "find" /\ i.user = u /\ i.keys = {}
  BY JobIs
<1>2. DOMAIN B = {i} /\ B \in [DOMAIN B -> Nat \ {0}] /\ B[i] = 1 /\ jobs' = jobs (+) B
  BY SetBag DEF DeleteServiceInfo
<1> HIDE DEF i, B
<1>3. /\ BagInv'
      /\ \A k \in Keys : /\ k \notin Matching(u) => On(k)' = On(k) /\ \A e \in On(k) : jobs'[e] = jobs[e]
                         /\ On(k) = {} => /\ On(k)' = {e \in {i} : k \in Matching(e.user)}
                                          /\ \A e \in On(k)' : jobs'[e] = B[e]
  BY <1>1, <1>2, StartsIs
<1>4. /\ UNCHANGED <<stores, listeners, told, crashed>>
      /\ asked' = [k \in Keys |-> IF k \in Matching(u) THEN None ELSE asked[k]]
      /\ tainted' = tainted \cup (IF u.udid = Own THEN Overlapping(Matching(u)) ELSE Matching(u))
  BY DEF DeleteServiceInfo
<1>5. ASSUME NEW k \in Keys, k \notin tainted', ~crashed', k \notin Matching(u) PROVE CopyInv(k)'
  <2>1. k \notin tainted /\ ~crashed
    BY <1>4, <1>5
  <2>2. asked'[k] = asked[k] /\ local' = local /\ synced' = synced
    BY <1>4, <1>5 DEF IInv, History, stores
  <2>3. CopyInv(k)
    BY <2>1 DEF CopiesInv
  <2> QED
    BY <1>3, <1>4, <1>5, <2>2, <2>3, CopyFrame
<1>6. ASSUME NEW k \in Keys, k \notin tainted', ~crashed', k \in Matching(u) PROVE CopyInv(k)'
  <2>1. u.udid = Own /\ k \notin Overlapping(Matching(u)) /\ k \notin tainted /\ ~crashed /\ asked'[k] = None
    BY <1>4, <1>6
  <2>2. k \in OwnKeys
    BY <1>6, <2>1 DEF OwnKeys, Matching, IsKeyMatch
  <2>3. On(k) = {}
    BY <1>6, <2>1, OverlapIs
  <2>4. local[k] = synced[k]
    <3>1. CopyInv(k)
      BY <2>1 DEF CopiesInv
    <3> QED
      BY <2>2, <2>3, <3>1 DEF CopyInv, OwnDeleted, OwnWritten
  <2>5. On(k)' = {i} /\ Sole(k, i)'
    BY <1>1, <1>2, <1>3, <1>6, <2>3 DEF Sole
  <2>6. local' = local /\ synced' = synced
    BY <1>4 DEF stores
  <2>7. OwnDeleted(k)'
    BY <1>1, <2>4, <2>5, <2>6 DEF OwnDeleted
  <2> QED
    BY <2>1, <2>2, <2>7 DEF CopyInv, OwnKeys
<1> QED
  BY <1>3, <1>5, <1>6 DEF CopiesInv

LEMMA PeerCopies ==
    ASSUME IInv, BagInv, CopiesInv, NEW r \in Keys, NEW v \in Values \cup {Broken}, PeerChange(r, v)
    PROVE  BagInv' /\ CopiesInv'
PROOF
<1>10. PICK op : op = Op(r, v)
  OBVIOUS
<1> DEFINE B == OnChange({r}, op)
<1>1. /\ B \in [DOMAIN B -> Nat \ {0}] /\ DOMAIN B \subseteq {Echo(op, r)}
      /\ Registered # {} => DOMAIN B = {Echo(op, r)}
  <2> DEFINE es(keys) == {Echo(op, k) : k \in keys}
  <2>1. /\ B \in [DOMAIN B -> Nat \ {0}] /\ DOMAIN B \subseteq es({r})
        /\ Registered # {} => DOMAIN B = es({r})
    BY AnnouncedIs
  <2>2. es({r}) = {Echo(op, r)}
    OBVIOUS
  <2> QED
    BY <2>1, <2>2
<1>2. jobs' = jobs (+) B /\ r \notin OwnKeys /\ ~crashed /\ v # synced[r]
  BY <1>10 DEF PeerChange, Count
<1>3. op = (IF v = None THEN "delete" ELSE IF synced[r] = None THEN "insert" ELSE "update")
  BY <1>10 DEF Op
<1>4. \A i \in DOMAIN B : i.pc = (IF op = "delete" THEN "info" ELSE "read") /\ i.change = op /\ i.user = r /\ i.keys = {}
  <2> HIDE DEF B
  <2> QED
    BY <1>1, EchoIs
<1> HIDE DEF B
<1>5. /\ BagInv'
      /\ \A k \in Keys : /\ k \notin Matching(r) => On(k)' = On(k) /\ \A e \in On(k) : jobs'[e] = jobs[e]
                         /\ On(k) = {} => On(k)' = {e \in DOMAIN B : k \in Matching(e.user)}
  BY <1>1, <1>2, <1>4, StartsIs
<1>6. /\ UNCHANGED <<local, listeners, told, crashed, asked>> /\ synced' = [synced EXCEPT ![r] = v]
      /\ tainted' = IF v \in Infos /\ Registered # {}
                    THEN (tainted \ {r}) \cup Overlapping({r})
                    ELSE tainted \cup Overlapping({r})
                         \cup (IF v = Broken \/ Registered = {} THEN {r} ELSE {})
  BY DEF PeerChange
<1>7. ASSUME NEW k \in Keys, k \notin tainted', k # r PROVE CopyInv(k)'
  <2>1. k \notin tainted /\ k \notin Matching(r)
    BY <1>6, <1>7, KeyOnly
  <2>2. synced'[k] = synced[k]
    BY <1>6, <1>7 DEF IInv, Stored
  <2>3. CopyInv(k)
    BY <1>2, <2>1 DEF CopiesInv
  <2> QED
    BY <1>5, <1>6, <2>1, <2>2, <2>3, CopyFrame
<1>8. ASSUME r \notin tainted' PROVE CopyInv(r)'
  <2>1. On(r) = {} /\ Registered # {} /\ synced'[r] = v
    BY <1>6, <1>8, OverlapIs DEF IInv, Stored
  <2>2. On(r)' = DOMAIN B /\ DOMAIN B = {Echo(op, r)}
    BY <1>1, <1>4, <1>5, <2>1, KeyOnly
  <2>3. CASE v \in Infos
    <3>1. v # None /\ op \in {"insert", "update"}
      BY <1>3, <2>3, NoneApart
    <3>2. PeerWritten(r)'
      BY <1>4, <2>1, <2>2, <3>1 DEF PeerWritten
    <3> QED
      BY <1>2, <2>1, <2>3, <3>1, <3>2 DEF CopyInv, OwnKeys, Values
  <2>4. CASE v = None
    <3>1. r \notin tainted /\ op = "delete"
      BY <1>3, <1>6, <1>8, <2>1, <2>4, NoneApart
    <3>2. PeerWritten(r)
      BY <1>2, <2>4, <3>1 DEF CopyInv, CopiesInv
    <3>3. local'[r] # None
      BY <1>2, <1>6, <2>1, <2>4, <3>2 DEF PeerWritten
    <3>4. PeerDeleted(r)'
      BY <1>4, <2>2, <3>1, <3>3 DEF PeerDeleted
    <3> QED
      BY <1>2, <2>1, <2>4, <3>4 DEF CopyInv, OwnKeys, Values
  <2>5. v \in Infos \/ v = None
    BY <1>6, <1>8 DEF Values
  <2> QED
    BY <2>3, <2>4, <2>5
<1> QED
  BY <1>5, <1>7, <1>8 DEF CopiesInv

LEMMA SubscribeCopies ==
    ASSUME IInv, BagInv, CopiesInv, NEW s \in Subscribers, SubscribeServiceInfo(s)
    PROVE  BagInv' /\ CopiesInv'
PROOF
<1>1. /\ UNCHANGED <<stores, jobs, crashed, asked>> /\ listeners' = listeners \cup {s}
      /\ told' = [told EXCEPT ![s] = local] /\ tainted' = tainted \cup InFlight
  BY DEF SubscribeServiceInfo, GetAllServiceInfoList
<1>2. BagInv'
  BY <1>1 DEF BagInv, Matching, IsKeyMatch
<1>3. ASSUME NEW k \in Keys, k \notin tainted', ~crashed' PROVE CopyInv(k)'
  <2>1. CopyInv(k) /\ On(k) = {}
    BY <1>1, <1>3 DEF CopiesInv, InFlight, On, BagToSet
  <2>2. On(k)' = {} /\ local' = local /\ synced' = synced /\ asked' = asked
    BY <1>1, <2>1 DEF On, Matching, IsKeyMatch, stores
  <2>3. \A t \in listeners' : told'[t][k] = IF t = s THEN local[k] ELSE told[t][k]
    BY <1>1 DEF IInv, Stored, State
  <2>4. \A t \in listeners' : t = s \/ t \in listeners
    BY <1>1
  <2>5. CASE k \in OwnKeys
    BY <2>1, <2>2, <2>5 DEF CopyInv, OwnDeleted, OwnWritten, OwnKeys
  <2>6. CASE k \notin OwnKeys /\ synced[k] = None
    <3>1. PeerDeleted(k)'
      BY <2>1, <2>2, <2>3, <2>4, <2>6 DEF CopyInv, PeerDeleted
    <3> QED
      BY <2>1, <2>2, <2>6, <3>1 DEF CopyInv, OwnKeys, Values
  <2>7. CASE k \notin OwnKeys /\ synced[k] # None
    <3>1. PeerWritten(k)'
      BY <2>1, <2>2, <2>3, <2>4, <2>7 DEF CopyInv, PeerWritten
    <3> QED
      BY <2>1, <2>2, <2>7, <3>1 DEF CopyInv, OwnKeys, Values
  <2> QED
    BY <2>5, <2>6, <2>7
<1> QED
  BY <1>2, <1>3 DEF CopiesInv

LEMMA IdleCopies ==
    ASSUME BagInv, CopiesInv, UNCHANGED <<stores, jobs, listeners, told, crashed, asked, tainted>>
    PROVE  BagInv' /\ CopiesInv'
PROOF
<1>1. BagInv'
  BY DEF BagInv, Matching, IsKeyMatch
<1>2. ASSUME NEW k \in Keys, k \notin tainted', ~crashed' PROVE CopyInv(k)'
  <2>1. CopyInv(k) /\ On(k)' = On(k)
    BY <1>2 DEF CopiesInv, On, Matching, IsKeyMatch
  <2> QED
    BY <2>1, CopyFrame DEF stores
<1> QED
  BY <1>1, <1>2 DEF CopiesInv

-----------------------------------------------------------------------------
LEMMA CopiesKept == IInv /\ BagInv /\ CopiesInv /\ [Next]_vars => BagInv' /\ CopiesInv'
PROOF
<1> SUFFICES ASSUME IInv, BagInv, CopiesInv, [Next]_vars PROVE BagInv' /\ CopiesInv'
  OBVIOUS
<1>1. CASE \E k \in Keys, v \in Values \cup {Broken} : PeerChange(k, v)
  BY <1>1, PeerCopies
<1>2. CASE \E k \in Keys, v \in Infos : PutServiceInfo(k, v)
  BY <1>2, PutCopies
<1>3. CASE \E u \in UserInfos : DeleteServiceInfo(u)
  BY <1>3, DeleteCopies
<1>4. CASE \E s \in Subscribers : SubscribeServiceInfo(s)
  BY <1>4, SubscribeCopies
<1>5. CASE Dies \/ ReInit
  <2>1. UNCHANGED <<stores, jobs, listeners, told, crashed, asked, tainted>>
    BY <1>5 DEF Dies, ReInit, history
  <2> QED
    BY <2>1, IdleCopies
<1>6. CASE \E j \in BagToSet(jobs) : Step(j)
  <2>1. PICK j \in DOMAIN jobs : Step(j)
    BY <1>6 DEF BagToSet
  <2> QED
    BY <2>1, StepCopies
<1>7. CASE UNCHANGED vars
  BY <1>7, IdleCopies DEF vars, stores
<1> QED
  BY <1>1, <1>2, <1>3, <1>4, <1>5, <1>6, <1>7 DEF Next

LEMMA CopiesBegin == Init => IInv /\ BagInv /\ CopiesInv
PROOF
<1> SUFFICES ASSUME Init PROVE IInv /\ BagInv /\ CopiesInv
  OBVIOUS
<1>1. [k \in Keys |-> None] \in [Keys -> Values]
  BY DEF Values
<1>2. DOMAIN jobs = {} /\ jobs \in [DOMAIN jobs -> Nat \ {0}]
  BY BagDomains, SetBag DEF Init, EmptyBag
<1>3. IInv
  BY <1>1, <1>2 DEF Init, IInv, Threads, Stored, State, History
<1>4. BagInv
  BY <1>2 DEF BagInv
<1>5. ASSUME NEW k \in Keys PROVE CopyInv(k)
  <2>1. local[k] = None /\ synced[k] = None /\ asked[k] = None /\ On(k) = {} /\ listeners = {}
    BY <1>2 DEF Init, On
  <2>2. OwnDeleted(k) /\ PeerDeleted(k)
    BY <2>1 DEF OwnDeleted, PeerDeleted
  <2> QED
    BY <2>1, <2>2 DEF CopyInv, Values
<1> QED
  BY <1>3, <1>4, <1>5 DEF CopiesInv

\* At rest: no thread of a key is under way.
LEMMA AtRest ==
    ASSUME IInv, CopiesInv, ~crashed, NEW k \in Keys \ (tainted \cup InFlight)
    PROVE  /\ local[k] = synced[k] /\ (k \in OwnKeys => local[k] = asked[k])
           /\ k \notin OwnKeys => \A s \in listeners : told[s][k] = local[k]
PROOF
<1>1. CopyInv(k) /\ On(k) = {}
  BY DEF CopiesInv, InFlight, On, BagToSet
<1>2. CASE k \in OwnKeys
  BY <1>1, <1>2 DEF CopyInv, OwnDeleted, OwnWritten
<1>3. CASE k \notin OwnKeys /\ synced[k] = None
  BY <1>1, <1>3 DEF CopyInv, PeerDeleted
<1>4. CASE k \notin OwnKeys /\ synced[k] # None
  BY <1>1, <1>4 DEF CopyInv, PeerWritten
<1> QED
  BY <1>2, <1>3, <1>4

\* Once the threads of a key are through, and unless they overlapped or one failed: what
\* readers get is what is synchronised, and what this device's client asked for last; the
\* echoes of its puts and deletions change nothing.
THEOREM CopiesAlwaysAgree == ServiceInfosSpec => []CopiesAgree
PROOF
<1>1. IInv /\ CopiesInv => CopiesAgree
  BY AtRest DEF CopiesAgree
<1> QED
  BY <1>1, CopiesBegin, Kept, CopiesKept, PTL DEF ServiceInfosSpec

\* ... and a subscriber's infos of other devices are the stored ones, whichever of the two
\* observers of the store, and however many notification threads, told it last.
THEOREM SubscribersHaveWhatIsStored == ServiceInfosSpec => []ToldWhatIsStored
PROOF
<1>1. IInv /\ CopiesInv => ToldWhatIsStored
  BY AtRest DEF ToldWhatIsStored
<1> QED
  BY <1>1, CopiesBegin, Kept, CopiesKept, PTL DEF ServiceInfosSpec
=============================================================================
