------------------------- MODULE SwitchProfilesProofs -------------------------
(***************************************************************************)
(* Proofs about SwitchProfiles, for any devices, switches, requests and    *)
(* bounds: its types; that a put writes a word that differs from the       *)
(* stored one in its own switches only, however the change threads run;    *)
(* that the cached switches of this device are as stored, that no word of  *)
(* a peer gets lost, and that subscribers heard what is cached.            *)
(***************************************************************************)
EXTENDS SwitchProfiles, FiniteSetTheorems, TLAPS

PCs == {"look", "park", "erase", "exist", "add", "tell", "cur"}
TaskStates ==
    [kind : {"change", "online"}, dev : Devices, word : Words, ver : Nat, pc : PCs, flag : Flags]
OpStates ==
    [name : {"idle", "put", "batch", "collect", "get"},
     pc : {"idle", "exist", "read", "set", "store", "cur", "add", "fetch", "keep"},
     dev : Devices, items : Puts, todo : SUBSET Flags, word : Words, ver : Nat]

\* What the holder of switchProfileMutex_ may be doing.
OpShape ==
    /\ op.name = "idle" => op = Idle
    /\ op.name # "idle" => stage = "run" /\ op.pc # "idle"
    /\ op.name # "get" => op.dev = Local /\ op.todo \subseteq DOMAIN op.items
                          /\ op.pc \notin {"fetch", "keep"}
    /\ op.name = "get" => op.pc \in {"fetch", "keep", "add"}
    /\ op.pc = "keep" => op.dev = Local

\* The threads that hold switchCacheMapMutex_ over several steps.
Busy == {t \in tasks : t.kind = "online" /\ t.pc # "look"}
MutexInv ==
    \/ mapMtx = None /\ Busy = {}
    \/ \E t \in Busy : Busy = {t} /\ t.dev = mapMtx

TypeInv ==
    /\ store \in [Devices -> Words] /\ len \in 0 .. NFlags /\ cur \in Words
    /\ cache \in [Devices -> [Flags -> Values \cup {None}]]
    /\ parked \in [Peers -> {None} \cup [word : Words, ver : Nat]]
    /\ online \subseteq Peers
    /\ tasks \subseteq TaskStates
    /\ \A t \in tasks : (t.kind = "online" => t.dev \in Peers) /\ (t.pc = "cur" => t.dev = Local)
    /\ op \in OpStates /\ stage \in {"refresh", "collect", "run"}
    /\ ver \in [Devices -> Nat] /\ seen \in [Devices -> Nat] /\ odd \subseteq Devices
    /\ events \in 0 .. MaxEvents

LEMMA Bounds ==
    /\ NFlags \in Nat /\ MaxEvents \in Nat /\ 0 \in Flags /\ Local \in Devices /\ Peers \subseteq Devices
    /\ Flags \subseteq Nat
PROOF
  BY SwitchAssumption DEF Flags, Devices

LEMMA BitValue == \A w, f : Bit(w, f) \in Values
PROOF
  BY DEF Bit, Values

LEMMA NoItems == <<>> \in Puts /\ DOMAIN <<>> = {}
PROOF
<1>1. <<>> \in [{} -> Values]
  OBVIOUS
<1> QED
  BY <1>1 DEF Puts

LEMMA IdleIs ==
    /\ Idle \in OpStates /\ Idle.name = "idle" /\ Idle.pc = "idle" /\ Idle.dev = Local
    /\ Idle.items = <<>> /\ Idle.todo = {} /\ Idle.word = {} /\ Idle.ver = 0
PROOF
<1>1. {} \in Words
  BY DEF Words
<1> QED
  BY <1>1, Bounds, NoItems DEF Idle, OpStates

LEMMA ItemsAre ==
    /\ \A r \in Puts : DOMAIN r \subseteq Flags /\ \A f \in DOMAIN r : r[f] \in Values
    /\ \A r \in Requests : r \in Puts
    /\ Defaults \in Puts
PROOF
<1>1. \A r \in Puts : DOMAIN r \subseteq Flags /\ \A f \in DOMAIN r : r[f] \in Values
  BY DEF Puts
<1> QED
  BY <1>1, SwitchAssumption

-----------------------------------------------------------------------------
(* The change threads.                                                     *)

Thread(t) == LookUp(t) \/ ParkChange(t) \/ EraseParked(t) \/ OnDeviceOnline(t)
             \/ HandleExist(t) \/ HandleAdd(t) \/ HandleTell(t) \/ HandleCur(t)

\* The next state of a thread.
GoesOn(t, u) ==
    /\ u \in TaskStates /\ u.kind = t.kind /\ u.dev = t.dev /\ u.pc # "look"
    /\ u.pc = "cur" => u.dev = Local
    /\ t.kind = "change" => u.word = t.word /\ u.ver = t.ver
    /\ tasks' = (tasks \ {t}) \cup {u}
Ends(t) == tasks' = tasks \ {t}

\* What a step does to the thread and to switchCacheMapMutex_.
Moves(t) ==
    \/ (Ends(t) \/ \E u : GoesOn(t, u)) /\ mapMtx' = mapMtx /\ t.kind = "change"
    \/ Ends(t) /\ mapMtx' = mapMtx /\ t.pc = "look"
    \/ (\E u : GoesOn(t, u)) /\ mapMtx = None /\ mapMtx' = t.dev /\ t.pc = "look" /\ t.kind = "online"
    \/ (\E u : GoesOn(t, u)) /\ mapMtx' = mapMtx /\ t.pc # "look"
    \/ Ends(t) /\ mapMtx' = None /\ t.kind = "online" /\ t.pc # "look"

LEMMA AdvanceMoves ==
    ASSUME TypeInv, NEW t \in tasks, t.pc # "look", Proceed(t) \/ Advance(t)
    PROVE  Moves(t)
PROOF
<1>1. t \in TaskStates
  BY DEF TypeInv
<1>2. CASE tasks' = tasks \ {t} /\ EndOnline(t)
  <2>1. CASE t.kind = "online"
    BY <1>2, <2>1 DEF EndOnline, Moves, Ends
  <2>2. CASE t.kind # "online"
    <3>1. t.kind = "change"
      BY <1>1, <2>2 DEF TaskStates
    <3> QED
      BY <1>2, <2>2, <3>1 DEF EndOnline, Moves, Ends
  <2> QED
    BY <2>1, <2>2
<1>3. CASE Step(t, [t EXCEPT !.pc = "exist", !.flag = @ + 1]) /\ mapMtx' = mapMtx /\ t.flag + 1 < NFlags
  <2> DEFINE u == [t EXCEPT !.pc = "exist", !.flag = @ + 1]
  <2>1. t.flag + 1 \in Flags
    BY <1>1, <1>3, Bounds DEF TaskStates, Flags
  <2>2. u \in TaskStates /\ u.kind = t.kind /\ u.dev = t.dev /\ u.pc = "exist" /\ u.word = t.word /\ u.ver = t.ver
    BY <1>1, <2>1 DEF TaskStates, PCs
  <2>3. GoesOn(t, u)
    BY <1>3, <2>2 DEF GoesOn, Step
  <2> QED
    BY <1>3, <2>3 DEF Moves
<1>4. CASE Step(t, [t EXCEPT !.pc = "cur"]) /\ mapMtx' = mapMtx /\ t.dev = Local
  <2> DEFINE u == [t EXCEPT !.pc = "cur"]
  <2>1. u \in TaskStates /\ u.kind = t.kind /\ u.dev = t.dev /\ u.pc = "cur" /\ u.word = t.word /\ u.ver = t.ver
    BY <1>1 DEF TaskStates, PCs
  <2>2. GoesOn(t, u)
    BY <1>4, <2>1 DEF GoesOn, Step
  <2> QED
    BY <1>4, <2>2 DEF Moves
<1> QED
  BY <1>2, <1>3, <1>4 DEF Proceed, Advance

LEMMA ThreadMoves ==
    ASSUME TypeInv, NEW t \in tasks, Thread(t)
    PROVE  Moves(t)
PROOF
<1>1. t \in TaskStates
  BY DEF TypeInv
<1>2. ASSUME NEW pc \in PCs \ {"look", "cur"}, Step(t, [t EXCEPT !.pc = pc]), mapMtx' = mapMtx,
             t.kind = "change" \/ t.pc # "look"
      PROVE  Moves(t)
  <2> DEFINE u == [t EXCEPT !.pc = pc]
  <2>1. u \in TaskStates /\ u.kind = t.kind /\ u.dev = t.dev /\ u.pc = pc /\ u.word = t.word /\ u.ver = t.ver
    BY <1>1 DEF TaskStates, PCs
  <2>2. GoesOn(t, u)
    BY <1>2, <2>1 DEF GoesOn, Step
  <2> QED
    BY <1>2, <2>2 DEF Moves
<1>3. CASE LookUp(t)
  <2>1. CASE Known(t.dev)
    BY <1>2, <1>3, <2>1 DEF LookUp, PCs
  <2>2. CASE ~Known(t.dev)
    BY <1>2, <1>3, <2>2 DEF LookUp, PCs
  <2> QED
    BY <2>1, <2>2
<1>4. CASE ParkChange(t)
  BY <1>4 DEF ParkChange, Moves, Ends
<1>5. CASE EraseParked(t)
  BY <1>2, <1>5 DEF EraseParked, PCs
<1>6. CASE OnDeviceOnline(t)
  <2>1. CASE parked[t.dev] = None
    BY <1>6, <2>1 DEF OnDeviceOnline, Moves, Ends
  <2>2. CASE parked[t.dev] # None
    <3> DEFINE u == [t EXCEPT !.pc = "exist", !.word = parked[t.dev].word, !.ver = seen[t.dev]]
    <3>1. t.dev \in Peers /\ t.kind = "online" /\ t.pc = "look" /\ mapMtx = None
      BY <1>6 DEF OnDeviceOnline, TypeInv
    <3>2. parked[t.dev] \in [word : Words, ver : Nat] /\ seen[t.dev] \in Nat
      BY <2>2, <3>1, Bounds DEF TypeInv
    <3>3. parked[t.dev].word \in Words
      BY <3>2
    <3>4. u \in TaskStates /\ u.kind = t.kind /\ u.dev = t.dev /\ u.pc = "exist"
      BY <1>1, <3>2, <3>3 DEF TaskStates, PCs
    <3>5. tasks' = (tasks \ {t}) \cup {u} /\ mapMtx' = t.dev
      BY <1>6, <2>2 DEF OnDeviceOnline, Step
    <3>6. GoesOn(t, u)
      BY <3>1, <3>4, <3>5 DEF GoesOn
    <3> QED
      BY <3>1, <3>5, <3>6 DEF Moves
  <2> QED
    BY <2>1, <2>2
<1>7. CASE HandleExist(t)
  BY <1>2, <1>7, AdvanceMoves DEF HandleExist, PCs
<1>8. CASE HandleAdd(t)
  BY <1>2, <1>8 DEF HandleAdd, PCs
<1>9. CASE HandleTell(t)
  BY <1>9, AdvanceMoves DEF HandleTell
<1>10. CASE HandleCur(t)
  BY <1>10, AdvanceMoves DEF HandleCur
<1> QED
  BY <1>3, <1>4, <1>5, <1>6, <1>7, <1>8, <1>9, <1>10 DEF Thread

\* The mutex is held by one thread of a device that came online.
LEMMA ThreadMutex ==
    ASSUME TypeInv, MutexInv, NEW t \in tasks, Moves(t)
    PROVE  MutexInv'
PROOF
<1>1. CASE t.kind = "change" /\ mapMtx' = mapMtx /\ (Ends(t) \/ \E u : GoesOn(t, u))
  <2>1. Busy' = Busy
    BY <1>1 DEF Busy, Ends, GoesOn
  <2> QED
    BY <1>1, <2>1 DEF MutexInv
<1>2. CASE t.pc = "look" /\ mapMtx' = mapMtx /\ Ends(t)
  <2>1. Busy' = Busy
    BY <1>2 DEF Busy, Ends
  <2> QED
    BY <1>2, <2>1 DEF MutexInv
<1>3. CASE t.pc = "look" /\ t.kind = "online" /\ mapMtx = None /\ mapMtx' = t.dev /\ \E u : GoesOn(t, u)
  <2>1. PICK u : GoesOn(t, u)
    BY <1>3
  <2>2. Busy = {}
    <3> SUFFICES ASSUME Busy # {} PROVE FALSE
      OBVIOUS
    <3>1. PICK v \in Busy : v.dev = None
      BY <1>3 DEF MutexInv
    <3>2. v \in tasks /\ v.kind = "online"
      BY DEF Busy
    <3>3. None \in Peers
      BY <3>1, <3>2 DEF TypeInv
    <3> QED
      BY <3>3, SwitchAssumption
  <2>3. Busy' = {u}
    BY <1>3, <2>1, <2>2 DEF Busy, GoesOn
  <2>4. u \in Busy' /\ u.dev = mapMtx'
    BY <1>3, <2>1, <2>3 DEF GoesOn
  <2> QED
    BY <2>3, <2>4 DEF MutexInv
<1>4. CASE t.pc # "look" /\ t.kind = "online" /\ mapMtx' = mapMtx /\ \E u : GoesOn(t, u)
  <2>1. PICK u : GoesOn(t, u)
    BY <1>4
  <2>2. t \in Busy
    BY <1>4 DEF Busy
  <2>3. Busy = {t} /\ t.dev = mapMtx
    BY <2>2 DEF MutexInv
  <2>4. Busy' = {u}
    BY <1>4, <2>1, <2>3 DEF Busy, GoesOn
  <2>5. u \in Busy' /\ u.dev = mapMtx'
    BY <1>4, <2>1, <2>3, <2>4 DEF GoesOn
  <2> QED
    BY <2>4, <2>5 DEF MutexInv
<1>5. CASE t.pc # "look" /\ t.kind = "online" /\ mapMtx' = None /\ Ends(t)
  <2>1. t \in Busy
    BY <1>5 DEF Busy
  <2>2. Busy = {t}
    BY <2>1 DEF MutexInv
  <2>3. Busy' = {}
    BY <1>5, <2>2 DEF Busy, Ends
  <2> QED
    BY <1>5, <2>3 DEF MutexInv
<1>6. t.kind \in {"change", "online"}
  BY DEF TypeInv, TaskStates
<1> QED
  BY <1>1, <1>2, <1>3, <1>4, <1>5, <1>6 DEF Moves

\* What a step of a thread takes over of a word.
TakesOver(t) ==
    \/ UNCHANGED <<cur, seen>> /\ odd \subseteq odd'
    \/ Take(t.dev, t.ver) /\ (cur' = cur \/ (cur' = t.word /\ t.pc = "cur"))

LEMMA ThreadTakes ==
    ASSUME TypeInv, NEW t \in tasks, Thread(t)
    PROVE  /\ TakesOver(t) /\ UNCHANGED <<store, len, op, stage, online, ver, events>>
           /\ cur' \in Words
           /\ cache' \in [Devices -> [Flags -> Values \cup {None}]]
           /\ parked' \in [Peers -> {None} \cup [word : Words, ver : Nat]]
           /\ seen' \in [Devices -> Nat] /\ odd' \subseteq Devices
PROOF
<1>1. t \in TaskStates /\ t.dev \in Devices /\ t.word \in Words /\ t.ver \in Nat /\ t.flag \in Flags
  BY DEF TypeInv, TaskStates
<1>2. TakesOver(t) /\ UNCHANGED <<store, len, op, stage, online, ver, events>>
  <2>1. CASE LookUp(t) \/ OnDeviceOnline(t)
    BY <2>1 DEF LookUp, OnDeviceOnline, TakesOver, switchHistory
  <2>2. CASE ParkChange(t)
    BY <2>2 DEF ParkChange, AddSwitchCacheMap, TakesOver
  <2>3. CASE EraseParked(t) \/ HandleExist(t) \/ HandleAdd(t) \/ HandleTell(t)
    BY <2>3 DEF EraseParked, HandleExist, HandleAdd, HandleTell, TakesOver
  <2>4. CASE HandleCur(t)
    BY <2>4 DEF HandleCur, TakesOver
  <2> QED
    BY <2>1, <2>2, <2>3, <2>4 DEF Thread
<1>3. cur' \in Words
  BY <1>1, <1>2 DEF TakesOver, TypeInv
<1>4. cache' \in [Devices -> [Flags -> Values \cup {None}]]
  <2>1. CASE cache' = cache
    BY <2>1 DEF TypeInv
  <2>2. CASE HandleAdd(t)
    <3> DEFINE Kept == Values \cup {None}
    <3>1. Bit(t.word, t.flag) \in Kept /\ cache \in [Devices -> [Flags -> Kept]]
      BY BitValue DEF TypeInv
    <3>2. cache' = [cache EXCEPT ![t.dev] = [cache[t.dev] EXCEPT ![t.flag] = Bit(t.word, t.flag)]]
      BY <2>2 DEF HandleAdd, AddCharProfile
    <3> HIDE DEF Kept
    <3>3. [cache[t.dev] EXCEPT ![t.flag] = Bit(t.word, t.flag)] \in [Flags -> Kept]
      BY <1>1, <3>1
    <3>4. cache' \in [Devices -> [Flags -> Kept]]
      BY <1>1, <3>1, <3>2, <3>3
    <3> QED
      BY <3>4 DEF Kept
  <2> QED
    BY <2>1, <2>2 DEF Thread, LookUp, ParkChange, EraseParked, OnDeviceOnline, HandleExist, HandleTell, HandleCur
<1>5. parked' \in [Peers -> {None} \cup [word : Words, ver : Nat]]
  <2> DEFINE Parked == {None} \cup [word : Words, ver : Nat]
  <2>1. None \in Parked /\ [word |-> t.word, ver |-> t.ver] \in Parked /\ parked \in [Peers -> Parked]
    BY <1>1 DEF TypeInv
  <2> HIDE DEF Parked
  <2>2. \/ parked' = parked \/ parked' = [parked EXCEPT ![t.dev] = None]
        \/ parked' = [parked EXCEPT ![t.dev] = [word |-> t.word, ver |-> t.ver]]
    BY DEF Thread, LookUp, ParkChange, AddSwitchCacheMap, EraseParked, EraseSwitchCacheMap, OnDeviceOnline,
       HandleExist, HandleAdd, HandleTell, HandleCur, Proceed, Advance, EndOnline
  <2>3. parked' \in [Peers -> Parked]
    BY <2>1, <2>2
  <2> QED
    BY <2>3 DEF Parked
<1>6. seen' \in [Devices -> Nat]
  BY <1>1, <1>2 DEF TakesOver, Take, Later, TypeInv
<1>7. odd' \subseteq Devices
  <2>1. odd' \subseteq odd \cup {t.dev}
    BY <1>1 DEF Thread, LookUp, ParkChange, AddSwitchCacheMap, EraseParked, OnDeviceOnline, HandleExist, HandleAdd,
       HandleTell, HandleCur, Take, switchHistory
  <2> QED
    BY <1>1, <2>1 DEF TypeInv
<1> QED
  BY <1>2, <1>3, <1>4, <1>5, <1>6, <1>7

LEMMA ThreadTypes ==
    ASSUME TypeInv, OpShape, MutexInv, NEW t \in tasks, Thread(t)
    PROVE  TypeInv' /\ OpShape' /\ MutexInv'
PROOF
<1>1. Moves(t)
  BY ThreadMoves
<1>2. MutexInv'
  BY <1>1, ThreadMutex
<1>3. OpShape'
  BY ThreadTakes DEF OpShape
<1>4. tasks' \subseteq TaskStates
      /\ \A u \in tasks' : (u.kind = "online" => u.dev \in Peers) /\ (u.pc = "cur" => u.dev = Local)
  BY <1>1 DEF Moves, Ends, GoesOn, TypeInv
<1>5. TypeInv'
  BY <1>4, ThreadTakes DEF TypeInv
<1> QED
  BY <1>2, <1>3, <1>5

-----------------------------------------------------------------------------
(* The word of this device.                                                *)

\* Outside its own switches a word is as the stored one.
Keeps(word) == \A f \in Flags \ Own : Bit(word, f) = Bit(store[Local], f)
Writing == \/ op.name \in {"batch", "collect"} /\ op.pc \in {"exist", "store"}
           \/ op.name = "put" /\ op.pc \in {"set", "store"}
\* Versions of the word: what was read of the last one is the stored word; unless
\* words were taken over out of order the last one was taken over, but by the put
\* that has just written it.
VersionInv ==
    /\ \A t \in tasks : t.dev = Local =>
           t.ver <= ver[Local] /\ (t.ver = ver[Local] => t.word = store[Local])
    /\ seen[Local] <= ver[Local]
    /\ stage = "refresh" => ver[Local] = 0
    /\ Local \notin odd /\ stage # "refresh" /\ op.pc # "cur" => cur = store[Local] /\ seen[Local] = ver[Local]
\* What the holder of switchProfileMutex_ knows of it.
HolderInv ==
    /\ op.pc \in {"cur", "add", "keep"} /\ op.dev = Local => op.ver = ver[Local] /\ op.word = store[Local]
    /\ Writing /\ Local \notin odd => Keeps(op.word)
    /\ op.name = "collect" /\ op.pc \in {"read", "exist"} /\ Local \notin odd =>
           \A f \in DOMAIN op.items : f < len => op.items[f] = Bit(store[Local], f)

LEMMA ThreadWords ==
    ASSUME TypeInv, VersionInv, HolderInv, NEW t \in tasks, Thread(t)
    PROVE  VersionInv' /\ HolderInv'
PROOF
<1>1. TakesOver(t) /\ UNCHANGED <<store, len, op, stage, ver>>
  BY ThreadTakes
<1>2. odd \subseteq odd'
  BY <1>1 DEF TakesOver, Take
<1>3. HolderInv'
  BY <1>1, <1>2 DEF HolderInv, Writing, Keeps, Own
<1>4. \A u \in tasks' : u.dev = Local =>
           u.ver <= ver[Local] /\ (u.ver = ver[Local] => u.word = store[Local])
  <2> DEFINE Fine(v) == v.dev = Local =>
                 v.ver <= ver[Local] /\ (v.ver = ver[Local] => v.word = store[Local])
  <2>1. \A v \in tasks : Fine(v)
    BY DEF VersionInv
  <2>2. ASSUME NEW u, GoesOn(t, u) PROVE Fine(u)
    <3>1. t.dev = Local => t.kind = "change"
      BY SwitchAssumption DEF TypeInv, TaskStates
    <3>2. t.dev = Local => u.word = t.word /\ u.ver = t.ver
      BY <2>2, <3>1 DEF GoesOn
    <3>3. u.dev = t.dev
      BY <2>2 DEF GoesOn
    <3> QED
      BY <2>1, <3>2, <3>3
  <2> HIDE DEF Fine
  <2>3. \A u \in tasks' : Fine(u)
    BY <2>1, <2>2, ThreadMoves DEF Moves, Ends, GoesOn
  <2> QED
    BY <2>3 DEF Fine
<1>5. ver[Local] \in Nat /\ seen[Local] \in Nat /\ seen \in [Devices -> Nat] /\ t.dev \in Devices /\ t.ver \in Nat
  BY Bounds DEF TypeInv, TaskStates
<1>9. ASSUME seen'[Local] <= ver[Local],
             Local \notin odd' /\ stage # "refresh" /\ op.pc # "cur" => cur' = store[Local] /\ seen'[Local] = ver[Local]
      PROVE  VersionInv'
  <2>1. ver'[Local] = ver[Local] /\ store'[Local] = store[Local] /\ stage' = stage /\ op' = op
    BY <1>1
  <2>2. stage = "refresh" => ver[Local] = 0
    BY DEF VersionInv
  <2> QED
    BY <1>4, <1>9, <2>1, <2>2 DEF VersionInv
<1>6. CASE UNCHANGED <<cur, seen>>
  BY <1>2, <1>3, <1>6, <1>9 DEF VersionInv
<1>7. CASE Take(t.dev, t.ver) /\ t.dev # Local
  <2>1. seen'[Local] = seen[Local] /\ cur' = cur
    BY <1>1, <1>5, <1>7 DEF Take, TakesOver, TypeInv
  <2> QED
    BY <1>2, <1>3, <1>9, <2>1 DEF VersionInv
<1>8. CASE Take(t.dev, t.ver) /\ t.dev = Local
  <2>1. t.ver <= ver[Local] /\ (t.ver = ver[Local] => t.word = store[Local]) /\ seen[Local] <= ver[Local]
    BY <1>8 DEF VersionInv
  <2>2. seen'[Local] = (IF t.ver > seen[Local] THEN t.ver ELSE seen[Local])
        /\ (Local \notin odd' => Local \notin odd /\ t.ver >= seen[Local])
    BY <1>5, <1>8 DEF Take, Later
  <2>3. seen'[Local] <= ver[Local]
    BY <1>5, <2>1, <2>2
  <2>4. ASSUME Local \notin odd', stage # "refresh", op.pc # "cur"
        PROVE  cur' = store[Local] /\ seen'[Local] = ver[Local]
    <3>1. cur = store[Local] /\ seen[Local] = ver[Local]
      BY <2>2, <2>4 DEF VersionInv
    <3>2. t.ver = ver[Local]
      BY <1>5, <2>1, <2>2, <2>4, <3>1
    <3>3. cur' = cur \/ cur' = t.word
      BY <1>1 DEF TakesOver
    <3> QED
      BY <1>5, <2>1, <2>2, <3>1, <3>2, <3>3
  <2> QED
    BY <1>3, <1>9, <2>3, <2>4
<1> QED
  BY <1>1, <1>6, <1>7, <1>8 DEF TakesOver

-----------------------------------------------------------------------------
(* The boot and the calls.                                                 *)

SwitchCall ==
    \/ Refresh \/ Collect
    \/ \E r \in Requests : PutCharacteristicProfile(r) \/ PutCharacteristicProfileBatch(r)
    \/ PutRead \/ PutExist \/ PutSet \/ BatchExist \/ PutSwitch \/ SetCurSwitch \/ AddPut
    \/ \E d \in Devices, f \in Flags : GetCharacteristicProfile(d, f)
    \/ GetFetch \/ GetKeep \/ GetAdd

LEMMA CollectedIs == \A n, w : /\ Collected(n, w) \in Puts /\ DOMAIN Collected(n, w) = DOMAIN Defaults
                               /\ \A f \in DOMAIN Defaults : f < n => Collected(n, w)[f] = Bit(w, f)
PROOF
<1> SUFFICES ASSUME NEW n, NEW w
             PROVE  /\ Collected(n, w) \in Puts /\ DOMAIN Collected(n, w) = DOMAIN Defaults
                    /\ \A f \in DOMAIN Defaults : f < n => Collected(n, w)[f] = Bit(w, f)
  OBVIOUS
<1>1. DOMAIN Defaults \subseteq Flags /\ \A f \in DOMAIN Defaults : Defaults[f] \in Values
  BY ItemsAre
<1>2. Collected(n, w) \in [DOMAIN Defaults -> Values]
  BY <1>1, BitValue DEF Collected
<1>3. Collected(n, w) \in Puts
  BY <1>1, <1>2 DEF Puts
<1> QED
  BY <1>2, <1>3 DEF Collected

LEMMA SetBit ==
    ASSUME NEW word \in Words, NEW f \in Flags, NEW val \in 0 .. 1
    PROVE  /\ SetSwitchByProfile(word, f, val) \in Words
           /\ Bit(SetSwitchByProfile(word, f, val), f) = val
           /\ \A g \in Flags \ {f} : Bit(SetSwitchByProfile(word, f, val), g) = Bit(word, g)
PROOF
  BY DEF SetSwitchByProfile, Bit, Words

\* The holder of switchProfileMutex_ after a step of its own.
LEMMA CallOps ==
    ASSUME TypeInv, OpShape, SwitchCall
    PROVE  op' \in OpStates /\ OpShape' /\ stage' \in {"refresh", "collect", "run"}
PROOF
<1> DEFINE Goal == op' \in OpStates /\ OpShape' /\ stage' \in {"refresh", "collect", "run"}
<1> SUFFICES Goal
  OBVIOUS
<1>1. op \in OpStates /\ cur \in Words /\ DOMAIN op.items \subseteq Flags /\ \A f \in DOMAIN op.items : op.items[f] \in Values
  BY ItemsAre DEF TypeInv, OpStates
<1>2. stage' = stage \/ stage' \in {"collect", "run"}
  BY DEF SwitchCall, Refresh, Collect, PutCharacteristicProfile, PutCharacteristicProfileBatch, PutRead, PutExist,
     PutSet, BatchExist, PutSwitch, SetCurSwitch, AddPut, GetCharacteristicProfile, GetFetch, GetKeep, GetAdd
<1>3. ASSUME op' = Idle PROVE Goal
  BY <1>2, <1>3, IdleIs, NoItems DEF OpShape, TypeInv
<1>4. ASSUME op.name # "idle", stage' = stage, op' \in OpStates, op'.name = op.name, op'.dev = op.dev, op'.items = op.items,
             op'.pc # "idle",
             op.name # "get" => op'.todo \subseteq DOMAIN op.items /\ op'.pc \notin {"fetch", "keep"},
             op.name = "get" => op'.pc \in {"keep", "add"} /\ (op'.pc = "keep" => op.dev = Local)
      PROVE  Goal
  BY <1>4 DEF OpShape, TypeInv
<1>5. ASSUME NEW name \in {"put", "batch", "collect"}, NEW pc \in {"exist", "read"}, NEW r \in Puts,
             stage' = "run",
             op' = [Idle EXCEPT !.name = name, !.pc = pc, !.items = r]
             \/ op' = [Idle EXCEPT !.name = name, !.pc = pc, !.items = r, !.todo = DOMAIN r]
      PROVE  Goal
  <2>1. DOMAIN r \subseteq Flags
    BY ItemsAre
  <2>2. op' \in OpStates /\ op'.name = name /\ op'.pc = pc /\ op'.items = r /\ op'.dev = Local
        /\ op'.todo \subseteq DOMAIN r
    BY <1>5, <2>1, IdleIs DEF OpStates
  <2> QED
    BY <1>5, <2>2 DEF OpShape
<1>6. CASE Refresh
  BY <1>2, <1>6 DEF Refresh, OpShape, TypeInv
<1>7. CASE Collect
  <2>1. stage' = "run" /\ op.name = "idle" /\ Defaults \in Puts
    BY <1>7, ItemsAre DEF Collect, OpShape
  <2>2. CASE op' = op \/ op' = Idle
    BY <1>3, <2>1, <2>2 DEF OpShape
  <2>3. CASE \E n, w : op' = [Idle EXCEPT !.name = "collect", !.pc = "read", !.items = Collected(n, w)]
    BY <1>5, <2>1, <2>3, CollectedIs
  <2> QED
    BY <1>7, <2>2, <2>3 DEF Collect
<1>8. CASE \E r \in Requests : PutCharacteristicProfile(r) \/ PutCharacteristicProfileBatch(r)
  BY <1>5, <1>8, ItemsAre DEF PutCharacteristicProfile, PutCharacteristicProfileBatch, Ready
<1>9. CASE PutRead
  <2>1. op' \in OpStates /\ op'.name = op.name /\ op'.dev = op.dev /\ op'.items = op.items
        /\ op'.pc \in {"set", "exist"} /\ op'.todo = DOMAIN op.items
    BY <1>1, <1>9 DEF PutRead, OpStates
  <2> QED
    BY <1>4, <1>9, <2>1 DEF PutRead
<1>10. CASE PutExist \/ PutSet
  <2>1. CASE op' = Idle
    BY <1>3, <2>1
  <2>2. CASE op' # Idle
    <3>1. \E pc \in {"read", "store"}, w \in Words : op' = [op EXCEPT !.pc = pc, !.word = w]
      <4>1. CASE PutExist
        <5>1. op' = [op EXCEPT !.pc = "read"]
          BY <2>2, <4>1 DEF PutExist, Do, Done
        <5>2. op' = [op EXCEPT !.pc = "read", !.word = op.word] /\ op.word \in Words
          BY <1>1, <5>1 DEF OpStates
        <5> QED
          BY <5>2
      <4>2. CASE PutSet
        <5>1. PICK f \in op.todo : IsSwitchValid(op.items[f]) /\ op' = [op EXCEPT !.pc = "store",
                      !.word = SetSwitchByProfile(op.word, f, op.items[f])]
          BY <2>2, <4>2 DEF PutSet, Done
        <5>2. f \in Flags /\ op.items[f] \in 0 .. 1 /\ op.word \in Words
          BY <1>1, <5>1 DEF IsSwitchValid, OpStates
        <5>3. SetSwitchByProfile(op.word, f, op.items[f]) \in Words
          BY <5>2, SetBit
        <5> QED
          BY <5>1, <5>3
      <4> QED
        BY <1>10, <4>1, <4>2
    <3>2. op' \in OpStates /\ op'.name = op.name /\ op'.dev = op.dev /\ op'.items = op.items
          /\ op'.pc \in {"read", "store"} /\ op'.todo = op.todo
      BY <1>1, <3>1 DEF OpStates
    <3>3. op.name = "put" /\ stage' = stage
      BY <1>10 DEF PutExist, PutSet
    <3> QED
      BY <1>4, <3>2, <3>3 DEF OpShape
  <2> QED
    BY <2>1, <2>2
<1>11. CASE BatchExist
  <2>1. PICK f \in op.todo : op' = [op EXCEPT !.todo = op.todo \ {f},
                           !.pc = IF op.todo = {f} THEN "store" ELSE "exist",
                           !.word = IF cache[Local][f] # op.items[f] /\ IsSwitchValid(op.items[f])
                                    THEN SetSwitchByProfile(op.word, f, op.items[f]) ELSE op.word]
    BY <1>11 DEF BatchExist
  <2> DEFINE w == IF cache[Local][f] # op.items[f] /\ IsSwitchValid(op.items[f])
                  THEN SetSwitchByProfile(op.word, f, op.items[f]) ELSE op.word
  <2>2. f \in Flags /\ op.word \in Words
    BY <1>1 DEF OpStates
  <2>3. w \in Words
    BY <2>2, SetBit DEF IsSwitchValid
  <2> HIDE DEF w
  <2>4. op' = [op EXCEPT !.todo = op.todo \ {f}, !.pc = IF op.todo = {f} THEN "store" ELSE "exist", !.word = w]
    BY <2>1 DEF w
  <2>5. op' \in OpStates /\ op'.name = op.name /\ op'.dev = op.dev /\ op'.items = op.items
        /\ op'.pc \in {"store", "exist"} /\ op'.todo \subseteq op.todo
    BY <1>1, <2>3, <2>4 DEF OpStates
  <2>6. op.name \in {"batch", "collect"} /\ stage' = stage
    BY <1>11 DEF BatchExist
  <2> QED
    BY <1>4, <2>5, <2>6 DEF OpShape
<1>12. CASE PutSwitch
  <2>1. CASE op' = [op EXCEPT !.pc = "cur", !.ver = ver[Local] + 1, !.todo = DOMAIN op.items]
    <3>1. ver[Local] + 1 \in Nat
      BY Bounds DEF TypeInv
    <3>2. op' \in OpStates /\ op'.name = op.name /\ op'.dev = op.dev /\ op'.items = op.items
          /\ op'.pc = "cur" /\ op'.todo = DOMAIN op.items
      BY <1>1, <2>1, <3>1 DEF OpStates
    <3>3. op.name \notin {"get", "idle"} /\ stage' = stage
      BY <1>12, IdleIs DEF PutSwitch, OpShape
    <3> QED
      BY <1>4, <3>2, <3>3
  <2> QED
    BY <1>3, <1>12, <2>1 DEF PutSwitch, Done
<1>13. CASE SetCurSwitch \/ GetKeep
  <2>1. op' \in OpStates /\ op'.name = op.name /\ op'.dev = op.dev /\ op'.items = op.items
        /\ op'.pc = "add" /\ op'.todo = op.todo
    BY <1>1, <1>13 DEF SetCurSwitch, GetKeep, Do, OpStates
  <2>2. op.name # "idle" /\ stage' = stage
    BY <1>13, IdleIs DEF SetCurSwitch, GetKeep, OpShape
  <2> QED
    BY <1>4, <2>1, <2>2 DEF OpShape
<1>14. CASE AddPut
  <2>1. CASE \E f : op' = [op EXCEPT !.todo = op.todo \ {f}]
    <3>1. op' \in OpStates /\ op'.name = op.name /\ op'.dev = op.dev /\ op'.items = op.items
          /\ op'.pc = op.pc /\ op'.todo \subseteq op.todo
      BY <1>1, <2>1 DEF OpStates
    <3>2. op.name \notin {"idle", "get"} /\ stage' = stage /\ op.pc = "add"
      BY <1>14, IdleIs DEF AddPut, OpShape
    <3> QED
      BY <1>4, <3>1, <3>2 DEF OpShape
  <2> QED
    BY <1>3, <1>14, <2>1 DEF AddPut
<1>15. CASE \E d \in Devices, f \in Flags : GetCharacteristicProfile(d, f)
  <2>1. PICK d \in Devices, f \in Flags : op' = [Idle EXCEPT !.name = "get", !.pc = "fetch", !.dev = d, !.todo = {f}]
                                         /\ stage' = stage /\ stage = "run"
    BY <1>15 DEF GetCharacteristicProfile, Ready
  <2>2. op' \in OpStates /\ op'.name = "get" /\ op'.pc = "fetch"
    BY <2>1, IdleIs DEF OpStates
  <2> QED
    BY <2>1, <2>2 DEF OpShape
<1>16. CASE GetFetch
  <2>1. store[op.dev] \in Words /\ ver[op.dev] \in Nat
    BY <1>1 DEF TypeInv, OpStates
  <2>2. op' \in OpStates /\ op'.name = op.name /\ op'.dev = op.dev /\ op'.items = op.items
        /\ op'.pc = IF op.dev = Local THEN "keep" ELSE "add"
    BY <1>1, <1>16, <2>1 DEF GetFetch, OpStates
  <2> QED
    BY <1>4, <1>16, <2>2 DEF GetFetch
<1>17. CASE GetAdd
  BY <1>3, <1>17 DEF GetAdd, Done
<1> QED
  BY <1>6, <1>7, <1>8, <1>9, <1>10, <1>11, <1>12, <1>13, <1>14, <1>15, <1>16, <1>17 DEF SwitchCall

LEMMA CallTypes ==
    ASSUME TypeInv, OpShape, MutexInv, SwitchCall
    PROVE  TypeInv' /\ OpShape' /\ MutexInv'
PROOF
<1>1. op \in OpStates /\ op.word \in Words /\ op.ver \in Nat /\ op.dev \in Devices /\ op.todo \subseteq Flags
      /\ \A f \in DOMAIN op.items : op.items[f] \in Values
  BY ItemsAre DEF TypeInv, OpStates
<1>2. UNCHANGED <<parked, mapMtx, online>>
  BY DEF SwitchCall, Refresh, Collect, PutCharacteristicProfile, PutCharacteristicProfileBatch, PutRead, PutExist,
     PutSet, BatchExist, PutSwitch, SetCurSwitch, AddPut, GetCharacteristicProfile, GetFetch, GetKeep, GetAdd
<1>3. store' \in [Devices -> Words] /\ len' \in 0 .. NFlags
  <2>1. UNCHANGED <<store, len>> \/ (store' = [store EXCEPT ![Local] = op.word] /\ len' = NFlags)
    BY DEF SwitchCall, Refresh, Collect, PutCharacteristicProfile, PutCharacteristicProfileBatch, PutRead, PutExist,
       PutSet, BatchExist, PutSwitch, SetCurSwitch, AddPut, GetCharacteristicProfile, GetFetch, GetKeep, GetAdd
  <2>2. CASE UNCHANGED <<store, len>>
    BY <2>2 DEF TypeInv
  <2>3. CASE store' = [store EXCEPT ![Local] = op.word] /\ len' = NFlags
    BY <1>1, <2>3, Bounds DEF TypeInv
  <2> QED
    BY <2>1, <2>2, <2>3
<1>4. cur' \in Words
  <2>1. cur' \in {cur, op.word, store[Local]}
    BY DEF SwitchCall, Refresh, Collect, PutCharacteristicProfile, PutCharacteristicProfileBatch, PutRead, PutExist,
       PutSet, BatchExist, PutSwitch, SetCurSwitch, AddPut, GetCharacteristicProfile, GetFetch, GetKeep, GetAdd
  <2> QED
    BY <1>1, <2>1, Bounds DEF TypeInv
<1>5. cache' \in [Devices -> [Flags -> Values \cup {None}]]
  <2> DEFINE Kept == Values \cup {None}
  <2>1. cache \in [Devices -> [Flags -> Kept]] /\ \A w, f : Bit(w, f) \in Kept
    BY BitValue DEF TypeInv
  <2>2. \A f \in DOMAIN op.items : op.items[f] \in Kept
    BY <1>1
  <2> SUFFICES cache' \in [Devices -> [Flags -> Kept]]
    OBVIOUS
  <2> HIDE DEF Kept
  <2>3. ASSUME NEW d \in Devices, NEW f \in Flags, NEW val \in Kept, AddCharProfile(d, f, val)
        PROVE  cache' \in [Devices -> [Flags -> Kept]]
    <3>1. cache' = [cache EXCEPT ![d] = [cache[d] EXCEPT ![f] = val]]
      BY <2>3 DEF AddCharProfile
    <3>2. [cache[d] EXCEPT ![f] = val] \in [Flags -> Kept]
      BY <2>1, <2>3
    <3> QED
      BY <2>1, <3>1, <3>2
  <2>4. CASE Refresh
    <3>1. [f \in Flags |-> Bit(store[Local], f)] \in [Flags -> Kept]
      BY <2>1
    <3> QED
      BY <2>1, <2>4, <3>1 DEF Refresh
  <2>5. CASE AddPut
    <3>1. PICK f \in op.todo : AddCharProfile(Local, f, op.items[f])
      BY <2>5 DEF AddPut
    <3>2. f \in DOMAIN op.items
      BY <2>5, <3>1 DEF AddPut, OpShape
    <3> QED
      BY <1>1, <2>2, <2>3, <3>1, <3>2, Bounds
  <2>6. CASE GetAdd
    BY <1>1, <2>1, <2>3, <2>6 DEF GetAdd
  <2>7. CASE cache' = cache
    BY <2>1, <2>7
  <2> QED
    BY <2>4, <2>5, <2>6, <2>7 DEF SwitchCall, Collect, PutCharacteristicProfile, PutCharacteristicProfileBatch, PutRead,
       PutExist, PutSet, BatchExist, PutSwitch, SetCurSwitch, GetCharacteristicProfile, GetFetch, GetKeep
<1>6. tasks' = tasks \/ tasks' = tasks \cup {Change(Local, op.word, ver[Local] + 1)}
  BY DEF SwitchCall, Refresh, Collect, PutCharacteristicProfile, PutCharacteristicProfileBatch, PutRead, PutExist,
     PutSet, BatchExist, PutSwitch, SetCurSwitch, AddPut, GetCharacteristicProfile, GetFetch, GetKeep, GetAdd
<1>7. Change(Local, op.word, ver[Local] + 1) \in TaskStates
      /\ Change(Local, op.word, ver[Local] + 1).kind = "change" /\ Change(Local, op.word, ver[Local] + 1).pc = "look"
  <2>1. ver[Local] + 1 \in Nat
    BY Bounds DEF TypeInv
  <2> QED
    BY <1>1, <2>1, Bounds DEF Change, TaskStates, PCs
<1>8. /\ tasks' \subseteq TaskStates
      /\ \A t \in tasks' : (t.kind = "online" => t.dev \in Peers) /\ (t.pc = "cur" => t.dev = Local)
  BY <1>6, <1>7 DEF TypeInv
<1>9. MutexInv'
  <2>1. Busy' = Busy
    BY <1>6, <1>7 DEF Busy
  <2> QED
    BY <1>2, <2>1 DEF MutexInv
<1>10. ver' \in [Devices -> Nat]
  <2>1. ver' = ver \/ ver' = [ver EXCEPT ![Local] = ver[Local] + 1]
    BY DEF SwitchCall, Refresh, Collect, PutCharacteristicProfile, PutCharacteristicProfileBatch, PutRead, PutExist,
       PutSet, BatchExist, PutSwitch, SetCurSwitch, AddPut, GetCharacteristicProfile, GetFetch, GetKeep, GetAdd,
       switchHistory
  <2> QED
    BY <2>1, Bounds DEF TypeInv
<1>11. seen' \in [Devices -> Nat] /\ odd' \subseteq Devices
  <2>1. CASE seen' = seen /\ odd' \subseteq odd \cup {Local}
    BY <2>1, Bounds DEF TypeInv
  <2>2. CASE SetCurSwitch \/ AddPut \/ GetKeep
    <3>1. Take(Local, op.ver)
      BY <2>2 DEF SetCurSwitch, AddPut, GetKeep
    <3>2. seen \in [Devices -> Nat] /\ Later(Local, op.ver) \in Nat /\ odd \subseteq Devices
      BY <1>1, Bounds DEF Later, TypeInv
    <3> QED
      BY <3>1, <3>2, Bounds DEF Take
  <2>3. CASE GetAdd
    <3>1. seen \in [Devices -> Nat] /\ Later(op.dev, op.ver) \in Nat /\ odd \subseteq Devices
      BY <1>1 DEF Later, TypeInv
    <3>2. seen' = [seen EXCEPT ![op.dev] = Later(op.dev, op.ver)] /\ odd' \subseteq odd \cup {op.dev}
      BY <2>3 DEF GetAdd
    <3> QED
      BY <1>1, <3>1, <3>2
  <2> QED
    BY <2>1, <2>2, <2>3 DEF SwitchCall, Refresh, Collect, PutCharacteristicProfile, PutCharacteristicProfileBatch,
       PutRead, PutExist, PutSet, BatchExist, PutSwitch, GetCharacteristicProfile, GetFetch, switchHistory
<1>12. events' \in 0 .. MaxEvents
  <2>1. events' = events \/ Count
    BY DEF SwitchCall, Refresh, Collect, PutCharacteristicProfile, PutCharacteristicProfileBatch, PutRead, PutExist,
       PutSet, BatchExist, PutSwitch, SetCurSwitch, AddPut, GetCharacteristicProfile, GetFetch, GetKeep, GetAdd
  <2> QED
    BY <2>1, Bounds DEF Count, TypeInv
<1>13. parked' \in [Peers -> {None} \cup [word : Words, ver : Nat]] /\ online' \subseteq Peers
  BY <1>2 DEF TypeInv
<1>14. TypeInv'
  BY <1>3, <1>4, <1>5, <1>8, <1>10, <1>11, <1>12, <1>13, CallOps DEF TypeInv
<1> QED
  BY <1>9, <1>14, CallOps

\* Peers, devices that come and go, and subscriptions.
LEMMA OutsideTypes ==
    ASSUME TypeInv, OpShape, MutexInv, SwitchOutside
    PROVE  TypeInv' /\ OpShape' /\ MutexInv'
PROOF
<1>1. UNCHANGED <<len, cur, cache, parked, mapMtx, op, stage, seen, odd>>
  BY DEF SwitchOutside, DeviceOnline, DeviceOffline, SwitchChanged, SubscribeSwitch, UnSubscribeSwitch, switchVars,
     switchHistory
<1>2. events' \in 0 .. MaxEvents
  BY Bounds DEF SwitchOutside, DeviceOnline, DeviceOffline, SwitchChanged, SubscribeSwitch, UnSubscribeSwitch, Count,
     TypeInv
<1>3. online' \subseteq Peers
  BY DEF SwitchOutside, DeviceOnline, DeviceOffline, SwitchChanged, SubscribeSwitch, UnSubscribeSwitch, switchVars,
     TypeInv
<1>4. \/ UNCHANGED <<store, ver, tasks>>
      \/ UNCHANGED <<store, ver>> /\ \E d \in Peers : tasks' = tasks \cup
             {[kind |-> "online", dev |-> d, word |-> {}, ver |-> events, pc |-> "look", flag |-> 0]}
      \/ \E d \in Peers, w \in PeerWords : /\ store' = [store EXCEPT ![d] = w]
                                           /\ ver' = [ver EXCEPT ![d] = ver[d] + 1]
                                           /\ tasks' = tasks \cup {Change(d, w, ver[d] + 1)}
  BY DEF SwitchOutside, DeviceOnline, DeviceOffline, SwitchChanged, SubscribeSwitch, UnSubscribeSwitch, switchVars,
     switchHistory
<1>5. ASSUME NEW t \in TaskStates, t.pc = "look", t.kind = "online" => t.dev \in Peers, tasks' = tasks \cup {t}
      PROVE  /\ tasks' \subseteq TaskStates /\ Busy' = Busy
             /\ \A u \in tasks' : (u.kind = "online" => u.dev \in Peers) /\ (u.pc = "cur" => u.dev = Local)
  BY <1>5 DEF TypeInv, Busy
<1> DEFINE Goal == /\ store' \in [Devices -> Words] /\ ver' \in [Devices -> Nat]
                   /\ tasks' \subseteq TaskStates /\ Busy' = Busy
                   /\ \A u \in tasks' : (u.kind = "online" => u.dev \in Peers)
                                        /\ (u.pc = "cur" => u.dev = Local)
<1>6. Goal
  <2>1. CASE UNCHANGED <<store, ver, tasks>>
    BY <2>1 DEF TypeInv, Busy
  <2>2. ASSUME NEW d \in Peers, UNCHANGED <<store, ver>>, tasks' = tasks \cup
             {[kind |-> "online", dev |-> d, word |-> {}, ver |-> events, pc |-> "look", flag |-> 0]}
        PROVE  Goal
    <3> DEFINE t == [kind |-> "online", dev |-> d, word |-> {}, ver |-> events, pc |-> "look", flag |-> 0]
    <3>1. events \in Nat /\ {} \in Words /\ d \in Devices
      BY Bounds DEF TypeInv, Words
    <3>2. t \in TaskStates /\ t.pc = "look" /\ t.dev = d
      BY <3>1, Bounds DEF TaskStates, PCs
    <3> HIDE DEF t
    <3> QED
      BY <1>5, <2>2, <3>2 DEF TypeInv, t
  <2>3. ASSUME NEW d \in Peers, NEW w \in PeerWords, store' = [store EXCEPT ![d] = w],
               ver' = [ver EXCEPT ![d] = ver[d] + 1], tasks' = tasks \cup {Change(d, w, ver[d] + 1)}
        PROVE  Goal
    <3>1. d \in Devices /\ w \in Words /\ ver[d] + 1 \in Nat
      BY Bounds, SwitchAssumption DEF TypeInv
    <3>2. Change(d, w, ver[d] + 1) \in TaskStates /\ Change(d, w, ver[d] + 1).pc = "look"
          /\ Change(d, w, ver[d] + 1).dev = d
      BY <3>1, Bounds DEF Change, TaskStates, PCs
    <3>3. store' \in [Devices -> Words] /\ ver' \in [Devices -> Nat]
      BY <2>3, <3>1 DEF TypeInv
    <3> QED
      BY <1>5, <2>3, <3>2, <3>3
  <2> QED
    BY <1>4, <2>1, <2>2, <2>3
<1>9. /\ len' \in 0 .. NFlags /\ cur' \in Words /\ op' \in OpStates /\ stage' \in {"refresh", "collect", "run"}
      /\ cache' \in [Devices -> [Flags -> Values \cup {None}]]
      /\ parked' \in [Peers -> {None} \cup [word : Words, ver : Nat]]
      /\ seen' \in [Devices -> Nat] /\ odd' \subseteq Devices
  BY <1>1 DEF TypeInv
<1>10. /\ store' \in [Devices -> Words] /\ ver' \in [Devices -> Nat] /\ tasks' \subseteq TaskStates
       /\ \A u \in tasks' : (u.kind = "online" => u.dev \in Peers) /\ (u.pc = "cur" => u.dev = Local)
  BY <1>6
<1>7. TypeInv'
  BY <1>2, <1>3, <1>9, <1>10 DEF TypeInv
<1>8. OpShape' /\ MutexInv'
  BY <1>1, <1>6 DEF OpShape, MutexInv
<1> QED
  BY <1>7, <1>8

LEMMA CallWords ==
    ASSUME TypeInv, OpShape, VersionInv, HolderInv, SwitchCall
    PROVE  VersionInv' /\ HolderInv'
PROOF
<1> DEFINE Goal == VersionInv' /\ HolderInv'
<1> SUFFICES Goal
  OBVIOUS
<1>1. /\ ver[Local] \in Nat /\ seen[Local] \in Nat /\ seen \in [Devices -> Nat] /\ ver \in [Devices -> Nat]
      /\ store \in [Devices -> Words] /\ op.word \in Words /\ op.todo \subseteq Flags /\ op.dev \in Devices
      /\ op.ver \in Nat /\ op.name \in {"idle", "put", "batch", "collect", "get"} /\ Local \in Devices
      /\ DOMAIN op = {"name", "pc", "dev", "items", "todo", "word", "ver"}
  BY Bounds DEF TypeInv, OpStates
<1>2. ASSUME UNCHANGED <<store, ver, tasks, seen, cur>>, odd \subseteq odd', op.pc # "cur",
             stage # "refresh", stage' # "refresh"
      PROVE  VersionInv'
  BY <1>2 DEF VersionInv
<1>3. ASSUME op' = Idle PROVE HolderInv'
  BY <1>3, IdleIs DEF HolderInv, Writing
<1>4. op.name = "idle" => op.pc = "idle"
  BY IdleIs DEF OpShape
<1>5. CASE Refresh
  <2>1. op' = Idle /\ stage = "refresh" /\ stage' = "collect" /\ UNCHANGED <<store, ver, seen, tasks>>
    BY <1>5 DEF Refresh, OpShape
  <2>2. ver[Local] = 0 /\ seen[Local] = 0
    BY <1>1, <2>1 DEF VersionInv
  <2>3. cur' = store[Local] \/ Local \in odd'
    BY <1>5 DEF Refresh
  <2>4. VersionInv'
    BY <2>1, <2>2, <2>3 DEF VersionInv
  <2> QED
    BY <1>3, <2>1, <2>4
<1>6. CASE Collect
  <2>1. op = Idle /\ stage = "collect" /\ stage' = "run" /\ UNCHANGED <<store, len, ver, seen, tasks, cur>>
    BY <1>6 DEF Collect, OpShape
  <2>2. VersionInv'
    BY <1>2, <1>6, <2>1, IdleIs DEF Collect
  <2>3. CASE op' = Idle
    BY <1>3, <2>2, <2>3
  <2>4. CASE \E n, w : /\ op' = [Idle EXCEPT !.name = "collect", !.pc = "read", !.items = Collected(n, w)]
                       /\ (n = len /\ w = store[Local]) \/ Local \in odd'
    <3>1. PICK n, w : /\ op' = [Idle EXCEPT !.name = "collect", !.pc = "read", !.items = Collected(n, w)]
                      /\ (n = len /\ w = store[Local]) \/ Local \in odd'
      BY <2>4
    <3>2. op'.name = "collect" /\ op'.pc = "read" /\ op'.items = Collected(n, w)
      BY <3>1 DEF Idle
    <3>3. Local \notin odd' => \A f \in DOMAIN op'.items : f < len => op'.items[f] = Bit(store[Local], f)
      BY <3>1, <3>2, CollectedIs
    <3>4. HolderInv'
      BY <2>1, <3>2, <3>3 DEF HolderInv, Writing
    <3> QED
      BY <2>2, <3>4
  <2> QED
    BY <1>6, <2>1, <2>3, <2>4 DEF Collect
<1>7. CASE \E r \in Requests : PutCharacteristicProfile(r) \/ PutCharacteristicProfileBatch(r)
  <2>1. PICK r \in Requests : PutCharacteristicProfile(r) \/ PutCharacteristicProfileBatch(r)
    BY <1>7
  <2>2. VersionInv'
    BY <1>2, <2>1, IdleIs DEF PutCharacteristicProfile, PutCharacteristicProfileBatch, Ready, switchHistory
  <2>3. (op'.name = "put" /\ op'.pc = "exist") \/ (op'.name = "batch" /\ op'.pc = "read")
    BY <2>1 DEF PutCharacteristicProfile, PutCharacteristicProfileBatch, Idle
  <2>4. HolderInv'
    BY <2>3 DEF HolderInv, Writing
  <2> QED
    BY <2>2, <2>4
<1>8. CASE PutRead
  <2>1. op.pc = "read" /\ op'.word = cur /\ op'.items = op.items /\ op'.name = op.name
        /\ op'.pc \in {"set", "exist"} /\ UNCHANGED <<store, len, cur, odd, stage>>
    BY <1>1, <1>8 DEF PutRead, switchHistory
  <2>2. stage = "run"
    BY <1>4, <2>1 DEF OpShape
  <2>3. VersionInv'
    BY <1>2, <1>8, <2>1, <2>2 DEF PutRead, switchHistory
  <2>4. Local \notin odd => cur = store[Local]
    BY <2>1, <2>2 DEF VersionInv
  <2>5. HolderInv'
    BY <2>1, <2>4 DEF HolderInv, Writing, Keeps
  <2> QED
    BY <2>3, <2>5
<1>9. CASE PutExist
  <2>1. op.name = "put" /\ op.pc = "exist" /\ stage' = stage /\ (op' = Idle \/ op' = [op EXCEPT !.pc = "read"])
    BY <1>9 DEF PutExist, Do, Done
  <2>2. VersionInv'
    BY <1>2, <1>9, <2>1 DEF PutExist, OpShape, switchHistory
  <2>3. CASE op' = [op EXCEPT !.pc = "read"]
    <3>1. op'.name = "put" /\ op'.pc = "read"
      BY <1>1, <2>1, <2>3
    <3>2. HolderInv'
      BY <3>1 DEF HolderInv, Writing
    <3> QED
      BY <2>2, <3>2
  <2> QED
    BY <1>3, <2>1, <2>2, <2>3
<1>10. CASE PutSet
  <2>1. op.name = "put" /\ op.pc = "set" /\ UNCHANGED <<store, odd, stage, len>>
    BY <1>10 DEF PutSet, switchHistory
  <2>2. VersionInv'
    BY <1>2, <1>10, <2>1 DEF PutSet, OpShape, switchHistory
  <2>3. PICK f \in op.todo : \/ op' = Idle
                             \/ /\ op.items[f] \in 0 .. 1
                                /\ op' = [op EXCEPT !.pc = "store",
                                                    !.word = SetSwitchByProfile(op.word, f, op.items[f])]
    BY <1>10 DEF PutSet, Done, IsSwitchValid
  <2>4. CASE op.items[f] \in 0 .. 1 /\ op' = [op EXCEPT !.pc = "store",
                                                         !.word = SetSwitchByProfile(op.word, f, op.items[f])]
    <3> DEFINE w == SetSwitchByProfile(op.word, f, op.items[f])
    <3>1. f \in DOMAIN op.items /\ f \in Flags
      BY <1>1, <2>1 DEF OpShape
    <3>2. \A g \in Flags \ {f} : Bit(w, g) = Bit(op.word, g)
      BY <1>1, <2>4, <3>1, SetBit
    <3> HIDE DEF w
    <3>3. op' = [op EXCEPT !.pc = "store", !.word = w]
      BY <2>4 DEF w
    <3>4. op'.name = "put" /\ op'.pc = "store" /\ op'.word = w /\ op'.items = op.items
      BY <1>1, <2>1, <3>3
    <3>5. Own = DOMAIN op.items /\ Own' = DOMAIN op.items
      BY <2>1, <3>4 DEF Own
    <3>6. Local \notin odd => \A g \in Flags \ Own : Bit(op.word, g) = Bit(store[Local], g)
      BY <2>1 DEF HolderInv, Writing, Keeps
    <3>7. Local \notin odd' => Keeps(op.word)' 
      BY <2>1, <3>1, <3>2, <3>4, <3>5, <3>6 DEF Keeps
    <3>8. HolderInv'
      BY <3>4, <3>7 DEF HolderInv, Writing
    <3> QED
      BY <2>2, <3>8
  <2> QED
    BY <1>3, <2>2, <2>3, <2>4
<1>11. CASE BatchExist
  <2>1. op.name \in {"batch", "collect"} /\ op.pc = "exist" /\ UNCHANGED <<store, len, odd, stage>>
    BY <1>11 DEF BatchExist, switchHistory
  <2>2. VersionInv'
    BY <1>2, <1>11, <2>1 DEF BatchExist, OpShape, switchHistory
  <2>3. PICK f \in op.todo : op' = [op EXCEPT !.todo = op.todo \ {f},
                           !.pc = IF op.todo = {f} THEN "store" ELSE "exist",
                           !.word = IF cache[Local][f] # op.items[f] /\ IsSwitchValid(op.items[f])
                                    THEN SetSwitchByProfile(op.word, f, op.items[f]) ELSE op.word]
    BY <1>11 DEF BatchExist
  <2> DEFINE w == IF cache[Local][f] # op.items[f] /\ IsSwitchValid(op.items[f])
                  THEN SetSwitchByProfile(op.word, f, op.items[f]) ELSE op.word
  <2>4. f \in DOMAIN op.items /\ f \in Flags
    BY <1>1, <2>1 DEF OpShape
  <2>5. \A g \in Flags : Bit(w, g) = Bit(op.word, g) \/ (g = f /\ Bit(w, g) = op.items[f])
    <3>1. CASE cache[Local][f] # op.items[f] /\ IsSwitchValid(op.items[f])
      <4>1. op.items[f] \in 0 .. 1 /\ w = SetSwitchByProfile(op.word, f, op.items[f])
        BY <3>1 DEF IsSwitchValid
      <4>2. Bit(w, f) = op.items[f] /\ \A g \in Flags \ {f} : Bit(w, g) = Bit(op.word, g)
        BY <1>1, <2>4, <4>1, SetBit
      <4> HIDE DEF w
      <4> QED
        BY <4>2
    <3>2. CASE ~(cache[Local][f] # op.items[f] /\ IsSwitchValid(op.items[f]))
      <4>1. w = op.word
        BY <3>2
      <4> HIDE DEF w
      <4> QED
        BY <4>1
    <3> QED
      BY <3>1, <3>2
  <2> HIDE DEF w
  <2>6. op' = [op EXCEPT !.todo = op.todo \ {f}, !.pc = IF op.todo = {f} THEN "store" ELSE "exist", !.word = w]
    BY <2>3 DEF w
  <2>7. op'.name = op.name /\ op'.pc \in {"store", "exist"} /\ op'.word = w /\ op'.items = op.items
    BY <1>1, <2>6
  <2>8. Own' = Own
    BY <2>1, <2>7 DEF Own
  <2>9. Local \notin odd => \A g \in Flags \ Own : Bit(w, g) = Bit(store[Local], g)
    <3>1. SUFFICES ASSUME Local \notin odd, NEW g \in Flags \ Own PROVE Bit(w, g) = Bit(store[Local], g)
      OBVIOUS
    <3>2. Bit(op.word, g) = Bit(store[Local], g)
      BY <2>1, <3>1 DEF HolderInv, Writing, Keeps
    <3>3. CASE g = f
      <4>1. op.name = "collect" /\ f < len
        <5>1. op.name = "collect" /\ ~(f >= len)
          BY <2>1, <2>4, <3>1, <3>3 DEF Own
        <5>2. f \in Nat /\ len \in Nat
          BY <2>4, Bounds DEF TypeInv
        <5> QED
          BY <5>1, <5>2
      <4>2. op.items[f] = Bit(store[Local], f)
        BY <2>1, <2>4, <3>1, <4>1 DEF HolderInv
      <4> QED
        BY <2>5, <3>1, <3>2, <3>3, <4>2
    <3> QED
      BY <2>5, <3>1, <3>2, <3>3
  <2>10. Local \notin odd' => Keeps(op.word)'
    BY <2>1, <2>7, <2>8, <2>9 DEF Keeps
  <2>11. op'.name = "collect" /\ Local \notin odd' =>
             \A g \in DOMAIN op'.items : g < len' => op'.items[g] = Bit(store'[Local], g)
    BY <2>1, <2>7 DEF HolderInv
  <2>12. HolderInv'
    BY <2>7, <2>10, <2>11 DEF HolderInv
  <2> QED
    BY <2>2, <2>12
<1>12. CASE PutSwitch
  <2>1. op.pc = "store" /\ stage' = stage /\ UNCHANGED <<cur, seen, odd>>
    BY <1>12 DEF PutSwitch
  <2>2. stage = "run" /\ op.dev = Local
    BY <1>4, <2>1 DEF OpShape
  <2>3. CASE op' = Idle /\ UNCHANGED <<store, len, ver, tasks>>
    BY <1>2, <1>3, <2>1, <2>2, <2>3
  <2>4. CASE /\ store' = [store EXCEPT ![Local] = op.word] /\ ver' = [ver EXCEPT ![Local] = ver[Local] + 1]
             /\ op' = [op EXCEPT !.pc = "cur", !.ver = ver[Local] + 1, !.todo = DOMAIN op.items]
             /\ (IF op.word = store[Local] THEN tasks' = tasks
                 ELSE tasks' = tasks \cup {Change(Local, op.word, ver[Local] + 1)})
    <3>1. store'[Local] = op.word /\ ver'[Local] = ver[Local] + 1
      BY <1>1, <2>4
    <3>2. op'.pc = "cur" /\ op'.ver = ver[Local] + 1 /\ op'.word = op.word /\ op'.name = op.name
      BY <1>1, <2>4
    <3>3. HolderInv'
      BY <3>1, <3>2 DEF HolderInv, Writing
    <3>4. \A t \in tasks : t.dev = Local => t.ver <= ver[Local] /\ t.ver \in Nat
      BY DEF VersionInv, TypeInv, TaskStates
    <3>5. Change(Local, op.word, ver[Local] + 1).ver = ver[Local] + 1
          /\ Change(Local, op.word, ver[Local] + 1).word = op.word
      BY DEF Change
    <3>6. \A t \in tasks' : t.dev = Local => \/ t.ver <= ver[Local] /\ t.ver \in Nat
                                             \/ t.ver = ver[Local] + 1 /\ t.word = op.word
      BY <2>4, <3>4, <3>5
    <3>7. \A t \in tasks' : t.dev = Local =>
              t.ver <= ver'[Local] /\ (t.ver = ver'[Local] => t.word = store'[Local])
      BY <1>1, <3>1, <3>6
    <3>8. seen'[Local] <= ver'[Local]
      BY <1>1, <2>1, <3>1 DEF VersionInv
    <3>9. VersionInv'
      BY <2>1, <2>2, <3>2, <3>7, <3>8 DEF VersionInv
    <3> QED
      BY <3>3, <3>9
  <2> QED
    BY <1>12, <2>3, <2>4 DEF PutSwitch, Done
<1>13. ASSUME op.dev = Local, op.pc \in {"cur", "add", "keep"}, seen' = [seen EXCEPT ![Local] = Later(Local, op.ver)],
              UNCHANGED <<store, ver, tasks, stage>>, odd \subseteq odd', cur' \in {cur, op.word},
              op.pc = "cur" => cur' = op.word
       PROVE  VersionInv'
  <2>1. op.ver = ver[Local] /\ op.word = store[Local] /\ stage = "run"
    BY <1>4, <1>13 DEF HolderInv, OpShape
  <2>2. seen'[Local] = ver[Local]
    BY <1>1, <1>13, <2>1 DEF Later, VersionInv
  <2>3. Local \notin odd' => cur' = store[Local]
    BY <1>13, <2>1 DEF VersionInv
  <2> QED
    BY <1>1, <1>13, <2>1, <2>2, <2>3 DEF VersionInv
<1>14. ASSUME op.pc \in {"cur", "add", "keep"}, op'.pc = "add", op'.dev = op.dev, op'.ver = op.ver, op'.word = op.word,
              UNCHANGED <<store, ver>>
       PROVE  HolderInv'
  BY <1>14 DEF HolderInv, Writing
<1>15. CASE SetCurSwitch \/ GetKeep
  <2>1. op.pc \in {"cur", "keep"} /\ cur' = op.word /\ op' = [op EXCEPT !.pc = "add"] /\ Take(Local, op.ver)
        /\ UNCHANGED <<store, ver, tasks, stage>>
    BY <1>15 DEF SetCurSwitch, GetKeep, Do
  <2>2. op.dev = Local
    BY <2>1 DEF OpShape
  <2>3. op'.pc = "add" /\ op'.dev = op.dev /\ op'.ver = op.ver /\ op'.word = op.word
    BY <1>1, <2>1
  <2> QED
    BY <1>13, <1>14, <2>1, <2>2, <2>3 DEF Take
<1>16. CASE AddPut
  <2>1. op.pc = "add" /\ op.dev = Local /\ cur' = cur /\ Take(Local, op.ver) /\ UNCHANGED <<store, ver, tasks, stage>>
    BY <1>16 DEF AddPut, OpShape
  <2>2. VersionInv'
    BY <1>13, <2>1 DEF Take
  <2>3. CASE \E f : op' = [op EXCEPT !.todo = op.todo \ {f}]
    <3>1. op'.pc = "add" /\ op'.dev = op.dev /\ op'.ver = op.ver /\ op'.word = op.word
      BY <1>1, <2>1, <2>3
    <3> QED
      BY <1>14, <2>1, <2>2, <3>1
  <2> QED
    BY <1>3, <1>16, <2>2, <2>3 DEF AddPut
<1>17. CASE \E d \in Devices, f \in Flags : GetCharacteristicProfile(d, f)
  <2>1. PICK d \in Devices, f \in Flags : GetCharacteristicProfile(d, f)
    BY <1>17
  <2>2. VersionInv'
    BY <1>2, <2>1, IdleIs DEF GetCharacteristicProfile, Ready, switchHistory
  <2>3. op'.name = "get" /\ op'.pc = "fetch"
    BY <2>1 DEF GetCharacteristicProfile, Idle
  <2>4. HolderInv'
    BY <2>3 DEF HolderInv, Writing
  <2> QED
    BY <2>2, <2>4
<1>18. CASE GetFetch
  <2>1. op.name = "get" /\ op.pc = "fetch" /\ UNCHANGED <<store, ver, stage>>
    BY <1>18 DEF GetFetch, switchHistory
  <2>2. VersionInv'
    BY <1>2, <1>18, <2>1 DEF GetFetch, OpShape, switchHistory
  <2>3. op'.name = "get" /\ op'.pc \in {"keep", "add"} /\ op'.dev = op.dev /\ op'.word = store[op.dev]
        /\ op'.ver = ver[op.dev]
    BY <1>1, <1>18 DEF GetFetch
  <2>4. HolderInv'
    BY <2>1, <2>3 DEF HolderInv, Writing
  <2> QED
    BY <2>2, <2>4
<1>19. CASE GetAdd
  <2>1. op.name = "get" /\ op.pc = "add" /\ op' = Idle /\ odd \subseteq odd' /\ UNCHANGED <<store, ver, tasks, stage, cur>>
        /\ seen' = [seen EXCEPT ![op.dev] = Later(op.dev, op.ver)]
    BY <1>19 DEF GetAdd, Done
  <2>2. CASE op.dev = Local
    BY <1>3, <1>13, <2>1, <2>2
  <2>3. CASE op.dev # Local
    <3>1. seen'[Local] = seen[Local] /\ op.pc # "cur" /\ op'.pc # "cur"
      BY <1>1, <2>1, <2>3, IdleIs
    <3>2. VersionInv'
      BY <2>1, <3>1 DEF VersionInv
    <3> QED
      BY <1>3, <2>1, <3>2
  <2> QED
    BY <2>2, <2>3
<1> HIDE DEF Goal
<1> QED
  BY <1>5, <1>6, <1>7, <1>8, <1>9, <1>10, <1>11, <1>12, <1>15, <1>16, <1>17, <1>18, <1>19 DEF SwitchCall

\* Peers write their own words only.
LEMMA OutsideWords ==
    ASSUME TypeInv, VersionInv, HolderInv, SwitchOutside
    PROVE  VersionInv' /\ HolderInv'
PROOF
<1>1. UNCHANGED <<len, cur, op, stage, seen, odd>>
  BY DEF SwitchOutside, DeviceOnline, DeviceOffline, SwitchChanged, SubscribeSwitch, UnSubscribeSwitch, switchVars,
     switchHistory
<1>2. \/ UNCHANGED <<store, ver>>
      \/ \E d \in Peers, w \in PeerWords : store' = [store EXCEPT ![d] = w] /\ ver' = [ver EXCEPT ![d] = ver[d] + 1]
  BY DEF SwitchOutside, DeviceOnline, DeviceOffline, SwitchChanged, SubscribeSwitch, UnSubscribeSwitch, switchVars,
     switchHistory
<1>3. store'[Local] = store[Local] /\ ver'[Local] = ver[Local]
  BY <1>2, SwitchAssumption, Bounds DEF TypeInv
<1>4. \A t \in tasks' : t \in tasks \/ t.dev \in Peers
  BY DEF SwitchOutside, DeviceOnline, DeviceOffline, SwitchChanged, SubscribeSwitch, UnSubscribeSwitch, switchVars,
     Change
<1>5. VersionInv'
  BY <1>1, <1>3, <1>4, SwitchAssumption DEF VersionInv
<1>6. HolderInv'
  BY <1>1, <1>3 DEF HolderInv, Writing, Keeps, Own
<1> QED
  BY <1>5, <1>6

LEMMA StartTypes == SwitchInit => TypeInv /\ OpShape /\ MutexInv
PROOF
<1> SUFFICES ASSUME SwitchInit PROVE TypeInv /\ OpShape /\ MutexInv
  OBVIOUS
<1>1. tasks = {} /\ mapMtx = None /\ op = Idle /\ stage = "refresh" /\ events = 0 /\ odd = {} /\ cur = {}
  BY DEF SwitchInit
<1>2. OpShape /\ MutexInv
  BY <1>1, IdleIs, NoItems DEF OpShape, MutexInv, Busy
<1>3. store \in [Devices -> Words] /\ len \in 0 .. NFlags /\ {} \in Words
  BY Bounds, SwitchAssumption DEF SwitchInit, Words
<1>4. cache \in [Devices -> [Flags -> Values \cup {None}]]
  BY DEF SwitchInit
<1>5. parked \in [Peers -> {None} \cup [word : Words, ver : Nat]] /\ online \subseteq Peers
  BY DEF SwitchInit
<1>6. ver \in [Devices -> Nat] /\ seen \in [Devices -> Nat]
  BY DEF SwitchInit
<1>7. TypeInv
  BY <1>1, <1>3, <1>4, <1>5, <1>6, Bounds, IdleIs DEF TypeInv
<1> QED
  BY <1>2, <1>7

Inv == TypeInv /\ OpShape /\ MutexInv
allVars == <<switchVars, subVars, events, switchHistory>>

LEMMA TypesKept == Inv /\ [SwitchNext]_allVars => Inv'
PROOF
<1> SUFFICES ASSUME Inv, [SwitchNext]_allVars PROVE Inv'
  OBVIOUS
<1>1. CASE SwitchThreads
  <2>1. PICK t \in tasks : Thread(t)
    BY <1>1 DEF SwitchThreads, Thread
  <2> QED
    BY <2>1, ThreadTypes DEF Inv
<1>2. CASE SwitchOutside
  BY <1>2, OutsideTypes DEF Inv
<1>3. CASE SwitchCalls
  <2>1. SwitchCall
    BY <1>3 DEF SwitchCalls, SwitchCall
  <2> QED
    BY <2>1, CallTypes DEF Inv
<1>4. CASE UNCHANGED allVars
  <2>1. Busy' = Busy
    BY <1>4 DEF allVars, switchVars, Busy
  <2>2. TypeInv'
    BY <1>4 DEF Inv, TypeInv, allVars, switchVars, switchHistory
  <2> QED
    BY <1>4, <2>1, <2>2 DEF Inv, OpShape, MutexInv, allVars, switchVars
<1> QED
  BY <1>1, <1>2, <1>3, <1>4 DEF SwitchNext

\* Types; and the mutex of the parked words is held only by the thread of a device that
\* came online, which gives it back when it ends.
THEOREM SwitchTypeCorrect == SwitchSpec => []SwitchTypeOK
PROOF
<1>1. Inv => SwitchTypeOK
  <2> SUFFICES ASSUME Inv PROVE SwitchTypeOK
    OBVIOUS
  <2>1. mapMtx # None => \E t \in tasks : t.kind = "online" /\ t.dev = mapMtx
    BY DEF Inv, MutexInv, Busy
  <2>2. mapMtx \in Peers \cup {None}
    BY <2>1 DEF Inv, TypeInv
  <2>3. \A t \in tasks : t.flag \in Flags /\ t.dev \in Devices
    BY DEF Inv, TypeInv, TaskStates
  <2> QED
    BY <2>1, <2>2, <2>3 DEF Inv, TypeInv, SwitchTypeOK
<1>2. SwitchInit => Inv
  BY StartTypes DEF Inv
<1> QED
  BY <1>1, <1>2, TypesKept, PTL DEF SwitchSpec, allVars
-----------------------------------------------------------------------------
(* The words of the switches.                                              *)
WordInv == Inv /\ VersionInv /\ HolderInv

LEMMA StartWords == SwitchInit => WordInv
PROOF
<1> SUFFICES ASSUME SwitchInit PROVE VersionInv /\ HolderInv
  BY StartTypes DEF WordInv, Inv
<1>1. tasks = {} /\ op = Idle /\ stage = "refresh" /\ ver[Local] = 0 /\ seen[Local] = 0
  BY Bounds DEF SwitchInit
<1> QED
  BY <1>1, IdleIs DEF VersionInv, HolderInv, Writing

LEMMA WordsKept == WordInv /\ [SwitchNext]_allVars => WordInv'
PROOF
<1> SUFFICES ASSUME WordInv, [SwitchNext]_allVars PROVE VersionInv' /\ HolderInv'
  BY TypesKept DEF WordInv
<1>1. CASE SwitchThreads
  <2>1. PICK t \in tasks : Thread(t)
    BY <1>1 DEF SwitchThreads, Thread
  <2> QED
    BY <2>1, ThreadWords DEF WordInv, Inv
<1>2. CASE SwitchOutside
  BY <1>2, OutsideWords DEF WordInv, Inv
<1>3. CASE SwitchCalls
  <2>1. SwitchCall
    BY <1>3 DEF SwitchCalls, SwitchCall
  <2> QED
    BY <2>1, CallWords DEF WordInv, Inv
<1>4. CASE UNCHANGED allVars
  <2>1. UNCHANGED <<store, len, cur, tasks, op, stage, ver, seen, odd>>
    BY <1>4 DEF allVars, switchVars, switchHistory
  <2> QED
    BY <2>1 DEF WordInv, VersionInv, HolderInv, Writing, Keeps, Own
<1> QED
  BY <1>1, <1>2, <1>3, <1>4 DEF SwitchNext

\* Only PutSwitch writes the word of this device, and by HolderInv the word it writes
\* differs from the stored one in the switches of the put alone.
LEMMA WordWritten ==
    ASSUME WordInv, SwitchNext, store'[Local] # store[Local], Local \notin odd
    PROVE  \A f \in Flags \ Own : Bit(store'[Local], f) = Bit(store[Local], f)
PROOF
<1>1. CASE SwitchThreads
  <2>1. PICK t \in tasks : Thread(t)
    BY <1>1 DEF SwitchThreads, Thread
  <2> QED
    BY <2>1, ThreadTakes DEF WordInv, Inv
<1>2. CASE SwitchOutside
  <2>1. \/ UNCHANGED store
        \/ \E d \in Peers, w \in PeerWords : store' = [store EXCEPT ![d] = w]
    BY <1>2 DEF SwitchOutside, DeviceOnline, DeviceOffline, SwitchChanged, SubscribeSwitch, UnSubscribeSwitch,
       switchVars
  <2>2. store'[Local] = store[Local]
    BY <2>1, SwitchAssumption, Bounds DEF WordInv, Inv, TypeInv
  <2> QED
    BY <2>2
<1>3. CASE SwitchCalls
  <2>1. op.pc = "store" /\ store' = [store EXCEPT ![Local] = op.word]
    BY <1>3 DEF SwitchCalls, Refresh, Collect, PutCharacteristicProfile, PutCharacteristicProfileBatch, PutRead,
       PutExist, PutSet, BatchExist, PutSwitch, SetCurSwitch, AddPut, GetCharacteristicProfile, GetFetch, GetKeep,
       GetAdd
  <2>2. store'[Local] = op.word
    BY <2>1, Bounds DEF WordInv, Inv, TypeInv
  <2>3. op.name \in {"put", "batch", "collect"}
    BY <2>1, IdleIs DEF WordInv, Inv, TypeInv, OpStates, OpShape
  <2>4. Keeps(op.word)
    BY <2>1, <2>3 DEF WordInv, HolderInv, Writing
  <2> QED
    BY <2>2, <2>4 DEF Keeps
<1> QED
  BY <1>1, <1>2, <1>3 DEF SwitchNext

\* A put, and the collector of the boot, changes no switch of another service, however
\* the change threads run; as long as words are taken over in order.
THEOREM PutsKeepOthers == SwitchSpec => PutKeepsOthers
PROOF
<1>1. WordInv /\ [SwitchNext]_allVars =>
          [store'[Local] # store[Local] /\ Local \notin odd =>
               \A f \in Flags \ Own : Bit(store'[Local], f) = Bit(store[Local], f)]_allVars
  BY WordWritten
<1> QED
  BY <1>1, StartWords, WordsKept, PTL DEF SwitchSpec, PutKeepsOthers, allVars

-----------------------------------------------------------------------------
(* The switches of a peer.  T stands for the threads of the peer d, v and  *)
(* w for the latest version of its word and the word itself, n for the     *)
(* latest version taken over, p for the parked word, row for the cached    *)
(* switches, o for the devices whose words were taken over out of order.   *)

\* A thread that writes the cache.
Writes(t) == t.pc \in {"exist", "add", "tell", "cur"}
\* The switches it has brought up to date.
Covered(t, f) == f < t.flag \/ (f = t.flag /\ t.pc = "tell")

\* What was read of the latest version is the stored word.
VersionsFit(T, v, w, n, p) ==
    /\ \A t \in T : t.kind = "change" => t.ver <= v /\ (t.ver = v => t.word = w)
    /\ \A t, u \in T : t.kind = "change" /\ u.kind = "change" /\ t.ver = u.ver => t = u
    /\ n <= v
    /\ p # None => p.ver <= n /\ (p.ver = v => p.word = w)
\* The cache is written by the thread of the peer that came online, with the parked word,
\* or else by the change thread of the latest version taken over.
WritersFit(d, T, n, p, o) ==
    /\ \A t \in T : ~Writes(t) => t.flag = 0
    /\ \A t \in T : Writes(t) =>
           /\ t.ver <= n
           /\ t.kind = "online" => p # None /\ p.word = t.word
           /\ t.kind = "change" /\ d \notin o /\ t.ver = n => p = None
WrittenFit(d, T, n, row, o) ==
    d \notin o => \A t \in T : Writes(t) /\ t.ver = n =>
                      \A f \in Flags : Covered(t, f) => row[f] = Bit(t.word, f)
\* The latest word is on its way, or parked, or in the cache.
LatestFit(d, T, v, w, n, p, row, o) ==
    d \notin o /\ v > 0 =>
        \/ \E t \in T : t.kind = "change" /\ t.ver = v
        \/ p # None /\ p.ver = v
        \/ n = v /\ p = None /\ \A f \in Flags : row[f] = Bit(w, f)
Fits(d, T, v, w, n, p, row, o) ==
    /\ VersionsFit(T, v, w, n, p) /\ WritersFit(d, T, n, p, o)
    /\ WrittenFit(d, T, n, row, o) /\ LatestFit(d, T, v, w, n, p, row, o)

ParkedWords == {None} \cup [word : Words, ver : Nat]
\* At most one thread of the device that came online has the mutex.
Alone(T) == \A t, u \in T : t.kind = "online" /\ Writes(t) /\ u.kind = "online" /\ Writes(u) => t = u
Typed(T, v, n) == T \subseteq TaskStates /\ v \in Nat /\ n \in Nat /\ Alone(T)

LEMMA NoneApart == \A w, f : Bit(w, f) # None
PROOF
  BY BitValue, SwitchAssumption

\* The peer writes its word.
LEMMA FitsChanged ==
    ASSUME NEW d, NEW T, NEW v, NEW w, NEW n, NEW p \in ParkedWords, NEW row, NEW o, NEW x, NEW u,
           Typed(T, v, n), Fits(d, T, v, w, n, p, row, o), u = Change(d, x, v + 1)
    PROVE  Fits(d, T \cup {u}, v + 1, x, n, p, row, o)
PROOF
<1>1. u.kind = "change" /\ u.pc = "look" /\ u.ver = v + 1 /\ u.word = x /\ u.flag = 0
  BY DEF Change
<1>2. \A t \in T : t.ver \in Nat
  BY DEF Typed, TaskStates
<1>3. VersionsFit(T \cup {u}, v + 1, x, n, p)
  BY <1>1, <1>2 DEF Typed, Fits, VersionsFit, ParkedWords
<1>4. WritersFit(d, T \cup {u}, n, p, o) /\ WrittenFit(d, T \cup {u}, n, row, o)
  BY <1>1 DEF Fits, WritersFit, WrittenFit, Writes
<1>5. LatestFit(d, T \cup {u}, v + 1, x, n, p, row, o)
  BY <1>1 DEF LatestFit
<1> QED
  BY <1>3, <1>4, <1>5 DEF Fits

\* A change thread that goes on to park or to erase.
LEMMA FitsLooked ==
    ASSUME NEW d, NEW T, NEW v, NEW w, NEW n, NEW p, NEW row, NEW o, NEW t \in T, NEW u,
           Fits(d, T, v, w, n, p, row, o), ~Writes(t), ~Writes(u), u.flag = t.flag,
           u.kind = t.kind, u.word = t.word, u.ver = t.ver
    PROVE  Fits(d, (T \ {t}) \cup {u}, v, w, n, p, row, o)
PROOF
<1>1. VersionsFit((T \ {t}) \cup {u}, v, w, n, p)
  BY DEF Fits, VersionsFit
<1>2. WritersFit(d, (T \ {t}) \cup {u}, n, p, o) /\ WrittenFit(d, (T \ {t}) \cup {u}, n, row, o)
  BY DEF Fits, WritersFit, WrittenFit
<1>3. LatestFit(d, (T \ {t}) \cup {u}, v, w, n, p, row, o)
  BY DEF Fits, LatestFit
<1> QED
  BY <1>1, <1>2, <1>3 DEF Fits

\* A thread of a device that came online starts, or ends where nothing is parked.
LEMMA FitsOnline ==
    ASSUME NEW d, NEW T, NEW v, NEW w, NEW n, NEW p, NEW row, NEW o, NEW u, NEW S,
           Fits(d, T, v, w, n, p, row, o), u.kind = "online", ~Writes(u), u.flag = 0,
           S = T \cup {u} \/ S = T \ {u}
    PROVE  Fits(d, S, v, w, n, p, row, o)
PROOF
<1>1. VersionsFit(S, v, w, n, p)
  BY DEF Fits, VersionsFit
<1>2. WritersFit(d, S, n, p, o) /\ WrittenFit(d, S, n, row, o)
  BY DEF Fits, WritersFit, WrittenFit
<1>3. LatestFit(d, S, v, w, n, p, row, o)
  BY DEF Fits, LatestFit
<1> QED
  BY <1>1, <1>2, <1>3 DEF Fits

\* A change thread takes its version over: no other thread of that version is left.
LEMMA Sole ==
    ASSUME NEW d, NEW T, NEW v, NEW w, NEW n, NEW p, NEW row, NEW o, NEW t \in T,
           Typed(T, v, n), Fits(d, T, v, w, n, p, row, o),
           t.kind = "change", t.ver >= n, \A s \in T : s.kind = "online" => ~Writes(s)
    PROVE  \A s \in T \ {t} : Writes(s) => s.kind = "change" /\ s.ver < t.ver
PROOF
<1> SUFFICES ASSUME NEW s \in T \ {t}, Writes(s) PROVE s.kind = "change" /\ s.ver < t.ver
  OBVIOUS
<1>1. s.kind = "change" /\ s.ver \in Nat /\ t.ver \in Nat /\ n \in Nat
  BY DEF Typed, TaskStates
<1>2. s.ver <= n
  BY DEF Fits, WritersFit
<1>3. s.ver # t.ver
  BY <1>1 DEF Fits, VersionsFit
<1> QED
  BY <1>1, <1>2, <1>3

LEMMA FitsParked ==
    ASSUME NEW d, NEW T, NEW v, NEW w, NEW n, NEW p, NEW row, NEW o, NEW t \in T,
           NEW m, NEW q, NEW oo, o \subseteq oo,
           Typed(T, v, n), Fits(d, T, v, w, n, p, row, o),
           t.kind = "change", ~Writes(t), \A s \in T : s.kind = "online" => ~Writes(s),
           \/ d \in oo /\ m = n /\ q = p
           \/ /\ q = [word |-> t.word, ver |-> t.ver] /\ m = IF t.ver > n THEN t.ver ELSE n
              /\ t.ver < n => d \in oo
    PROVE  Fits(d, T \ {t}, v, w, m, q, row, oo)
PROOF
<1>1. t.ver \in Nat /\ n \in Nat /\ v \in Nat /\ t.ver <= v /\ (t.ver = v => t.word = w) /\ n <= v
  BY DEF Typed, TaskStates, Fits, VersionsFit
<1>2. CASE d \in oo /\ m = n /\ q = p
  BY <1>2 DEF Fits, VersionsFit, WritersFit, WrittenFit, LatestFit
<1>3. CASE /\ q = [word |-> t.word, ver |-> t.ver] /\ m = IF t.ver > n THEN t.ver ELSE n
           /\ t.ver < n => d \in oo
  <2>1. m \in Nat /\ m <= v /\ n <= m /\ t.ver <= m /\ (d \notin oo => t.ver >= n /\ m = t.ver)
    BY <1>1, <1>3
  <2>2. q.word = t.word /\ q.ver = t.ver
    BY <1>3
  <2>3. VersionsFit(T \ {t}, v, w, m, q)
    BY <1>1, <2>1, <2>2 DEF Fits, VersionsFit
  <2>4. \A s \in T : s.ver \in Nat
    BY DEF Typed, TaskStates
  <2>5. \A s \in T \ {t} : Writes(s) => s.kind = "change" /\ s.ver <= m /\ (d \notin oo => s.ver # m)
    <3> SUFFICES ASSUME NEW s \in T \ {t}, Writes(s)
                 PROVE  s.kind = "change" /\ s.ver <= m /\ (d \notin oo => s.ver # m)
      OBVIOUS
    <3>1. s.kind = "change" /\ s.ver <= n
      BY DEF Fits, WritersFit, Typed, TaskStates
    <3>2. d \notin oo => s.ver < t.ver
      BY <2>1, Sole
    <3> QED
      BY <1>1, <2>1, <2>4, <3>1, <3>2
  <2>6. WritersFit(d, T \ {t}, m, q, oo)
    BY <2>5 DEF Fits, WritersFit
  <2>7. WrittenFit(d, T \ {t}, m, row, oo)
    BY <2>5 DEF WrittenFit
  <2>8. LatestFit(d, T \ {t}, v, w, m, q, row, oo)
    <3> SUFFICES ASSUME d \notin oo, v > 0
                 PROVE  (\E s \in T \ {t} : s.kind = "change" /\ s.ver = v) \/ (q # None /\ q.ver = v)
      BY DEF LatestFit
    <3>1. q # None
      <4>1. t.word \in Words
        BY DEF Typed, TaskStates
      <4> QED
        BY <1>1, <1>3, <4>1, SwitchAssumption
    <3> QED
      BY <1>1, <2>1, <2>2, <3>1 DEF Fits, LatestFit, VersionsFit
  <2> QED
    BY <2>3, <2>6, <2>7, <2>8 DEF Fits
<1> QED
  BY <1>2, <1>3

LEMMA FitsErased ==
    ASSUME NEW d, NEW T, NEW v, NEW w, NEW n, NEW p, NEW row, NEW o, NEW t \in T,
           NEW m, NEW u, NEW oo, o \subseteq oo,
           Typed(T, v, n), Fits(d, T, v, w, n, p, row, o),
           t.kind = "change", ~Writes(t), \A s \in T : s.kind = "online" => ~Writes(s),
           u.kind = t.kind, u.word = t.word, u.ver = t.ver, u.flag = t.flag, u.pc = "exist",
           m = IF t.ver > n THEN t.ver ELSE n, t.ver < n => d \in oo
    PROVE  Fits(d, (T \ {t}) \cup {u}, v, w, m, None, row, oo)
PROOF
<1> DEFINE S == (T \ {t}) \cup {u}
<1>1. t.ver \in Nat /\ n \in Nat /\ v \in Nat /\ t.ver <= v /\ (t.ver = v => t.word = w) /\ n <= v
  BY DEF Typed, TaskStates, Fits, VersionsFit
<1>2. m \in Nat /\ m <= v /\ n <= m /\ t.ver <= m /\ (d \notin oo => t.ver >= n /\ m = t.ver)
  BY <1>1
<1>3. VersionsFit(S, v, w, m, None)
  BY <1>1, <1>2 DEF Fits, VersionsFit
<1>4. \A s \in T : s.ver \in Nat
  BY DEF Typed, TaskStates
<1>5. \A s \in T \ {t} : Writes(s) => s.kind = "change" /\ s.ver <= m /\ (d \notin oo => s.ver # m)
  <2> SUFFICES ASSUME NEW s \in T \ {t}, Writes(s)
               PROVE  s.kind = "change" /\ s.ver <= m /\ (d \notin oo => s.ver # m)
    OBVIOUS
  <2>1. s.kind = "change" /\ s.ver <= n
    BY DEF Fits, WritersFit, Typed, TaskStates
  <2>2. d \notin oo => s.ver < t.ver
    BY <1>2, Sole
  <2> QED
    BY <1>1, <1>2, <1>4, <2>1, <2>2
<1>6. u.flag = 0 /\ Writes(u) /\ u.pc # "tell"
  BY DEF Fits, WritersFit, Writes
<1>7. WritersFit(d, S, m, None, oo)
  BY <1>2, <1>5, <1>6 DEF Fits, WritersFit
<1>8. \A f \in Flags : ~Covered(u, f)
  BY <1>6, Bounds DEF Covered
<1>9. WrittenFit(d, S, m, row, oo)
  BY <1>5, <1>8 DEF WrittenFit
<1>10. LatestFit(d, S, v, w, m, None, row, oo)
  <2> SUFFICES ASSUME d \notin oo, v > 0 PROVE \E s \in S : s.kind = "change" /\ s.ver = v
    BY DEF LatestFit
  <2>1. t.ver = v => u \in S /\ u.kind = "change" /\ u.ver = v
    OBVIOUS
  <2>2. CASE p # None /\ p.ver = v
    BY <1>1, <1>2, <2>1, <2>2 DEF Fits, VersionsFit
  <2>3. CASE n = v
    BY <1>1, <1>2, <2>1, <2>3
  <2>4. CASE \E s \in T : s.kind = "change" /\ s.ver = v
    BY <2>1, <2>4
  <2> QED
    BY <2>2, <2>3, <2>4 DEF Fits, LatestFit
<1> QED
  BY <1>3, <1>7, <1>9, <1>10 DEF Fits

\* The thread of the device that came online takes the parked word.
LEMMA FitsTaken ==
    ASSUME NEW d, NEW T, NEW v, NEW w, NEW n, NEW p, NEW row, NEW o, NEW t \in T, NEW u,
           Typed(T, v, n), Fits(d, T, v, w, n, p, row, o),
           t.kind = "online", ~Writes(t), p # None,
           u.kind = "online", u.word = p.word, u.ver = n, u.flag = t.flag, u.pc = "exist"
    PROVE  Fits(d, (T \ {t}) \cup {u}, v, w, n, p, row, o)
PROOF
<1> DEFINE S == (T \ {t}) \cup {u}
<1>1. VersionsFit(S, v, w, n, p)
  BY DEF Fits, VersionsFit
<1>2. u.flag = 0 /\ Writes(u) /\ u.pc # "tell" /\ n \in Nat
  BY DEF Fits, WritersFit, Writes, Typed
<1>3. WritersFit(d, S, n, p, o)
  BY <1>2 DEF Fits, WritersFit
<1>4. \A f \in Flags : ~Covered(u, f)
  BY <1>2, Bounds DEF Covered
<1>5. WrittenFit(d, S, n, row, o)
  BY <1>4 DEF Fits, WrittenFit
<1>6. LatestFit(d, S, v, w, n, p, row, o)
  BY DEF Fits, LatestFit
<1> QED
  BY <1>1, <1>3, <1>5, <1>6 DEF Fits

\* Of the latest version taken over there is one thread that writes.
LEMMA SoleWriter ==
    ASSUME NEW d, NEW T, NEW v, NEW w, NEW n, NEW p, NEW row, NEW o, NEW t \in T, NEW s \in T,
           Typed(T, v, n), Fits(d, T, v, w, n, p, row, o),
           Writes(t), Writes(s), t.ver = n, s.ver = n, d \notin o
    PROVE  s = t
PROOF
<1>1. s.kind \in {"change", "online"} /\ t.kind \in {"change", "online"}
  BY DEF Typed, TaskStates
<1>2. s.kind = "online" /\ t.kind = "online" => s = t
  BY DEF Typed, Alone
<1>3. s.kind = "change" /\ t.kind = "change" => s = t
  BY DEF Fits, VersionsFit
<1>4. s.kind = t.kind
  BY <1>1 DEF Fits, WritersFit
<1> QED
  BY <1>1, <1>2, <1>3, <1>4

\* It writes a switch, or goes on to the next.
LEMMA FitsWritten ==
    ASSUME NEW d, NEW T, NEW v, NEW w, NEW n, NEW p, NEW row, NEW o, NEW t \in T,
           NEW u, NEW new, NEW oo, o \subseteq oo, t.ver < n => d \in oo,
           Typed(T, v, n), Fits(d, T, v, w, n, p, row, o),
           Writes(t), Writes(u), u.kind = t.kind, u.word = t.word, u.ver = t.ver,
           \A f \in Flags : new[f] = row[f] \/ (f = t.flag /\ new[f] = Bit(t.word, f)),
           \A f \in Flags : Covered(u, f) => Covered(t, f) \/ new[f] = Bit(t.word, f)
    PROVE  Fits(d, (T \ {t}) \cup {u}, v, w, n, p, new, oo)
PROOF
<1> DEFINE S == (T \ {t}) \cup {u}
<1>1. VersionsFit(S, v, w, n, p)
  BY DEF Fits, VersionsFit
<1>2. WritersFit(d, S, n, p, oo)
  BY DEF Fits, WritersFit
<1>3. t.ver \in Nat /\ n \in Nat /\ t.ver <= n
  BY DEF Typed, TaskStates, Fits, WritersFit
<1>4. WrittenFit(d, S, n, new, oo)
  <2> SUFFICES ASSUME d \notin oo, NEW s \in S, Writes(s), s.ver = n, NEW f \in Flags, Covered(s, f)
               PROVE  new[f] = Bit(s.word, f)
    BY DEF WrittenFit
  <2>1. t.ver = n /\ d \notin o
    BY <1>3
  <2>2. s = u
    <3> SUFFICES ASSUME s \in T PROVE s = t
      OBVIOUS
    <3> QED
      BY <2>1, SoleWriter
  <2>3. Covered(t, f) => row[f] = Bit(t.word, f)
    BY <2>1 DEF Fits, WrittenFit
  <2> QED
    BY <2>2, <2>3
<1>5. LatestFit(d, S, v, w, n, p, new, oo)
  <2> SUFFICES ASSUME d \notin oo, v > 0
               PROVE  (\E s \in S : s.kind = "change" /\ s.ver = v) \/ (p # None /\ p.ver = v)
    BY DEF LatestFit
  <2>1. t.ver = n /\ t.kind \in {"change", "online"}
    BY <1>3 DEF Typed, TaskStates
  <2>2. CASE \E s \in T : s.kind = "change" /\ s.ver = v
    BY <2>2
  <2>3. CASE n = v /\ p = None
    BY <2>1, <2>3 DEF Fits, WritersFit
  <2> QED
    BY <2>2, <2>3 DEF Fits, LatestFit
<1> QED
  BY <1>1, <1>2, <1>4, <1>5 DEF Fits

\* It has written the last switch and ends.
LEMMA FitsFinished ==
    ASSUME NEW d, NEW T, NEW v, NEW w, NEW n, NEW p, NEW row, NEW o, NEW t \in T,
           NEW q, NEW oo, o \subseteq oo, t.ver < n => d \in oo,
           Typed(T, v, n), Fits(d, T, v, w, n, p, row, o),
           Writes(t), \A f \in Flags : Covered(t, f) \/ row[f] = Bit(t.word, f),
           q = IF t.kind = "online" THEN None ELSE p
    PROVE  Fits(d, T \ {t}, v, w, n, q, row, oo)
PROOF
<1>1. VersionsFit(T \ {t}, v, w, n, q)
  BY DEF Fits, VersionsFit
<1>2. WritersFit(d, T \ {t}, n, q, oo)
  BY DEF Fits, WritersFit, Typed, Alone
<1>3. WrittenFit(d, T \ {t}, n, row, oo)
  BY DEF Fits, WrittenFit
<1>4. LatestFit(d, T \ {t}, v, w, n, q, row, oo)
  <2> SUFFICES ASSUME d \notin oo, v > 0
               PROVE  \/ \E s \in T \ {t} : s.kind = "change" /\ s.ver = v
                      \/ q # None /\ q.ver = v
                      \/ n = v /\ q = None /\ \A f \in Flags : row[f] = Bit(w, f)
    BY DEF LatestFit
  <2>1. t.ver \in Nat /\ n \in Nat /\ v \in Nat /\ t.ver <= n /\ n <= v /\ t.kind \in {"change", "online"}
    BY DEF Typed, TaskStates, Fits, WritersFit, VersionsFit
  <2>2. t.ver = n /\ d \notin o
    BY <2>1
  <2>3. \A f \in Flags : row[f] = Bit(t.word, f)
    BY <2>2 DEF Fits, WrittenFit
  <2>4. CASE t.kind = "online"
    <3>1. q = None /\ p # None /\ p.word = t.word
      BY <2>4 DEF Fits, WritersFit
    <3>2. CASE p.ver = v
      <4>1. t.word = w /\ p.ver <= n
        BY <3>1, <3>2 DEF Fits, VersionsFit
      <4> QED
        BY <2>1, <2>3, <3>1, <3>2, <4>1
    <3>3. CASE \E s \in T : s.kind = "change" /\ s.ver = v
      BY <2>4, <3>3
    <3> QED
      BY <3>1, <3>2, <3>3 DEF Fits, LatestFit
  <2>5. CASE t.kind = "change"
    <3>1. q = None /\ p = None
      BY <2>2, <2>5 DEF Fits, WritersFit
    <3>2. CASE t.ver = v
      BY <2>2, <2>3, <2>5, <3>1, <3>2 DEF Fits, VersionsFit
    <3>3. CASE t.ver # v
      BY <2>2, <2>5, <3>1, <3>3 DEF Fits, LatestFit
    <3> QED
      BY <3>2, <3>3
  <2> QED
    BY <2>1, <2>4, <2>5
<1> QED
  BY <1>1, <1>2, <1>3, <1>4 DEF Fits

\* A get adds a switch that was missing, of the version y that it has read.
Read(v, w, x, y) == y \in Nat /\ y <= v /\ (y = v => x = w)
Added(row, new, f, b) == f \in Flags /\ new[f] = b /\ \A g \in Flags \ {f} : new[g] = row[g]

LEMMA FitsGot ==
    ASSUME NEW d, NEW T, NEW v, NEW w, NEW n, NEW p \in ParkedWords, NEW row, NEW o, NEW f,
           NEW x, NEW y, NEW m, NEW new, NEW oo, o \subseteq oo,
           Typed(T, v, n), Fits(d, T, v, w, n, p, row, o),
           Read(v, w, x, y), m = IF y > n THEN y ELSE n,
           y < n => d \in oo, row[f] # None => d \in oo, Added(row, new, f, Bit(x, f))
    PROVE  Fits(d, T, v, w, m, p, new, oo)
PROOF
<1>1. n \in Nat /\ v \in Nat /\ n <= v /\ m \in Nat /\ n <= m /\ m <= v /\ (d \notin oo => m = y /\ row[f] = None)
  BY DEF Typed, Fits, VersionsFit, Read
<1>2. \A s \in T : s.ver \in Nat
  BY DEF Typed, TaskStates
<1>3. VersionsFit(T, v, w, m, p)
  <2>1. p # None => p.ver <= m
    <3>1. p # None => p.ver \in Nat /\ p.ver <= n
      BY DEF Fits, VersionsFit, ParkedWords
    <3> QED
      BY <1>1, <3>1
  <2> QED
    BY <1>1, <2>1 DEF Fits, VersionsFit
<1>4. WritersFit(d, T, m, p, oo)
  BY <1>1, <1>2 DEF Fits, WritersFit
<1>5. WrittenFit(d, T, m, new, oo)
  <2> SUFFICES ASSUME d \notin oo, NEW s \in T, Writes(s), s.ver = m, NEW g \in Flags, Covered(s, g)
               PROVE  new[g] = Bit(s.word, g)
    BY DEF WrittenFit
  <2>1. s.ver = n /\ d \notin o
    BY <1>1, <1>2 DEF Fits, WritersFit
  <2>2. row[g] = Bit(s.word, g)
    BY <2>1 DEF Fits, WrittenFit
  <2> QED
    BY <1>1, <2>2, NoneApart DEF Added
<1>6. LatestFit(d, T, v, w, m, p, new, oo)
  <2> SUFFICES ASSUME d \notin oo, v > 0, n = v, p = None, \A g \in Flags : row[g] = Bit(w, g)
               PROVE  FALSE
    BY DEF Fits, LatestFit
  <2> QED
    BY <1>1, NoneApart DEF Added
<1> QED
  BY <1>3, <1>4, <1>5, <1>6 DEF Fits

LEMMA FitsOutOfOrder ==
    ASSUME NEW d, NEW T, NEW v, NEW w, NEW n, NEW p, NEW row, NEW o, NEW oo, o \subseteq oo,
           Fits(d, T, v, w, n, p, row, o)
    PROVE  Fits(d, T, v, w, n, p, row, oo)
PROOF
  BY DEF Fits, WritersFit, WrittenFit, LatestFit

-----------------------------------------------------------------------------
(* The steps, each on the switches of one peer.                            *)
Of(S, d) == {t \in S : t.dev = d}
PeerFits(d) == Fits(d, Of(tasks, d), ver[d], store[d], seen[d], parked[d], cache[d], odd)
\* What a get has read of the latest version is the stored word.
GetFits == op.name = "get" /\ op.pc = "add" /\ op.dev \in Peers =>
               op.ver <= ver[op.dev] /\ (op.ver = ver[op.dev] => op.word = store[op.dev])
PeerInv == (\A d \in Peers : PeerFits(d)) /\ GetFits

LEMMA OfPeer ==
    ASSUME TypeInv, MutexInv, NEW d \in Peers
    PROVE  /\ Typed(Of(tasks, d), ver[d], seen[d]) /\ parked[d] \in ParkedWords /\ d \in Devices
           /\ mapMtx = None => \A s \in Of(tasks, d) : s.kind = "online" => ~Writes(s)
PROOF
<1>1. d \in Devices
  BY Bounds
<1>2. \A t \in tasks : t.kind = "online" /\ Writes(t) => t \in Busy
  BY DEF Busy, Writes
<1>3. \A t, u \in Busy : t = u
  BY DEF MutexInv
<1>4. Alone(Of(tasks, d))
  BY <1>2, <1>3 DEF Alone, Of
<1>5. mapMtx = None => Busy = {}
  <2> SUFFICES ASSUME mapMtx = None, NEW t \in Busy, t.dev = mapMtx PROVE FALSE
    BY DEF MutexInv
  <2>1. t.dev \in Peers
    BY DEF Busy, TypeInv
  <2> QED
    BY <2>1, SwitchAssumption
<1> QED
  BY <1>1, <1>2, <1>4, <1>5 DEF Typed, Of, TypeInv, ParkedWords

\* A step that does not concern the peer.
LEMMA PeerUnconcerned ==
    ASSUME NEW d \in Peers, PeerFits(d), Of(tasks', d) = Of(tasks, d), ver'[d] = ver[d],
           store'[d] = store[d], seen'[d] = seen[d], parked'[d] = parked[d], cache'[d] = cache[d],
           odd \subseteq odd'
    PROVE  PeerFits(d)'
PROOF
<1>1. Fits(d, Of(tasks, d), ver[d], store[d], seen[d], parked[d], cache[d], odd')
  BY FitsOutOfOrder DEF PeerFits
<1> QED
  BY <1>1 DEF PeerFits

\* What taking a version over does to the device's latest and to the order.
LEMMA Taken ==
    ASSUME TypeInv, NEW d \in Devices, NEW v \in Nat, Take(d, v)
    PROVE  /\ seen'[d] = IF v > seen[d] THEN v ELSE seen[d]
           /\ odd \subseteq odd' /\ (v < seen[d] => d \in odd')
           /\ \A e \in Devices \ {d} : seen'[e] = seen[e]
PROOF
  BY DEF Take, Later, TypeInv

\* The thread at a switch: it looks, adds, notifies, and goes on or ends.
Wrote(t) == cache[t.dev][t.flag] = Bit(t.word, t.flag) \/ t.pc = "tell"
NextSwitch(t) == [t EXCEPT !.pc = "exist", !.flag = t.flag + 1]
PeerHandles(t) ==
    \/ /\ t.pc = "exist" /\ tasks' = (tasks \ {t}) \cup {[t EXCEPT !.pc = "add"]}
       /\ UNCHANGED <<cache, parked>>
    \/ /\ t.pc = "add" /\ tasks' = (tasks \ {t}) \cup {[t EXCEPT !.pc = "tell"]}
       /\ AddCharProfile(t.dev, t.flag, Bit(t.word, t.flag)) /\ UNCHANGED parked
    \/ /\ Wrote(t) /\ tasks' = (tasks \ {t}) \cup {NextSwitch(t)}
       /\ t.flag + 1 < NFlags /\ UNCHANGED <<cache, parked>>
    \/ /\ Wrote(t) /\ tasks' = tasks \ {t} /\ t.flag + 1 >= NFlags /\ cache' = cache
       /\ parked' = IF t.kind = "online" THEN [parked EXCEPT ![t.dev] = None] ELSE parked

LEMMA PeerHandled ==
    ASSUME TypeInv, NEW t \in tasks, t.dev \in Peers, HandleExist(t) \/ HandleAdd(t) \/ HandleTell(t) \/ HandleCur(t)
    PROVE  PeerHandles(t) /\ Take(t.dev, t.ver) /\ Writes(t)
PROOF
<1>1. t.dev # Local /\ t.pc # "cur" /\ t.flag \in Nat /\ NFlags \in Nat
  BY SwitchAssumption, Bounds DEF TypeInv, TaskStates
<1>2. ASSUME Advance(t), Wrote(t), cache' = cache PROVE PeerHandles(t)
  <2>1. CASE t.flag + 1 < NFlags
    BY <1>2, <2>1 DEF Advance, Step, PeerHandles, NextSwitch
  <2>2. CASE ~(t.flag + 1 < NFlags)
    <3>1. t.flag + 1 >= NFlags
      BY <1>1, <2>2
    <3>2. tasks' = tasks \ {t} /\ EndOnline(t)
      BY <1>2, <2>2 DEF Advance
    <3>3. parked' = IF t.kind = "online" THEN [parked EXCEPT ![t.dev] = None] ELSE parked
      BY <3>2 DEF EndOnline
    <3> QED
      BY <1>2, <3>1, <3>2, <3>3 DEF PeerHandles
  <2> QED
    BY <2>1, <2>2
<1>3. CASE HandleExist(t)
  <2>1. t.pc = "exist" /\ Take(t.dev, t.ver) /\ cache' = cache
    BY <1>3 DEF HandleExist
  <2>2. CASE cache[t.dev][t.flag] = Bit(t.word, t.flag)
    <3>1. Advance(t)
      BY <1>1, <1>3, <2>2 DEF HandleExist, Proceed
    <3> QED
      BY <1>2, <2>1, <2>2, <3>1 DEF Wrote, Writes
  <2>3. CASE cache[t.dev][t.flag] # Bit(t.word, t.flag)
    BY <1>3, <2>1, <2>3 DEF HandleExist, Step, PeerHandles, Writes
  <2> QED
    BY <2>2, <2>3
<1>4. CASE HandleAdd(t)
  BY <1>4 DEF HandleAdd, Step, PeerHandles, Writes
<1>5. CASE HandleTell(t)
  <2>1. Advance(t) /\ Take(t.dev, t.ver) /\ cache' = cache /\ t.pc = "tell"
    BY <1>1, <1>5 DEF HandleTell, Proceed
  <2> QED
    BY <1>2, <2>1 DEF Wrote, Writes
<1> QED
  BY <1>1, <1>3, <1>4, <1>5 DEF HandleCur

LEMMA OfStepped ==
    ASSUME NEW d, NEW t \in tasks, NEW u, t.dev = d, u.dev = d
    PROVE  /\ t \in Of(tasks, d) /\ Of(tasks \ {t}, d) = Of(tasks, d) \ {t}
           /\ Of((tasks \ {t}) \cup {u}, d) = (Of(tasks, d) \ {t}) \cup {u}
PROOF
  BY DEF Of

LEMMA PeerHandledFits ==
    ASSUME TypeInv, MutexInv, NEW d \in Peers, PeerFits(d), NEW t \in tasks, t.dev = d,
           PeerHandles(t), Take(t.dev, t.ver), Writes(t), ver' = ver, store' = store
    PROVE  PeerFits(d)'
PROOF
<1> DEFINE T == Of(tasks, d)
<1>1. /\ Typed(T, ver[d], seen[d]) /\ parked[d] \in ParkedWords /\ d \in Devices /\ t \in T
      /\ t \in TaskStates
  BY OfPeer, OfStepped DEF TypeInv
<1>2. t.ver \in Nat /\ t.flag \in Flags /\ seen[d] \in Nat
  BY <1>1 DEF TaskStates, Typed
<1>3. t.ver <= seen[d] /\ Fits(d, T, ver[d], store[d], seen[d], parked[d], cache[d], odd)
  BY <1>1 DEF PeerFits, Fits, WritersFit
<1>4. seen'[d] = seen[d] /\ odd \subseteq odd' /\ (t.ver < seen[d] => d \in odd')
  <2>1. seen'[d] = IF t.ver > seen[d] THEN t.ver ELSE seen[d]
    BY <1>1, <1>2, Taken
  <2> QED
    BY <1>1, <1>2, <1>3, <2>1, Taken
<1>5. cache[d] \in [Flags -> Values \cup {None}] /\ DOMAIN cache = Devices
  BY <1>1 DEF TypeInv
<1>6. ASSUME NEW u, Writes(u), u.kind = t.kind, u.word = t.word, u.ver = t.ver, u.dev = d,
             tasks' = (tasks \ {t}) \cup {u}, parked' = parked,
             \A f \in Flags : cache'[d][f] = cache[d][f] \/ (f = t.flag /\ cache'[d][f] = Bit(t.word, f)),
             \A f \in Flags : Covered(u, f) => Covered(t, f) \/ cache'[d][f] = Bit(t.word, f)
      PROVE  PeerFits(d)'
  <2>1. Of(tasks', d) = (T \ {t}) \cup {u}
    BY <1>6, OfStepped
  <2> HIDE DEF T
  <2>2. Fits(d, (T \ {t}) \cup {u}, ver[d], store[d], seen[d], parked[d], cache'[d], odd')
    BY <1>1, <1>3, <1>4, <1>6, FitsWritten
  <2> QED
    BY <1>4, <1>6, <2>1, <2>2 DEF PeerFits
<1>7. CASE t.pc = "exist" /\ tasks' = (tasks \ {t}) \cup {[t EXCEPT !.pc = "add"]} /\ UNCHANGED <<cache, parked>>
  <2> DEFINE u == [t EXCEPT !.pc = "add"]
  <2>1. u.pc = "add" /\ u.kind = t.kind /\ u.word = t.word /\ u.ver = t.ver /\ u.dev = d /\ u.flag = t.flag
    BY <1>1 DEF TaskStates
  <2>2. Writes(u) /\ \A f \in Flags : Covered(u, f) => Covered(t, f)
    BY <2>1 DEF Writes, Covered
  <2> HIDE DEF u
  <2> QED
    BY <1>6, <1>7, <2>1, <2>2 DEF u
<1>8. CASE /\ t.pc = "add" /\ tasks' = (tasks \ {t}) \cup {[t EXCEPT !.pc = "tell"]}
           /\ AddCharProfile(t.dev, t.flag, Bit(t.word, t.flag)) /\ UNCHANGED parked
  <2> DEFINE u == [t EXCEPT !.pc = "tell"]
  <2>1. u.pc = "tell" /\ u.kind = t.kind /\ u.word = t.word /\ u.ver = t.ver /\ u.dev = d /\ u.flag = t.flag
    BY <1>1 DEF TaskStates
  <2>2. cache' = [cache EXCEPT ![d] = [cache[d] EXCEPT ![t.flag] = Bit(t.word, t.flag)]]
    BY <1>8 DEF AddCharProfile
  <2>3. cache'[d] = [cache[d] EXCEPT ![t.flag] = Bit(t.word, t.flag)]
    BY <1>1, <1>5, <2>2
  <2>4. \A f \in Flags : cache'[d][f] = IF f = t.flag THEN Bit(t.word, f) ELSE cache[d][f]
    BY <1>2, <1>5, <2>3
  <2>5. Writes(u) /\ \A f \in Flags : Covered(u, f) => Covered(t, f) \/ cache'[d][f] = Bit(t.word, f)
    BY <2>1, <2>4 DEF Writes, Covered
  <2> HIDE DEF u
  <2> QED
    BY <1>6, <1>8, <2>1, <2>4, <2>5 DEF u
<1>9. CASE /\ Wrote(t) /\ tasks' = (tasks \ {t}) \cup {NextSwitch(t)} /\ t.flag + 1 < NFlags
           /\ UNCHANGED <<cache, parked>>
  <2> DEFINE u == NextSwitch(t)
  <2>1. u.pc = "exist" /\ u.kind = t.kind /\ u.word = t.word /\ u.ver = t.ver /\ u.dev = d /\ u.flag = t.flag + 1
    BY <1>1 DEF NextSwitch, TaskStates
  <2>2. \A f \in Flags : Covered(u, f) => f < t.flag \/ f = t.flag
    <3> SUFFICES ASSUME NEW f \in Flags, f < t.flag + 1 PROVE f < t.flag \/ f = t.flag
      BY <2>1 DEF Covered
    <3>1. f \in Nat /\ t.flag \in Nat
      BY <1>2, Bounds
    <3> QED
      BY <3>1
  <2>3. Writes(u) /\ \A f \in Flags : Covered(u, f) => Covered(t, f) \/ cache'[d][f] = Bit(t.word, f)
    BY <1>9, <2>1, <2>2 DEF Writes, Covered, Wrote
  <2> HIDE DEF u
  <2> QED
    BY <1>6, <1>9, <2>1, <2>3 DEF u
<1>10. CASE /\ Wrote(t) /\ tasks' = tasks \ {t} /\ t.flag + 1 >= NFlags /\ cache' = cache
            /\ parked' = IF t.kind = "online" THEN [parked EXCEPT ![t.dev] = None] ELSE parked
  <2>1. parked'[d] = IF t.kind = "online" THEN None ELSE parked[d]
    BY <1>10 DEF TypeInv
  <2>2. \A f \in Flags : f < t.flag \/ f = t.flag
    BY <1>2, <1>10, Bounds DEF Flags
  <2>3. \A f \in Flags : Covered(t, f) \/ cache[d][f] = Bit(t.word, f)
    BY <1>10, <2>2 DEF Covered, Wrote
  <2>4. Of(tasks', d) = T \ {t}
    BY <1>10, OfStepped
  <2> HIDE DEF T
  <2>5. Fits(d, T \ {t}, ver[d], store[d], seen[d], parked'[d], cache[d], odd')
    BY <1>1, <1>3, <1>4, <2>1, <2>3, FitsFinished
  <2> QED
    BY <1>4, <1>10, <2>4, <2>5 DEF PeerFits
<1> QED
  BY <1>7, <1>8, <1>9, <1>10 DEF PeerHandles

LEMMA ThreadFits ==
    ASSUME TypeInv, MutexInv, PeerInv, NEW t \in tasks, Thread(t), NEW d \in Peers
    PROVE  PeerFits(d)'
PROOF
<1> DEFINE T == Of(tasks, d)
<1>1. /\ Typed(T, ver[d], seen[d]) /\ parked[d] \in ParkedWords /\ d \in Devices
      /\ mapMtx = None => \A s \in T : s.kind = "online" => ~Writes(s)
  BY OfPeer
<1>2. t \in TaskStates /\ t.dev \in Devices /\ t.ver \in Nat
  BY DEF TypeInv, TaskStates
<1>3. PeerFits(d) /\ Fits(d, T, ver[d], store[d], seen[d], parked[d], cache[d], odd)
  BY DEF PeerInv, PeerFits
<1>4. ver' = ver /\ store' = store
  BY ThreadTakes
<1>5. CASE t.dev # d
  <2>1. Of(tasks', d) = Of(tasks, d)
    <3>1. Ends(t) \/ \E u : GoesOn(t, u)
      BY ThreadMoves DEF Moves
    <3>2. CASE Ends(t)
      BY <1>5, <3>2 DEF Ends, Of
    <3>3. ASSUME NEW u, GoesOn(t, u) PROVE Of(tasks', d) = Of(tasks, d)
      BY <1>5, <3>3 DEF GoesOn, Of
    <3> QED
      BY <3>1, <3>2, <3>3
  <2>2. seen'[d] = seen[d] /\ odd \subseteq odd'
    BY <1>1, <1>2, <1>5, ThreadTakes, Taken DEF TakesOver
  <2>3. cache'[d] = cache[d]
    <3>1. cache' = cache \/ HandleAdd(t)
      BY DEF Thread, LookUp, ParkChange, EraseParked, OnDeviceOnline, HandleExist, HandleTell, HandleCur
    <3>2. ASSUME NEW r, cache' = [cache EXCEPT ![t.dev] = r] PROVE cache'[d] = cache[d]
      BY <1>1, <1>5, <3>2 DEF TypeInv
    <3> QED
      BY <3>1, <3>2 DEF HandleAdd, AddCharProfile
  <2>4. parked'[d] = parked[d]
    <3>1. \/ parked' = parked \/ parked' = [parked EXCEPT ![t.dev] = None]
          \/ parked' = [parked EXCEPT ![t.dev] = [word |-> t.word, ver |-> t.ver]]
      BY DEF Thread, LookUp, ParkChange, AddSwitchCacheMap, EraseParked, EraseSwitchCacheMap, OnDeviceOnline,
         HandleExist, HandleAdd, HandleTell, HandleCur, Proceed, Advance, EndOnline
    <3> QED
      BY <1>5, <3>1 DEF TypeInv
  <2> QED
    BY <1>3, <1>4, <2>1, <2>2, <2>3, <2>4, PeerUnconcerned
<1>6. CASE t.dev = d
  <2>1. ASSUME NEW u, u.dev = d PROVE t \in T /\ Of(tasks \ {t}, d) = T \ {t}
                                      /\ Of((tasks \ {t}) \cup {u}, d) = (T \ {t}) \cup {u}
    BY <1>6, <2>1, OfStepped
  <2>2. t \in T /\ Of(tasks \ {t}, d) = T \ {t}
    BY <1>6 DEF Of
  <2> HIDE DEF T
  <2>3. CASE LookUp(t)
    <3>1. PICK pc \in {"erase", "park"} : tasks' = (tasks \ {t}) \cup {[t EXCEPT !.pc = pc]}
      BY <2>3 DEF LookUp, Step
    <3> DEFINE u == [t EXCEPT !.pc = pc]
    <3>2. u.pc = pc /\ u.kind = t.kind /\ u.dev = d /\ u.word = t.word /\ u.ver = t.ver /\ u.flag = t.flag
      BY <1>2, <1>6 DEF TaskStates
    <3>3. ~Writes(t) /\ ~Writes(u)
      BY <2>3, <3>2 DEF LookUp, Writes
    <3> HIDE DEF u
    <3>4. Fits(d, (T \ {t}) \cup {u}, ver[d], store[d], seen[d], parked[d], cache[d], odd)
      BY <1>3, <2>2, <3>2, <3>3, FitsLooked
    <3>5. Of(tasks', d) = (T \ {t}) \cup {u}
      BY <2>1, <3>1, <3>2 DEF u
    <3>6. UNCHANGED <<parked, cache, seen, odd>>
      BY <2>3 DEF LookUp, switchHistory
    <3> QED
      BY <1>4, <3>4, <3>5, <3>6 DEF PeerFits
  <2>4. CASE ParkChange(t)
    <3>1. t.kind = "change" /\ t.pc = "park" /\ mapMtx = None /\ tasks' = tasks \ {t} /\ cache' = cache
      BY <2>4 DEF ParkChange
    <3>2. /\ odd \subseteq odd'
          /\ \/ d \in odd' /\ seen'[d] = seen[d] /\ parked'[d] = parked[d]
             \/ /\ parked'[d] = [word |-> t.word, ver |-> t.ver]
                /\ seen'[d] = IF t.ver > seen[d] THEN t.ver ELSE seen[d]
                /\ t.ver < seen[d] => d \in odd'
      <4>1. CASE odd' = odd \cup {d} /\ UNCHANGED <<parked, seen>>
        BY <4>1
      <4>2. CASE parked' = [parked EXCEPT ![d] = [word |-> t.word, ver |-> t.ver]] /\ Take(d, t.ver)
        BY <1>1, <1>2, <4>2, Taken DEF TypeInv
      <4> QED
        BY <1>6, <2>4, <4>1, <4>2 DEF ParkChange, AddSwitchCacheMap
    <3>3. ~Writes(t)
      BY <3>1 DEF Writes
    <3>4. Fits(d, T \ {t}, ver[d], store[d], seen'[d], parked'[d], cache[d], odd')
      BY <1>1, <1>3, <2>2, <3>1, <3>2, <3>3, FitsParked
    <3> QED
      BY <1>4, <2>2, <3>1, <3>4 DEF PeerFits
  <2>5. CASE EraseParked(t)
    <3> DEFINE u == [t EXCEPT !.pc = "exist"]
    <3>1. t.kind = "change" /\ t.pc = "erase" /\ mapMtx = None /\ cache' = cache
          /\ tasks' = (tasks \ {t}) \cup {u} /\ Take(d, t.ver)
      BY <1>6, <2>5 DEF EraseParked, Step
    <3>2. u.pc = "exist" /\ u.kind = t.kind /\ u.dev = d /\ u.word = t.word /\ u.ver = t.ver /\ u.flag = t.flag
      BY <1>2, <1>6 DEF TaskStates
    <3>3. ~Writes(t)
      BY <3>1 DEF Writes
    <3>4. parked'[d] = None
      BY <1>6, <2>5 DEF EraseParked, EraseSwitchCacheMap, TypeInv
    <3>5. seen'[d] = (IF t.ver > seen[d] THEN t.ver ELSE seen[d]) /\ odd \subseteq odd'
          /\ (t.ver < seen[d] => d \in odd')
      BY <1>1, <1>2, <3>1, Taken
    <3>6. Of(tasks', d) = (T \ {t}) \cup {u}
      BY <2>1, <3>1, <3>2
    <3> HIDE DEF u
    <3>7. Fits(d, (T \ {t}) \cup {u}, ver[d], store[d], seen'[d], None, cache[d], odd')
      BY <1>1, <1>3, <2>2, <3>1, <3>2, <3>3, <3>5, FitsErased
    <3> QED
      BY <1>4, <3>1, <3>4, <3>6, <3>7 DEF PeerFits
  <2>6. CASE OnDeviceOnline(t)
    <3>1. t.kind = "online" /\ t.pc = "look" /\ UNCHANGED <<parked, cache, seen, odd>> /\ ~Writes(t)
      BY <2>6 DEF OnDeviceOnline, switchHistory, Writes
    <3>2. CASE parked[d] = None
      <4>1. t.flag = 0 /\ tasks' = tasks \ {t}
        BY <1>3, <1>6, <2>2, <2>6, <3>1, <3>2 DEF Fits, WritersFit, OnDeviceOnline
      <4>2. Fits(d, T \ {t}, ver[d], store[d], seen[d], parked[d], cache[d], odd)
        BY <1>3, <3>1, <4>1, FitsOnline
      <4> QED
        BY <1>4, <2>2, <3>1, <4>1, <4>2 DEF PeerFits
    <3>3. CASE parked[d] # None
      <4> DEFINE u == [t EXCEPT !.pc = "exist", !.word = parked[t.dev].word, !.ver = seen[t.dev]]
      <4>1. tasks' = (tasks \ {t}) \cup {u}
        BY <1>6, <2>6, <3>3 DEF OnDeviceOnline, Step
      <4>2. u.pc = "exist" /\ u.kind = "online" /\ u.dev = d /\ u.word = parked[d].word /\ u.ver = seen[d]
            /\ u.flag = t.flag
        BY <1>2, <1>6, <3>1 DEF TaskStates
      <4>3. Of(tasks', d) = (T \ {t}) \cup {u}
        BY <2>1, <4>1, <4>2
      <4> HIDE DEF u
      <4>4. Fits(d, (T \ {t}) \cup {u}, ver[d], store[d], seen[d], parked[d], cache[d], odd)
        BY <1>1, <1>3, <2>2, <3>1, <3>3, <4>2, FitsTaken
      <4> QED
        BY <1>4, <3>1, <4>3, <4>4 DEF PeerFits
    <3> QED
      BY <3>2, <3>3
  <2>7. CASE HandleExist(t) \/ HandleAdd(t) \/ HandleTell(t) \/ HandleCur(t)
    <3>1. PeerHandles(t) /\ Take(t.dev, t.ver) /\ Writes(t)
      BY <1>6, <2>7, PeerHandled
    <3> QED
      BY <1>3, <1>4, <1>6, <3>1, PeerHandledFits
  <2> QED
    BY <2>3, <2>4, <2>5, <2>6, <2>7 DEF Thread
<1> QED
  BY <1>5, <1>6

\* What a peer writes, and the threads that start.
LEMMA OutsideFits ==
    ASSUME TypeInv, MutexInv, PeerInv, SwitchOutside, NEW d \in Peers
    PROVE  PeerFits(d)'
PROOF
<1> DEFINE T == Of(tasks, d)
<1>1. Typed(T, ver[d], seen[d]) /\ parked[d] \in ParkedWords /\ d \in Devices
  BY OfPeer
<1>2. PeerFits(d) /\ Fits(d, T, ver[d], store[d], seen[d], parked[d], cache[d], odd)
  BY DEF PeerInv, PeerFits
<1>3. UNCHANGED <<cache, parked, seen, odd>>
  BY DEF SwitchOutside, DeviceOnline, DeviceOffline, SwitchChanged, SubscribeSwitch, UnSubscribeSwitch, switchVars,
     switchHistory
<1>4. \/ UNCHANGED <<store, ver, tasks>>
      \/ UNCHANGED <<store, ver>> /\ \E e \in Peers : tasks' = tasks \cup
             {[kind |-> "online", dev |-> e, word |-> {}, ver |-> events, pc |-> "look", flag |-> 0]}
      \/ \E e \in Peers, w \in PeerWords : /\ store' = [store EXCEPT ![e] = w]
                                           /\ ver' = [ver EXCEPT ![e] = ver[e] + 1]
                                           /\ tasks' = tasks \cup {Change(e, w, ver[e] + 1)}
  BY DEF SwitchOutside, DeviceOnline, DeviceOffline, SwitchChanged, SubscribeSwitch, UnSubscribeSwitch, switchVars,
     switchHistory
<1>5. ASSUME NEW u, tasks' = tasks \cup {u} PROVE Of(tasks', d) = IF u.dev = d THEN T \cup {u} ELSE T
  BY <1>5 DEF Of
<1> HIDE DEF T
<1>6. CASE UNCHANGED <<store, ver, tasks>>
  BY <1>2, <1>3, <1>6, PeerUnconcerned
<1>7. ASSUME NEW e \in Peers, UNCHANGED <<store, ver>>, tasks' = tasks \cup
             {[kind |-> "online", dev |-> e, word |-> {}, ver |-> events, pc |-> "look", flag |-> 0]}
      PROVE  PeerFits(d)'
  <2> DEFINE u == [kind |-> "online", dev |-> e, word |-> {}, ver |-> events, pc |-> "look", flag |-> 0]
  <2>1. u.kind = "online" /\ u.dev = e /\ u.flag = 0 /\ ~Writes(u)
    BY DEF Writes
  <2> HIDE DEF u
  <2>2. Of(tasks', d) = IF e = d THEN T \cup {u} ELSE T
    BY <1>5, <1>7, <2>1 DEF u
  <2>3. Fits(d, T \cup {u}, ver[d], store[d], seen[d], parked[d], cache[d], odd)
    BY <1>2, <2>1, FitsOnline
  <2> QED
    BY <1>2, <1>3, <1>7, <2>2, <2>3 DEF PeerFits
<1>8. ASSUME NEW e \in Peers, NEW w \in PeerWords, store' = [store EXCEPT ![e] = w],
             ver' = [ver EXCEPT ![e] = ver[e] + 1], tasks' = tasks \cup {Change(e, w, ver[e] + 1)}
      PROVE  PeerFits(d)'
  <2> DEFINE u == Change(e, w, ver[e] + 1)
  <2>1. u.dev = e
    BY DEF Change
  <2>2. CASE e = d
    <3>1. Of(tasks', d) = T \cup {u}
      BY <1>5, <1>8, <2>1, <2>2
    <3>2. Fits(d, T \cup {u}, ver[d] + 1, w, seen[d], parked[d], cache[d], odd)
      BY <1>1, <1>2, <2>2, FitsChanged
    <3>3. store'[d] = w /\ ver'[d] = ver[d] + 1
      BY <1>1, <1>8, <2>2 DEF TypeInv
    <3> QED
      BY <1>3, <3>1, <3>2, <3>3 DEF PeerFits
  <2>3. CASE e # d
    <3>1. Of(tasks', d) = T
      BY <1>5, <1>8, <2>1, <2>3
    <3>2. store'[d] = store[d] /\ ver'[d] = ver[d]
      BY <1>1, <1>8, <2>3 DEF TypeInv
    <3> QED
      BY <1>2, <1>3, <3>1, <3>2 DEF PeerFits
  <2> QED
    BY <2>2, <2>3
<1> QED
  BY <1>4, <1>6, <1>7, <1>8

LEMMA CallFits ==
    ASSUME TypeInv, MutexInv, PeerInv, SwitchCall, NEW d \in Peers
    PROVE  PeerFits(d)'
PROOF
<1> DEFINE T == Of(tasks, d)
<1>1. Typed(T, ver[d], seen[d]) /\ parked[d] \in ParkedWords /\ d \in Devices /\ d # Local
  BY OfPeer, SwitchAssumption
<1>2. PeerFits(d) /\ Fits(d, T, ver[d], store[d], seen[d], parked[d], cache[d], odd)
  BY DEF PeerInv, PeerFits
<1>3. parked' = parked
  BY DEF SwitchCall, Refresh, Collect, PutCharacteristicProfile, PutCharacteristicProfileBatch, PutRead, PutExist,
     PutSet, BatchExist, PutSwitch, SetCurSwitch, AddPut, GetCharacteristicProfile, GetFetch, GetKeep, GetAdd
<1>4. store' = store \/ store' = [store EXCEPT ![Local] = op.word]
  BY DEF SwitchCall, Refresh, Collect, PutCharacteristicProfile, PutCharacteristicProfileBatch, PutRead, PutExist,
     PutSet, BatchExist, PutSwitch, SetCurSwitch, AddPut, GetCharacteristicProfile, GetFetch, GetKeep, GetAdd
<1>5. ver' = ver \/ ver' = [ver EXCEPT ![Local] = ver[Local] + 1]
  BY DEF SwitchCall, Refresh, Collect, PutCharacteristicProfile, PutCharacteristicProfileBatch, PutRead, PutExist,
     PutSet, BatchExist, PutSwitch, SetCurSwitch, AddPut, GetCharacteristicProfile, GetFetch, GetKeep, GetAdd,
     switchHistory
<1>6. tasks' = tasks \/ tasks' = tasks \cup {Change(Local, op.word, ver[Local] + 1)}
  BY DEF SwitchCall, Refresh, Collect, PutCharacteristicProfile, PutCharacteristicProfileBatch, PutRead, PutExist,
     PutSet, BatchExist, PutSwitch, SetCurSwitch, AddPut, GetCharacteristicProfile, GetFetch, GetKeep, GetAdd
<1>7. store'[d] = store[d] /\ ver'[d] = ver[d]
  BY <1>1, <1>4, <1>5 DEF TypeInv
<1>8. Of(tasks', d) = Of(tasks, d)
  BY <1>1, <1>6 DEF Of, Change
<1>9. CASE GetAdd /\ op.dev = d
  <2>1. PICK f \in op.todo :
            /\ AddCharProfile(d, f, Bit(op.word, f))
            /\ seen' = [seen EXCEPT ![d] = Later(d, op.ver)]
            /\ odd' = IF op.ver < seen[d] \/ cache[d][f] # None THEN odd \cup {d} ELSE odd
    BY <1>9 DEF GetAdd
  <2>2. op.name = "get" /\ op.pc = "add" /\ f \in Flags /\ op.ver \in Nat
    BY <1>9, <2>1 DEF GetAdd, TypeInv, OpStates
  <2>3. op.ver <= ver[d] /\ (op.ver = ver[d] => op.word = store[d])
    BY <1>9, <2>2 DEF PeerInv, GetFits
  <2>4. seen'[d] = IF op.ver > seen[d] THEN op.ver ELSE seen[d]
    BY <1>1, <2>1 DEF Later, TypeInv
  <2>5. odd \subseteq odd' /\ (op.ver < seen[d] \/ cache[d][f] # None => d \in odd')
    BY <2>1
  <2>6. cache[d] \in [Flags -> Values \cup {None}] /\ DOMAIN cache = Devices
    BY <1>1 DEF TypeInv
  <2>7. cache'[d] = [cache[d] EXCEPT ![f] = Bit(op.word, f)]
    <3>1. cache' = [cache EXCEPT ![d] = [cache[d] EXCEPT ![f] = Bit(op.word, f)]]
      BY <2>1 DEF AddCharProfile
    <3> QED
      BY <1>1, <2>6, <3>1
  <2>8. cache'[d][f] = Bit(op.word, f) /\ \A g \in Flags \ {f} : cache'[d][g] = cache[d][g]
    BY <2>2, <2>6, <2>7
  <2> HIDE DEF T
  <2>10. Read(ver[d], store[d], op.word, op.ver) /\ Added(cache[d], cache'[d], f, Bit(op.word, f))
    BY <2>2, <2>3, <2>8 DEF Read, Added
  <2>9. Fits(d, T, ver[d], store[d], seen'[d], parked[d], cache'[d], odd')
    BY <1>1, <1>2, <2>4, <2>5, <2>10, FitsGot
  <2> QED
    BY <1>3, <1>7, <1>8, <2>9 DEF PeerFits, T
<1>10. CASE ~(GetAdd /\ op.dev = d)
  <2>1. cache'[d] = cache[d] /\ seen'[d] = seen[d] /\ odd \subseteq odd'
    <3>1. ASSUME NEW e \in Devices, NEW f, NEW x, AddCharProfile(e, f, x), e # d PROVE cache'[d] = cache[d]
      <4>1. cache' = [cache EXCEPT ![e] = [cache[e] EXCEPT ![f] = x]]
        BY <3>1 DEF AddCharProfile
      <4> QED
        BY <1>1, <3>1, <4>1 DEF TypeInv
    <3>2. ASSUME NEW v, Take(Local, v) PROVE seen'[d] = seen[d] /\ odd \subseteq odd'
      BY <1>1, <3>2 DEF Take, TypeInv
    <3>3. CASE Refresh
      BY <1>1, <3>3 DEF Refresh, TypeInv
    <3>4. CASE AddPut
      BY <1>1, <3>1, <3>2, <3>4, Bounds DEF AddPut
    <3>5. CASE SetCurSwitch \/ GetKeep
      BY <3>2, <3>5 DEF SetCurSwitch, GetKeep
    <3>6. CASE GetAdd
      <4>1. op.dev # d /\ op.dev \in Devices
        BY <1>10, <3>6 DEF TypeInv, OpStates
      <4>2. cache'[d] = cache[d]
        BY <3>1, <3>6, <4>1 DEF GetAdd
      <4>3. \E v : seen' = [seen EXCEPT ![op.dev] = v]
        BY <3>6 DEF GetAdd
      <4> QED
        BY <1>1, <3>6, <4>1, <4>2, <4>3 DEF GetAdd, TypeInv
    <3>7. CASE cache' = cache /\ seen' = seen /\ odd \subseteq odd'
      BY <3>7
    <3> QED
      BY <3>3, <3>4, <3>5, <3>6, <3>7 DEF SwitchCall, Collect, PutCharacteristicProfile, PutCharacteristicProfileBatch,
         PutRead, PutExist, PutSet, BatchExist, PutSwitch, GetCharacteristicProfile, GetFetch, switchHistory
  <2> QED
    BY <1>2, <1>3, <1>7, <1>8, <2>1, PeerUnconcerned
<1> QED
  BY <1>9, <1>10

LEMMA GetFitsKept ==
    ASSUME Inv, PeerInv, [SwitchNext]_allVars
    PROVE  GetFits'
PROOF
<1>1. ASSUME UNCHANGED <<op, store, ver>> PROVE GetFits'
  BY <1>1 DEF PeerInv, GetFits
<1>2. CASE SwitchThreads
  <2>1. PICK t \in tasks : Thread(t)
    BY <1>2 DEF SwitchThreads, Thread
  <2> QED
    BY <1>1, <2>1, ThreadTakes DEF Inv
<1>3. CASE SwitchOutside
  <2>1. op' = op
    BY <1>3 DEF SwitchOutside, DeviceOnline, DeviceOffline, SwitchChanged, SubscribeSwitch, UnSubscribeSwitch,
       switchVars
  <2>2. \/ UNCHANGED <<store, ver>>
        \/ \E e \in Peers, w \in PeerWords : store' = [store EXCEPT ![e] = w] /\ ver' = [ver EXCEPT ![e] = ver[e] + 1]
    BY <1>3 DEF SwitchOutside, DeviceOnline, DeviceOffline, SwitchChanged, SubscribeSwitch, UnSubscribeSwitch,
       switchVars, switchHistory
  <2>3. ASSUME NEW e \in Peers, NEW w \in PeerWords, store' = [store EXCEPT ![e] = w],
               ver' = [ver EXCEPT ![e] = ver[e] + 1]
        PROVE  GetFits'
    <3>1. op.ver \in Nat /\ op.dev \in Devices /\ ver \in [Devices -> Nat] /\ store \in [Devices -> Words] /\ e \in Devices
      BY Bounds DEF Inv, TypeInv, OpStates
    <3>2. CASE op.dev = e
      BY <2>1, <2>3, <3>1, <3>2 DEF PeerInv, GetFits
    <3>3. CASE op.dev # e
      BY <2>1, <2>3, <3>1, <3>3 DEF PeerInv, GetFits
    <3> QED
      BY <3>2, <3>3
  <2> QED
    BY <1>1, <2>1, <2>2, <2>3
<1>4. CASE SwitchCalls
  <2>1. DOMAIN op = {"name", "pc", "dev", "items", "todo", "word", "ver"} /\ op \in OpStates
        /\ ver \in [Devices -> Nat] /\ store \in [Devices -> Words] /\ op.dev \in Devices
    BY DEF Inv, TypeInv, OpStates
  <2>2. CASE GetFetch
    <3>1. op'.word = store[op.dev] /\ op'.ver = ver[op.dev] /\ op'.dev = op.dev /\ UNCHANGED <<store, ver>>
      BY <2>1, <2>2 DEF GetFetch, switchHistory
    <3> QED
      BY <2>1, <3>1 DEF GetFits
  <2>3. CASE GetKeep
    <3>1. op'.dev = op.dev
      BY <2>1, <2>3 DEF GetKeep, Do
    <3>2. op.dev = Local
      BY <2>3 DEF GetKeep, Inv, OpShape
    <3> QED
      BY <3>1, <3>2, SwitchAssumption DEF GetFits
  <2>4. CASE UNCHANGED <<op, store, ver>>
    BY <1>1, <2>4
  <2>5. CASE op'.name # "get" \/ op'.pc # "add"
    BY <2>5 DEF GetFits
  <2>6. ~GetFetch /\ ~GetKeep => UNCHANGED <<op, store, ver>> \/ op'.name # "get" \/ op'.pc # "add"
    <3>1. ASSUME op' = Idle PROVE op'.name # "get"
      BY <3>1, IdleIs
    <3>2. CASE Refresh
      BY <3>2 DEF Refresh
    <3>3. CASE Collect
      <4>1. ASSUME NEW r, op' = [Idle EXCEPT !.name = "collect", !.pc = "read", !.items = r] PROVE op'.pc # "add"
        BY <4>1 DEF Idle
      <4> QED
        BY <3>1, <3>3, <4>1 DEF Collect, switchHistory
    <3>4. CASE \E r \in Requests : PutCharacteristicProfile(r) \/ PutCharacteristicProfileBatch(r)
      BY <3>4 DEF PutCharacteristicProfile, PutCharacteristicProfileBatch, Idle
    <3>5. CASE PutRead \/ BatchExist \/ SetCurSwitch \/ AddPut \/ PutSet \/ PutExist \/ PutSwitch
      <4>1. op.name # "get"
        BY <3>5, IdleIs DEF PutRead, BatchExist, SetCurSwitch, AddPut, PutSet, PutExist, PutSwitch, Inv, OpShape
      <4>2. op' = Idle \/ op'.name = op.name
        BY <2>1, <3>5 DEF PutRead, BatchExist, SetCurSwitch, AddPut, PutSet, PutExist, PutSwitch, Do, Done
      <4> QED
        BY <3>1, <4>1, <4>2
    <3>6. CASE \E d \in Devices, f \in Flags : GetCharacteristicProfile(d, f)
      BY <3>6 DEF GetCharacteristicProfile, Idle
    <3>7. CASE GetAdd
      BY <3>1, <3>7 DEF GetAdd, Done
    <3> QED
      BY <1>4, <3>2, <3>3, <3>4, <3>5, <3>6, <3>7 DEF SwitchCalls
  <2> QED
    BY <2>2, <2>3, <2>4, <2>5, <2>6
<1>5. CASE UNCHANGED allVars
  BY <1>1, <1>5 DEF allVars, switchVars, switchHistory
<1> QED
  BY <1>2, <1>3, <1>4, <1>5 DEF SwitchNext

PeersInv == Inv /\ PeerInv

LEMMA PeersKept == PeersInv /\ [SwitchNext]_allVars => PeersInv'
PROOF
<1> SUFFICES ASSUME PeersInv, [SwitchNext]_allVars PROVE PeersInv'
  OBVIOUS
<1>1. Inv' /\ GetFits'
  BY TypesKept, GetFitsKept DEF PeersInv
<1>2. ASSUME NEW d \in Peers PROVE PeerFits(d)'
  <2>1. CASE SwitchThreads
    <3>1. PICK t \in tasks : Thread(t)
      BY <2>1 DEF SwitchThreads, Thread
    <3> QED
      BY <1>2, <3>1, ThreadFits DEF PeersInv, Inv
  <2>2. CASE SwitchOutside
    BY <1>2, <2>2, OutsideFits DEF PeersInv, Inv
  <2>3. CASE SwitchCalls
    <3>1. SwitchCall
      BY <2>3 DEF SwitchCalls, SwitchCall
    <3> QED
      BY <1>2, <3>1, CallFits DEF PeersInv, Inv
  <2>4. CASE UNCHANGED allVars
    <3>1. UNCHANGED <<store, cache, parked, tasks, ver, seen, odd>>
      BY <2>4 DEF allVars, switchVars, switchHistory
    <3>2. PeerFits(d)
      BY DEF PeersInv, PeerInv
    <3> QED
      BY <3>1, <3>2 DEF PeerFits
  <2> QED
    BY <2>1, <2>2, <2>3, <2>4 DEF SwitchNext
<1>3. PeerInv'
  BY <1>1, <1>2 DEF PeerInv
<1> QED
  BY <1>1, <1>3 DEF PeersInv

LEMMA StartPeers == SwitchInit => PeersInv
PROOF
<1> SUFFICES ASSUME SwitchInit PROVE PeersInv
  OBVIOUS
<1>1. Inv /\ GetFits
  BY StartTypes, IdleIs DEF Inv, SwitchInit, GetFits
<1>2. ASSUME NEW d \in Peers PROVE PeerFits(d)
  <2>1. Of(tasks, d) = {} /\ ver[d] = 0 /\ seen[d] = 0 /\ parked[d] = None
    BY <1>2, Bounds DEF SwitchInit, Of
  <2> QED
    BY <2>1 DEF PeerFits, Fits, VersionsFit, WritersFit, WrittenFit, LatestFit
<1> QED
  BY <1>1, <1>2 DEF PeersInv, PeerInv

\* No change of a peer gets lost: when nothing is under way its last word is cached or is
\* parked, however the change threads, the threads of devices that come online and the gets
\* run, as long as words are taken over in order.
THEOREM NoWordLost == SwitchSpec => []NothingLost
PROOF
<1>1. PeersInv => NothingLost
  <2> SUFFICES ASSUME PeersInv, AtRest, NEW d \in Peers \ odd, ver[d] > 0
               PROVE  \/ parked[d] # None /\ parked[d].ver = ver[d]
                      \/ \A f \in Flags : cache[d][f] = Bit(store[d], f)
    BY DEF NothingLost
  <2>1. Of(tasks, d) = {}
    BY DEF AtRest, Of
  <2>2. LatestFit(d, Of(tasks, d), ver[d], store[d], seen[d], parked[d], cache[d], odd)
    BY DEF PeersInv, PeerInv, PeerFits, Fits
  <2> QED
    BY <2>1, <2>2 DEF LatestFit
<1> QED
  BY <1>1, StartPeers, PeersKept, PTL DEF SwitchSpec, allVars

-----------------------------------------------------------------------------
(* What subscribers heard.                                                 *)
HeardTypes ==
    /\ subs \in [SubKeys -> [Subscribers -> {{}, {"update"}}]]
    /\ told \in [Subscribers -> [SubKeys -> Values \cup {None}]]
\* A thread is about to notify of the switch k.
Telling(S, k) == \E t \in S : t.dev = k[1] /\ t.flag = k[2] /\ t.pc = "tell"
\* Who heard of a switch subscribes to it, and heard what the cache has, unless a thread
\* that has just written the cache is about to notify.
HeardInv ==
    \A s \in Subscribers, k \in SubKeys : told[s][k] # None =>
        /\ subs[k][s] = {"update"}
        /\ k[1] \in Peers \ odd => told[s][k] = cache[k[1]][k[2]] \/ Telling(tasks, k)

LEMMA KeyIs == \A k \in SubKeys : k[1] \in Devices /\ k[2] \in Flags /\ k = <<k[1], k[2]>>
PROOF
  BY SwitchAssumption

\* A step that changes no switch for which nobody is about to notify.
LEMMA NothingNew ==
    ASSUME HeardTypes, HeardInv, UNCHANGED subVars, odd \subseteq odd',
           \A k \in SubKeys : k[1] \in Peers \ odd' =>
               \/ Telling(tasks', k)
               \/ cache'[k[1]][k[2]] = cache[k[1]][k[2]] /\ ~Telling(tasks, k)
               \/ cache[k[1]][k[2]] = None /\ ~Telling(tasks, k)
    PROVE  HeardTypes' /\ HeardInv'
PROOF
<1>1. HeardTypes' /\ told' = told /\ subs' = subs
  BY DEF HeardTypes, subVars
<1>2. ASSUME NEW s \in Subscribers, NEW k \in SubKeys, told[s][k] # None
      PROVE  subs[k][s] = {"update"} /\ (k[1] \in Peers \ odd' => told[s][k] = cache'[k[1]][k[2]] \/ Telling(tasks', k))
  BY <1>2 DEF HeardInv
<1> QED
  BY <1>1, <1>2 DEF HeardInv

LEMMA ThreadTells ==
    ASSUME TypeInv, MutexInv, PeerInv, HeardTypes, HeardInv, NEW t \in tasks, HandleTell(t)
    PROVE  HeardTypes' /\ HeardInv'
PROOF
<1>1. t \in TaskStates /\ t.dev \in Devices /\ t.ver \in Nat /\ t.flag \in Flags /\ t.pc = "tell"
  BY DEF TypeInv, TaskStates, HandleTell
<1>2. /\ told' = [s \in Subscribers |-> [j \in SubKeys |->
                     IF j = <<t.dev, t.flag>> /\ "update" \in subs[j][s] THEN Bit(t.word, t.flag) ELSE told[s][j]]]
      /\ subs' = subs /\ cache' = cache /\ Take(t.dev, t.ver)
  BY DEF HandleTell, NotifyCharProfileUpdate, NotifyProfileChange
<1>3. HeardTypes'
  BY <1>2, BitValue DEF HeardTypes
<1>4. odd \subseteq odd'
  BY <1>1, <1>2, Taken
<1>5. \A u \in tasks \ {t} : u \in tasks'
  BY ThreadMoves DEF Thread, Moves, Ends, GoesOn
<1>6. ASSUME NEW s \in Subscribers, NEW k \in SubKeys, told'[s][k] # None
      PROVE  /\ subs[k][s] = {"update"}
             /\ k[1] \in Peers \ odd' => told'[s][k] = cache[k[1]][k[2]] \/ Telling(tasks', k)
  <2>1. told'[s][k] = IF k = <<t.dev, t.flag>> /\ "update" \in subs[k][s] THEN Bit(t.word, t.flag) ELSE told[s][k]
    BY <1>2, <1>6
  <2>2. CASE k = <<t.dev, t.flag>> /\ "update" \in subs[k][s]
    <3>1. subs[k][s] = {"update"}
      BY <2>2, <1>6 DEF HeardTypes
    <3>2. ASSUME t.dev \in Peers \ odd' PROVE cache[t.dev][t.flag] = Bit(t.word, t.flag)
      <4>1. t \in Of(tasks, t.dev) /\ Writes(t) /\ Covered(t, t.flag)
        BY <1>1 DEF Of, Writes, Covered
      <4>2. /\ WritersFit(t.dev, Of(tasks, t.dev), seen[t.dev], parked[t.dev], odd)
            /\ WrittenFit(t.dev, Of(tasks, t.dev), seen[t.dev], cache[t.dev], odd)
        BY <3>2 DEF PeerInv, PeerFits, Fits
      <4>3. t.ver <= seen[t.dev]
        BY <4>1, <4>2 DEF WritersFit
      <4>4. ~(t.ver < seen[t.dev]) /\ seen[t.dev] \in Nat
        BY <1>1, <1>2, <3>2, Taken DEF TypeInv
      <4>5. t.ver = seen[t.dev] /\ t.dev \notin odd
        BY <1>1, <1>4, <3>2, <4>3, <4>4
      <4> QED
        BY <1>1, <4>1, <4>2, <4>5 DEF WrittenFit
    <3>3. k[1] = t.dev /\ k[2] = t.flag
      BY <2>2
    <3> QED
      BY <2>1, <2>2, <3>1, <3>2, <3>3
  <2>3. CASE k = <<t.dev, t.flag>> /\ "update" \notin subs[k][s]
    <3>1. subs[k][s] = {"update"}
      BY <1>6, <2>1, <2>3 DEF HeardInv
    <3> QED
      BY <2>3, <3>1
  <2>4. CASE k # <<t.dev, t.flag>>
    <3>1. told'[s][k] = told[s][k]
      BY <2>1, <2>4
    <3>2. Telling(tasks, k) => Telling(tasks', k)
      BY <1>5, <2>4, KeyIs DEF Telling
    <3> QED
      BY <1>4, <1>6, <3>1, <3>2 DEF HeardInv
  <2> QED
    BY <2>2, <2>3, <2>4
<1> QED
  BY <1>2, <1>3, <1>6 DEF HeardInv

LEMMA ThreadHeard ==
    ASSUME TypeInv, MutexInv, PeerInv, HeardTypes, HeardInv, NEW t \in tasks, Thread(t)
    PROVE  HeardTypes' /\ HeardInv'
PROOF
<1>1. t \in TaskStates /\ t.dev \in Devices /\ t.flag \in Flags
  BY DEF TypeInv, TaskStates
<1>2. \A u \in tasks \ {t} : u \in tasks'
  BY ThreadMoves DEF Moves, Ends, GoesOn
<1>3. odd \subseteq odd'
  BY ThreadTakes DEF TakesOver, Take
<1>4. CASE HandleTell(t)
  BY <1>4, ThreadTells
<1>5. CASE HandleAdd(t)
  <2>1. cache' = [cache EXCEPT ![t.dev] = [cache[t.dev] EXCEPT ![t.flag] = Bit(t.word, t.flag)]] /\ t.pc = "add"
        /\ UNCHANGED subVars /\ tasks' = (tasks \ {t}) \cup {[t EXCEPT !.pc = "tell"]}
    BY <1>5 DEF HandleAdd, AddCharProfile, Step
  <2>2. \A d \in Devices : cache[d] \in [Flags -> Values \cup {None}]
    BY DEF TypeInv
  <2>3. cache \in [Devices -> [Flags -> Values \cup {None}]]
    BY DEF TypeInv
  <2>4. ASSUME NEW k \in SubKeys, ~Telling(tasks', k)
        PROVE  cache'[k[1]][k[2]] = cache[k[1]][k[2]] /\ ~Telling(tasks, k)
    <3> DEFINE u == [t EXCEPT !.pc = "tell"]
    <3>1. u \in tasks' /\ u.dev = t.dev /\ u.flag = t.flag /\ u.pc = "tell"
      BY <1>1, <2>1 DEF TaskStates
    <3>2. k[1] # t.dev \/ k[2] # t.flag
      BY <2>4, <3>1 DEF Telling
    <3>3. ~Telling(tasks, k)
      BY <1>2, <2>1, <2>4 DEF Telling
    <3>4. k[1] \in Devices /\ k[2] \in Flags
      BY KeyIs
    <3>5. CASE k[1] # t.dev
      BY <2>1, <2>3, <3>3, <3>4, <3>5
    <3>6. CASE k[1] = t.dev /\ k[2] # t.flag
      <4>1. cache'[t.dev] = [cache[t.dev] EXCEPT ![t.flag] = Bit(t.word, t.flag)]
        BY <1>1, <2>1, <2>3
      <4> QED
        BY <1>1, <2>2, <3>3, <3>4, <3>6, <4>1
    <3> QED
      BY <3>2, <3>5, <3>6
  <2> QED
    BY <1>3, <2>1, <2>4, NothingNew
<1>6. CASE LookUp(t) \/ ParkChange(t) \/ EraseParked(t) \/ OnDeviceOnline(t) \/ HandleExist(t) \/ HandleCur(t)
  <2>1. UNCHANGED <<cache, subVars>> /\ t.pc # "tell"
    BY <1>6 DEF LookUp, ParkChange, EraseParked, OnDeviceOnline, HandleExist, HandleCur
  <2>2. \A k \in SubKeys : Telling(tasks, k) => Telling(tasks', k)
    BY <1>2, <2>1 DEF Telling
  <2> QED
    BY <1>3, <2>1, <2>2, NothingNew
<1> QED
  BY <1>4, <1>5, <1>6 DEF Thread

LEMMA CallHeard ==
    ASSUME TypeInv, OpShape, HeardTypes, HeardInv, SwitchCall
    PROVE  HeardTypes' /\ HeardInv'
PROOF
<1>1. UNCHANGED subVars /\ tasks \subseteq tasks'
  BY DEF SwitchCall, Refresh, Collect, PutCharacteristicProfile, PutCharacteristicProfileBatch, PutRead, PutExist,
     PutSet, BatchExist, PutSwitch, SetCurSwitch, AddPut, GetCharacteristicProfile, GetFetch, GetKeep, GetAdd
<1>2. odd \subseteq odd'
  BY DEF SwitchCall, Refresh, Collect, PutCharacteristicProfile, PutCharacteristicProfileBatch, PutRead, PutExist,
     PutSet, BatchExist, PutSwitch, SetCurSwitch, AddPut, GetCharacteristicProfile, GetFetch, GetKeep, GetAdd, Take,
     switchHistory
<1>3. \A k \in SubKeys : Telling(tasks, k) => Telling(tasks', k)
  BY <1>1 DEF Telling
<1>4. cache \in [Devices -> [Flags -> Values \cup {None}]]
  BY DEF TypeInv
<1>5. CASE GetAdd
  <2>1. PICK f \in op.todo :
            /\ AddCharProfile(op.dev, f, Bit(op.word, f))
            /\ odd' = IF op.ver < seen[op.dev] \/ cache[op.dev][f] # None THEN odd \cup {op.dev} ELSE odd
    BY <1>5 DEF GetAdd
  <2>2. cache' = [cache EXCEPT ![op.dev] = [cache[op.dev] EXCEPT ![f] = Bit(op.word, f)]]
    BY <2>1 DEF AddCharProfile
  <2>3. op.dev \in Devices /\ f \in Flags
    BY <2>1 DEF TypeInv, OpStates
  <2>4. ASSUME NEW k \in SubKeys, k[1] \in Peers \ odd'
        PROVE  cache'[k[1]][k[2]] = cache[k[1]][k[2]] \/ cache[k[1]][k[2]] = None
    <3>1. k[1] \in Devices /\ k[2] \in Flags
      BY KeyIs
    <3>2. CASE k[1] # op.dev
      BY <1>4, <2>2, <3>1, <3>2
    <3>3. CASE k[1] = op.dev /\ k[2] # f
      <4>1. cache'[op.dev] = [cache[op.dev] EXCEPT ![f] = Bit(op.word, f)]
        BY <1>4, <2>2, <2>3
      <4> QED
        BY <1>4, <2>3, <3>1, <3>3, <4>1
    <3>4. CASE k[1] = op.dev /\ k[2] = f
      BY <2>1, <2>4, <3>4
    <3> QED
      BY <3>2, <3>3, <3>4
  <2> QED
    BY <1>1, <1>2, <1>3, <2>4, NothingNew
<1>6. CASE ~GetAdd
  <2>1. \A d \in Peers : cache'[d] = cache[d]
    <3>1. \/ cache' = cache \/ \E r : cache' = [cache EXCEPT ![Local] = r]
      BY <1>6 DEF SwitchCall, Refresh, Collect, PutCharacteristicProfile, PutCharacteristicProfileBatch, PutRead,
         PutExist, PutSet, BatchExist, PutSwitch, SetCurSwitch, AddPut, GetCharacteristicProfile, GetFetch, GetKeep,
         AddCharProfile
    <3> QED
      BY <1>4, <3>1, SwitchAssumption, Bounds
  <2> QED
    BY <1>1, <1>2, <1>3, <2>1, NothingNew
<1> QED
  BY <1>5, <1>6

LEMMA OutsideHeard ==
    ASSUME TypeInv, HeardTypes, HeardInv, SwitchOutside
    PROVE  HeardTypes' /\ HeardInv'
PROOF
<1>1. CASE \E d \in Peers : DeviceOnline(d) \/ DeviceOffline(d) \/ \E w \in PeerWords : SwitchChanged(d, w)
  <2>1. UNCHANGED <<cache, subVars, odd>> /\ tasks \subseteq tasks'
    BY <1>1 DEF DeviceOnline, DeviceOffline, SwitchChanged, switchHistory
  <2>2. \A k \in SubKeys : Telling(tasks, k) => Telling(tasks', k)
    BY <2>1 DEF Telling
  <2> QED
    BY <2>1, <2>2, NothingNew
<1>2. ASSUME NEW s \in Subscribers, NEW k \in SubKeys, SubscribeSwitch(s, k) \/ UnSubscribeSwitch(s, k)
      PROVE  HeardTypes' /\ HeardInv'
  <2>1. UNCHANGED <<cache, tasks, odd>>
    BY <1>2 DEF SubscribeSwitch, UnSubscribeSwitch, switchVars, switchHistory
  <2>2. CASE SubscribeSwitch(s, k)
    <3>1. subs' = [subs EXCEPT ![k] = [subs[k] EXCEPT ![s] = {"update"}]] /\ told' = told
      BY <2>2 DEF SubscribeSwitch, SubscribeDeviceProfile
    <3>2. HeardTypes'
      BY <3>1 DEF HeardTypes
    <3>3. \A r \in Subscribers, j \in SubKeys : subs[j][r] = {"update"} => subs'[j][r] = {"update"}
      BY <3>1 DEF HeardTypes
    <3> QED
      BY <2>1, <3>1, <3>2, <3>3 DEF HeardInv
  <2>3. CASE UnSubscribeSwitch(s, k)
    <3>1. subs' = [subs EXCEPT ![k] = [subs[k] EXCEPT ![s] = {}]] /\ told' = [told EXCEPT ![s] = [told[s] EXCEPT ![k] = None]]
      BY <2>3 DEF UnSubscribeSwitch, UnSubscribeDeviceProfile
    <3>2. HeardTypes'
      BY <3>1 DEF HeardTypes
    <3>3. \A r \in Subscribers, j \in SubKeys :
              told'[r][j] # None => told'[r][j] = told[r][j] /\ subs'[j][r] = subs[j][r]
      BY <3>1 DEF HeardTypes
    <3> QED
      BY <2>1, <3>2, <3>3 DEF HeardInv
  <2> QED
    BY <1>2, <2>2, <2>3
<1> QED
  BY <1>1, <1>2 DEF SwitchOutside

ToldInv == PeersInv /\ HeardTypes /\ HeardInv

LEMMA ToldKept == ToldInv /\ [SwitchNext]_allVars => ToldInv'
PROOF
<1> SUFFICES ASSUME ToldInv, [SwitchNext]_allVars PROVE HeardTypes' /\ HeardInv'
  BY PeersKept DEF ToldInv
<1>1. CASE SwitchThreads
  <2>1. PICK t \in tasks : Thread(t)
    BY <1>1 DEF SwitchThreads, Thread
  <2> QED
    BY <2>1, ThreadHeard DEF ToldInv, PeersInv, Inv
<1>2. CASE SwitchOutside
  BY <1>2, OutsideHeard DEF ToldInv, PeersInv, Inv
<1>3. CASE SwitchCalls
  <2>1. SwitchCall
    BY <1>3 DEF SwitchCalls, SwitchCall
  <2> QED
    BY <2>1, CallHeard DEF ToldInv, PeersInv, Inv
<1>4. CASE UNCHANGED allVars
  BY <1>4 DEF ToldInv, HeardTypes, HeardInv, Telling, allVars, switchVars, switchHistory, subVars
<1> QED
  BY <1>1, <1>2, <1>3, <1>4 DEF SwitchNext

\* What a subscriber heard last of a peer's switch is what the cache has, once nothing is
\* under way: a thread that writes a switch notifies before any other thread writes it.
THEOREM SubscribersToldLast == SwitchSpec => []ToldLast
PROOF
<1>1. ToldInv => ToldLast
  BY DEF ToldInv, HeardInv, ToldLast, AtRest, Telling
<1>2. SwitchInit => ToldInv
  <2> SUFFICES ASSUME SwitchInit PROVE HeardTypes /\ HeardInv
    BY StartPeers DEF ToldInv
  <2>1. /\ subs = [k \in SubKeys |-> [s \in Subscribers |-> {"update"}]]
        /\ told = [s \in Subscribers |-> [k \in SubKeys |-> None]]
    BY DEF SwitchInit
  <2> QED
    BY <2>1 DEF HeardTypes, HeardInv
<1> QED
  BY <1>1, <1>2, ToldKept, PTL DEF SwitchSpec, allVars

-----------------------------------------------------------------------------
(* The switches of this device.                                            *)
\* A put is about to cache the switches of op.todo.
Caching == op.pc \in {"cur", "add"} /\ op.name # "get"
\* A change thread that is not late has the stored bits, but for those of the put that has
\* just stored its word.
ThreadBits ==
    Local \notin odd /\ stage # "refresh" =>
        \A t \in tasks : t.dev = Local /\ t.ver >= seen[Local] =>
            \A f \in Flags : Bit(t.word, f) = Bit(store[Local], f) \/ (op.pc = "cur" /\ f \in op.todo)
\* The cached bits are the stored ones, but for those the put is about to cache.
CachedBits ==
    Local \notin odd /\ stage # "refresh" =>
        \A f \in Flags : \/ cache[Local][f] \in {Bit(store[Local], f), 2}
                         \/ Caching /\ f \in op.todo
\* What the put caches is in its word, or is a value that is no switch.
Chosen(f) == op.items[f] = 2 \/ Bit(op.word, f) = op.items[f]
ChosenBits ==
    /\ op.name = "put" => \E f \in Flags : DOMAIN op.items = {f}
    /\ op.name \in {"put", "batch", "collect"} /\ op.pc \in {"store", "cur", "add"} /\ Local \notin odd =>
           \A f \in DOMAIN op.items : Chosen(f)
    /\ op.name \in {"batch", "collect"} /\ op.pc = "exist" /\ Local \notin odd =>
           \A f \in DOMAIN op.items :
               IF f \in op.todo THEN Bit(op.word, f) = Bit(store[Local], f) ELSE Chosen(f)
BitsInv == ThreadBits /\ CachedBits /\ ChosenBits

\* After a put has taken its word over, what a thread has of the latest version is stored.
LEMMA ThreadBitsFit ==
    ASSUME TypeInv, VersionInv, op.pc # "cur"
    PROVE  ThreadBits
PROOF
<1> SUFFICES ASSUME Local \notin odd, stage # "refresh", NEW t \in tasks, t.dev = Local, t.ver >= seen[Local]
             PROVE  t.word = store[Local]
  BY DEF ThreadBits
<1>1. t.ver \in Nat /\ ver[Local] \in Nat
  BY Bounds DEF TypeInv, TaskStates
<1>2. seen[Local] = ver[Local] /\ t.ver <= ver[Local]
  BY DEF VersionInv
<1> QED
  BY <1>1, <1>2 DEF VersionInv

LEMMA ThreadKeepsBits ==
    ASSUME Inv, BitsInv, NEW t \in tasks, Thread(t)
    PROVE  ThreadBits' /\ CachedBits' /\ ChosenBits'
PROOF
<1>1. UNCHANGED <<store, len, op, stage, ver>>
  BY ThreadTakes DEF Inv
<1>2. t \in TaskStates /\ t.dev \in Devices /\ t.ver \in Nat /\ t.flag \in Flags /\ Local \in Devices
      /\ seen[Local] \in Nat /\ (t.dev = Local => t.kind = "change")
  BY Bounds, SwitchAssumption DEF Inv, TypeInv, TaskStates
<1>3. odd \subseteq odd' /\ seen[Local] <= seen'[Local] /\ seen'[Local] \in Nat
  <2>1. CASE UNCHANGED <<cur, seen>> /\ odd \subseteq odd'
    BY <1>2, <2>1
  <2>2. CASE Take(t.dev, t.ver)
    <3>1. CASE t.dev = Local
      BY <1>2, <2>2, <3>1, Taken DEF Inv
    <3>2. CASE t.dev # Local
      BY <1>2, <2>2, <3>2, Taken DEF Inv
    <3> QED
      BY <3>1, <3>2
  <2> QED
    BY <2>1, <2>2, ThreadTakes DEF TakesOver, Inv
<1>4. ChosenBits'
  BY <1>1, <1>3 DEF BitsInv, ChosenBits, Chosen
<1>5. ThreadBits'
  <2> SUFFICES ASSUME Local \notin odd', stage # "refresh", NEW u \in tasks', u.dev = Local, u.ver >= seen'[Local],
                      NEW f \in Flags
               PROVE  Bit(u.word, f) = Bit(store[Local], f) \/ (op.pc = "cur" /\ f \in op.todo)
    BY <1>1 DEF ThreadBits
  <2>1. \E s \in tasks : s.dev = Local /\ s.ver = u.ver /\ s.word = u.word
    <3>1. CASE u \in tasks
      BY <3>1
    <3>2. CASE u \notin tasks
      <4>1. GoesOn(t, u)
        BY <3>2, ThreadMoves DEF Inv, Moves, Ends, GoesOn
      <4> QED
        BY <1>2, <4>1 DEF GoesOn
    <3> QED
      BY <3>1, <3>2
  <2>2. PICK s \in tasks : s.dev = Local /\ s.ver = u.ver /\ s.word = u.word
    BY <2>1
  <2>3. s.ver \in Nat
    BY DEF Inv, TypeInv, TaskStates
  <2>4. s.ver >= seen[Local]
    BY <1>2, <1>3, <2>2, <2>3
  <2> QED
    BY <1>3, <2>2, <2>4 DEF BitsInv, ThreadBits
<1>6. CachedBits'
  <2> SUFFICES ASSUME Local \notin odd', stage # "refresh", NEW f \in Flags
               PROVE  cache'[Local][f] \in {Bit(store[Local], f), 2} \/ (Caching /\ f \in op.todo)
    BY <1>1 DEF CachedBits, Caching
  <2>1. cache[Local][f] \in {Bit(store[Local], f), 2} \/ (Caching /\ f \in op.todo)
    BY <1>3 DEF BitsInv, CachedBits
  <2>2. CASE cache' = cache
    BY <2>1, <2>2
  <2>3. CASE HandleAdd(t)
    <3>1. cache' = [cache EXCEPT ![t.dev] = [cache[t.dev] EXCEPT ![t.flag] = Bit(t.word, t.flag)]]
          /\ Take(t.dev, t.ver)
      BY <2>3 DEF HandleAdd, AddCharProfile
    <3>2. cache \in [Devices -> [Flags -> Values \cup {None}]]
      BY DEF Inv, TypeInv
    <3>3. CASE t.dev # Local
      <4>1. cache'[Local] = cache[Local]
        BY <1>2, <3>1, <3>2, <3>3
      <4> QED
        BY <2>1, <4>1
    <3>4. CASE t.dev = Local
      <4>1. cache'[Local] = [cache[Local] EXCEPT ![t.flag] = Bit(t.word, t.flag)]
        BY <1>2, <3>1, <3>2, <3>4
      <4>2. CASE f # t.flag
        <5>1. cache'[Local][f] = cache[Local][f]
          BY <1>2, <3>2, <4>1, <4>2
        <5> QED
          BY <2>1, <5>1
      <4>3. CASE f = t.flag
        <5>1. cache'[Local][f] = Bit(t.word, f)
          BY <1>2, <3>2, <4>1, <4>3
        <5>2. t.ver >= seen[Local]
          BY <1>2, <3>1, <3>4, Taken DEF Inv
        <5>3. Bit(t.word, f) = Bit(store[Local], f) \/ (op.pc = "cur" /\ f \in op.todo)
          BY <1>3, <3>4, <5>2 DEF BitsInv, ThreadBits
        <5>4. op.pc = "cur" => op.name # "get"
          BY DEF Inv, OpShape
        <5> QED
          BY <5>1, <5>3, <5>4 DEF Caching
      <4> QED
        BY <4>2, <4>3
    <3> QED
      BY <3>3, <3>4
  <2> QED
    BY <2>2, <2>3 DEF Thread, LookUp, ParkChange, EraseParked, OnDeviceOnline, HandleExist, HandleTell, HandleCur
<1> QED
  BY <1>4, <1>5, <1>6

LEMMA OutsideKeepsBits ==
    ASSUME Inv, BitsInv, SwitchOutside
    PROVE  ThreadBits' /\ CachedBits' /\ ChosenBits'
PROOF
<1>1. UNCHANGED <<len, cache, op, stage, seen, odd>>
  BY DEF SwitchOutside, DeviceOnline, DeviceOffline, SwitchChanged, SubscribeSwitch, UnSubscribeSwitch, switchVars,
     switchHistory
<1>2. \/ UNCHANGED store
      \/ \E d \in Peers, w \in PeerWords : store' = [store EXCEPT ![d] = w]
  BY DEF SwitchOutside, DeviceOnline, DeviceOffline, SwitchChanged, SubscribeSwitch, UnSubscribeSwitch, switchVars
<1>3. store'[Local] = store[Local]
  BY <1>2, SwitchAssumption, Bounds DEF Inv, TypeInv
<1>4. \A t \in tasks' : t \in tasks \/ t.dev # Local
  BY SwitchAssumption DEF SwitchOutside, DeviceOnline, DeviceOffline, SwitchChanged, SubscribeSwitch,
     UnSubscribeSwitch, switchVars, Change
<1>5. ThreadBits'
  BY <1>1, <1>3, <1>4 DEF BitsInv, ThreadBits
<1> QED
  BY <1>1, <1>3, <1>5 DEF BitsInv, CachedBits, ChosenBits, Chosen, Caching

\* A call that is not at the switches it caches and leaves the cached ones alone.
LEMMA CachedBitsStay ==
    ASSUME CachedBits, stage # "refresh", odd \subseteq odd', UNCHANGED <<store, cache>>,
           ~Caching \/ (Caching' /\ op'.todo = op.todo)
    PROVE  CachedBits'
PROOF
  BY DEF CachedBits

LEMMA SingleItem == \A r \in Requests : Cardinality(DOMAIN r) = 1 => \E f \in Flags : DOMAIN r = {f}
PROOF
<1> SUFFICES ASSUME NEW r \in Requests, Cardinality(DOMAIN r) = 1 PROVE \E f \in Flags : DOMAIN r = {f}
  OBVIOUS
<1>1. DOMAIN r \subseteq Flags
  BY ItemsAre
<1>2. IsFiniteSet(Flags)
  <2>1. 0 \in Int /\ NFlags - 1 \in Int
    BY Bounds
  <2> QED
    BY <2>1, FS_Interval DEF Flags
<1>3. IsFiniteSet(DOMAIN r)
  BY <1>1, <1>2, FS_Subset
<1>4. \E x : DOMAIN r = {x}
  BY <1>3, FS_Singleton
<1> QED
  BY <1>1, <1>4

LEMMA CallKeepsThreadBits ==
    ASSUME WordInv, BitsInv, SwitchCall
    PROVE  ThreadBits'
PROOF
<1>1. TypeInv' /\ VersionInv'
  BY CallTypes, CallWords DEF WordInv, Inv
<1>2. CASE op'.pc # "cur"
  <2>1. ASSUME NEW t \in tasks', t.dev = Local, t.ver >= seen'[Local], Local \notin odd', stage' # "refresh"
        PROVE  t.word = store'[Local]
    <3>1. t.ver \in Nat /\ ver'[Local] \in Nat
      BY <1>1, Bounds DEF TypeInv, TaskStates
    <3>2. seen'[Local] = ver'[Local] /\ t.ver <= ver'[Local]
      BY <1>1, <1>2, <2>1 DEF VersionInv
    <3> QED
      BY <1>1, <2>1, <3>1, <3>2 DEF VersionInv
  <2> QED
    BY <2>1 DEF ThreadBits
<1>3. CASE op'.pc = "cur"
  <2>1. op \in OpStates /\ op.word \in Words
    BY DEF WordInv, Inv, TypeInv, OpStates
  <2>2. CASE PutSwitch
    <3>1. /\ op.pc = "store" /\ store' = [store EXCEPT ![Local] = op.word] /\ UNCHANGED <<seen, odd, stage>>
          /\ op' = [op EXCEPT !.pc = "cur", !.ver = ver[Local] + 1, !.todo = DOMAIN op.items]
          /\ tasks' = tasks \/ tasks' = tasks \cup {Change(Local, op.word, ver[Local] + 1)}
      BY <1>3, <2>2, IdleIs DEF PutSwitch, Done
    <3>2. store'[Local] = op.word /\ op'.todo = DOMAIN op.items
      BY <2>1, <3>1, Bounds DEF WordInv, Inv, TypeInv, OpStates
    <3>3. op.name \in {"put", "batch", "collect"}
      BY <2>1, <3>1, IdleIs DEF WordInv, Inv, OpShape, OpStates
    <3> SUFFICES ASSUME Local \notin odd', stage' # "refresh", NEW t \in tasks', t.dev = Local,
                        t.ver >= seen'[Local], NEW f \in Flags
                 PROVE  Bit(t.word, f) = Bit(op.word, f) \/ f \in DOMAIN op.items
      BY <1>3, <3>2 DEF ThreadBits
    <3>4. CASE t = Change(Local, op.word, ver[Local] + 1)
      BY <3>4 DEF Change
    <3>5. CASE t \in tasks
      <4>1. t.ver \in Nat /\ ver[Local] \in Nat
        BY <3>5, Bounds DEF WordInv, Inv, TypeInv, TaskStates
      <4>2. seen[Local] = ver[Local] /\ t.ver <= ver[Local] /\ (t.ver = ver[Local] => t.word = store[Local])
        BY <3>1, <3>5 DEF WordInv, VersionInv
      <4>3. t.word = store[Local]
        BY <3>1, <4>1, <4>2
      <4>4. f \notin DOMAIN op.items => f \in Flags \ Own
        BY <3>3 DEF Own
      <4>5. f \notin DOMAIN op.items => Bit(op.word, f) = Bit(store[Local], f)
        BY <3>1, <3>3, <4>4 DEF WordInv, HolderInv, Writing, Keeps
      <4> QED
        BY <4>3, <4>5
    <3> QED
      BY <3>1, <3>4, <3>5
  <2>3. ~PutSwitch => FALSE
    <3>1. op = Idle => op.pc # "cur"
      BY IdleIs
    <3>2. stage # "run" => op = Idle
      BY <2>1 DEF WordInv, Inv, OpShape, OpStates
    <3>3. ~Refresh /\ ~Collect
      <4>1. ASSUME Refresh PROVE FALSE
        BY <1>3, <3>1, <3>2, <4>1 DEF Refresh
      <4>2. ASSUME Collect PROVE FALSE
        <5>1. op' = op \/ op' = Idle \/ \E r : op' = [Idle EXCEPT !.name = "collect", !.pc = "read", !.items = r]
          BY <4>2 DEF Collect
        <5>2. op'.pc # "cur"
          BY <3>1, <3>2, <4>2, <5>1, IdleIs DEF Collect, Idle
        <5> QED
          BY <1>3, <5>2
      <4> QED
        BY <4>1, <4>2
    <3>4. ~\E r \in Requests : PutCharacteristicProfile(r) \/ PutCharacteristicProfileBatch(r)
      BY <1>3 DEF PutCharacteristicProfile, PutCharacteristicProfileBatch, Idle
    <3>5. ~PutRead /\ ~BatchExist /\ ~SetCurSwitch /\ ~GetFetch /\ ~GetKeep
      BY <1>3, <2>1 DEF PutRead, BatchExist, SetCurSwitch, GetFetch, GetKeep, Do, OpStates
    <3>6. ~PutExist /\ ~PutSet /\ ~GetAdd
      BY <1>3, <2>1, IdleIs DEF PutExist, PutSet, GetAdd, Do, Done, OpStates
    <3>7. ~AddPut
      BY <1>3, <2>1, IdleIs DEF AddPut, OpStates
    <3>8. ~\E d \in Devices, f \in Flags : GetCharacteristicProfile(d, f)
      BY <1>3 DEF GetCharacteristicProfile, Idle
    <3> QED
      BY <3>3, <3>4, <3>5, <3>6, <3>7, <3>8 DEF SwitchCall
  <2> QED
    BY <2>2, <2>3
<1> QED
  BY <1>2, <1>3

LEMMA CallKeepsCachedBits ==
    ASSUME WordInv, BitsInv, SwitchCall
    PROVE  CachedBits'
PROOF
<1>1. /\ cache \in [Devices -> [Flags -> Values \cup {None}]] /\ Local \in Devices /\ op \in OpStates
      /\ op.todo \subseteq Flags /\ store \in [Devices -> Words] /\ op.dev \in Devices
  BY Bounds DEF WordInv, Inv, TypeInv, OpStates
<1>2. op.name = "idle" => op = Idle
  BY DEF WordInv, Inv, OpShape
<1>3. Local \notin odd /\ stage # "refresh" =>
          \A f \in Flags : cache[Local][f] \in {Bit(store[Local], f), 2} \/ (Caching /\ f \in op.todo)
  BY DEF BitsInv, CachedBits
<1>4. odd \subseteq odd'
  BY DEF SwitchCall, Refresh, Collect, PutCharacteristicProfile, PutCharacteristicProfileBatch, PutRead, PutExist,
     PutSet, BatchExist, PutSwitch, SetCurSwitch, AddPut, GetCharacteristicProfile, GetFetch, GetKeep, GetAdd, Take,
     switchHistory
<1>5. CASE Refresh
  <2>1. store' = store /\ (Local \in odd' \/ cache'[Local] = [f \in Flags |-> Bit(store[Local], f)])
    BY <1>1, <1>5 DEF Refresh
  <2> QED
    BY <2>1 DEF CachedBits
<1>6. CASE Collect \/ \E r \in Requests : PutCharacteristicProfile(r) \/ PutCharacteristicProfileBatch(r)
  <2>1. op = Idle /\ stage # "refresh" /\ UNCHANGED <<store, cache>>
    <3>1. CASE Collect
      <4>1. stage = "collect" /\ UNCHANGED <<store, cache>>
        BY <3>1 DEF Collect
      <4> QED
        BY <1>1, <1>2, <4>1 DEF WordInv, Inv, OpShape, OpStates
    <3>2. CASE ~Collect
      BY <1>6, <3>2 DEF PutCharacteristicProfile, PutCharacteristicProfileBatch, Ready
    <3> QED
      BY <3>1, <3>2
  <2>2. ~Caching
    BY <2>1, IdleIs DEF Caching
  <2> QED
    BY <1>4, <2>1, <2>2, CachedBitsStay DEF BitsInv
<1>7. CASE PutRead \/ PutExist \/ PutSet \/ BatchExist
  <2>1. op.pc \in {"read", "exist", "set"} /\ op.name # "idle" /\ UNCHANGED <<store, cache>>
    BY <1>7 DEF PutRead, PutExist, PutSet, BatchExist
  <2>2. ~Caching /\ stage = "run"
    BY <2>1 DEF Caching, WordInv, Inv, OpShape
  <2> QED
    BY <1>4, <2>1, <2>2, CachedBitsStay DEF BitsInv
<1>8. CASE PutSwitch
  <2>1. op.pc = "store" /\ cache' = cache /\ UNCHANGED <<odd, stage>>
    BY <1>8 DEF PutSwitch
  <2>2. op.name \in {"put", "batch", "collect"} /\ stage = "run"
    BY <1>1, <2>1, IdleIs DEF WordInv, Inv, OpShape, OpStates
  <2>3. ~Caching
    BY <2>1 DEF Caching
  <2>4. CASE op' = Idle /\ store' = store
    BY <1>4, <2>1, <2>2, <2>3, <2>4, CachedBitsStay DEF BitsInv
  <2>5. CASE /\ store' = [store EXCEPT ![Local] = op.word]
             /\ op' = [op EXCEPT !.pc = "cur", !.ver = ver[Local] + 1, !.todo = DOMAIN op.items]
    <3>1. store'[Local] = op.word /\ op'.pc = "cur" /\ op'.todo = DOMAIN op.items /\ op'.name = op.name
      BY <1>1, <2>5 DEF OpStates
    <3>2. Caching'
      BY <2>2, <3>1 DEF Caching
    <3>3. Local \notin odd => \A f \in Flags \ DOMAIN op.items : Bit(op.word, f) = Bit(store[Local], f)
      BY <2>1, <2>2 DEF WordInv, HolderInv, Writing, Keeps, Own
    <3> QED
      BY <1>3, <2>1, <2>2, <2>3, <3>1, <3>2, <3>3 DEF CachedBits
  <2> QED
    BY <1>8, <2>4, <2>5 DEF PutSwitch, Done
<1>9. CASE SetCurSwitch
  <2>1. op.pc = "cur" /\ op' = [op EXCEPT !.pc = "add"] /\ UNCHANGED <<store, cache>>
    BY <1>9 DEF SetCurSwitch, Do
  <2>2. op'.pc = "add" /\ op'.name = op.name /\ op'.todo = op.todo /\ op.name \notin {"get", "idle"}
    BY <1>1, <1>2, <2>1, IdleIs DEF OpStates, WordInv, Inv, OpShape
  <2>3. stage = "run" /\ Caching'
    BY <2>2 DEF Caching, WordInv, Inv, OpShape
  <2> QED
    BY <1>4, <2>1, <2>2, <2>3, CachedBitsStay DEF BitsInv
<1>10. CASE AddPut
  <2>1. op.pc = "add" /\ op.name # "get" /\ store' = store /\ stage' = stage
    BY <1>10 DEF AddPut
  <2>2. op.name \in {"put", "batch", "collect"} /\ stage = "run" /\ op.todo \subseteq DOMAIN op.items /\ op.dev = Local
    BY <1>1, <2>1, IdleIs DEF WordInv, Inv, OpShape, OpStates
  <2>3. PICK f \in op.todo : /\ cache' = [cache EXCEPT ![Local] = [cache[Local] EXCEPT ![f] = op.items[f]]]
                             /\ op' = IF op.todo = {f} THEN Idle ELSE [op EXCEPT !.todo = op.todo \ {f}]
    BY <1>10 DEF AddPut, AddCharProfile
  <2>4. f \in Flags /\ f \in DOMAIN op.items
    BY <1>1, <2>2
  <2>5. cache'[Local] = [cache[Local] EXCEPT ![f] = op.items[f]]
    BY <1>1, <2>3
  <2>6. cache'[Local][f] = op.items[f] /\ \A g \in Flags \ {f} : cache'[Local][g] = cache[Local][g]
    BY <1>1, <2>4, <2>5
  <2>7. op.word = store[Local]
    BY <2>1, <2>2 DEF WordInv, HolderInv
  <2>8. Local \notin odd => op.items[f] \in {Bit(store[Local], f), 2}
    BY <2>1, <2>2, <2>4, <2>7 DEF BitsInv, ChosenBits, Chosen
  <2>9. \A g \in Flags \ {f} : g \in op.todo => Caching' /\ g \in op'.todo
    <3>1. CASE op.todo = {f}
      BY <3>1
    <3>2. CASE op.todo # {f}
      <4>1. op'.todo = op.todo \ {f} /\ op'.pc = op.pc /\ op'.name = op.name
        BY <1>1, <2>3, <3>2 DEF OpStates
      <4> QED
        BY <2>1, <4>1 DEF Caching
    <3> QED
      BY <3>1, <3>2
  <2> SUFFICES ASSUME Local \notin odd', NEW g \in Flags
               PROVE  cache'[Local][g] \in {Bit(store[Local], g), 2} \/ (Caching' /\ g \in op'.todo)
    BY <2>1 DEF CachedBits
  <2>10. CASE g = f
    BY <1>4, <2>6, <2>8, <2>10
  <2>11. CASE g # f
    BY <1>3, <1>4, <2>2, <2>6, <2>9, <2>11
  <2> QED
    BY <2>10, <2>11
<1>11. CASE (\E d \in Devices, f \in Flags : GetCharacteristicProfile(d, f)) \/ GetFetch \/ GetKeep
  <2>1. UNCHANGED <<store, cache>> /\ (op = Idle \/ op.name = "get")
    BY <1>11 DEF GetCharacteristicProfile, Ready, GetFetch, GetKeep
  <2>2. stage = "run"
    BY <1>11 DEF GetCharacteristicProfile, Ready, GetFetch, GetKeep, WordInv, Inv, OpShape
  <2>3. ~Caching
    BY <2>1, IdleIs DEF Caching
  <2> QED
    BY <1>4, <2>1, <2>2, <2>3, CachedBitsStay DEF BitsInv
<1>12. CASE GetAdd
  <2>1. op.name = "get" /\ op.pc = "add" /\ store' = store /\ stage' = stage
    BY <1>12 DEF GetAdd
  <2>2. PICK f \in op.todo : cache' = [cache EXCEPT ![op.dev] = [cache[op.dev] EXCEPT ![f] = Bit(op.word, f)]]
    BY <1>12 DEF GetAdd, AddCharProfile
  <2>3. stage = "run" /\ ~Caching /\ f \in Flags
    BY <1>1, <2>1, <2>2 DEF WordInv, Inv, OpShape, Caching
  <2>4. op.dev = Local => op.word = store[Local]
    BY <2>1 DEF WordInv, HolderInv
  <2>5. \A g \in Flags : cache'[Local][g] = cache[Local][g] \/ cache'[Local][g] = Bit(store[Local], g)
    <3>1. CASE op.dev # Local
      <4>1. cache'[Local] = cache[Local]
        BY <1>1, <2>2, <3>1
      <4> QED
        BY <4>1
    <3>2. CASE op.dev = Local
      <4>1. cache'[Local] = [cache[Local] EXCEPT ![f] = Bit(store[Local], f)]
        BY <1>1, <2>2, <2>4, <3>2
      <4> QED
        BY <1>1, <2>3, <4>1
    <3> QED
      BY <3>1, <3>2
  <2> QED
    BY <1>3, <1>4, <2>1, <2>3, <2>5 DEF CachedBits
<1> QED
  BY <1>5, <1>6, <1>7, <1>8, <1>9, <1>10, <1>11, <1>12 DEF SwitchCall

LEMMA CallKeepsChosenBits ==
    ASSUME WordInv, BitsInv, SwitchCall
    PROVE  ChosenBits'
PROOF
<1>1. /\ op \in OpStates /\ op.word \in Words /\ Local \in Devices /\ op.todo \subseteq Flags
      /\ \A f \in DOMAIN op.items : f \in Flags /\ op.items[f] \in Values
  BY ItemsAre, Bounds DEF WordInv, Inv, TypeInv, OpStates
<1>2. op.name = "idle" => op = Idle
  BY DEF WordInv, Inv, OpShape
<1>3. ASSUME op' = Idle PROVE ChosenBits'
  BY <1>3, IdleIs DEF ChosenBits
<1>4. odd \subseteq odd'
  BY DEF SwitchCall, Refresh, Collect, PutCharacteristicProfile, PutCharacteristicProfileBatch, PutRead, PutExist,
     PutSet, BatchExist, PutSwitch, SetCurSwitch, AddPut, GetCharacteristicProfile, GetFetch, GetKeep, GetAdd, Take,
     switchHistory
\* A step that is not yet, or no longer, at the bits.
<1>5. ASSUME op'.name = op.name, op'.items = op.items, op'.pc \in {"read", "set"}
      PROVE  ChosenBits'
  BY <1>5 DEF BitsInv, ChosenBits
<1>6. ASSUME op'.name = op.name, op'.items = op.items, op'.word = op.word, op'.pc \in {"cur", "add"},
             op.pc \in {"store", "cur", "add"}
      PROVE  ChosenBits'
  BY <1>4, <1>6 DEF BitsInv, ChosenBits, Chosen
<1>7. CASE Refresh
  <2>1. op.name = "idle"
    BY <1>1, <1>7 DEF Refresh, WordInv, Inv, OpShape, OpStates
  <2> QED
    BY <1>2, <1>3, <1>7, <2>1 DEF Refresh
<1>8. CASE Collect
  <2>1. op = Idle
    BY <1>1, <1>2, <1>8 DEF Collect, WordInv, Inv, OpShape, OpStates
  <2>2. CASE op' = Idle
    BY <1>3, <2>2
  <2>3. ASSUME NEW r, op' = [Idle EXCEPT !.name = "collect", !.pc = "read", !.items = r] PROVE ChosenBits'
    <3>1. op'.name = "collect" /\ op'.pc = "read"
      BY <2>3 DEF Idle
    <3> QED
      BY <3>1 DEF ChosenBits
  <2> QED
    BY <1>8, <2>1, <2>2, <2>3 DEF Collect
<1>9. CASE \E r \in Requests : PutCharacteristicProfile(r) \/ PutCharacteristicProfileBatch(r)
  <2>1. PICK r \in Requests : PutCharacteristicProfile(r) \/ PutCharacteristicProfileBatch(r)
    BY <1>9
  <2>2. CASE PutCharacteristicProfile(r)
    <3>1. op'.name = "put" /\ op'.pc = "exist" /\ op'.items = r /\ Cardinality(DOMAIN r) = 1
      BY <2>2 DEF PutCharacteristicProfile, Idle
    <3>2. \E f \in Flags : DOMAIN r = {f}
      BY <3>1, SingleItem
    <3> QED
      BY <3>1, <3>2 DEF ChosenBits
  <2>3. CASE PutCharacteristicProfileBatch(r)
    <3>1. op'.name = "batch" /\ op'.pc = "read"
      BY <2>3 DEF PutCharacteristicProfileBatch, Idle
    <3> QED
      BY <3>1 DEF ChosenBits
  <2> QED
    BY <2>1, <2>2, <2>3
<1>10. CASE PutRead
  <2>1. op.pc = "read" /\ op.name \in {"put", "batch", "collect"} /\ UNCHANGED <<store, odd>>
    BY <1>10 DEF PutRead, switchHistory
  <2>2. op'.word = cur /\ op'.todo = DOMAIN op.items /\ op'.items = op.items /\ op'.name = op.name
        /\ op'.pc = IF op.name = "put" THEN "set" ELSE "exist"
    BY <1>1, <1>10 DEF PutRead, OpStates
  <2>3. Local \notin odd => cur = store[Local]
    BY <2>1, IdleIs DEF WordInv, Inv, OpShape, VersionInv
  <2> QED
    BY <2>1, <2>2, <2>3 DEF BitsInv, ChosenBits
<1>11. CASE PutExist
  <2>1. op' = Idle \/ op' = [op EXCEPT !.pc = "read"]
    BY <1>11 DEF PutExist, Do, Done
  <2>2. CASE op' = [op EXCEPT !.pc = "read"]
    <3>1. op'.pc = "read" /\ op'.name = op.name /\ op'.items = op.items
      BY <1>1, <2>2 DEF OpStates
    <3> QED
      BY <1>5, <3>1
  <2> QED
    BY <1>3, <2>1, <2>2
<1>12. CASE PutSet
  <2>1. op.name = "put" /\ op.pc = "set"
    BY <1>12 DEF PutSet
  <2>2. PICK f \in op.todo : \/ op' = Idle
                             \/ /\ op.items[f] \in 0 .. 1
                                /\ op' = [op EXCEPT !.pc = "store",
                                                    !.word = SetSwitchByProfile(op.word, f, op.items[f])]
    BY <1>12 DEF PutSet, Done, IsSwitchValid
  <2>3. CASE op.items[f] \in 0 .. 1 /\ op' = [op EXCEPT !.pc = "store",
                                                         !.word = SetSwitchByProfile(op.word, f, op.items[f])]
    <3> DEFINE w == SetSwitchByProfile(op.word, f, op.items[f])
    <3>1. f \in DOMAIN op.items /\ f \in Flags
      BY <1>1, <2>1 DEF WordInv, Inv, OpShape
    <3>2. DOMAIN op.items = {f}
      BY <2>1, <3>1 DEF BitsInv, ChosenBits
    <3>3. Bit(w, f) = op.items[f]
      BY <1>1, <2>3, <3>1, SetBit
    <3> HIDE DEF w
    <3>4. op' = [op EXCEPT !.pc = "store", !.word = w]
      BY <2>3 DEF w
    <3>5. op'.name = "put" /\ op'.pc = "store" /\ op'.word = w /\ op'.items = op.items
      BY <1>1, <2>1, <3>4 DEF OpStates
    <3>6. \A g \in DOMAIN op'.items : Bit(op'.word, g) = op'.items[g]
      BY <3>2, <3>3, <3>5
    <3>7. \E g \in Flags : DOMAIN op'.items = {g}
      BY <3>1, <3>2, <3>5
    <3> QED
      BY <3>5, <3>6, <3>7 DEF ChosenBits, Chosen
  <2> QED
    BY <1>3, <2>2, <2>3
<1>13. CASE BatchExist
  <2>1. op.name \in {"batch", "collect"} /\ op.pc = "exist" /\ UNCHANGED <<store, odd>>
    BY <1>13 DEF BatchExist, switchHistory
  <2>2. PICK f \in op.todo : op' = [op EXCEPT !.todo = op.todo \ {f},
                           !.pc = IF op.todo = {f} THEN "store" ELSE "exist",
                           !.word = IF cache[Local][f] # op.items[f] /\ IsSwitchValid(op.items[f])
                                    THEN SetSwitchByProfile(op.word, f, op.items[f]) ELSE op.word]
    BY <1>13 DEF BatchExist
  <2> DEFINE w == IF cache[Local][f] # op.items[f] /\ IsSwitchValid(op.items[f])
                  THEN SetSwitchByProfile(op.word, f, op.items[f]) ELSE op.word
  <2>3. f \in DOMAIN op.items /\ f \in Flags /\ op.items[f] \in Values /\ stage = "run"
    BY <1>1, <2>1, IdleIs DEF WordInv, Inv, OpShape
  <2>4. \A g \in Flags \ {f} : Bit(w, g) = Bit(op.word, g)
    <3>1. CASE cache[Local][f] # op.items[f] /\ IsSwitchValid(op.items[f])
      <4>1. w = SetSwitchByProfile(op.word, f, op.items[f]) /\ op.items[f] \in 0 .. 1
        BY <3>1 DEF IsSwitchValid
      <4>2. \A g \in Flags \ {f} : Bit(SetSwitchByProfile(op.word, f, op.items[f]), g) = Bit(op.word, g)
        BY <1>1, <2>3, <4>1, SetBit
      <4> HIDE DEF w
      <4> QED
        BY <4>1, <4>2
    <3>2. CASE ~(cache[Local][f] # op.items[f] /\ IsSwitchValid(op.items[f]))
      <4>1. w = op.word
        BY <3>2
      <4> HIDE DEF w
      <4> QED
        BY <4>1
    <3> QED
      BY <3>1, <3>2
  <2>5. Local \notin odd => op.items[f] = 2 \/ Bit(w, f) = op.items[f]
    <3> SUFFICES ASSUME Local \notin odd PROVE op.items[f] = 2 \/ Bit(w, f) = op.items[f]
      OBVIOUS
    <3>1. CASE op.items[f] \notin 0 .. 1
      BY <2>3, <3>1 DEF Values
    <3>2. CASE op.items[f] \in 0 .. 1 /\ cache[Local][f] # op.items[f]
      <4>1. w = SetSwitchByProfile(op.word, f, op.items[f])
        BY <3>2 DEF IsSwitchValid
      <4>2. Bit(SetSwitchByProfile(op.word, f, op.items[f]), f) = op.items[f]
        BY <1>1, <2>3, <3>2, SetBit
      <4> HIDE DEF w
      <4> QED
        BY <4>1, <4>2
    <3>3. CASE op.items[f] \in 0 .. 1 /\ cache[Local][f] = op.items[f]
      <4>1. w = op.word
        BY <3>3
      <4>2. ~Caching
        BY <2>1 DEF Caching
      <4>3. cache[Local][f] = Bit(store[Local], f)
        BY <2>3, <3>3, <4>2 DEF BitsInv, CachedBits
      <4>4. Bit(op.word, f) = Bit(store[Local], f)
        BY <2>1, <2>2, <2>3 DEF BitsInv, ChosenBits
      <4> HIDE DEF w
      <4> QED
        BY <3>3, <4>1, <4>3, <4>4
    <3> QED
      BY <3>1, <3>2, <3>3
  <2> HIDE DEF w
  <2>6. op' = [op EXCEPT !.todo = op.todo \ {f}, !.pc = IF op.todo = {f} THEN "store" ELSE "exist", !.word = w]
    BY <2>2 DEF w
  <2>7. op'.name = op.name /\ op'.word = w /\ op'.items = op.items /\ op'.todo = op.todo \ {f}
        /\ op'.pc = IF op.todo = {f} THEN "store" ELSE "exist"
    BY <1>1, <2>6 DEF OpStates
  <2>8. ASSUME Local \notin odd, NEW g \in DOMAIN op.items
        PROVE  IF g \in op.todo \ {f} THEN Bit(w, g) = Bit(store[Local], g)
                                      ELSE op.items[g] = 2 \/ Bit(w, g) = op.items[g]
    <3>1. IF g \in op.todo THEN Bit(op.word, g) = Bit(store[Local], g)
                           ELSE op.items[g] = 2 \/ Bit(op.word, g) = op.items[g]
      BY <2>1, <2>8 DEF BitsInv, ChosenBits, Chosen
    <3>2. CASE g = f
      BY <2>5, <2>8, <3>2
    <3>3. CASE g # f
      <4>1. Bit(w, g) = Bit(op.word, g)
        BY <1>1, <2>4, <3>3
      <4> QED
        BY <3>1, <3>3, <4>1
    <3> QED
      BY <3>2, <3>3
  <2> QED
    BY <2>1, <2>7, <2>8 DEF ChosenBits, Chosen
<1>14. CASE PutSwitch
  <2>1. CASE op' = [op EXCEPT !.pc = "cur", !.ver = ver[Local] + 1, !.todo = DOMAIN op.items]
    <3>1. op'.pc = "cur" /\ op'.name = op.name /\ op'.items = op.items /\ op'.word = op.word
      BY <1>1, <2>1 DEF OpStates
    <3> QED
      BY <1>6, <1>14, <3>1 DEF PutSwitch
  <2> QED
    BY <1>3, <1>14, <2>1 DEF PutSwitch, Done
<1>15. CASE SetCurSwitch
  <2>1. op'.pc = "add" /\ op'.name = op.name /\ op'.items = op.items /\ op'.word = op.word /\ op.pc = "cur"
    BY <1>1, <1>15 DEF SetCurSwitch, Do, OpStates
  <2> QED
    BY <1>6, <2>1
<1>16. CASE AddPut
  <2>1. PICK f \in op.todo : op' = IF op.todo = {f} THEN Idle ELSE [op EXCEPT !.todo = op.todo \ {f}]
    BY <1>16 DEF AddPut
  <2>2. CASE op' = [op EXCEPT !.todo = op.todo \ {f}]
    <3>1. op'.pc = "add" /\ op'.name = op.name /\ op'.items = op.items /\ op'.word = op.word /\ op.pc = "add"
      BY <1>1, <1>16, <2>2 DEF AddPut, OpStates
    <3> QED
      BY <1>6, <3>1
  <2> QED
    BY <1>3, <2>1, <2>2
<1>17. CASE (\E d \in Devices, f \in Flags : GetCharacteristicProfile(d, f)) \/ GetFetch \/ GetKeep
  <2>1. op'.name = "get"
    BY <1>1, <1>17 DEF GetCharacteristicProfile, GetFetch, GetKeep, Do, Idle, OpStates
  <2> QED
    BY <2>1 DEF ChosenBits
<1>18. CASE GetAdd
  BY <1>3, <1>18 DEF GetAdd, Done
<1> QED
  BY <1>7, <1>8, <1>9, <1>10, <1>11, <1>12, <1>13, <1>14, <1>15, <1>16, <1>17, <1>18 DEF SwitchCall

LocalInv == WordInv /\ BitsInv

LEMMA BitsKept == LocalInv /\ [SwitchNext]_allVars => LocalInv'
PROOF
<1> SUFFICES ASSUME LocalInv, [SwitchNext]_allVars PROVE ThreadBits' /\ CachedBits' /\ ChosenBits'
  BY WordsKept DEF LocalInv, BitsInv
<1>1. CASE SwitchThreads
  <2>1. PICK t \in tasks : Thread(t)
    BY <1>1 DEF SwitchThreads, Thread
  <2> QED
    BY <2>1, ThreadKeepsBits DEF LocalInv, WordInv
<1>2. CASE SwitchOutside
  BY <1>2, OutsideKeepsBits DEF LocalInv, WordInv
<1>3. CASE SwitchCalls
  <2>1. SwitchCall
    BY <1>3 DEF SwitchCalls, SwitchCall
  <2> QED
    BY <2>1, CallKeepsThreadBits, CallKeepsCachedBits, CallKeepsChosenBits DEF LocalInv
<1>4. CASE UNCHANGED allVars
  <2>1. UNCHANGED <<store, cache, tasks, op, stage, seen, odd>>
    BY <1>4 DEF allVars, switchVars, switchHistory
  <2> QED
    BY <2>1 DEF LocalInv, BitsInv, ThreadBits, CachedBits, ChosenBits, Chosen, Caching
<1> QED
  BY <1>1, <1>2, <1>3, <1>4 DEF SwitchNext

\* Between two calls, and when no change thread is left, the cached word of this device is
\* the stored one and so is every cached bit, whatever puts, batches, the collector, gets
\* and change threads ran before; as long as words are taken over in order.
THEOREM LocalSwitchesAgree == SwitchSpec => []LocalAgrees
PROOF
<1>1. LocalInv => LocalAgrees
  <2> SUFFICES ASSUME LocalInv, AtRest, Local \notin odd
               PROVE  cur = store[Local] /\ \A f \in Flags : cache[Local][f] \in {Bit(store[Local], f), 2}
    BY DEF LocalAgrees
  <2>1. op.pc = "idle" /\ stage = "run"
    BY IdleIs DEF AtRest
  <2>2. cur = store[Local]
    BY <2>1 DEF LocalInv, WordInv, VersionInv
  <2> QED
    BY <2>1, <2>2 DEF LocalInv, BitsInv, CachedBits, Caching
<1>2. SwitchInit => LocalInv
  <2> SUFFICES ASSUME SwitchInit PROVE BitsInv
    BY StartWords DEF LocalInv
  <2>1. op = Idle /\ stage = "refresh"
    BY DEF SwitchInit
  <2> QED
    BY <2>1, IdleIs DEF BitsInv, ThreadBits, CachedBits, ChosenBits
<1> QED
  BY <1>1, <1>2, BitsKept, PTL DEF SwitchSpec, allVars
====
