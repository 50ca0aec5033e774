-------------------------- MODULE LocalStoresProofs --------------------------
(***************************************************************************)
(* Theorems about LocalStores and ProfileData: a session key is found      *)
(* under its id, a row is what the last successful call said, subscribers  *)
(* hear what is stored, and a table of devices, products or icons says     *)
(* what the answers to its calls say, for any users, ids, keys, services   *)
(* and number of calls.                                                    *)
(***************************************************************************)
EXTENDS LocalStores, ProfileData, FiniteSetTheorems, TLAPS

(***************************************************************************)
(* Bags: one element more, one less.                                       *)
(***************************************************************************)
\* Adding one copy of an element to a bag changes its count only.
LEMMA BagAdd ==
    ASSUME NEW B, IsABag(B), NEW a
    PROVE  /\ IsABag(B (+) SetToBag({a}))
           /\ BagToSet(B (+) SetToBag({a})) = BagToSet(B) \cup {a}
           /\ \A e \in BagToSet(B) \ {a} : (B (+) SetToBag({a}))[e] = B[e]
           /\ a \notin BagToSet(B) => (B (+) SetToBag({a}))[a] = 1
PROOF
<1> DEFINE S == SetToBag({a})
           C == B (+) S
<1>1. S = [e \in {a} |-> 1]
  BY DEF SetToBag
<1>2. DOMAIN S = {a} /\ S[a] = 1
  BY <1>1
<1>3. C = [e \in (DOMAIN B) \cup (DOMAIN S) |->
              (IF e \in DOMAIN B THEN B[e] ELSE 0) + (IF e \in DOMAIN S THEN S[e] ELSE 0)]
  BY DEF (+)
<1> HIDE DEF S, C
<1>4. DOMAIN C = DOMAIN B \cup {a}
  BY <1>2, <1>3
<1>5. \A e \in DOMAIN B : B[e] \in Nat /\ B[e] > 0
  BY DEF IsABag
<1>6. \A e \in DOMAIN C : C[e] = (IF e \in DOMAIN B THEN B[e] ELSE 0) + (IF e = a THEN 1 ELSE 0)
  BY <1>2, <1>3, <1>4
<1>7. \A e \in DOMAIN C : C[e] \in {n \in Nat : n > 0}
  BY <1>4, <1>5, <1>6
<1>8. C \in [DOMAIN C -> {n \in Nat : n > 0}]
  BY <1>3, <1>4, <1>7
<1>9. \A e \in DOMAIN B \ {a} : C[e] = B[e]
  BY <1>4, <1>5, <1>6
<1>10. a \notin DOMAIN B => C[a] = 1
  BY <1>4, <1>6
<1> QED
  BY <1>4, <1>8, <1>9, <1>10 DEF BagToSet, IsABag, S, C

\* Taking one copy of an element out of a bag removes it if it was the only one.
LEMMA BagSub ==
    ASSUME NEW B, IsABag(B), NEW a
    PROVE  /\ IsABag(B (-) SetToBag({a}))
           /\ BagToSet(B (-) SetToBag({a})) \subseteq BagToSet(B)
           /\ \A e \in BagToSet(B) \ {a} : e \in BagToSet(B (-) SetToBag({a}))
           /\ \A e \in BagToSet(B (-) SetToBag({a})) \ {a} : (B (-) SetToBag({a}))[e] = B[e]
           /\ a \in BagToSet(B) /\ B[a] = 1 => a \notin BagToSet(B (-) SetToBag({a}))
PROOF
<1> DEFINE S == SetToBag({a})
           D == [e \in DOMAIN B |-> IF e \in DOMAIN S THEN B[e] - S[e] ELSE B[e]]
           C == B (-) S
<1>1. S = [e \in {a} |-> 1]
  BY DEF SetToBag
<1>2. DOMAIN S = {a} /\ S[a] = 1
  BY <1>1
<1>3. C = [e \in {d \in DOMAIN D : D[d] > 0} |-> D[e]]
  BY DEF (-)
<1>4. \A e \in DOMAIN B : B[e] \in Nat /\ B[e] > 0
  BY DEF IsABag
<1>5. DOMAIN D = DOMAIN B /\ \A e \in DOMAIN B : D[e] = IF e = a THEN B[e] - 1 ELSE B[e]
  BY <1>2
<1> HIDE DEF S, C, D
<1>6. DOMAIN C = {d \in DOMAIN B : D[d] > 0} /\ \A e \in DOMAIN C : C[e] = D[e]
  BY <1>3, <1>5
<1>7. \A e \in DOMAIN C : C[e] \in {n \in Nat : n > 0}
  BY <1>4, <1>5, <1>6
<1>8. C \in [DOMAIN C -> {n \in Nat : n > 0}]
  BY <1>3, <1>6, <1>7
<1>9. \A e \in DOMAIN B \ {a} : e \in DOMAIN C /\ C[e] = B[e]
  BY <1>4, <1>5, <1>6
<1>10. a \in DOMAIN B /\ B[a] = 1 => a \notin DOMAIN C
  BY <1>5, <1>6
<1> QED
  BY <1>6, <1>8, <1>9, <1>10 DEF BagToSet, IsABag, S, C

\* The empty bag.
LEMMA BagEmpty == IsABag(EmptyBag) /\ BagToSet(EmptyBag) = {}
PROOF
  BY DEF EmptyBag, SetToBag, IsABag, BagToSet

(***************************************************************************)
(* Session keys.                                                           *)
(***************************************************************************)
KeysType ==
    /\ assets \in [Users -> [Ids -> Secrets \cup {None}]]
    /\ IsABag(adding) /\ BagToSet(adding) \subseteq [user : Users, id : Ids, secret : Secrets]

\* As long as an id is not among the clashes all its keys, those being stored
\* included, and all parties that carry it are of one user.
OneUser ==
    \A id \in Ids \ clashes :
        /\ \A g, h \in Holders(id) : g = h
        /\ \A h \in Holders(id), p \in Carriers(id) : p.user = h
KeysInv == KeysType /\ OneUser

\* A step that takes holders and parties away, and does not touch the clashes,
\* keeps it.
LEMMA Shrink ==
    ASSUME OneUser, clashes' = clashes,
           \A id \in Ids : Holders(id)' \subseteq Holders(id) /\ Carriers(id)' \subseteq Carriers(id)
    PROVE  OneUser'
PROOF
<1> SUFFICES ASSUME NEW id \in Ids \ clashes'
             PROVE  /\ \A g, h \in Holders(id)' : g = h
                    /\ \A h \in Holders(id)', p \in Carriers(id)' : p.user = h
  BY DEF OneUser
<1>1. id \in Ids \ clashes
  OBVIOUS
<1>2. (\A g, h \in Holders(id) : g = h) /\ \A h \in Holders(id), p \in Carriers(id) : p.user = h
  BY <1>1 DEF OneUser
<1> QED
  BY <1>1, <1>2

\* PutSessionKey draws an id: unless it clashes, nobody had it.
LEMMA Drawn ==
    ASSUME KeysInv, NEW u \in Users, NEW i \in Ids, NEW s \in Secrets, GeneratedSessionKeyId(u, i, s)
    PROVE  KeysInv'
PROOF
<1> DEFINE a == [user |-> u, id |-> i, secret |-> s]
<1>1. adding' = adding (+) SetToBag({a}) /\ UNCHANGED <<assets, parties>>
  BY DEF GeneratedSessionKeyId
<1>2. clashes' = IF Holders(i) # {} \/ CheckSessionKeyIdExists(i) THEN clashes \cup {i} ELSE clashes \ {i}
  BY DEF GeneratedSessionKeyId
<1>3. IsABag(adding') /\ BagToSet(adding') = BagToSet(adding) \cup {a}
  BY <1>1, BagAdd DEF KeysInv, KeysType
<1>4. KeysType'
  <2>1. a \in [user : Users, id : Ids, secret : Secrets]
    OBVIOUS
  <2> HIDE DEF a
  <2> QED
    BY <2>1, <1>1, <1>3 DEF KeysInv, KeysType
<1>5. \A id \in Ids : Carriers(id)' = Carriers(id)
  BY <1>1 DEF Carriers
<1>6. \A id \in Ids : Holders(id)' = IF id = i THEN Holders(id) \cup {u} ELSE Holders(id)
  <2> SUFFICES ASSUME NEW id \in Ids
               PROVE  Holders(id)' = IF id = i THEN Holders(id) \cup {u} ELSE Holders(id)
    OBVIOUS
  <2>1. {p.user : p \in {q \in BagToSet(adding') : q.id = id}}
          = {p.user : p \in {q \in BagToSet(adding) : q.id = id}} \cup (IF id = i THEN {u} ELSE {})
    <3>1. a.id = i /\ a.user = u
      OBVIOUS
    <3> HIDE DEF a
    <3>2. CASE id = i
      <4>1. {q \in BagToSet(adding') : q.id = id} = {q \in BagToSet(adding) : q.id = id} \cup {a}
        BY <1>3, <3>1, <3>2
      <4> QED
        BY <4>1, <3>1, <3>2
    <3>3. CASE id # i
      <4>1. {q \in BagToSet(adding') : q.id = id} = {q \in BagToSet(adding) : q.id = id}
        BY <1>3, <3>1, <3>3
      <4> QED
        BY <4>1, <3>3
    <3> QED
      BY <3>2, <3>3
  <2> QED
    BY <2>1, <1>1 DEF Holders
<1>7. OneUser'
  <2> SUFFICES ASSUME NEW id \in Ids \ clashes'
               PROVE  /\ \A g, h \in Holders(id)' : g = h
                      /\ \A h \in Holders(id)', p \in Carriers(id)' : p.user = h
    BY DEF OneUser
  <2>1. CASE id = i
    <3>1. Holders(i) = {} /\ Carriers(i) = {}
      BY <2>1, <1>2 DEF CheckSessionKeyIdExists
    <3> QED
      BY <2>1, <3>1, <1>5, <1>6
  <2>2. CASE id # i
    <3>1. id \in Ids \ clashes
      BY <2>2, <1>2
    <3>2. (\A g, h \in Holders(id) : g = h) /\ \A h \in Holders(id), p \in Carriers(id) : p.user = h
      BY <3>1 DEF KeysInv, OneUser
    <3> QED
      BY <2>2, <3>2, <1>5, <1>6
  <2> QED
    BY <2>1, <2>2
<1> QED
  BY <1>4, <1>7 DEF KeysInv

\* A key that is stored was being stored before.
LEMMA KeyStored ==
    ASSUME KeysInv, NEW a \in BagToSet(adding), PutSessionKey(a)
    PROVE  KeysInv'
PROOF
<1> a.user \in Users /\ a.id \in Ids /\ a.secret \in Secrets
  BY DEF KeysInv, KeysType
<1>1. adding' = adding (-) SetToBag({a}) /\ UNCHANGED <<parties, clashes>>
  BY DEF PutSessionKey
<1>2. assets' = assets \/ assets' = [assets EXCEPT ![a.user][a.id] = a.secret]
  BY DEF PutSessionKey
<1>3. IsABag(adding') /\ BagToSet(adding') \subseteq BagToSet(adding)
  BY <1>1, BagSub DEF KeysInv, KeysType
<1>4. assets' \in [Users -> [Ids -> Secrets \cup {None}]]
  BY <1>2 DEF KeysInv, KeysType
<1>5. \A id \in Ids : {u \in Users : assets'[u][id] # None}
                        \subseteq {u \in Users : assets[u][id] # None} \cup (IF id = a.id THEN {a.user} ELSE {})
  BY <1>2 DEF KeysInv, KeysType
<1>6. \A id \in Ids : Holders(id)' \subseteq Holders(id) /\ Carriers(id)' \subseteq Carriers(id)
  BY <1>1, <1>3, <1>5 DEF Holders, Carriers
<1>7. OneUser'
  BY <1>1, <1>6, Shrink DEF KeysInv
<1> QED
  BY <1>3, <1>4, <1>7 DEF KeysInv, KeysType

\* The steps that change or delete a key.
LEMMA Updated ==
    ASSUME KeysInv, NEW u \in Users, NEW id \in Ids,
           DeleteSessionKey(u, id) \/ \E s \in Secrets : UpdateSessionKey(u, id, s)
    PROVE  KeysInv'
PROOF
<1>1. UNCHANGED <<parties, adding, clashes>> /\ assets[u][id] # None
  BY DEF UpdateSessionKey, DeleteSessionKey
<1>2. assets' = assets \/ \E v \in Secrets \cup {None} : assets' = [assets EXCEPT ![u][id] = v]
  BY DEF UpdateSessionKey, DeleteSessionKey
<1>3. KeysType'
  BY <1>1, <1>2 DEF KeysInv, KeysType
<1>4. \A i \in Ids : {w \in Users : assets'[w][i] # None} \subseteq {w \in Users : assets[w][i] # None}
  BY <1>1, <1>2 DEF KeysInv, KeysType
<1>5. \A i \in Ids : Holders(i)' \subseteq Holders(i) /\ Carriers(i)' \subseteq Carriers(i)
  BY <1>1, <1>4 DEF Holders, Carriers
<1> QED
  BY <1>1, <1>3, <1>5, Shrink DEF KeysInv

\* A party that another user's key meets makes the id a clash.
LEMMA PartyPut ==
    ASSUME KeysInv, NEW r, NEW u \in Users, NEW i \in Ids, PutParty(r, u, i)
    PROVE  KeysInv'
PROOF
<1> DEFINE q == [role |-> r, user |-> u, id |-> i]
<1>1. UNCHANGED <<assets, adding>> /\ parties' = parties \cup {q}
  BY DEF PutParty
<1>2. clashes' = IF Holders(i) \subseteq {u} THEN clashes ELSE clashes \cup {i}
  BY DEF PutParty
<1>3. \A id \in Ids : Holders(id)' = Holders(id)
  BY <1>1 DEF Holders
<1>4. q.id = i /\ q.user = u
  OBVIOUS
<1> HIDE DEF q
<1>5. \A id \in Ids : \A p \in Carriers(id)' : p \in Carriers(id) \/ (p = q /\ id = i)
  BY <1>1, <1>4 DEF Carriers
<1>6. OneUser'
  <2> SUFFICES ASSUME NEW id \in Ids \ clashes'
               PROVE  /\ \A g, h \in Holders(id)' : g = h
                      /\ \A h \in Holders(id)', p \in Carriers(id)' : p.user = h
    BY DEF OneUser
  <2>1. id \in Ids \ clashes /\ (id = i => Holders(i) \subseteq {u})
    BY <1>2
  <2>2. (\A g, h \in Holders(id) : g = h) /\ \A h \in Holders(id), p \in Carriers(id) : p.user = h
    BY <2>1 DEF KeysInv, OneUser
  <2> QED
    BY <2>1, <2>2, <1>3, <1>4, <1>5
<1> QED
  BY <1>1, <1>6 DEF KeysInv, KeysType

\* A party that goes, and a process that dies.
LEMMA Lost ==
    ASSUME KeysInv, UNCHANGED <<assets, clashes>>, parties' \subseteq parties,
           adding' = adding \/ adding' = EmptyBag
    PROVE  KeysInv'
PROOF
<1>1. IsABag(adding') /\ BagToSet(adding') \subseteq BagToSet(adding)
  BY BagEmpty DEF KeysInv, KeysType
<1>2. \A i \in Ids : Holders(i)' \subseteq Holders(i) /\ Carriers(i)' \subseteq Carriers(i)
  BY <1>1 DEF Holders, Carriers
<1> QED
  BY <1>1, <1>2, Shrink DEF KeysInv, KeysType

\* A step of another store leaves the keys alone, but for the death of the process.
LEMMA Elsewhere ==
    ASSUME KeysInv, StoreNext
    PROVE  KeysInv'
PROOF
<1>1. \/ UNCHANGED keyVars
      \/ UNCHANGED <<assets, parties, clashes>> /\ adding' = EmptyBag
  BY DEF StoreNext, PutLocalServiceInfo, UpdateLocalServiceInfo, DeleteLocalServiceInfo, PutBusinessEvent,
         Call, UnSubscribePinCodeInvalid, SubscribePinCodeInvalid, RegisterBusinessCallback,
         UnRegisterBusinessCallback, LookUp, Write, StoreEvent, Notify, Deliver, KvDies, Restart
<1> QED
  BY <1>1, Lost DEF keyVars

\* As long as no id is drawn twice, an id, its keys and the parties that carry it are of one
\* user: what SessionKeyManager relies on when it finds the user of a key by its parties.
THEOREM KeysFollowOwner == LocalStoresSpec => []KeysInv
PROOF
<1>1. Init => KeysInv
  <2> SUFFICES ASSUME Init PROVE KeysInv
    OBVIOUS
  <2>1. assets = [u \in Users |-> [i \in Ids |-> None]] /\ parties = {} /\ adding = EmptyBag
    BY DEF Init, SessionKeysInit
  <2>2. KeysType
    BY <2>1, BagEmpty DEF KeysType
  <2>3. \A id \in Ids : Holders(id) = {}
    BY <2>1, BagEmpty DEF Holders
  <2> QED
    BY <2>2, <2>3 DEF KeysInv, OneUser
<1>2. KeysInv /\ [Next]_vars => KeysInv'
  <2> SUFFICES ASSUME KeysInv, [Next]_vars PROVE KeysInv'
    OBVIOUS
  <2>1. CASE StoreNext
    BY <2>1, Elsewhere
  <2>2. CASE SessionKeysNext
    <3>1. CASE \E u \in Users, id \in Ids, s \in Secrets : GeneratedSessionKeyId(u, id, s)
      BY <3>1, Drawn
    <3>2. CASE \E u \in Users, id \in Ids, s \in Secrets : UpdateSessionKey(u, id, s)
      BY <3>2, Updated
    <3>3. CASE \E a \in BagToSet(adding) : PutSessionKey(a)
      BY <3>3, KeyStored
    <3>4. CASE \E u \in Users, id \in Ids : DeleteSessionKey(u, id)
      BY <3>4, Updated
    <3>5. CASE \E r \in Roles, u \in Users, id \in Ids : PutParty(r, u, id)
      BY <3>5, PartyPut
    <3>6. CASE \E p \in parties : DeleteParty(p)
      BY <3>6, Lost DEF DeleteParty
    <3> QED
      BY <2>2, <3>1, <3>2, <3>3, <3>4, <3>5, <3>6 DEF SessionKeysNext
  <2>3. CASE UNCHANGED vars
    BY <2>3, Lost DEF vars, keyVars
  <2> QED
    BY <2>1, <2>2, <2>3 DEF Next
<1> QED
  BY <1>1, <1>2, PTL DEF LocalStoresSpec

\* GetSessionKey finds the key of a party's id: the user is read off the parties.
THEOREM KeyFound == LocalStoresSpec => []KeyOfOwner
PROOF
<1>1. KeysInv => KeyOfOwner
  <2> SUFFICES ASSUME KeysInv, NEW id \in Ids \ clashes, NEW u \in Users, assets[u][id] # None,
                      NEW p \in Carriers(id), p.user = u
               PROVE  GetSessionKey(id) = {assets[u][id]}
    BY DEF KeyOfOwner
  <2>1. u \in Holders(id)
    BY DEF Holders
  <2>2. \A q \in Carriers(id) : q.user = u
    BY <2>1 DEF KeysInv, OneUser
  <2>3. GetUserIdBySessionKeyId(id) = {u}
    BY <2>2 DEF GetUserIdBySessionKeyId
  <2> QED
    BY <2>3 DEF GetSessionKey
<1> QED
  BY <1>1, KeysFollowOwner, PTL

(***************************************************************************)
(* Local service infos.                                                    *)
(***************************************************************************)
Calls == [op : {"put", "update", "delete", "event"}, pc : {"look", "write", "store", "tell"},
          key : StoreKeys, value : Infos \cup BusinessValues \cup {None}]
CallsOK ==
    /\ IsABag(calls)
    /\ BagToSet(calls) \subseteq Calls
    /\ \A c \in BagToSet(calls) :
        \/ /\ c.op \in {"put", "update"} /\ c.pc \in {"look", "write", "tell"}
           /\ c.key \in Services /\ c.value \in Infos
        \/ c.op = "delete" /\ c.pc \in {"look", "write"} /\ c.key \in Services /\ c.value = None
        \/ c.op = "event" /\ c.pc \in {"store", "tell"} /\ c.key \in BusinessKeys

\* A call of a key whose calls do not overlap is the only one of it.
Alone ==
    \A c, d \in BagToSet(calls) : c.key = d.key /\ c.key \notin overlapped => c = d /\ calls[c] = 1

Stated(v) == IF v = None THEN <<>> ELSE <<v>>
RowsOK ==
    \A s \in Services :
        /\ table = "indexed" => Len(rows[s]) <= 1
        /\ s \notin overlapped /\ Len(rows[s]) <= 1 => \E v \in acked[s] : rows[s] = Stated(v)

\* An update that has found its row still has it.
UpdatesMeetRows ==
    \A c \in BagToSet(calls) :
        c.op = "update" /\ c.pc = "write" /\ c.key \notin overlapped => rows[c.key] # <<>>

RowsInv ==
    /\ rows \in [Services -> Seq(Infos)] /\ acked \in [Services -> SUBSET (Infos \cup {None})]
    /\ CallsOK /\ Alone /\ RowsOK /\ UpdatesMeetRows

\* A call that goes on keeps its key and its operation, and is then as alone as it was.
LEMMA CallGoesOn ==
    ASSUME CallsOK, Alone, NEW c \in BagToSet(calls), NEW pc, overlapped \subseteq overlapped',
           Ends(c) \/ (Goes(c, pc) /\ pc \in IF c.op = "event" THEN {"tell"}
                                              ELSE IF c.op = "delete" THEN {"write"} ELSE {"write", "tell"})
    PROVE  /\ CallsOK' /\ Alone'
           /\ Ends(c) => /\ BagToSet(calls') \subseteq BagToSet(calls)
                         /\ c.key \notin overlapped => \A d \in BagToSet(calls') : d.key # c.key
           /\ \A d \in BagToSet(calls') : d \in BagToSet(calls) \/ (d = [c EXCEPT !.pc = pc] /\ Goes(c, pc))
           /\ c.key \notin overlapped =>
                  \A d \in BagToSet(calls') : d.key = c.key => d = [c EXCEPT !.pc = pc] /\ Goes(c, pc)
PROOF
<1> DEFINE b == [c EXCEPT !.pc = pc]
           W == Without(c)
<1>1. /\ IsABag(W) /\ BagToSet(W) \subseteq BagToSet(calls)
      /\ \A e \in BagToSet(W) \ {c} : W[e] = calls[e]
      /\ calls[c] = 1 => c \notin BagToSet(W)
  BY BagSub DEF CallsOK, Without
<1> HIDE DEF W
<1>4. Ends(c) => /\ BagToSet(calls') \subseteq BagToSet(calls)
                 /\ c.key \notin overlapped => \A d \in BagToSet(calls') : d.key # c.key
  BY <1>1 DEF Ends, W, Alone
<1>2. CASE Ends(c)
  <2>1. calls' = W
    BY <1>2 DEF Ends, W
  <2>2. CallsOK'
    BY <2>1, <1>1 DEF CallsOK
  <2> QED
    BY <2>1, <2>2, <1>1, <1>4 DEF Alone
<1>3. CASE Goes(c, pc) /\ pc \in IF c.op = "event" THEN {"tell"}
                                 ELSE IF c.op = "delete" THEN {"write"} ELSE {"write", "tell"}
  <2>1. calls' = W (+) SetToBag({b})
    BY <1>3 DEF Goes, W
  <2>2. b.op = c.op /\ b.key = c.key /\ b.value = c.value /\ b.pc = pc /\ b \in Calls
    <3>1. c \in Calls /\ pc \in {"look", "write", "store", "tell"}
      BY <1>3 DEF CallsOK
    <3> QED
      BY <3>1 DEF Calls
  <2> HIDE DEF b
  <2>3. /\ IsABag(calls') /\ BagToSet(calls') = BagToSet(W) \cup {b}
        /\ \A e \in BagToSet(W) \ {b} : calls'[e] = W[e]
        /\ b \notin BagToSet(W) => calls'[b] = 1
    BY <2>1, <1>1, BagAdd
  <2>4. CallsOK'
    BY <2>2, <2>3, <1>1, <1>3 DEF CallsOK
  <2>5. c.key \notin overlapped => \A d \in BagToSet(W) : d.key # c.key
    BY <1>1 DEF Alone
  <2>6. Alone'
    BY <2>2, <2>3, <2>5, <1>1 DEF Alone
  <2> QED
    BY <2>2, <2>3, <2>4, <2>5, <2>6, <1>1, <1>3, <1>4 DEF b
<1> QED
  BY <1>2, <1>3

\* A step that ends calls of keys it does not count as overlapping, or lets one go on
\* without writing, keeps the rows as answered.
LEMMA NothingWritten ==
    ASSUME RowsInv, UNCHANGED <<table, rows, acked>>, CallsOK', Alone', overlapped \subseteq overlapped',
           \A d \in BagToSet(calls') : d.op = "update" /\ d.pc = "write" /\ d.key \notin overlapped'
               => d \in BagToSet(calls) \/ rows[d.key] # <<>>
    PROVE  RowsInv'
PROOF
<1>1. RowsOK'
  BY DEF RowsInv, RowsOK
<1>2. UpdatesMeetRows'
  BY DEF RowsInv, UpdatesMeetRows
<1> QED
  BY <1>1, <1>2 DEF RowsInv

\* A call that comes in is alone, or its key is noted.
LEMMA CallComes ==
    ASSUME RowsInv, NEW op, NEW pc, NEW key, NEW v, Call(op, pc, key, v),
           \/ op \in {"put", "update"} /\ pc = "look" /\ key \in Services /\ v \in Infos
           \/ op = "delete" /\ pc = "look" /\ key \in Services /\ v = None
           \/ op = "event" /\ pc = "store" /\ key \in BusinessKeys /\ v \in BusinessValues
    PROVE  RowsInv'
PROOF
<1> DEFINE b == [op |-> op, pc |-> pc, key |-> key, value |-> v]
<1>1. /\ calls' = calls (+) SetToBag({b})
      /\ overlapped' = overlapped \cup ({key} \cap Active)
      /\ UNCHANGED <<table, rows, acked>>
  BY DEF Call
<1>2. b.op = op /\ b.pc = pc /\ b.key = key /\ b.value = v /\ b \in Calls
  BY DEF Calls, StoreKeys
<1> HIDE DEF b
<1>3. /\ IsABag(calls') /\ BagToSet(calls') = BagToSet(calls) \cup {b}
      /\ \A e \in BagToSet(calls) \ {b} : calls'[e] = calls[e]
      /\ b \notin BagToSet(calls) => calls'[b] = 1
  <2>1. IsABag(calls)
    BY DEF RowsInv, CallsOK
  <2> QED
    BY <1>1, <2>1, BagAdd
<1>4. CallsOK'
  BY <1>2, <1>3 DEF RowsInv, CallsOK
<1>5. key \notin overlapped' => \A d \in BagToSet(calls) : d.key # key
  BY <1>1 DEF Active
<1>6. Alone'
  BY <1>1, <1>2, <1>3, <1>5 DEF RowsInv, Alone
<1>7. \A d \in BagToSet(calls') : d.op = "update" /\ d.pc = "write" => d \in BagToSet(calls)
  BY <1>2, <1>3
<1>8. overlapped \subseteq overlapped' /\ UNCHANGED <<table, rows, acked>>
  BY <1>1
<1> HIDE DEF Call
<1> QED
  BY <1>4, <1>6, <1>7, <1>8, NothingWritten

\* LookUp goes on to write when the row is as the operation needs it.
LEMMA LooksUp ==
    ASSUME RowsInv, NEW c \in BagToSet(calls), LookUp(c)
    PROVE  RowsInv'
PROOF
<1>1. /\ UNCHANGED <<table, rows, overlapped>>
      /\ \/ acked' = acked
         \/ Acked(c.key, {None}) /\ Row(c.key) = None /\ Ends(c)
         \/ Acked(c.key, acked[c.key] \cup {None}) /\ Ends(c)
      /\ Ends(c) \/ (Goes(c, "write") /\ (Row(c.key) # None \/ c.op = "put"))
  BY DEF LookUp
<1>2. c.op # "event" /\ c.key \in Services
  BY DEF LookUp, RowsInv, CallsOK
<1> DEFINE b == [c EXCEPT !.pc = "write"]
<1>3. /\ CallsOK' /\ Alone'
      /\ Ends(c) => /\ BagToSet(calls') \subseteq BagToSet(calls)
                    /\ c.key \notin overlapped => \A d \in BagToSet(calls') : d.key # c.key
      /\ \A d \in BagToSet(calls') : d \in BagToSet(calls) \/ d = b
  <2>1. Ends(c) \/ (Goes(c, "write") /\ "write" \in IF c.op = "event" THEN {"tell"}
                                              ELSE IF c.op = "delete" THEN {"write"} ELSE {"write", "tell"})
    BY <1>1, <1>2
  <2> QED
    BY <1>1, <2>1, CallGoesOn DEF RowsInv
<1>4. b.op = c.op /\ b.key = c.key
  BY DEF RowsInv, CallsOK, Calls
<1>5. Row(c.key) # None => rows[c.key] # <<>>
  BY DEF Row
<1> HIDE DEF b
<1>6. \A d \in BagToSet(calls') : d.op = "update" => d \in BagToSet(calls) \/ rows[d.key] # <<>>
  BY <1>1, <1>3, <1>4, <1>5
<1>8. CASE acked' = acked
  BY <1>1, <1>3, <1>6, <1>8, NothingWritten
<1>7. ASSUME Ends(c), acked' \in [Services -> SUBSET (Infos \cup {None})], None \in acked'[c.key],
             \A s \in Services \ {c.key} : acked'[s] = acked[s],
             Row(c.key) = None \/ acked[c.key] \subseteq acked'[c.key]
      PROVE  RowsInv'
  <2>1. Row(c.key) = None => rows[c.key] = Stated(None)
    <3>1. rows[c.key] # <<>> => rows[c.key][1] \in Infos
      BY <1>2 DEF RowsInv
    <3> QED
      BY <3>1, LocalStoresAssumption DEF Row, Stated
  <2>2. RowsOK'
    BY <1>1, <1>2, <1>7, <2>1 DEF RowsInv, RowsOK, Stated
  <2>3. UpdatesMeetRows'
    BY <1>1, <1>3, <1>7 DEF RowsInv, UpdatesMeetRows
  <2> QED
    BY <1>1, <1>2, <1>3, <1>7, <2>2, <2>3 DEF RowsInv
<1>9. CASE Acked(c.key, {None}) /\ Row(c.key) = None /\ Ends(c)
  BY <1>2, <1>7, <1>9 DEF Acked, RowsInv
<1>10. CASE Acked(c.key, acked[c.key] \cup {None}) /\ Ends(c)
  BY <1>2, <1>7, <1>10 DEF Acked, RowsInv
<1> QED
  BY <1>1, <1>8, <1>9, <1>10

\* What Write makes of the rows of its service.
LEMMA RowsWritten ==
    ASSUME RowsInv, NEW c \in BagToSet(calls), c.op # "event", c.op = "put" => Insertable(c.key),
           c.op = "update" /\ c.key \notin overlapped => rows[c.key] # <<>>
    PROVE  /\ c.key \in Services /\ c.value \in Infos \cup {None} /\ Written(c) \in Seq(Infos)
           /\ table = "indexed" => Len(Written(c)) <= 1
           /\ c.key \notin overlapped /\ Len(Written(c)) <= 1
                  => Written(c) = Stated(c.value)
PROOF
<1> DEFINE r == rows[c.key]
<1>1. c.key \in Services /\ c.op \in {"put", "update", "delete"}
  BY DEF RowsInv, CallsOK
<1>2. IF c.op = "delete" THEN c.value = None ELSE c.value \in Infos /\ c.value # None
  BY LocalStoresAssumption DEF RowsInv, CallsOK
<1>3. r \in Seq(Infos) /\ (table = "indexed" => Len(r) <= 1)
  BY <1>1 DEF RowsInv, RowsOK
<1>4. CASE c.op = "put"
  <2>1. Written(c) = Append(r, c.value) /\ (table = "indexed" => r = <<>>)
    BY <1>4 DEF Written, Insertable
  <2> HIDE DEF r
  <2>2. Len(Written(c)) <= 1 => r = <<>>
    BY <1>2, <1>3, <1>4, <2>1
  <2>3. r = <<>> => Written(c) = Stated(c.value)
    BY <1>2, <1>4, <2>1 DEF Stated
  <2>4. Written(c) \in Seq(Infos) /\ Len(Written(c)) = Len(r) + 1
    BY <1>2, <1>3, <1>4, <2>1
  <2>5. table = "indexed" => Len(Written(c)) <= 1
    BY <2>1, <2>4
  <2> QED
    BY <1>1, <1>2, <1>4, <2>2, <2>3, <2>4, <2>5
<1>5. CASE c.op = "update"
  <2>1. Written(c) = [i \in DOMAIN r |-> c.value]
    BY <1>5 DEF Written
  <2>2. c.key \notin overlapped => r # <<>>
    BY <1>5
  <2> HIDE DEF r
  <2>3. Written(c) \in Seq(Infos) /\ Len(Written(c)) = Len(r)
    BY <1>2, <1>3, <1>5, <2>1
  <2>4. r # <<>> /\ Len(r) <= 1 => Written(c) = Stated(c.value)
    <3>1. ASSUME r # <<>>, Len(r) <= 1 PROVE DOMAIN r = 1 .. 1
      <4>1. Len(r) \in Nat /\ DOMAIN r = 1 .. Len(r)
        BY <1>3
      <4>2. Len(r) # 0
        BY <1>3, <3>1
      <4>3. Len(r) = 1
        BY <3>1, <4>1, <4>2
      <4> QED
        BY <4>1, <4>3
    <3>2. DOMAIN r = 1 .. 1 => Written(c) = Stated(c.value)
      BY <1>2, <1>5, <2>1 DEF Stated
    <3> QED
      BY <3>1, <3>2
  <2> QED
    BY <1>1, <1>2, <1>3, <1>5, <2>2, <2>3, <2>4
<1>6. CASE c.op = "delete"
  BY <1>1, <1>2, <1>6 DEF Written, Stated
<1> QED
  BY <1>1, <1>4, <1>5, <1>6

\* Write leaves the row it is then acknowledged for.
LEMMA Writes ==
    ASSUME RowsInv, NEW c \in BagToSet(calls), Write(c)
    PROVE  RowsInv'
PROOF
<1> DEFINE b == [c EXCEPT !.pc = "tell"]
<1>1. UNCHANGED <<table, overlapped>> /\ c.pc = "write" /\ c.op # "event"
  BY DEF Write, RowsInv, CallsOK
<1>2. Ends(c) \/ (Goes(c, "tell") /\ c.value \in InvalidInfos)
  BY DEF Write
<1>3. /\ CallsOK' /\ Alone'
      /\ \A d \in BagToSet(calls') : d \in BagToSet(calls) \/ d = b
      /\ c.key \notin overlapped => \A d \in BagToSet(calls') : d.key = c.key => d = b
  <2>1. c.op = "delete" => c.value \notin InvalidInfos
    BY LocalStoresAssumption DEF RowsInv, CallsOK
  <2>2. Ends(c) \/ (Goes(c, "tell") /\ "tell" \in IF c.op = "event" THEN {"tell"}
                                              ELSE IF c.op = "delete" THEN {"write"} ELSE {"write", "tell"})
    BY <1>1, <1>2, <2>1
  <2> QED
    BY <1>1, <2>2, CallGoesOn DEF RowsInv
<1>4. b.pc = "tell"
  BY DEF RowsInv, CallsOK, Calls
<1> HIDE DEF b
<1>5. CASE UNCHANGED <<rows, acked>>
  <2>1. \A d \in BagToSet(calls') : d.pc = "write" => d \in BagToSet(calls)
    BY <1>3, <1>4
  <2> QED
    BY <1>1, <1>3, <1>5, <2>1, NothingWritten
<1>6. CASE /\ c.op = "put" => Insertable(c.key)
           /\ rows' = [rows EXCEPT ![c.key] = Written(c)] /\ Acked(c.key, {c.value})
  <2>1. c.op = "update" /\ c.key \notin overlapped => rows[c.key] # <<>>
    BY <1>1 DEF RowsInv, UpdatesMeetRows
  <2>2. /\ c.key \in Services /\ c.value \in Infos \cup {None} /\ Written(c) \in Seq(Infos)
        /\ table = "indexed" => Len(Written(c)) <= 1
        /\ c.key \notin overlapped /\ Len(Written(c)) <= 1
               => Written(c) = Stated(c.value)
    BY <1>1, <1>6, <2>1, RowsWritten
  <2>3. acked' = [acked EXCEPT ![c.key] = {c.value}]
    BY <1>6 DEF Acked
  <2>4. rows' \in [Services -> Seq(Infos)] /\ acked' \in [Services -> SUBSET (Infos \cup {None})]
    BY <1>6, <2>2, <2>3 DEF RowsInv
  <2>5. RowsOK'
    BY <1>1, <1>6, <2>2, <2>3 DEF RowsInv, RowsOK
  <2>6. UpdatesMeetRows'
    <3>1. \A d \in BagToSet(calls') : d.pc = "write" /\ d.key \notin overlapped'
              => d \in BagToSet(calls) /\ d.key # c.key
      BY <1>1, <1>3, <1>4
    <3>2. \A s : s # c.key => rows'[s] = rows[s]
      BY <1>6 DEF RowsInv
    <3> QED
      BY <1>1, <3>1, <3>2 DEF RowsInv, UpdatesMeetRows
  <2> QED
    BY <1>3, <2>4, <2>5, <2>6 DEF RowsInv
<1> QED
  BY <1>5, <1>6 DEF Write

\* StoreEvent and Notify write no row; what is told does not matter to the rows.
LEMMA Tells ==
    ASSUME RowsInv, NEW c \in BagToSet(calls), StoreEvent(c) \/ Notify(c)
    PROVE  RowsInv'
PROOF
<1> DEFINE b == [c EXCEPT !.pc = "tell"]
<1>1. UNCHANGED <<table, rows, acked>> /\ overlapped \subseteq overlapped'
  BY DEF StoreEvent, Notify, answers
<1>2. Ends(c) \/ (Goes(c, "tell") /\ c.op = "event")
  BY DEF StoreEvent, Notify, RowsInv, CallsOK
<1>3. CallsOK' /\ Alone' /\ \A d \in BagToSet(calls') : d \in BagToSet(calls) \/ d = b
  <2>1. Ends(c) \/ (Goes(c, "tell") /\ "tell" \in IF c.op = "event" THEN {"tell"}
                                              ELSE IF c.op = "delete" THEN {"write"} ELSE {"write", "tell"})
    BY <1>2
  <2> QED
    BY <1>1, <2>1, CallGoesOn DEF RowsInv
<1>4. b.pc = "tell"
  BY DEF RowsInv, CallsOK, Calls
<1> HIDE DEF b
<1>5. \A d \in BagToSet(calls') : d.pc = "write" => d \in BagToSet(calls)
  BY <1>3, <1>4
<1> QED
  BY <1>1, <1>3, <1>5, NothingWritten

\* When the process dies the calls under way are gone, and their keys are noted.
LEMMA Restarts ==
    ASSUME RowsInv, Restart
    PROVE  RowsInv'
PROOF
<1>1. /\ UNCHANGED <<rows, acked>> /\ calls' = EmptyBag /\ overlapped \subseteq overlapped'
      /\ table' = "indexed" => \A s \in Services : Len(rows[s]) <= 1
  BY DEF Restart, Created
<1>2. CallsOK' /\ Alone' /\ UpdatesMeetRows'
  BY <1>1, BagEmpty DEF CallsOK, Alone, UpdatesMeetRows
<1>3. RowsOK'
  BY <1>1 DEF RowsInv, RowsOK
<1> QED
  BY <1>1, <1>2, <1>3 DEF RowsInv

\* What is left alone stays as it was.
LEMMA RowsLeft ==
    ASSUME RowsInv, UNCHANGED <<table, rows, calls, answers>>
    PROVE  RowsInv'
PROOF
  BY DEF RowsInv, CallsOK, Alone, RowsOK, UpdatesMeetRows, answers

\* Every step of the local stores keeps the rows as answered.
LEMMA RowsKept ==
    ASSUME RowsInv, [Next]_vars
    PROVE  RowsInv'
PROOF
<1>1. CASE \E s \in Services, v \in Infos : PutLocalServiceInfo(s, v) \/ UpdateLocalServiceInfo(s, v)
  BY <1>1, CallComes DEF PutLocalServiceInfo, UpdateLocalServiceInfo
<1>2. CASE \E s \in Services : DeleteLocalServiceInfo(s)
  BY <1>2, CallComes DEF DeleteLocalServiceInfo
<1>3. CASE \E k \in BusinessKeys, v \in BusinessValues : PutBusinessEvent(k, v)
  BY <1>3, CallComes DEF PutBusinessEvent
<1>4. CASE \E c \in BagToSet(calls) : LookUp(c) \/ Write(c) \/ StoreEvent(c) \/ Notify(c)
  BY <1>4, LooksUp, Writes, Tells
<1>5. CASE Restart
  BY <1>5, Restarts
<1>6. CASE \/ \E s \in Services : UnSubscribePinCodeInvalid(s)
           \/ \E l \in PinClients, s \in Services : SubscribePinCodeInvalid(l, s)
           \/ \E l \in SaIds, k \in BusinessKeys :
                  RegisterBusinessCallback(l, k) \/ UnRegisterBusinessCallback(l, k)
           \/ Deliver \/ KvDies
  BY <1>6, RowsLeft DEF UnSubscribePinCodeInvalid, SubscribePinCodeInvalid, RegisterBusinessCallback,
     UnRegisterBusinessCallback, Deliver, KvDies
<1>7. CASE UNCHANGED storeVars
  BY <1>7, RowsLeft DEF storeVars, answers
<1> QED
  BY <1>1, <1>2, <1>3, <1>4, <1>5, <1>6, <1>7 DEF Next, StoreNext, vars

\* At the start there is no row and no call.
LEMMA RowsStart ==
    ASSUME Init
    PROVE  RowsInv
PROOF
<1>1. /\ rows = [s \in Services |-> <<>>] /\ acked = [s \in Services |-> {None}]
      /\ calls = EmptyBag
  BY DEF Init
<1>2. rows \in [Services -> Seq(Infos)] /\ acked \in [Services -> SUBSET (Infos \cup {None})]
  BY <1>1
<1>3. CallsOK /\ Alone /\ UpdatesMeetRows
  BY <1>1, BagEmpty DEF CallsOK, Alone, UpdatesMeetRows
<1>4. RowsOK
  BY <1>1 DEF RowsOK, Stated
<1> QED
  BY <1>2, <1>3, <1>4 DEF RowsInv

\* Local service infos: a service whose calls never overlapped has the row its last
\* successful call stated, and an indexed table no two rows of one service.
THEOREM RowsFollowAnswers == LocalStoresSpec => []RowsAsAnswered
PROOF
<1>1. Init => RowsInv
  BY RowsStart
<1>2. RowsInv /\ [Next]_vars => RowsInv'
  BY RowsKept
<1>3. RowsInv => RowsAsAnswered
  BY DEF RowsInv, RowsOK, RowsAsAnswered, Stated, Row
<1> QED
  BY <1>1, <1>2, <1>3, PTL DEF LocalStoresSpec
(***************************************************************************)
(* What subscribers have heard.                                            *)
(***************************************************************************)
Said == Infos \cup BusinessValues \cup {None}
QueueTasks == [to : Listeners \cup {None}, key : StoreKeys, value : Said]
HeardType ==
    /\ queue \in Seq(QueueTasks)
    /\ heard \in [Listeners -> [StoreKeys -> Said]]
    /\ callbacks \subseteq SaIds \X BusinessKeys /\ IsFiniteSet(callbacks)
    /\ pins \in [Services -> PinClients \cup {None}]
    /\ business \in [BusinessKeys -> Said]

\* With the tasks q queued and h heard so far, l ends up knowing v of k.
Mine(q, l, k) == {i \in DOMAIN q : q[i].to = l /\ q[i].key = k}
Comes(q, h, l, k, v) ==
    /\ Mine(q, l, k) = {} => h[l][k] = v
    /\ \A i \in Mine(q, l, k) : (\A j \in Mine(q, l, k) : j <= i) => q[i].value = v

\* A call that has written and has still to look for whom to tell.
Telling(k) == \E c \in BagToSet(calls) : c.key = k /\ c.pc = "tell"
\* What is stored under a key.
TellsStored ==
    \A c \in BagToSet(calls) : c.pc = "tell" /\ c.key \notin overlapped =>
        /\ c.key \in BusinessKeys => c.value = business[c.key]
        /\ c.key \in Services /\ table = "indexed" => c.value = Row(c.key)
EventsHeard ==
    \A p \in callbacks \ stale :
        p[2] \notin overlapped /\ ~Telling(p[2]) => Comes(queue, heard, p[1], p[2], business[p[2]])
PinsHeard ==
    \A s \in Services \ overlapped :
        table = "indexed" /\ pins[s] # None /\ <<pins[s], s>> \notin stale
        /\ Row(s) \in InvalidInfos /\ ~Telling(s)
            => Comes(queue, heard, pins[s], s, Row(s))
HeardInv == HeardType /\ TellsStored /\ EventsHeard /\ PinsHeard

\* A task is carried out.
LEMMA ComesTail ==
    ASSUME NEW q \in Seq(QueueTasks), q # <<>>, NEW g, NEW h, NEW l, NEW k, NEW v,
           Comes(q, g, l, k, v),
           h[l][k] = IF Head(q).to = l /\ Head(q).key = k THEN Head(q).value ELSE g[l][k]
    PROVE  Comes(Tail(q), h, l, k, v)
PROOF
<1> DEFINE r == Tail(q)
<1>1. /\ Len(q) \in Nat /\ Len(q) > 0 /\ DOMAIN q = 1 .. Len(q) /\ Head(q) = q[1]
      /\ r \in Seq(QueueTasks) /\ Len(r) = Len(q) - 1 /\ DOMAIN r = 1 .. Len(r)
      /\ \A i \in 1 .. Len(r) : r[i] = q[i + 1]
  OBVIOUS
<1> HIDE DEF r
<1>2. \A i \in Mine(r, l, k) : i + 1 \in Mine(q, l, k) /\ r[i] = q[i + 1] /\ i \in Nat
  BY <1>1 DEF Mine
<1>3. \A j \in Mine(q, l, k) : j \in Nat /\ (j = 1 \/ (j > 1 /\ j - 1 \in Mine(r, l, k)))
  BY <1>1 DEF Mine
<1>4. ASSUME Mine(r, l, k) = {} PROVE h[l][k] = v
  <2>1. CASE 1 \in Mine(q, l, k)
    <3>1. \A j \in Mine(q, l, k) : j <= 1
      BY <1>3, <1>4
    <3>2. q[1].value = v /\ q[1].to = l /\ q[1].key = k
      BY <2>1, <3>1 DEF Comes, Mine
    <3> QED
      BY <1>1, <3>2
  <2>2. CASE 1 \notin Mine(q, l, k)
    <3>1. Mine(q, l, k) = {}
      BY <1>3, <1>4, <2>2
    <3>2. ~(q[1].to = l /\ q[1].key = k)
      BY <1>1, <2>2 DEF Mine
    <3> QED
      BY <1>1, <3>1, <3>2 DEF Comes
  <2> QED
    BY <2>1, <2>2
<1>5. ASSUME NEW i \in Mine(r, l, k), \A j \in Mine(r, l, k) : j <= i PROVE r[i].value = v
  <2>1. \A j \in Mine(q, l, k) : j <= i + 1
    BY <1>2, <1>3, <1>5
  <2> QED
    BY <1>2, <1>5, <2>1 DEF Comes
<1> QED
  BY <1>4, <1>5 DEF Comes, r

\* Tasks that say the same are posted, none of them to l, or one.
LEMMA ComesPosted ==
    ASSUME NEW q \in Seq(QueueTasks), NEW s \in Seq(QueueTasks), NEW h, NEW l, NEW k, NEW v,
           \/ Mine(s, l, k) = {} /\ Comes(q, h, l, k, v)
           \/ Mine(s, l, k) # {} /\ \A j \in DOMAIN s : s[j].value = v
    PROVE  Comes(q \o s, h, l, k, v)
PROOF
<1> DEFINE r == q \o s
<1>1. /\ Len(q) \in Nat /\ DOMAIN q = 1 .. Len(q) /\ Len(s) \in Nat /\ DOMAIN s = 1 .. Len(s)
      /\ r \in Seq(QueueTasks) /\ Len(r) = Len(q) + Len(s) /\ DOMAIN r = 1 .. Len(r)
      /\ \A i \in 1 .. Len(r) : r[i] = IF i <= Len(q) THEN q[i] ELSE s[i - Len(q)]
  OBVIOUS
<1> HIDE DEF r
<1>2. \A i \in Mine(r, l, k) : /\ i \in Nat
                              /\ \/ i <= Len(q) /\ i \in Mine(q, l, k) /\ r[i] = q[i]
                                 \/ i > Len(q) /\ i - Len(q) \in Mine(s, l, k) /\ r[i] = s[i - Len(q)]
  BY <1>1 DEF Mine
<1>3. /\ \A i \in Mine(q, l, k) : i \in Mine(r, l, k)
      /\ \A j \in Mine(s, l, k) : j \in Nat /\ j > 0 /\ Len(q) + j \in Mine(r, l, k)
  BY <1>1 DEF Mine
<1>4. CASE Mine(s, l, k) = {} /\ Comes(q, h, l, k, v)
  <2>1. Mine(r, l, k) = Mine(q, l, k)
    BY <1>2, <1>3, <1>4
  <2>2. \A i \in Mine(r, l, k) : r[i] = q[i]
    BY <1>2, <1>4
  <2> QED
    BY <1>4, <2>1, <2>2 DEF Comes, r
<1>5. CASE Mine(s, l, k) # {} /\ \A j \in DOMAIN s : s[j].value = v
  <2>1. Mine(r, l, k) # {}
    BY <1>3, <1>5
  <2>2. ASSUME NEW i \in Mine(r, l, k), \A j \in Mine(r, l, k) : j <= i PROVE r[i].value = v
    <3>1. PICK j \in Mine(s, l, k) : TRUE
      BY <1>5
    <3>2. Len(q) + j <= i /\ j \in Nat /\ j > 0
      BY <1>3, <2>2, <3>1
    <3>3. i > Len(q) /\ i - Len(q) \in Mine(s, l, k) /\ r[i] = s[i - Len(q)]
      BY <1>1, <1>2, <3>2
    <3> QED
      BY <1>5, <3>3 DEF Mine
  <2> QED
    BY <2>1, <2>2 DEF Comes, r
<1> QED
  BY <1>4, <1>5

\* The tasks for the earlier subscription of m to key have another callback.
Orphaned(q, m, key) ==
    [i \in DOMAIN q |-> IF i \in Mine(q, m, key) THEN [q[i] EXCEPT !.to = None] ELSE q[i]]
LEMMA ComesOrphaned ==
    ASSUME NEW q \in Seq(QueueTasks), NEW m \in Listeners, NEW key
    PROVE  /\ Orphaned(q, m, key) \in Seq(QueueTasks)
           /\ Mine(Orphaned(q, m, key), m, key) = {}
           /\ \A g, h, k, v : \A l \in Listeners :
                 <<l, k>> # <<m, key>> /\ h[l][k] = g[l][k] /\ Comes(q, g, l, k, v)
                     => Comes(Orphaned(q, m, key), h, l, k, v)
PROOF
<1> DEFINE r == Orphaned(q, m, key)
<1>0. r = [i \in DOMAIN q |-> IF i \in Mine(q, m, key) THEN [q[i] EXCEPT !.to = None] ELSE q[i]]
  BY DEF Orphaned
<1> HIDE DEF r
<1>1. Len(q) \in Nat /\ DOMAIN q = 1 .. Len(q) /\ \A i \in DOMAIN q : q[i] \in QueueTasks
  OBVIOUS
<1>2. None \notin Listeners
  BY LocalStoresAssumption DEF Listeners
<1>3. \A i \in DOMAIN q : /\ r[i] \in QueueTasks /\ r[i].key = q[i].key /\ r[i].value = q[i].value
                         /\ r[i].to = IF i \in Mine(q, m, key) THEN None ELSE q[i].to
  BY <1>0, <1>1 DEF QueueTasks
<1>4. DOMAIN r = DOMAIN q /\ r \in Seq(QueueTasks)
  BY <1>0, <1>1, <1>3
<1>5. Mine(r, m, key) = {}
  BY <1>2, <1>3, <1>4 DEF Mine
<1>6. \A k : \A l \in Listeners : <<l, k>> # <<m, key>> => Mine(r, l, k) = Mine(q, l, k)
  BY <1>2, <1>3, <1>4 DEF Mine
<1>7. \A l, k : Mine(r, l, k) \subseteq DOMAIN q
  BY <1>4 DEF Mine
<1>8. ASSUME NEW g, NEW h, NEW k, NEW v, NEW l \in Listeners,
             <<l, k>> # <<m, key>>, h[l][k] = g[l][k], Comes(q, g, l, k, v)
      PROVE  Comes(r, h, l, k, v)
  BY <1>3, <1>6, <1>7, <1>8 DEF Comes
<1> QED
  BY <1>4, <1>5, <1>8 DEF r

\* Tasks that l has not, and what it has heard of other keys, do not matter.
LEMMA ComesSame ==
    ASSUME NEW q, NEW g, NEW h, NEW l, NEW k, NEW v, Comes(q, g, l, k, v), h[l][k] = g[l][k]
    PROVE  Comes(q, h, l, k, v)
PROOF
  BY DEF Comes

\* The sequence of a finite set has all its elements.
LEMMA SetToSeqAll ==
    ASSUME NEW S, IsFiniteSet(S)
    PROVE  /\ SetToSeq(S) \in Seq(S)
           /\ \A x \in S : \E i \in DOMAIN SetToSeq(S) : SetToSeq(S)[i] = x
PROOF
<1> DEFINE n == Cardinality(S)
           s == SetToSeq(S)
<1>1. n \in Nat /\ \E f \in [1 .. n -> S] : IsInjective(f)
  <2>1. n \in Nat /\ ExistsBijection(1 .. n, S)
    BY FS_CardinalityType
  <2>2. PICK f \in Bijection(1 .. n, S) : TRUE
    BY <2>1 DEF ExistsBijection
  <2>3. f \in [1 .. n -> S] /\ \A a, b \in 1 .. n : f[a] = f[b] => a = b
    BY <2>2 DEF Bijection, Injection, IsInjective
  <2> QED
    BY <2>1, <2>3 DEF IsInjective
<1>2. s \in [1 .. n -> S] /\ IsInjective(s)
  BY <1>1 DEF SetToSeq
<1> HIDE DEF s
<1>3. s \in Injection(1 .. n, S)
  BY <1>2 DEF IsInjective, Injection
<1>4. Cardinality(1 .. n) = Cardinality(S)
  BY <1>1, FS_Interval
<1> HIDE DEF n
<1>5. s \in Surjection(1 .. n, S)
  BY <1>3, <1>4, FS_Injection
<1>6. s \in Seq(S)
  BY <1>1, <1>2
<1> QED
  BY <1>2, <1>5, <1>6 DEF Surjection, s

\* A step of a call leaves the others under way.
LEMMA OthersGoOn ==
    ASSUME CallsOK, NEW c \in BagToSet(calls), NEW pc, Ends(c) \/ Goes(c, pc)
    PROVE  \A d \in BagToSet(calls) \ {c} : d \in BagToSet(calls')
PROOF
<1> DEFINE b == [c EXCEPT !.pc = pc]
           W == Without(c)
<1>1. IsABag(W) /\ \A d \in BagToSet(calls) \ {c} : d \in BagToSet(W)
  BY BagSub DEF CallsOK, Without
<1> HIDE DEF W, b
<1>2. CASE Ends(c)
  <2>1. calls' = W
    BY <1>2 DEF Ends, W
  <2> QED
    BY <2>1, <1>1, <1>2
<1>3. CASE Goes(c, pc)
  <2>1. calls' = W (+) SetToBag({b})
    BY <1>3 DEF Goes, W, b
  <2>2. BagToSet(calls') = BagToSet(W) \cup {b}
    BY <2>1, <1>1, BagAdd
  <2> QED
    BY <2>2, <1>1 DEF b
<1> QED
  BY <1>2, <1>3

\* The call that goes on is under way.
LEMMA GoesIn ==
    ASSUME CallsOK, NEW c \in BagToSet(calls), NEW pc, Goes(c, pc)
    PROVE  [c EXCEPT !.pc = pc] \in BagToSet(calls')
PROOF
<1> DEFINE W == Without(c)
           b == [c EXCEPT !.pc = pc]
<1>1. IsABag(W)
  BY BagSub DEF CallsOK, Without
<1>2. calls' = W (+) SetToBag({b})
  BY DEF Goes
<1> HIDE DEF W, b
<1>3. BagToSet(calls') = BagToSet(W) \cup {b}
  BY <1>1, <1>2, BagAdd
<1> QED
  BY <1>3 DEF b

\* A step by which nobody hears or subscribes, and no key whose calls have all told changes.
LEMMA NothingTold ==
    ASSUME HeardInv, HeardType', TellsStored',
           UNCHANGED <<queue, heard, stale>>,
           callbacks' \subseteq callbacks,
           \A s \in Services : pins'[s] \in {pins[s], None},
           overlapped \subseteq overlapped',
           \A k \in BusinessKeys \ overlapped' : ~Telling(k)' => ~Telling(k) /\ business'[k] = business[k],
           \A s \in Services \ overlapped' :
               table' = "indexed" /\ Row(s)' \in InvalidInfos /\ ~Telling(s)'
                   => table = "indexed" /\ ~Telling(s) /\ Row(s)' = Row(s)
    PROVE  HeardInv'
PROOF
<1>1. EventsHeard'
  <2> SUFFICES ASSUME NEW p \in callbacks' \ stale', p[2] \notin overlapped', ~Telling(p[2])'
               PROVE  Comes(queue', heard', p[1], p[2], business'[p[2]])
    BY DEF EventsHeard, Telling
  <2>1. p \in callbacks \ stale /\ p[2] \in BusinessKeys \ overlapped'
    BY DEF HeardInv, HeardType
  <2>2. ~Telling(p[2]) /\ business'[p[2]] = business[p[2]] /\ p[2] \notin overlapped
    BY <2>1 DEF Telling
  <2>3. Comes(queue, heard, p[1], p[2], business[p[2]])
    BY <2>1, <2>2 DEF HeardInv, EventsHeard
  <2> QED
    BY <2>2, <2>3
<1>2. PinsHeard'
  <2> SUFFICES ASSUME NEW s \in Services \ overlapped', table' = "indexed", pins'[s] # None,
                      <<pins'[s], s>> \notin stale', Row(s)' \in InvalidInfos, ~Telling(s)'
               PROVE  Comes(queue', heard', pins'[s], s, Row(s)')
    BY DEF PinsHeard, Row, Telling
  <2>1. table = "indexed" /\ ~Telling(s) /\ Row(s)' = Row(s) /\ pins'[s] = pins[s] /\ s \notin overlapped
    OBVIOUS
  <2>2. Comes(queue, heard, pins[s], s, Row(s))
    BY <2>1 DEF HeardInv, PinsHeard
  <2> QED
    BY <2>1, <2>2
<1> QED
  BY <1>1, <1>2 DEF HeardInv

\* The types of what the other lemmas leave alone.
LEMMA TypeLeft ==
    ASSUME HeardType, UNCHANGED <<queue, heard, callbacks, pins, business>>
    PROVE  HeardType'
PROOF
  BY DEF HeardType

\* A call that comes in tells nobody.
LEMMA CallComesHeard ==
    ASSUME RowsInv, HeardInv, NEW op, NEW pc, NEW key, NEW v, Call(op, pc, key, v), pc # "tell"
    PROVE  HeardInv'
PROOF
<1> DEFINE b == [op |-> op, pc |-> pc, key |-> key, value |-> v]
<1>1. /\ calls' = calls (+) SetToBag({b}) /\ overlapped \subseteq overlapped'
      /\ UNCHANGED <<table, rows, pins, business, callbacks, queue, stale, heard>>
  BY DEF Call, posts
<1>2. b.pc # "tell"
  OBVIOUS
<1> HIDE DEF b, Call
<1>3. BagToSet(calls') = BagToSet(calls) \cup {b}
  <2>1. IsABag(calls)
    BY DEF RowsInv, CallsOK
  <2> QED
    BY <1>1, <2>1, BagAdd
<1>4. TellsStored'
  BY <1>1, <1>2, <1>3 DEF HeardInv, TellsStored, Row
<1>5. \A k : Telling(k)' <=> Telling(k)
  BY <1>2, <1>3 DEF Telling
<1>6. \A s \in Services : Row(s)' = Row(s) /\ pins'[s] \in {pins[s], None}
  BY <1>1 DEF Row
<1>7. HeardType'
  BY <1>1, TypeLeft DEF HeardInv
<1> QED
  BY <1>1, <1>4, <1>5, <1>6, <1>7, NothingTold

\* Nor does a call that looks its row up, or cannot write.
LEMMA GoesOnHeard ==
    ASSUME RowsInv, HeardInv, NEW c \in BagToSet(calls), c.pc # "tell",
           Ends(c) \/ (Goes(c, "write") /\ c.op # "event"),
           UNCHANGED <<table, rows, pins, business, callbacks, queue, stale, heard, overlapped>>
    PROVE  HeardInv'
PROOF
<1> DEFINE b == [c EXCEPT !.pc = "write"]
<1>1. b.pc = "write"
  BY DEF RowsInv, CallsOK, Calls
<1> HIDE DEF b
<1>2. \A d \in BagToSet(calls') : d \in BagToSet(calls) \/ d = b
  <2>1. Ends(c) \/ (Goes(c, "write") /\ "write" \in IF c.op = "event" THEN {"tell"}
                                              ELSE IF c.op = "delete" THEN {"write"} ELSE {"write", "tell"})
    OBVIOUS
  <2> QED
    BY <2>1, CallGoesOn DEF RowsInv, b
<1>3. \A d \in BagToSet(calls) \ {c} : d \in BagToSet(calls')
  BY OthersGoOn DEF RowsInv
<1>4. TellsStored'
  BY <1>1, <1>2 DEF HeardInv, TellsStored, Row
<1>5. \A k : Telling(k)' <=> Telling(k)
  BY <1>1, <1>2, <1>3 DEF Telling
<1>6. \A s \in Services : Row(s)' = Row(s) /\ pins'[s] \in {pins[s], None}
  BY DEF Row
<1>7. HeardType'
  BY TypeLeft DEF HeardInv
<1> QED
  BY <1>4, <1>5, <1>6, <1>7, NothingTold

\* Write makes an invalid PIN known to those who tell.
LEMMA WritesHeard ==
    ASSUME RowsInv, HeardInv, NEW c \in BagToSet(calls), Write(c)
    PROVE  HeardInv'
PROOF
<1>1. /\ UNCHANGED <<table, pins, business, callbacks, queue, stale, heard, overlapped>>
      /\ c.pc = "write" /\ c.op # "event" /\ c.key \in Services /\ c.key \notin BusinessKeys
  BY LocalStoresAssumption DEF Write, RowsInv, CallsOK, posts
<1>2. CASE rows' = rows /\ Ends(c)
  BY <1>1, <1>2, GoesOnHeard
<1>3. CASE /\ c.op = "put" => Insertable(c.key)
           /\ rows' = [rows EXCEPT ![c.key] = Written(c)]
           /\ IF c.value \in InvalidInfos THEN Goes(c, "tell") ELSE Ends(c)
  <2> DEFINE b == [c EXCEPT !.pc = "tell"]
  <2>1. b.key = c.key /\ b.value = c.value /\ b.pc = "tell"
    BY DEF RowsInv, CallsOK, Calls
  <2> HIDE DEF b
  <2>2. /\ \A d \in BagToSet(calls') : d \in BagToSet(calls) \/ (d = b /\ c.value \in InvalidInfos)
        /\ c.key \notin overlapped => \A d \in BagToSet(calls') : d.key = c.key => d = b /\ c.value \in InvalidInfos
    <3>1. c.op = "delete" => c.value \notin InvalidInfos
      BY LocalStoresAssumption DEF RowsInv, CallsOK
    <3>2. Ends(c) \/ (Goes(c, "tell") /\ "tell" \in IF c.op = "event" THEN {"tell"}
                                              ELSE IF c.op = "delete" THEN {"write"} ELSE {"write", "tell"})
      BY <1>1, <1>3, <3>1
    <3>3. /\ \A d \in BagToSet(calls') : d \in BagToSet(calls) \/ (d = b /\ Goes(c, "tell"))
          /\ c.key \notin overlapped => \A d \in BagToSet(calls') : d.key = c.key => d = b /\ Goes(c, "tell")
          /\ Ends(c) => /\ BagToSet(calls') \subseteq BagToSet(calls)
                        /\ c.key \notin overlapped => \A d \in BagToSet(calls') : d.key # c.key
      BY <1>1, <3>2, CallGoesOn DEF RowsInv, b
    <3>4. CASE c.value \in InvalidInfos
      BY <3>3, <3>4
    <3>5. CASE c.value \notin InvalidInfos
      BY <1>3, <3>3, <3>5
    <3> QED
      BY <3>4, <3>5
  <2>3. \A d \in BagToSet(calls) \ {c} : d \in BagToSet(calls')
    BY <1>3, OthersGoOn DEF RowsInv
  <2>4. table = "indexed" /\ c.key \notin overlapped =>
            rows'[c.key] = IF c.value = None THEN <<>> ELSE <<c.value>>
    <3>1. c.op = "update" /\ c.key \notin overlapped => rows[c.key] # <<>>
      BY <1>1 DEF RowsInv, UpdatesMeetRows
    <3>2. /\ table = "indexed" => Len(Written(c)) <= 1
          /\ c.key \notin overlapped /\ Len(Written(c)) <= 1
                 => Written(c) = Stated(c.value)
      BY <1>1, <1>3, <3>1, RowsWritten
    <3>3. rows'[c.key] = Written(c)
      BY <1>1, <1>3 DEF RowsInv
    <3> QED
      BY <3>2, <3>3 DEF Stated
  <2>5. /\ \A s : s # c.key => Row(s)' = Row(s)
        /\ table = "indexed" /\ c.key \notin overlapped => Row(c.key)' = c.value
    <3>1. \A s : s # c.key => rows'[s] = rows[s]
      BY <1>3 DEF RowsInv
    <3> QED
      BY <2>4, <3>1 DEF Row
  <2>6. TellsStored'
    <3> SUFFICES ASSUME NEW d \in BagToSet(calls'), d.pc = "tell", d.key \notin overlapped'
                 PROVE  /\ d.key \in BusinessKeys => d.value = business'[d.key]
                        /\ d.key \in Services /\ table' = "indexed" => d.value = Row(d.key)'
      BY DEF TellsStored, Row
    <3>1. CASE d.key = c.key
      BY <1>1, <2>1, <2>2, <2>5, <3>1
    <3>2. CASE d.key # c.key
      <4>1. d \in BagToSet(calls)
        BY <2>1, <2>2, <3>2
      <4> QED
        BY <1>1, <2>5, <3>2, <4>1 DEF HeardInv, TellsStored
    <3> QED
      BY <3>1, <3>2
  <2>7. \A k : k # c.key /\ ~Telling(k)' => ~Telling(k)
    BY <2>3 DEF Telling
  <2>8. c.value \in InvalidInfos => Telling(c.key)'
    <3>1. c.value \in InvalidInfos => b \in BagToSet(calls')
      <4>1. c.value \in InvalidInfos => Goes(c, "tell")
        BY <1>3
      <4> QED
        BY <2>1, <4>1, GoesIn DEF RowsInv, b
    <3> QED
      BY <2>1, <3>1 DEF Telling
  <2>9. HeardType'
    BY <1>1, TypeLeft DEF HeardInv
  <2>10. \A s \in Services \ overlapped' :
               table' = "indexed" /\ Row(s)' \in InvalidInfos /\ ~Telling(s)'
                   => table = "indexed" /\ ~Telling(s) /\ Row(s)' = Row(s)
    BY <1>1, <2>5, <2>7, <2>8
  <2>11. \A k \in BusinessKeys \ overlapped' : ~Telling(k)' => ~Telling(k) /\ business'[k] = business[k]
    BY <1>1, <2>7
  <2> QED
    BY <1>1, <2>6, <2>9, <2>10, <2>11, NothingTold
<1> QED
  BY <1>2, <1>3 DEF Write

\* StoreEvent likewise.
LEMMA StoresHeard ==
    ASSUME RowsInv, HeardInv, NEW c \in BagToSet(calls), StoreEvent(c)
    PROVE  HeardInv'
PROOF
<1>1. /\ UNCHANGED <<table, rows, pins, callbacks, queue, stale, heard, overlapped>>
      /\ c.pc = "store" /\ c.op = "event" /\ c.key \in BusinessKeys /\ c.key \notin Services
  BY LocalStoresAssumption DEF StoreEvent, RowsInv, CallsOK, posts, answers
<1>2. CASE business' = business /\ Ends(c)
  BY <1>1, <1>2, GoesOnHeard
<1>3. CASE business' = [business EXCEPT ![c.key] = c.value] /\ Goes(c, "tell")
  <2> DEFINE b == [c EXCEPT !.pc = "tell"]
  <2>1. b.key = c.key /\ b.value = c.value /\ b.pc = "tell" /\ c.value \in Said
    BY DEF RowsInv, CallsOK, Calls, Said
  <2> HIDE DEF b
  <2>2. /\ \A d \in BagToSet(calls') : d \in BagToSet(calls) \/ d = b
        /\ c.key \notin overlapped => \A d \in BagToSet(calls') : d.key = c.key => d = b
    <3>1. Goes(c, "tell") /\ "tell" \in IF c.op = "event" THEN {"tell"}
                                              ELSE IF c.op = "delete" THEN {"write"} ELSE {"write", "tell"}
      BY <1>1, <1>3
    <3> QED
      BY <1>1, <3>1, CallGoesOn DEF RowsInv, b
  <2>3. \A d \in BagToSet(calls) \ {c} : d \in BagToSet(calls')
    BY <1>3, OthersGoOn DEF RowsInv
  <2>4. b \in BagToSet(calls')
    BY <1>3, GoesIn DEF RowsInv, b
  <2>5. business'[c.key] = c.value /\ \A k : k # c.key => business'[k] = business[k]
    BY <1>1, <1>3 DEF HeardInv, HeardType
  <2>6. \A s : Row(s)' = Row(s)
    BY <1>1 DEF Row
  <2>7. TellsStored'
    <3> SUFFICES ASSUME NEW d \in BagToSet(calls'), d.pc = "tell", d.key \notin overlapped'
                 PROVE  /\ d.key \in BusinessKeys => d.value = business'[d.key]
                        /\ d.key \in Services /\ table' = "indexed" => d.value = Row(d.key)'
      BY DEF TellsStored, Row
    <3>1. CASE d.key = c.key
      BY <1>1, <2>1, <2>2, <2>5, <3>1
    <3>2. CASE d.key # c.key
      <4>1. d \in BagToSet(calls)
        BY <2>1, <2>2, <3>2
      <4> QED
        BY <1>1, <2>5, <2>6, <3>2, <4>1 DEF HeardInv, TellsStored
    <3> QED
      BY <3>1, <3>2
  <2>8. Telling(c.key)' /\ \A k : k # c.key /\ ~Telling(k)' => ~Telling(k)
    BY <2>1, <2>3, <2>4 DEF Telling
  <2>9. HeardType'
    BY <1>1, <1>3, <2>1 DEF HeardInv, HeardType
  <2>10. \A s \in Services \ overlapped' :
               table' = "indexed" /\ Row(s)' \in InvalidInfos /\ ~Telling(s)'
                   => table = "indexed" /\ ~Telling(s) /\ Row(s)' = Row(s)
    BY <1>1, <2>6, <2>8
  <2>11. \A k \in BusinessKeys \ overlapped' : ~Telling(k)' => ~Telling(k) /\ business'[k] = business[k]
    BY <2>5, <2>8
  <2> QED
    BY <1>1, <2>7, <2>9, <2>10, <2>11, NothingTold
<1> QED
  BY <1>2, <1>3 DEF StoreEvent

\* Those a key has to be told to: the subscriber of a service, those of an event.
LEMMA ToldOf ==
    ASSUME HeardType, NEW key \in StoreKeys
    PROVE  /\ Told(key) \subseteq Listeners /\ IsFiniteSet(Told(key))
           /\ \A p \in callbacks : p[2] = key => p[1] \in Told(key)
           /\ key \in Services /\ pins[key] # None => pins[key] \in Told(key)
PROOF
<1>1. CASE key \in Services
  <2>1. Told(key) = {pins[key]} \ {None}
    BY <1>1 DEF Told
  <2>2. IsFiniteSet({pins[key]})
    BY FS_Singleton
  <2>3. IsFiniteSet(Told(key))
    BY <2>1, <2>2, FS_Subset
  <2>4. \A p \in callbacks : p[2] # key
    BY <1>1, LocalStoresAssumption DEF HeardType
  <2> QED
    BY <1>1, <2>1, <2>3, <2>4 DEF HeardType, Listeners
<1>2. CASE key \notin Services
  <2> DEFINE Q == {q \in callbacks : q[2] = key}
             f == [q \in Q |-> q[1]]
  <2>1. Told(key) = {p[1] : p \in Q}
    BY <1>2 DEF Told
  <2>2. IsFiniteSet(Q)
    <3>1. Q \in SUBSET callbacks
      OBVIOUS
    <3> QED
      BY <3>1, FS_Subset DEF HeardType
  <2>3. f \in Surjection(Q, Told(key))
    BY <2>1 DEF Surjection
  <2>4. IsFiniteSet(Told(key))
    BY <2>2, <2>3, FS_Surjection
  <2> QED
    BY <1>2, <2>1, <2>4 DEF HeardType, Listeners
<1> QED
  BY <1>1, <1>2

\* The tasks of those who are told, as they are posted.
LEMMA TasksPosted ==
    ASSUME HeardType, NEW c, c.key \in StoreKeys, c.value \in Said, NEW T, T \subseteq Tasks(c)
    PROVE  /\ SetToSeq(T) \in Seq(QueueTasks)
           /\ \A j \in DOMAIN SetToSeq(T) : SetToSeq(T)[j].value = c.value /\ SetToSeq(T)[j].key = c.key
           /\ T = Tasks(c) => \A l \in Told(c.key) : Mine(SetToSeq(T), l, c.key) # {}
PROOF
<1> DEFINE f == [l \in Told(c.key) |-> [to |-> l, key |-> c.key, value |-> c.value]]
<1>1. Told(c.key) \subseteq Listeners /\ IsFiniteSet(Told(c.key))
  BY ToldOf
<1>2. f \in Surjection(Told(c.key), Tasks(c))
  BY DEF Surjection, Tasks
<1>3. IsFiniteSet(T)
  <2>1. IsFiniteSet(Tasks(c))
    BY <1>1, <1>2, FS_Surjection
  <2> QED
    BY <2>1, FS_Subset
<1>4. \A t \in T : t \in QueueTasks /\ t.key = c.key /\ t.value = c.value
  BY <1>1 DEF Tasks, QueueTasks
<1>5. SetToSeq(T) \in Seq(T) /\ \A t \in T : \E i \in DOMAIN SetToSeq(T) : SetToSeq(T)[i] = t
  BY <1>3, SetToSeqAll
<1> DEFINE s == SetToSeq(T)
<1> HIDE DEF s, f
<1>6. \A j \in DOMAIN s : s[j] \in T
  BY <1>5 DEF s
<1>7. s \in Seq(QueueTasks)
  BY <1>4, <1>5 DEF s
<1>8. ASSUME T = Tasks(c), NEW l \in Told(c.key) PROVE Mine(s, l, c.key) # {}
  <2>1. [to |-> l, key |-> c.key, value |-> c.value] \in T
    BY <1>8 DEF Tasks
  <2> QED
    BY <2>1, <1>5 DEF Mine, s
<1> QED
  BY <1>4, <1>6, <1>7, <1>8 DEF s

\* Notify posts what it has to tell to all that are subscribed, or notes the key.
LEMMA NotifiesHeard ==
    ASSUME RowsInv, HeardInv, NEW c \in BagToSet(calls), Notify(c)
    PROVE  HeardInv'
PROOF
<1>1. /\ c.pc = "tell" /\ Ends(c)
      /\ UNCHANGED <<table, rows, pins, business, callbacks, heard, stale>>
  BY DEF Notify
<1>2. c.key \in StoreKeys /\ c.value \in Said
  BY DEF RowsInv, CallsOK, Calls, Said
<1>3. PICK T \in SUBSET Tasks(c) : /\ queue' = queue \o SetToSeq(T)
                                   /\ \/ T = Tasks(c) /\ overlapped' = overlapped
                                      \/ overlapped' = overlapped \cup {c.key}
  BY DEF Notify
<1> DEFINE s == SetToSeq(T)
<1>4. /\ s \in Seq(QueueTasks)
      /\ \A j \in DOMAIN s : s[j].value = c.value /\ s[j].key = c.key
      /\ T = Tasks(c) => \A l \in Told(c.key) : Mine(s, l, c.key) # {}
  BY <1>2, TasksPosted DEF HeardInv
<1> HIDE DEF s
<1>5. queue \in Seq(QueueTasks) /\ queue' = queue \o s /\ overlapped \subseteq overlapped'
  BY <1>3 DEF HeardInv, HeardType, s
<1>6. BagToSet(calls') \subseteq BagToSet(calls) /\ \A d \in BagToSet(calls) \ {c} : d \in BagToSet(calls')
  BY <1>1, <1>5, CallGoesOn, OthersGoOn DEF RowsInv
<1>7. \A k : k # c.key /\ ~Telling(k)' => ~Telling(k)
  BY <1>6 DEF Telling
<1>8. \A k : k # c.key => \A l : Mine(s, l, k) = {}
  BY <1>4 DEF Mine
<1>9. ASSUME NEW k, NEW l, NEW v, k # c.key, Comes(queue, heard, l, k, v)
      PROVE  Comes(queue', heard', l, k, v)
  BY <1>1, <1>4, <1>5, <1>8, <1>9, ComesPosted
<1>10. ASSUME NEW l \in Told(c.key), c.key \notin overlapped'
       PROVE  Comes(queue', heard', l, c.key, c.value)
  <2>1. T = Tasks(c) /\ Mine(s, l, c.key) # {}
    BY <1>3, <1>4, <1>10
  <2> QED
    BY <1>4, <1>5, <2>1, ComesPosted
<1>11. c.key \notin overlapped' =>
          /\ c.key \in BusinessKeys => c.value = business[c.key]
          /\ c.key \in Services /\ table = "indexed" => c.value = Row(c.key)
  BY <1>1, <1>5 DEF HeardInv, TellsStored
<1>12. /\ \A p \in callbacks : p[2] = c.key => p[1] \in Told(c.key)
       /\ c.key \in Services /\ pins[c.key] # None => pins[c.key] \in Told(c.key)
  BY <1>2, ToldOf DEF HeardInv
<1>13. \A k : Row(k)' = Row(k)
  BY <1>1 DEF Row
<1>14. HeardType'
  BY <1>1, <1>4, <1>5 DEF HeardInv, HeardType
<1>15. TellsStored'
  BY <1>1, <1>5, <1>6, <1>13 DEF HeardInv, TellsStored
<1>16. EventsHeard'
  <2> SUFFICES ASSUME NEW p \in callbacks \ stale, p[2] \notin overlapped', ~Telling(p[2])'
               PROVE  Comes(queue', heard', p[1], p[2], business[p[2]])
    BY <1>1 DEF EventsHeard, Telling
  <2>1. CASE p[2] = c.key
    <3>1. p[2] \in BusinessKeys
      BY DEF HeardInv, HeardType
    <3> QED
      BY <1>10, <1>11, <1>12, <2>1, <3>1
  <2>2. CASE p[2] # c.key
    <3>1. ~Telling(p[2]) /\ p[2] \notin overlapped
      BY <1>5, <1>7, <2>2
    <3>2. Comes(queue, heard, p[1], p[2], business[p[2]])
      BY <3>1 DEF HeardInv, EventsHeard
    <3> QED
      BY <1>9, <2>2, <3>2
  <2> QED
    BY <2>1, <2>2
<1>17. PinsHeard'
  <2> SUFFICES ASSUME NEW t \in Services \ overlapped', table = "indexed", pins[t] # None,
                      <<pins[t], t>> \notin stale, Row(t) \in InvalidInfos, ~Telling(t)'
               PROVE  Comes(queue', heard', pins[t], t, Row(t))
    BY <1>1, <1>13 DEF PinsHeard, Telling
  <2>1. CASE t = c.key
    BY <1>10, <1>11, <1>12, <2>1
  <2>2. CASE t # c.key
    <3>1. ~Telling(t) /\ t \notin overlapped
      BY <1>5, <1>7, <2>2
    <3>2. Comes(queue, heard, pins[t], t, Row(t))
      BY <3>1 DEF HeardInv, PinsHeard
    <3> QED
      BY <1>9, <2>2, <3>2
  <2> QED
    BY <2>1, <2>2
<1> QED
  BY <1>14, <1>15, <1>16, <1>17 DEF HeardInv

\* The event handler tells what has been posted.
LEMMA DeliversHeard ==
    ASSUME HeardInv, Deliver
    PROVE  HeardInv'
PROOF
<1> DEFINE t == Head(queue)
<1>1. /\ queue # <<>> /\ queue' = Tail(queue)
      /\ heard' = IF t.to = None THEN heard ELSE [heard EXCEPT ![t.to][t.key] = t.value]
      /\ UNCHANGED <<table, rows, pins, business, callbacks, calls, stale, overlapped>>
  BY DEF Deliver, answers
<1>2. queue \in Seq(QueueTasks) /\ t \in QueueTasks /\ Tail(queue) \in Seq(QueueTasks)
  BY <1>1 DEF HeardInv, HeardType
<1>3. None \notin Listeners
  BY LocalStoresAssumption DEF Listeners
<1>4. \A l \in Listeners, k \in StoreKeys :
          heard'[l][k] = IF Head(queue).to = l /\ Head(queue).key = k THEN Head(queue).value ELSE heard[l][k]
  BY <1>1, <1>2, <1>3 DEF HeardInv, HeardType, QueueTasks
<1>5. heard' \in [Listeners -> [StoreKeys -> Said]]
  BY <1>1, <1>2 DEF HeardInv, HeardType, QueueTasks
<1> HIDE DEF t
<1>6. ASSUME NEW l \in Listeners, NEW k \in StoreKeys, NEW v, Comes(queue, heard, l, k, v)
      PROVE  Comes(queue', heard', l, k, v)
  BY <1>1, <1>2, <1>4, <1>6, ComesTail
<1>7. HeardType'
  BY <1>1, <1>2, <1>5 DEF HeardInv, HeardType
<1>8. (\A k : Telling(k)' <=> Telling(k)) /\ \A k : Row(k)' = Row(k)
  BY <1>1 DEF Telling, Row
<1>9. TellsStored'
  BY <1>1, <1>8 DEF HeardInv, TellsStored
<1>10. EventsHeard'
  <2> SUFFICES ASSUME NEW p \in callbacks \ stale, p[2] \notin overlapped, ~Telling(p[2])
               PROVE  Comes(queue', heard', p[1], p[2], business[p[2]])
    BY <1>1 DEF EventsHeard, Telling
  <2>1. Comes(queue, heard, p[1], p[2], business[p[2]])
    BY DEF HeardInv, EventsHeard
  <2>2. p[1] \in Listeners /\ p[2] \in StoreKeys
    BY DEF HeardInv, HeardType, Listeners, StoreKeys
  <2> QED
    BY <2>1, <2>2, <1>6
<1>11. PinsHeard'
  <2> SUFFICES ASSUME NEW s \in Services \ overlapped, table = "indexed", pins[s] # None,
                      <<pins[s], s>> \notin stale, Row(s) \in InvalidInfos, ~Telling(s)
               PROVE  Comes(queue', heard', pins[s], s, Row(s))
    BY <1>1, <1>8 DEF PinsHeard, Telling
  <2>1. Comes(queue, heard, pins[s], s, Row(s))
    BY DEF HeardInv, PinsHeard
  <2>2. pins[s] \in Listeners /\ s \in StoreKeys
    BY DEF HeardInv, HeardType, Listeners, StoreKeys
  <2> QED
    BY <2>1, <2>2, <1>6
<1> QED
  BY <1>7, <1>9, <1>10, <1>11 DEF HeardInv

\* Who subscribes has read what is stored, and if he may hear of older values he is noted.
LEMMA SubscribesComes ==
    ASSUME HeardType, NEW m \in Listeners, NEW key \in StoreKeys, NEW value \in Said,
           Subscribes(m, key, value)
    PROVE  /\ queue' \in Seq(QueueTasks) /\ heard' \in [Listeners -> [StoreKeys -> Said]]
           /\ <<m, key>> \notin stale' => Comes(queue', heard', m, key, value)
           /\ \A l, k : <<l, k>> # <<m, key>> /\ <<l, k>> \notin stale' => <<l, k>> \notin stale
           /\ \A l \in Listeners, k \in StoreKeys : \A v :
                 <<l, k>> # <<m, key>> /\ Comes(queue, heard, l, k, v) => Comes(queue', heard', l, k, v)
PROOF
<1>1. heard' = [heard EXCEPT ![m][key] = value]
  BY DEF Subscribes
<1>2. heard' \in [Listeners -> [StoreKeys -> Said]] /\ heard'[m][key] = value
  BY <1>1 DEF HeardType
<1>3. \A l \in Listeners, k \in StoreKeys : <<l, k>> # <<m, key>> => heard'[l][k] = heard[l][k]
  BY <1>1 DEF HeardType
<1>4. queue \in Seq(QueueTasks)
  BY DEF HeardType
<1>5. CASE /\ queue' = Orphaned(queue, m, key)
           /\ stale' = stale \ {<<m, key>>}
  <2>1. /\ queue' \in Seq(QueueTasks) /\ Mine(queue', m, key) = {}
        /\ \A g, h, k, v : \A l \in Listeners :
              <<l, k>> # <<m, key>> /\ h[l][k] = g[l][k] /\ Comes(queue, g, l, k, v) => Comes(queue', h, l, k, v)
    BY <1>4, <1>5, ComesOrphaned
  <2>2. Comes(queue', heard', m, key, value)
    BY <1>2, <2>1 DEF Comes
  <2> QED
    BY <1>2, <1>3, <1>5, <2>1, <2>2
<1>6. CASE stale' = stale \cup {<<m, key>>} /\ queue' = queue
  BY <1>2, <1>3, <1>4, <1>6, ComesSame
<1> QED
  BY <1>5, <1>6 DEF Subscribes, For, Mine, Orphaned

\* A subscriber of a PIN.
LEMMA PinSubscribed ==
    ASSUME RowsInv, HeardInv, NEW m \in PinClients, NEW t \in Services, SubscribePinCodeInvalid(m, t)
    PROVE  HeardInv'
PROOF
<1>1. /\ pins' = [pins EXCEPT ![t] = m] /\ Subscribes(m, t, Row(t))
      /\ UNCHANGED <<table, rows, business, callbacks, calls, overlapped>>
  BY DEF SubscribePinCodeInvalid, answers
<1>2. m \in Listeners /\ t \in StoreKeys
  BY DEF Listeners, StoreKeys
<1>3. Row(t) \in Said
  BY DEF Row, RowsInv, Said
<1>4. /\ queue' \in Seq(QueueTasks) /\ heard' \in [Listeners -> [StoreKeys -> Said]]
      /\ <<m, t>> \notin stale' => Comes(queue', heard', m, t, Row(t))
      /\ \A l, k : <<l, k>> # <<m, t>> /\ <<l, k>> \notin stale' => <<l, k>> \notin stale
      /\ \A l \in Listeners, k \in StoreKeys : \A v :
            <<l, k>> # <<m, t>> /\ Comes(queue, heard, l, k, v) => Comes(queue', heard', l, k, v)
  BY <1>1, <1>2, <1>3, SubscribesComes DEF HeardInv
<1>5. HeardType'
  BY <1>1, <1>4 DEF HeardInv, HeardType
<1>6. (\A k : Telling(k)' <=> Telling(k)) /\ \A k : Row(k)' = Row(k)
  BY <1>1 DEF Telling, Row
<1>7. TellsStored'
  BY <1>1, <1>6 DEF HeardInv, TellsStored
<1>8. EventsHeard'
  <2> SUFFICES ASSUME NEW p \in callbacks \ stale', p[2] \notin overlapped, ~Telling(p[2])
               PROVE  Comes(queue', heard', p[1], p[2], business[p[2]])
    BY <1>1 DEF EventsHeard, Telling
  <2>1. /\ p[1] \in Listeners /\ p[2] \in StoreKeys /\ p[2] # t /\ p = <<p[1], p[2]>>
    BY LocalStoresAssumption DEF HeardInv, HeardType, Listeners, StoreKeys
  <2>2. p \notin stale /\ <<p[1], p[2]>> # <<m, t>>
    BY <1>4, <2>1
  <2>3. Comes(queue, heard, p[1], p[2], business[p[2]])
    BY <2>2 DEF HeardInv, EventsHeard
  <2> QED
    BY <1>4, <2>1, <2>2, <2>3
<1>9. PinsHeard'
  <2> SUFFICES ASSUME NEW s \in Services \ overlapped, table = "indexed", pins'[s] # None,
                      <<pins'[s], s>> \notin stale', Row(s) \in InvalidInfos, ~Telling(s)
               PROVE  Comes(queue', heard', pins'[s], s, Row(s))
    BY <1>1, <1>6 DEF PinsHeard, Telling
  <2>1. CASE s = t
    BY <1>1, <1>4, <2>1 DEF HeardInv, HeardType
  <2>2. CASE s # t
    <3>1. pins'[s] = pins[s] /\ pins[s] \in Listeners /\ s \in StoreKeys
      BY <1>1, <2>2 DEF HeardInv, HeardType, Listeners, StoreKeys
    <3>2. <<pins[s], s>> \notin stale /\ <<pins[s], s>> # <<m, t>>
      BY <1>4, <2>2, <3>1
    <3>3. Comes(queue, heard, pins[s], s, Row(s))
      BY <3>1, <3>2 DEF HeardInv, PinsHeard
    <3> QED
      BY <1>4, <3>1, <3>2, <3>3
  <2> QED
    BY <2>1, <2>2
<1> QED
  BY <1>5, <1>7, <1>8, <1>9 DEF HeardInv

\* A subscriber of a business event.
LEMMA EventSubscribed ==
    ASSUME RowsInv, HeardInv, NEW m \in SaIds, NEW b \in BusinessKeys, RegisterBusinessCallback(m, b)
    PROVE  HeardInv'
PROOF
<1>1. /\ callbacks' = callbacks \cup {<<m, b>>} /\ Subscribes(m, b, business[b])
      /\ UNCHANGED <<table, rows, business, pins, calls, overlapped>>
  BY DEF RegisterBusinessCallback, answers
<1>2. m \in Listeners /\ b \in StoreKeys /\ business[b] \in Said
  BY DEF Listeners, StoreKeys, HeardInv, HeardType
<1>3. /\ queue' \in Seq(QueueTasks) /\ heard' \in [Listeners -> [StoreKeys -> Said]]
      /\ <<m, b>> \notin stale' => Comes(queue', heard', m, b, business[b])
      /\ \A l, k : <<l, k>> # <<m, b>> /\ <<l, k>> \notin stale' => <<l, k>> \notin stale
      /\ \A l \in Listeners, k \in StoreKeys : \A v :
            <<l, k>> # <<m, b>> /\ Comes(queue, heard, l, k, v) => Comes(queue', heard', l, k, v)
  BY <1>1, <1>2, SubscribesComes DEF HeardInv
<1>4. HeardType'
  <2>1. IsFiniteSet(callbacks')
    BY <1>1, FS_AddElement DEF HeardInv, HeardType
  <2> QED
    BY <1>1, <1>3, <2>1 DEF HeardInv, HeardType
<1>5. (\A k : Telling(k)' <=> Telling(k)) /\ \A k : Row(k)' = Row(k)
  BY <1>1 DEF Telling, Row
<1>6. TellsStored'
  BY <1>1, <1>5 DEF HeardInv, TellsStored
<1>7. EventsHeard'
  <2> SUFFICES ASSUME NEW p \in callbacks' \ stale', p[2] \notin overlapped, ~Telling(p[2])
               PROVE  Comes(queue', heard', p[1], p[2], business[p[2]])
    BY <1>1 DEF EventsHeard, Telling
  <2>1. CASE p = <<m, b>>
    BY <1>3, <2>1
  <2>2. CASE p # <<m, b>>
    <3>1. p \in callbacks /\ p[1] \in Listeners /\ p[2] \in StoreKeys /\ p = <<p[1], p[2]>>
      BY <1>1, <2>2 DEF HeardInv, HeardType, Listeners, StoreKeys
    <3>2. p \notin stale
      BY <1>3, <2>2, <3>1
    <3>3. Comes(queue, heard, p[1], p[2], business[p[2]])
      BY <3>1, <3>2 DEF HeardInv, EventsHeard
    <3> QED
      BY <1>3, <2>2, <3>1, <3>3
  <2> QED
    BY <2>1, <2>2
<1>8. PinsHeard'
  <2> SUFFICES ASSUME NEW s \in Services \ overlapped, table = "indexed", pins[s] # None,
                      <<pins[s], s>> \notin stale', Row(s) \in InvalidInfos, ~Telling(s)
               PROVE  Comes(queue', heard', pins[s], s, Row(s))
    BY <1>1, <1>5 DEF PinsHeard, Telling
  <2>1. pins[s] \in Listeners /\ s \in StoreKeys /\ s # b
    BY LocalStoresAssumption DEF HeardInv, HeardType, Listeners, StoreKeys
  <2>2. <<pins[s], s>> \notin stale /\ <<pins[s], s>> # <<m, b>>
    BY <1>3, <2>1
  <2>3. Comes(queue, heard, pins[s], s, Row(s))
    BY <2>2 DEF HeardInv, PinsHeard
  <2> QED
    BY <1>3, <2>1, <2>2, <2>3
<1> QED
  BY <1>4, <1>6, <1>7, <1>8 DEF HeardInv

\* Subscribers that leave, the death of the KV service, and what other stores do.
LEMMA LeftHeard ==
    ASSUME HeardInv, UNCHANGED <<table, rows, business, calls, queue, heard, stale, overlapped>>,
           callbacks' \subseteq callbacks,
           pins' = pins \/ \E s \in Services : pins' = [pins EXCEPT ![s] = None]
    PROVE  HeardInv'
PROOF
<1>1. (\A k : Telling(k)' <=> Telling(k)) /\ \A k : Row(k)' = Row(k)
  BY DEF Telling, Row
<1>2. TellsStored'
  BY <1>1 DEF HeardInv, TellsStored
<1>3. pins' \in [Services -> PinClients \cup {None}] /\ \A s \in Services : pins'[s] \in {pins[s], None}
  BY DEF HeardInv, HeardType
<1>4. HeardType'
  <2>1. IsFiniteSet(callbacks')
    BY FS_Subset DEF HeardInv, HeardType
  <2> QED
    BY <1>3, <2>1 DEF HeardInv, HeardType
<1> QED
  BY <1>1, <1>2, <1>3, <1>4, NothingTold

\* When the process has died nobody is subscribed and nobody tells.
LEMMA RestartsHeard ==
    ASSUME HeardInv, Restart
    PROVE  HeardInv'
PROOF
<1>1. /\ pins' = [s \in Services |-> None] /\ callbacks' = {} /\ calls' = EmptyBag /\ queue' = <<>>
      /\ UNCHANGED <<heard, business>>
  BY DEF Restart
<1>2. HeardType'
  <2>1. IsFiniteSet({})
    BY FS_EmptySet
  <2> QED
    BY <1>1, <2>1 DEF HeardInv, HeardType
<1>3. TellsStored' /\ EventsHeard' /\ PinsHeard'
  BY <1>1, BagEmpty DEF TellsStored, EventsHeard, PinsHeard
<1> QED
  BY <1>2, <1>3 DEF HeardInv

\* Every step keeps what is heard in line with what is stored.
LEMMA HeardKept ==
    ASSUME RowsInv, HeardInv, [Next]_vars
    PROVE  HeardInv'
PROOF
<1>1. CASE \E s \in Services, v \in Infos : PutLocalServiceInfo(s, v) \/ UpdateLocalServiceInfo(s, v)
  BY <1>1, CallComesHeard DEF PutLocalServiceInfo, UpdateLocalServiceInfo
<1>2. CASE \E s \in Services : DeleteLocalServiceInfo(s)
  BY <1>2, CallComesHeard DEF DeleteLocalServiceInfo
<1>3. CASE \E k \in BusinessKeys, v \in BusinessValues : PutBusinessEvent(k, v)
  BY <1>3, CallComesHeard DEF PutBusinessEvent
<1>4. CASE \E c \in BagToSet(calls) : LookUp(c)
  <2>1. PICK c \in BagToSet(calls) : LookUp(c)
    BY <1>4
  <2>2. /\ c.pc = "look" /\ (Ends(c) \/ Goes(c, "write"))
        /\ UNCHANGED <<table, rows, pins, business, callbacks, queue, stale, heard, overlapped>>
    BY <2>1 DEF LookUp, posts
  <2>3. c.op # "event"
    BY <2>2 DEF RowsInv, CallsOK
  <2> QED
    BY <2>2, <2>3, GoesOnHeard
<1>5. CASE \E c \in BagToSet(calls) : Write(c) \/ StoreEvent(c) \/ Notify(c)
  BY <1>5, WritesHeard, StoresHeard, NotifiesHeard
<1>6. CASE \E l \in PinClients, s \in Services : SubscribePinCodeInvalid(l, s)
  BY <1>6, PinSubscribed
<1>7. CASE \E l \in SaIds, k \in BusinessKeys : RegisterBusinessCallback(l, k)
  BY <1>7, EventSubscribed
<1>8. CASE \/ \E s \in Services : UnSubscribePinCodeInvalid(s)
           \/ \E l \in SaIds, k \in BusinessKeys : UnRegisterBusinessCallback(l, k)
           \/ KvDies
  BY <1>8, LeftHeard DEF UnSubscribePinCodeInvalid, UnRegisterBusinessCallback, KvDies, posts, answers
<1>9. CASE Deliver
  BY <1>9, DeliversHeard
<1>10. CASE Restart
  BY <1>10, RestartsHeard
<1>11. CASE UNCHANGED storeVars
  BY <1>11, LeftHeard DEF storeVars
<1> QED
  BY <1>1, <1>2, <1>3, <1>4, <1>5, <1>6, <1>7, <1>8, <1>9, <1>10, <1>11 DEF Next, StoreNext, vars

\* Once the event handler is through, who follows its callbacks knows the last event of a
\* business key, and of an invalid PIN: the calls write, unlock, and only then look for whom
\* to tell, and a subscriber reads first.
THEOREM SubscribersHear == LocalStoresSpec => []HeardAsStored
PROOF
<1>1. Init => RowsInv /\ HeardInv
  <2> SUFFICES ASSUME Init PROVE RowsInv /\ HeardInv
    OBVIOUS
  <2>1. /\ queue = <<>> /\ callbacks = {} /\ calls = EmptyBag /\ pins = [s \in Services |-> None]
        /\ business = [k \in BusinessKeys |-> None]
        /\ heard = [l \in Listeners |-> [k \in StoreKeys |-> None]]
    BY DEF Init
  <2>2. RowsInv
    BY RowsStart
  <2>3. HeardType
    <3>1. IsFiniteSet({})
      BY FS_EmptySet
    <3> QED
      BY <2>1, <3>1 DEF HeardType, Said
  <2>4. TellsStored /\ EventsHeard /\ PinsHeard
    BY <2>1, BagEmpty DEF TellsStored, EventsHeard, PinsHeard
  <2> QED
    BY <2>2, <2>3, <2>4 DEF HeardInv
<1>2. RowsInv /\ HeardInv /\ [Next]_vars => (RowsInv /\ HeardInv)'
  BY RowsKept, HeardKept
<1>3. HeardInv => HeardAsStored
  <2> SUFFICES ASSUME HeardInv PROVE HeardAsStored
    OBVIOUS
  <2> DEFINE settled == StoreKeys \ (overlapped \cup Active \cup {queue[i].key : i \in DOMAIN queue})
  <2>1. \A k \in settled : ~Telling(k) /\ k \notin overlapped
    BY DEF Telling, Active
  <2>2. \A k \in settled : \A l, v : Comes(queue, heard, l, k, v) => heard[l][k] = v
    BY DEF Comes, Mine
  <2>3. \A p \in callbacks \ stale : p[2] \in settled => heard[p[1]][p[2]] = business[p[2]]
    BY <2>1, <2>2 DEF HeardInv, EventsHeard
  <2>4. \A s \in Services \cap settled :
            table = "indexed" /\ pins[s] # None /\ <<pins[s], s>> \notin stale /\ Row(s) \in InvalidInfos
                => heard[pins[s]][s] = Row(s)
    BY <2>1, <2>2 DEF HeardInv, PinsHeard
  <2> QED
    BY <2>3, <2>4 DEF HeardAsStored
<1> QED
  BY <1>1, <1>2, <1>3, PTL DEF LocalStoresSpec

(***************************************************************************)
(* Profile data: the tables of devices, products and icons.                *)
(***************************************************************************)
\* A set of numbers has a largest one.
HasMax(S) == \E m \in S : \A x \in S : x <= m

\* A finite, non-empty set of naturals has a largest element: what GoToLastRow
\* finds exists.
LEMMA FiniteMax ==
    ASSUME NEW S \in SUBSET Nat, IsFiniteSet(S), S # {}
    PROVE  HasMax(S)
PROOF
<1> DEFINE Bad == {A \in FiniteSubsetsOf(Nat) : A # {} /\ ~HasMax(A)}
<1> DEFINE R == StrictSubsetOrdering(Nat)
<1>1. SUFFICES ASSUME Bad # {} PROVE FALSE
  BY DEF FiniteSubsetsOf
<1>2. IsWellFoundedOn(R, FiniteSubsetsOf(Nat))
  BY FS_StrictSubsetOrderingWellFounded
<1>3. PICK A \in Bad : \A B \in Bad : ~ (<<B, A>> \in R)
  BY <1>1, <1>2, WFMin
<1>4. PICK x \in A : TRUE
  BY <1>3
<1>5. A \in SUBSET Nat /\ IsFiniteSet(A) /\ x \in Nat
  BY <1>3, <1>4 DEF FiniteSubsetsOf
<1> DEFINE B == A \ {x}
<1>6. B \in FiniteSubsetsOf(Nat) /\ <<B, A>> \in R
  <2>1. IsFiniteSet(B)
    BY <1>5, FS_RemoveElement
  <2>2. B \subseteq A /\ B # A
    BY <1>4
  <2> QED BY <1>5, <2>1, <2>2 DEF FiniteSubsetsOf, StrictSubsetOrdering
<1>7. CASE B = {}
  <2>1. A = {x}
    BY <1>4, <1>7
  <2> QED BY <1>3, <1>5, <2>1 DEF HasMax
<1>8. CASE HasMax(B)
  <2>1. PICK m \in B : \A y \in B : y <= m
    BY <1>8 DEF HasMax
  <2>2. HasMax(A)
    <3>1. CASE m <= x
      BY <1>4, <1>5, <2>1, <3>1 DEF HasMax
    <3>2. CASE x <= m
      BY <1>4, <1>5, <2>1, <3>2 DEF HasMax
    <3> QED BY <1>5, <2>1, <3>1, <3>2
  <2> QED BY <1>3, <2>2
<1> QED BY <1>3, <1>6, <1>7, <1>8

\* Of a key of the tables: two rows at least; at most one; what it says.
Several(k) == \E r, q \in RowsOf(k) : r # q
SaysOne(k) == /\ RowsOf(k) = {} => Unset \in may[k]
              /\ \A r \in RowsOf(k) : Says(r) \in may[k]

Sayings == [info : Fields, rest : Fields] \cup {Unset}
Promises == UNION {[K -> SUBSET Sayings] : K \in SUBSET DataKeys}
DataCalls == [op : {"put", "collect", "delete"}, pc : {"merge", "look", "write", "find", "delete"},
              items : Seq(DataItem) \cup Seq([key : DeviceKeys]), found : SUBSET DataRow,
              leaves : Promises, sure : BOOLEAN]
DataType ==
    /\ data \subseteq DataRow /\ IsFiniteSet(data)
    /\ lastIds \in [Tables -> Nat]
    /\ indexed \subseteq Tables /\ "product" \in indexed
    /\ IsABag(tasks) /\ BagToSet(tasks) \subseteq DataCalls
    /\ may \in [DataKeys -> SUBSET Sayings]

\* Ids are drawn once, and a key of a table with its index has one row.
IdsOK ==
    /\ \A r \in data : r.id # 0 /\ r.id <= lastIds[Table(r.key)]
    /\ \A r, q \in data : Table(r.key) = Table(q.key) /\ r.id = q.id => r = q
    /\ \A k \in DataKeys : Table(k) \in indexed => ~Several(k)

\* As long as its calls do not overlap a key has one row, which may be, as was answered.
KeysOK == \A k \in DataKeys \ crossed : ~Several(k) /\ SaysOne(k)

\* The rows that a call has found: an id is never of another key, and a row of a key whose
\* calls do not overlap is still there as it was found, unless it could not be read.
FoundOK(c) ==
    \A f \in c.found :
        /\ f.key \in KeysOf(c) /\ f.id <= lastIds[Table(f.key)]
        /\ \A r \in data : Same(r, {f}) => r.key = f.key
        /\ f.key \notin crossed /\ f.id # 0 => f \in data
\* A call in doubt: whatever it asks may be, and what was before.
SureOK(c) == c.sure \/ \A k \in KeysOf(c) \ crossed : c.leaves[k] \subseteq may[k]
PutOK(c) ==
    LET i == c.items[1]
    IN /\ c.items \in Seq(DataItem) /\ c.items # <<>>
       /\ \A j \in DOMAIN c.items :
              /\ c.items[j].key \in KeysOf(c)
              /\ c.op = "put" => Says(c.items[j]) \in c.leaves[c.items[j].key]
       /\ c.op = "collect" => Len(c.items) = 1
       /\ c.pc = "merge" /\ i.key \notin crossed =>
              Puts("collect", i, may[i.key] \cup {Unset}) \subseteq c.leaves[i.key]
       /\ c.op = "collect" /\ c.pc \in {"look", "write"} /\ i.key \notin crossed =>
              /\ Says(i) \in c.leaves[i.key]
              /\ c.sure => Says(i) \in Puts("collect", i, may[i.key])
       /\ c.pc # "write" => c.found = {}
       /\ \A f \in c.found : c.found = {f} /\ f.key = i.key /\ (f.id = 0 => ~c.sure)
DeleteOK(c) ==
    /\ \A k \in KeysOf(c) : Unset \in c.leaves[k]
    /\ c.pc = "find" => c.found = {}
    /\ c.pc = "delete" => c.found # {}
    /\ \A f \in c.found : f.id # 0
DataCallOK(c) ==
    /\ FoundOK(c) /\ SureOK(c)
    /\ c.op = "put" => c.pc \in {"look", "write"}
    /\ c.op = "collect" => c.pc \in {"merge", "look", "write"}
    /\ c.op = "delete" => c.pc \in {"find", "delete"} /\ DeleteOK(c)
    /\ c.op # "delete" => PutOK(c)
DataCallsOK == \A c \in BagToSet(tasks) : DataCallOK(c)

\* A key whose calls do not overlap is of one call.
OneCall ==
    \A c, d \in BagToSet(tasks) : \A k \in (KeysOf(c) \cap KeysOf(d)) \ crossed : c = d /\ tasks[c] = 1

DataInv == DataType /\ IdsOK /\ KeysOK /\ DataCallsOK /\ OneCall

\* The tables of the keys.
LEMMA TableOf ==
    \A k \in DataKeys : /\ Table(k) \in Tables
                        /\ (Table(k) = "device" <=> k \in DeviceKeys) /\ (Table(k) = "product" <=> k \in ProductKeys)
                        /\ (Table(k) = "icon" <=> k \in IconKeys)
PROOF
  BY DataAssumption DEF Table, Tables, DataKeys

\* The items that are left.
LEMMA TailItems ==
    ASSUME NEW S, NEW s \in Seq(S), s # <<>>
    PROVE  /\ Tail(s) \in Seq(S) /\ (Len(s) = 1 => Tail(s) = <<>>)
           /\ \A i \in DOMAIN Tail(s) : \E j \in DOMAIN s : Tail(s)[i] = s[j]
           /\ 1 \in DOMAIN s /\ s[1] \in S
PROOF
<1>1. Tail(s) \in Seq(S) /\ Len(s) \in Nat \ {0} /\ Len(Tail(s)) = Len(s) - 1
  OBVIOUS
<1>2. \A i \in 1 .. Len(Tail(s)) : Tail(s)[i] = s[i + 1] /\ i + 1 \in DOMAIN s
  BY <1>1
<1>3. DOMAIN Tail(s) = 1 .. Len(Tail(s)) /\ DOMAIN s = 1 .. Len(s)
  BY <1>1
<1>4. \A i \in DOMAIN Tail(s) : \E j \in DOMAIN s : Tail(s)[i] = s[j]
  BY <1>2, <1>3
<1> QED
  BY <1>1, <1>3, <1>4

\* The keys of a call are keys of the tables.
LEMMA CallKeys == \A c \in DataCalls : KeysOf(c) \subseteq DataKeys /\ c.leaves \in [KeysOf(c) -> SUBSET Sayings]
PROOF
<1> SUFFICES ASSUME NEW c \in DataCalls PROVE KeysOf(c) \subseteq DataKeys /\ c.leaves \in [KeysOf(c) -> SUBSET Sayings]
  OBVIOUS
<1>1. c.leaves \in Promises
  BY DEF DataCalls
<1>2. PICK K \in SUBSET DataKeys : c.leaves \in [K -> SUBSET Sayings]
  BY <1>1 DEF Promises
<1> QED
  BY <1>2 DEF KeysOf

\* A call ends or goes on: nothing becomes shared.
LEMMA DataCallGoesOn ==
    ASSUME DataType, OneCall, crossed \subseteq crossed', NEW c \in BagToSet(tasks), NEW D,
           \/ D = {} /\ TaskEnds(c)
           \/ \E d : D = {d} /\ KeysOf(d) \subseteq KeysOf(c) /\ TaskGoes(c, d)
    PROVE  /\ IsABag(tasks') /\ OneCall'
           /\ \A e \in BagToSet(tasks') \ D : e \in BagToSet(tasks) /\ KeysOf(e) \cap KeysOf(c) \subseteq crossed
           /\ D \subseteq BagToSet(tasks') /\ Busy' \subseteq Busy
PROOF
<1> DEFINE B == tasks (-) SetToBag({c})
<1>1. /\ IsABag(tasks) /\ IsABag(B) /\ BagToSet(B) \subseteq BagToSet(tasks)
      /\ \A e \in BagToSet(B) \ {c} : B[e] = tasks[e]
      /\ tasks[c] = 1 => c \notin BagToSet(B)
  BY BagSub DEF DataType
<1> HIDE DEF B
<1>2. \A e \in BagToSet(B) : KeysOf(e) \cap KeysOf(c) \subseteq crossed
  BY <1>1 DEF OneCall
<1>3. \A e, f \in BagToSet(B) : \A k \in (KeysOf(e) \cap KeysOf(f)) \ crossed : e = f /\ B[e] = 1
  BY <1>1 DEF OneCall
<1>4. CASE D = {} /\ TaskEnds(c)
  <2>1. tasks' = B
    BY <1>4 DEF TaskEnds, B
  <2>2. Busy' \subseteq Busy
    BY <1>1, <2>1 DEF Busy
  <2> QED
    BY <1>1, <1>2, <1>3, <1>4, <2>1, <2>2 DEF OneCall
<1>5. CASE \E d : D = {d} /\ KeysOf(d) \subseteq KeysOf(c) /\ TaskGoes(c, d)
  <2>1. PICK d : D = {d} /\ KeysOf(d) \subseteq KeysOf(c) /\ tasks' = B (+) SetToBag({d})
    BY <1>5 DEF TaskGoes, B
  <2>2. /\ IsABag(tasks') /\ BagToSet(tasks') = BagToSet(B) \cup {d}
        /\ \A e \in BagToSet(B) \ {d} : tasks'[e] = B[e]
        /\ d \notin BagToSet(B) => tasks'[d] = 1
    <3> DEFINE C == B (+) SetToBag({d})
    <3>1. /\ IsABag(C) /\ BagToSet(C) = BagToSet(B) \cup {d}
          /\ \A e \in BagToSet(B) \ {d} : C[e] = B[e]
          /\ d \notin BagToSet(B) => C[d] = 1
      BY <1>1, BagAdd
    <3> QED
      BY <2>1, <3>1
  <2>3. ASSUME NEW e \in BagToSet(tasks'), NEW f \in BagToSet(tasks'), NEW k \in (KeysOf(e) \cap KeysOf(f)) \ crossed
        PROVE  e = f /\ tasks'[e] = 1
    <3>1. CASE e \in BagToSet(B) \ {d} /\ f \in BagToSet(B) \ {d}
      BY <1>3, <2>2, <2>3, <3>1
    <3>2. CASE e = d /\ f = d
      BY <1>2, <2>1, <2>2, <2>3, <3>2
    <3>3. CASE e = d /\ f # d
      BY <1>2, <2>1, <2>2, <2>3, <3>3
    <3>4. CASE e # d /\ f = d
      BY <1>2, <2>1, <2>2, <2>3, <3>4
    <3> QED
      BY <2>2, <3>1, <3>2, <3>3, <3>4
  <2>4. OneCall'
    BY <2>3 DEF OneCall
  <2>5. Busy' \subseteq Busy
    BY <1>1, <2>1, <2>2 DEF Busy
  <2> QED
    BY <1>1, <1>2, <2>1, <2>2, <2>4, <2>5
<1> QED
  BY <1>4, <1>5

\* The rows after a step: those of before, by id and key, or of a new id.
RowsLast == \A r \in data' : \/ \E q \in data : Same(r, {q}) /\ q.key = r.key
                             \/ r.id > lastIds[Table(r.key)]
IdsGrow == lastIds' \in [Tables -> Nat] /\ \A t \in Tables : lastIds[t] <= lastIds'[t]
KeyAlike(k) == RowsOf(k)' = RowsOf(k) /\ may'[k] = may[k]

\* A call that does not share a key with what a step changes is as before.
LEMMA CallStays ==
    ASSUME DataType, crossed \subseteq crossed', NEW e \in DataCalls, DataCallOK(e),
           data' \subseteq DataRow, RowsLast, IdsGrow, \A k \in KeysOf(e) \ crossed' : KeyAlike(k)
    PROVE  DataCallOK(e)'
PROOF
<1>1. e.found \subseteq DataRow /\ e.items \in Seq(DataItem) \cup Seq([key : DeviceKeys])
  BY DEF DataCalls
<1>2. FoundOK(e)'
  <2> SUFFICES ASSUME NEW f \in e.found
               PROVE  /\ f.key \in KeysOf(e) /\ f.id <= lastIds'[Table(f.key)]
                      /\ \A r \in data' : Same(r, {f}) => r.key = f.key
                      /\ f.key \notin crossed' /\ f.id # 0 => f \in data'
    BY DEF FoundOK, KeysOf, Same
  <2>1. /\ f \in DataRow /\ f.key \in DataKeys /\ Table(f.key) \in Tables /\ f.key \in KeysOf(e)
        /\ f.id \in Nat /\ f.id <= lastIds[Table(f.key)] /\ (f.key \notin crossed /\ f.id # 0 => f \in data)
        /\ \A r \in data : Same(r, {f}) => r.key = f.key
    BY <1>1, TableOf DEF DataCallOK, FoundOK, DataRow
  <2>2. f.id <= lastIds'[Table(f.key)]
    BY <2>1 DEF IdsGrow, DataType
  <2>3. ASSUME NEW r \in data', Same(r, {f}) PROVE r.key = f.key
    <3>1. Table(r.key) = Table(f.key) /\ r.id = f.id
      BY <2>3 DEF Same
    <3>2. CASE \E q \in data : Same(r, {q}) /\ q.key = r.key
      BY <2>1, <3>1, <3>2 DEF Same
    <3>3. CASE r.id > lastIds[Table(r.key)]
      BY <2>1, <3>1, <3>3 DEF DataType
    <3> QED
      BY <3>2, <3>3 DEF RowsLast
  <2>4. f.key \notin crossed' /\ f.id # 0 => f \in data'
    <3> SUFFICES ASSUME f.key \notin crossed', f.id # 0 PROVE f \in data'
      OBVIOUS
    <3>1. f \in RowsOf(f.key)
      BY <2>1 DEF RowsOf
    <3>2. RowsOf(f.key)' = RowsOf(f.key)
      BY <2>1 DEF KeyAlike
    <3> QED
      BY <3>1, <3>2 DEF RowsOf
  <2> QED
    BY <2>1, <2>2, <2>3, <2>4
<1>3. DeleteOK(e)' <=> DeleteOK(e)
  BY DEF DeleteOK, KeysOf
<1>4. SureOK(e)'
  BY DEF SureOK, KeyAlike, KeysOf, DataCallOK
<1>5. ASSUME e.op # "delete" PROVE PutOK(e)'
  <2> DEFINE k == e.items[1].key
  <2>1. PutOK(e) /\ e.items \in Seq(DataItem) /\ e.items # <<>>
    BY <1>5 DEF DataCallOK, PutOK
  <2>2. k \in KeysOf(e)
    BY <2>1, TailItems DEF PutOK
  <2>3. k \notin crossed' => k \notin crossed /\ may'[k] = may[k]
    BY <2>2 DEF KeyAlike
  <2> QED
    BY <2>1, <2>3 DEF PutOK, KeysOf, Puts, Says
<1> QED
  BY <1>2, <1>3, <1>4, <1>5 DEF DataCallOK

\* A call ends, or goes on as a call should.
Proceeds(c) == \/ TaskEnds(c)
               \/ \E d \in DataCalls : KeysOf(d) \subseteq KeysOf(c) /\ TaskGoes(c, d) /\ DataCallOK(d)'

\* A call in doubt leaves all that it asks possible.
InDoubt(c) == \A k \in KeysOf(c) \ crossed' : c.leaves[k] \subseteq may'[k]

\* An item is through: the call ends, or looks for the next.
LEMMA ItemGoes ==
    ASSUME NEW c \in DataCalls, DataCallOK(c), c.op # "delete", NEW ok \in BOOLEAN, ItemEnds(c, ok),
           (ok /\ c.sure) \/ InDoubt(c)
    PROVE  Proceeds(c)
PROOF
<1>1. /\ c.items \in Seq(DataItem) /\ c.items # <<>> /\ c.op \in {"put", "collect"} /\ PutOK(c)
      /\ c.op = "collect" => Len(c.items) = 1
  BY DEF DataCallOK, PutOK, DataCalls
<1> DEFINE d == [c EXCEPT !.items = Tail(c.items), !.pc = "look", !.found = {}, !.sure = ok /\ c.sure]
<1>2. CASE TaskEnds(c)
  BY <1>2 DEF Proceeds
<1>3. CASE Tail(c.items) # <<>> /\ TaskGoes(c, d)
  <2>1. /\ d \in DataCalls /\ d.items = Tail(c.items) /\ d.pc = "look" /\ d.found = {} /\ d.op = "put"
        /\ d.items \in Seq(DataItem) /\ d.leaves = c.leaves /\ d.sure = (ok /\ c.sure) /\ c.op = "put"
    BY <1>1, <1>3, TailItems DEF DataCalls
  <2>2. \A i \in DOMAIN d.items : \E j \in DOMAIN c.items : d.items[i] = c.items[j]
    BY <1>1, <2>1, TailItems
  <2> HIDE DEF d
  <2>3. KeysOf(d) = KeysOf(c)
    BY <2>1 DEF KeysOf
  <2>4. \A j \in DOMAIN d.items : d.items[j].key \in KeysOf(d) /\ Says(d.items[j]) \in d.leaves[d.items[j].key]
    BY <1>1, <2>1, <2>2, <2>3 DEF PutOK
  <2>5. PutOK(d)'
    BY <1>3, <2>1, <2>4 DEF PutOK, KeysOf, Says
  <2>6. SureOK(d)'
    BY <2>1, <2>3 DEF SureOK, InDoubt, KeysOf
  <2>7. DataCallOK(d)'
    BY <2>1, <2>5, <2>6 DEF DataCallOK, FoundOK
  <2> QED
    BY <1>3, <2>1, <2>3, <2>7 DEF Proceeds
<1> QED
  BY <1>2, <1>3 DEF ItemEnds

\* The other calls.
LEMMA OthersStay ==
    ASSUME DataType, OneCall, crossed \subseteq crossed', NEW c \in BagToSet(tasks), Proceeds(c)
    PROVE  /\ IsABag(tasks') /\ OneCall'
           /\ \A e \in BagToSet(tasks') : \/ e \in DataCalls /\ DataCallOK(e)'
                                          \/ e \in BagToSet(tasks) /\ KeysOf(e) \cap KeysOf(c) \subseteq crossed
PROOF
<1>1. CASE TaskEnds(c)
  <2> DEFINE D == {}
  <2>1. D = {} /\ TaskEnds(c)
    BY <1>1
  <2> HIDE DEF D
  <2>2. /\ IsABag(tasks') /\ OneCall'
        /\ \A e \in BagToSet(tasks') \ D : e \in BagToSet(tasks) /\ KeysOf(e) \cap KeysOf(c) \subseteq crossed
    BY <2>1, DataCallGoesOn
  <2> QED
    BY <2>1, <2>2
<1>2. CASE \E d \in DataCalls : KeysOf(d) \subseteq KeysOf(c) /\ TaskGoes(c, d) /\ DataCallOK(d)'
  <2>1. PICK d \in DataCalls : KeysOf(d) \subseteq KeysOf(c) /\ TaskGoes(c, d) /\ DataCallOK(d)'
    BY <1>2
  <2> DEFINE D == {d}
  <2>2. D = {d}
    OBVIOUS
  <2> HIDE DEF D
  <2>3. /\ IsABag(tasks') /\ OneCall'
        /\ \A e \in BagToSet(tasks') \ D : e \in BagToSet(tasks) /\ KeysOf(e) \cap KeysOf(c) \subseteq crossed
    BY <2>1, <2>2, DataCallGoesOn
  <2> QED
    BY <2>1, <2>2, <2>3
<1> QED
  BY <1>1, <1>2 DEF Proceeds

\* A call changes keys of its own: the other calls are as before.
LEMMA DataSteps ==
    ASSUME DataInv, crossed \subseteq crossed', indexed' = indexed, NEW c \in BagToSet(tasks), Proceeds(c),
           data' \subseteq DataRow, IsFiniteSet(data'), RowsLast, IdsGrow, may' \in [DataKeys -> SUBSET Sayings],
           \A k \in DataKeys \ KeysOf(c) : KeyAlike(k), IdsOK', KeysOK'
    PROVE  DataInv'
PROOF
<1>1. ASSUME NEW e \in BagToSet(tasks') PROVE e \in DataCalls /\ DataCallOK(e)'
  <2>1. CASE e \in BagToSet(tasks) /\ KeysOf(e) \cap KeysOf(c) \subseteq crossed
    <3>1. e \in DataCalls /\ DataCallOK(e)
      BY <2>1 DEF DataInv, DataType, DataCallsOK
    <3>2. KeysOf(e) \subseteq DataKeys
      BY <3>1, CallKeys
    <3>3. \A k \in KeysOf(e) \ crossed' : KeyAlike(k)
      BY <2>1, <3>2
    <3> QED
      BY <3>1, <3>3, CallStays DEF DataInv
  <2> QED
    BY <2>1, OthersStay DEF DataInv
<1>2. IsABag(tasks') /\ OneCall'
  BY OthersStay DEF DataInv
<1> QED
  BY <1>1, <1>2 DEF DataInv, DataType, DataCallsOK, IdsGrow

\* What becomes possible when an item is through, or when the call is in doubt.
LEMMA MayBecome ==
    ASSUME DataType, NEW c \in DataCalls, SureOK(c), NEW k \in KeysOf(c), NEW those \in SUBSET Sayings,
           NEW v, k \notin crossed => v \in c.leaves[k] /\ (c.sure => v \in those), crossed \subseteq crossed',
           Through(c, k, those) \/ Doubt(c)
    PROVE  /\ may' \in [DataKeys -> SUBSET Sayings]
           /\ \A j \in DataKeys \ KeysOf(c) : may'[j] = may[j]
           /\ \A j \in DataKeys \ {k} : may[j] \subseteq may'[j]
           /\ k \notin crossed => v \in may'[k]
           /\ ~c.sure \/ Doubt(c) => InDoubt(c) /\ \A j \in DataKeys : may[j] \subseteq may'[j]
PROOF
<1>1. k \in DataKeys /\ KeysOf(c) \subseteq DataKeys /\ c.leaves \in [KeysOf(c) -> SUBSET Sayings]
  BY CallKeys
<1>2. may \in [DataKeys -> SUBSET Sayings]
  BY DEF DataType
<1>3. CASE Doubt(c)
  <2>1. may' = [j \in DataKeys |-> IF j \in KeysOf(c) THEN may[j] \cup c.leaves[j] ELSE may[j]]
    BY <1>3 DEF Doubt
  <2>2. \A j \in KeysOf(c) : c.leaves[j] \in SUBSET Sayings
    BY <1>1
  <2> QED
    BY <1>1, <1>2, <2>1, <2>2 DEF InDoubt
<1>4. CASE Through(c, k, those) /\ c.sure /\ ~Doubt(c)
  BY <1>1, <1>2, <1>4 DEF Through
<1>5. CASE Through(c, k, those) /\ ~c.sure
  BY <1>1, <1>2, <1>5 DEF Through, SureOK, InDoubt
<1> QED
  BY <1>3, <1>4, <1>5

\* The tables stay, and what is possible at most grows: the call ends or goes on.
Reads == UNCHANGED <<data, lastIds, indexed, crossed>>
LEMMA ReadsKeep ==
    ASSUME DataInv, Reads, NEW c \in BagToSet(tasks), Proceeds(c), UNCHANGED may \/ Doubt(c)
    PROVE  DataInv'
PROOF
<1>1. /\ may' \in [DataKeys -> SUBSET Sayings] /\ \A j \in DataKeys \ KeysOf(c) : may'[j] = may[j]
      /\ \A j \in DataKeys : may[j] \subseteq may'[j]
  <2>1. c \in DataCalls /\ may \in [DataKeys -> SUBSET Sayings]
    BY DEF DataInv, DataType
  <2>2. KeysOf(c) \subseteq DataKeys /\ c.leaves \in [KeysOf(c) -> SUBSET Sayings]
    BY <2>1, CallKeys
  <2>3. \A j \in KeysOf(c) : c.leaves[j] \in SUBSET Sayings
    BY <2>2
  <2>4. CASE Doubt(c)
    BY <2>1, <2>3, <2>4 DEF Doubt
  <2> QED
    BY <2>1, <2>4
<1>2. \A j : RowsOf(j)' = RowsOf(j) /\ (Several(j)' <=> Several(j))
  BY DEF RowsOf, Several, Reads
<1>3. \A j \in DataKeys : SaysOne(j) => SaysOne(j)'
  BY <1>1, <1>2 DEF SaysOne, Says
<1>4. RowsLast /\ IdsGrow
  BY DEF RowsLast, Same, IdsGrow, DataInv, DataType, Reads
<1>5. IdsOK' /\ KeysOK'
  BY <1>2, <1>3 DEF DataInv, IdsOK, KeysOK, Reads
<1>6. \A k \in DataKeys \ KeysOf(c) : KeyAlike(k)
  BY <1>1, <1>2 DEF KeyAlike
<1>7. data' \subseteq DataRow /\ IsFiniteSet(data') /\ crossed \subseteq crossed' /\ indexed' = indexed
  BY DEF DataInv, DataType, Reads
<1> QED
  BY <1>1, <1>4, <1>5, <1>6, <1>7, DataSteps

\* What a put says is what it writes.
LEMMA PutSays ==
    ASSUME DataType, NEW c \in DataCalls, PutOK(c), c.op # "delete", c.pc = "write"
    PROVE  LET i == c.items[1]
           IN  /\ i \in DataItem /\ i.key \in KeysOf(c) /\ i.key \in DataKeys
               /\ Puts(c.op, i, may[i.key]) \subseteq [info : Fields, rest : Fields]
               /\ i.key \notin crossed => /\ Says(i) \in c.leaves[i.key]
                                          /\ c.sure => Says(i) \in Puts(c.op, i, may[i.key])
PROOF
<1> DEFINE i == c.items[1]
<1>1. c.items \in Seq(DataItem) /\ c.items # <<>> /\ c.op \in {"put", "collect"}
  BY DEF PutOK, DataCalls
<1>2. i \in DataItem /\ 1 \in DOMAIN c.items
  BY <1>1, TailItems
<1>3. i.key \in KeysOf(c)
  BY <1>2 DEF PutOK
<1>4. i.key \in DataKeys /\ i.info \in Fields /\ i.rest \in Fields /\ Unset \in Fields
  BY <1>2, DataAssumption DEF DataItem
<1>5. may[i.key] \subseteq [info : Fields, rest : Fields] \cup {Unset}
  BY <1>4 DEF DataType, Sayings
<1>6. CASE c.op = "put"
  <2>1. Puts(c.op, i, may[i.key]) = {Says(i)} /\ Says(i) \in [info : Fields, rest : Fields]
    BY <1>4, <1>6 DEF Puts, Says
  <2> QED
    BY <1>2, <1>3, <1>4, <1>6, <2>1 DEF PutOK
<1>7. CASE c.op = "collect"
  <2>1. Puts(c.op, i, may[i.key]) = {[info |-> i.info, rest |-> IF r = Unset THEN Unset ELSE r.rest] : r \in may[i.key]}
    BY <1>7 DEF Puts
  <2>2. \A r \in may[i.key] : (IF r = Unset THEN Unset ELSE r.rest) \in Fields
    BY <1>4, <1>5
  <2>3. Puts(c.op, i, may[i.key]) \subseteq [info : Fields, rest : Fields]
    BY <1>4, <2>1, <2>2
  <2> QED
    BY <1>2, <1>3, <1>4, <1>7, <2>3 DEF PutOK
<1> QED
  BY <1>1, <1>6, <1>7

\* Only one key changes.
LEMMA KeysAlike ==
    ASSUME indexed' = indexed, crossed \subseteq crossed', NEW k \in DataKeys, IdsOK, KeysOK,
           \A j \in DataKeys \ {k} : RowsOf(j)' = RowsOf(j) /\ may[j] \subseteq may'[j],
           /\ \A r \in data' : r.id # 0 /\ r.id <= lastIds'[Table(r.key)]
           /\ \A r, q \in data' : Table(r.key) = Table(q.key) /\ r.id = q.id => r = q,
           Table(k) \in indexed => ~Several(k)',
           k \notin crossed' => ~Several(k)' /\ SaysOne(k)'
    PROVE  IdsOK' /\ KeysOK'
PROOF
<1>1. \A j \in DataKeys \ {k} : (Several(j)' <=> Several(j)) /\ (SaysOne(j) => SaysOne(j)')
  BY DEF Several, SaysOne, Says
<1> QED
  BY <1>1 DEF IdsOK, KeysOK

\* A row that was not found is inserted; next to one that was not read it makes two.
LEMMA RowInserted ==
    ASSUME DataType, IdsOK, KeysOK, NEW c \in DataCalls, PutOK(c), c.op # "delete", c.pc = "write",
           ~Refused(c), c.found = {}, Insert(c), indexed' = indexed,
           \A j \in DataKeys \ {c.items[1].key} : may[j] \subseteq may'[j],
           c.items[1].key \notin crossed => Says(c.items[1]) \in may'[c.items[1].key]
    PROVE  /\ data' \subseteq DataRow /\ IsFiniteSet(data') /\ RowsLast /\ IdsGrow
           /\ \A j \in DataKeys \ {c.items[1].key} : RowsOf(j)' = RowsOf(j)
           /\ IdsOK' /\ KeysOK' /\ crossed \subseteq crossed'
PROOF
<1> DEFINE i == c.items[1]
           k == i.key
           t == Table(k)
           x == [id |-> lastIds[t] + 1, key |-> k, info |-> i.info, rest |-> i.rest]
<1>1. i \in DataItem /\ k \in DataKeys
  BY PutSays
<1>2. t \in Tables /\ lastIds[t] \in Nat
  BY <1>1, TableOf DEF DataType
<1>3. /\ data' = data \cup {x} /\ lastIds' = [lastIds EXCEPT ![t] = lastIds[t] + 1]
      /\ crossed' = IF RowsOf(k) = {} THEN crossed ELSE crossed \cup {k}
  BY DEF Insert, LastId
<1>4. t \in indexed => RowsOf(k) = {}
  BY DEF Refused
<1>5. x \in DataRow /\ x.id = lastIds[t] + 1 /\ x.id # 0 /\ x.key = k /\ Says(x) = Says(i)
  BY <1>1, <1>2 DEF DataRow, DataItem, Says
<1>6. /\ k \notin crossed => Says(i) \in may'[k]
      /\ \A j \in DataKeys \ {k} : may[j] \subseteq may'[j]
  OBVIOUS
<1> HIDE DEF x, t, k, i
<1>7. RowsOf(k)' = RowsOf(k) \cup {x} /\ \A j \in DataKeys \ {k} : RowsOf(j)' = RowsOf(j)
  BY <1>1, <1>3, <1>5 DEF RowsOf
<1>8. IdsGrow /\ lastIds'[t] = lastIds[t] + 1 /\ \A u \in Tables \ {t} : lastIds'[u] = lastIds[u]
  BY <1>2, <1>3 DEF IdsGrow, DataType
<1>9. RowsLast
  BY <1>2, <1>3, <1>5 DEF RowsLast, Same, t
<1>10. \A r \in data : /\ r.key \in DataKeys /\ r.id \in Nat /\ Table(r.key) \in Tables
                       /\ r.id # 0 /\ r.id <= lastIds[Table(r.key)]
  BY TableOf DEF DataType, DataRow, IdsOK
<1>11. \A r \in data' : r.id # 0 /\ r.id <= lastIds'[Table(r.key)]
  BY <1>2, <1>3, <1>5, <1>8, <1>10 DEF t, DataType
<1>12. \A r \in data : ~(Table(r.key) = t /\ r.id = x.id)
  BY <1>2, <1>5, <1>10
<1>13. \A r, q \in data' : Table(r.key) = Table(q.key) /\ r.id = q.id => r = q
  BY <1>3, <1>5, <1>12 DEF IdsOK, t
<1>14. RowsOf(k) = {} => ~Several(k)'
  BY <1>7 DEF Several
<1>15. ASSUME k \notin crossed' PROVE ~Several(k)' /\ SaysOne(k)'
  <2>1. RowsOf(k) = {} /\ k \notin crossed
    BY <1>3, <1>15
  <2>2. Says(x) \in may'[k]
    BY <1>5, <1>6, <2>1
  <2> QED
    BY <1>7, <1>14, <2>1, <2>2 DEF SaysOne, Says
<1>16. crossed \subseteq crossed'
  BY <1>3
<1>17. Table(k) \in indexed => ~Several(k)'
  BY <1>4, <1>14 DEF t
<1>18. IdsOK' /\ KeysOK'
  BY <1>1, <1>6, <1>7, <1>11, <1>13, <1>15, <1>16, <1>17, KeysAlike
<1>19. data' \subseteq DataRow /\ IsFiniteSet(data')
  BY <1>3, <1>5, FS_AddElement DEF DataType
<1> QED
  BY <1>7, <1>8, <1>9, <1>16, <1>18, <1>19 DEF k, i

\* A row that was found, and that another call may have changed or deleted since; or one that
\* could not be read, when no row is met.
LEMMA RowUpdated ==
    ASSUME DataType, IdsOK, KeysOK, NEW c \in DataCalls, FoundOK(c), PutOK(c), c.op # "delete", c.pc = "write",
           c.found # {}, Update(c), indexed' = indexed,
           \A j \in DataKeys \ {c.items[1].key} : may[j] \subseteq may'[j],
           c.items[1].key \notin crossed => Says(c.items[1]) \in may'[c.items[1].key],
           ~c.sure => may[c.items[1].key] \subseteq may'[c.items[1].key]
    PROVE  /\ data' \subseteq DataRow /\ IsFiniteSet(data') /\ RowsLast /\ IdsGrow
           /\ \A j \in DataKeys \ {c.items[1].key} : RowsOf(j)' = RowsOf(j)
           /\ IdsOK' /\ KeysOK' /\ crossed' = crossed
PROOF
<1> DEFINE i == c.items[1]
           k == i.key
           old == {r \in data : Same(r, c.found)}
           New(r) == [id |-> r.id, key |-> k, info |-> i.info, rest |-> i.rest]
<1>1. i \in DataItem /\ k \in DataKeys
  BY PutSays
<1>2. PICK f \in c.found : c.found = {f} /\ f.key = k /\ (f.id = 0 => ~c.sure)
  BY DEF PutOK
<1>3. data' = (data \ old) \cup {New(r) : r \in old} /\ lastIds' = lastIds /\ crossed' = crossed
  BY DEF Update
<1>4. /\ k \notin crossed => Says(i) \in may'[k]
      /\ \A j \in DataKeys \ {k} : may[j] \subseteq may'[j]
      /\ ~c.sure => may[k] \subseteq may'[k]
  OBVIOUS
<1>5. f \in DataRow /\ (k \notin crossed /\ f.id # 0 => f \in data) /\ \A r \in data : Same(r, {f}) => r.key = k
  BY <1>2 DEF FoundOK, DataCalls
<1>6. \A r \in old : r \in DataRow /\ r.key = k /\ r.id = f.id /\ r.id # 0
  BY <1>2, <1>5 DEF Same, DataType, IdsOK
<1>7. \A r \in old : \A q \in data : Table(q.key) = Table(k) /\ q.id = r.id => q = r
  BY <1>6 DEF IdsOK
<1>8. IdsGrow /\ crossed \subseteq crossed'
  BY <1>3 DEF IdsGrow, DataType
<1> HIDE DEF k, i
<1>9. CASE old = {}
  <2>1. data' = data /\ (k \in crossed \/ may[k] \subseteq may'[k])
    <3>1. data' = data
      BY <1>3, <1>9
    <3>2. f \in data => f \in old
      BY <1>2 DEF Same
    <3> QED
      BY <1>2, <1>4, <1>5, <1>9, <3>1, <3>2
  <2>2. \A j : RowsOf(j)' = RowsOf(j) /\ (Several(j)' <=> Several(j))
    BY <2>1 DEF RowsOf, Several
  <2>3. RowsLast
    BY <2>1 DEF RowsLast, Same
  <2>4. Table(k) \in indexed => ~Several(k)'
    BY <1>1, <2>2 DEF IdsOK
  <2>5. /\ \A r \in data' : r.id # 0 /\ r.id <= lastIds'[Table(r.key)]
        /\ \A r, q \in data' : Table(r.key) = Table(q.key) /\ r.id = q.id => r = q
    BY <1>3, <2>1 DEF IdsOK
  <2>6. ASSUME k \notin crossed' PROVE ~Several(k)' /\ SaysOne(k)'
    <3>1. ~Several(k) /\ SaysOne(k) /\ may[k] \subseteq may'[k]
      BY <1>1, <1>3, <2>1, <2>6 DEF KeysOK
    <3> QED
      BY <2>2, <3>1 DEF SaysOne, Says
  <2>7. IdsOK' /\ KeysOK'
    BY <1>1, <1>4, <1>8, <2>2, <2>4, <2>5, <2>6, KeysAlike
  <2> QED
    BY <1>3, <1>8, <2>1, <2>2, <2>3, <2>7 DEF DataType, k, i
<1>10. CASE old # {}
  <2>1. PICK r \in old : TRUE
    BY <1>10
  <2>2. old = {r} /\ r \in data
    BY <1>6, <1>7, <2>1
  <2> DEFINE x == New(r)
  <2>3. data' = (data \ {r}) \cup {x}
    BY <1>3, <2>2
  <2>4. /\ r \in DataRow /\ r.key = k /\ x \in DataRow /\ x.id = r.id /\ x.id # 0 /\ x.key = k
        /\ Says(x) = Says(i)
    BY <1>1, <1>6, <2>2 DEF DataRow, DataItem, Says, i, k
  <2> HIDE DEF x
  <2>5. RowsOf(k)' = (RowsOf(k) \ {r}) \cup {x} /\ r \in RowsOf(k)
    BY <2>2, <2>3, <2>4 DEF RowsOf
  <2>6. \A j \in DataKeys \ {k} : RowsOf(j)' = RowsOf(j)
    BY <2>3, <2>4 DEF RowsOf
  <2>7. RowsLast
    BY <2>2, <2>3, <2>4 DEF RowsLast, Same
  <2>8. /\ \A q \in data' : q.id # 0 /\ q.id <= lastIds'[Table(q.key)]
        /\ \A q, y \in data' : Table(y.key) = Table(q.key) /\ y.id = q.id => y = q
    BY <1>3, <1>7, <2>2, <2>3, <2>4 DEF IdsOK
  <2>9. ~Several(k) => RowsOf(k)' = {x}
    BY <2>5 DEF Several
  <2>10. ~Several(k) => ~Several(k)'
    BY <2>9 DEF Several
  <2>11. k \notin crossed /\ ~Several(k) => SaysOne(k)'
    BY <1>4, <2>4, <2>9 DEF SaysOne, Says
  <2>12. Table(k) \in indexed => ~Several(k)'
    BY <1>1, <2>10 DEF IdsOK
  <2>13. k \notin crossed' => ~Several(k)' /\ SaysOne(k)'
    BY <1>1, <1>3, <2>10, <2>11 DEF KeysOK
  <2>14. IdsOK' /\ KeysOK'
    BY <1>1, <1>4, <1>8, <2>6, <2>8, <2>12, <2>13, KeysAlike
  <2>15. data' \subseteq DataRow /\ IsFiniteSet(data')
    <3>1. IsFiniteSet(data \ {r})
      BY FS_RemoveElement DEF DataType
    <3> QED
      BY <2>3, <2>4, <3>1, FS_AddElement DEF DataType
  <2> QED
    BY <1>3, <1>8, <2>6, <2>7, <2>14, <2>15 DEF k, i
<1> QED
  BY <1>9, <1>10

\* A row that is deleted by its id.
LEMMA RowDeleted ==
    ASSUME DataType, IdsOK, KeysOK, NEW c \in DataCalls, FoundOK(c), NEW row \in c.found,
           data' = {r \in data : ~Same(r, {row})}, UNCHANGED <<lastIds, crossed, indexed>>,
           \A j \in DataKeys \ {row.key} : may[j] \subseteq may'[j],
           row.id # 0, row.key \notin crossed => Unset \in may'[row.key]
    PROVE  /\ data' \subseteq DataRow /\ IsFiniteSet(data') /\ RowsLast /\ IdsGrow
           /\ \A j \in DataKeys \ {row.key} : RowsOf(j)' = RowsOf(j)
           /\ IdsOK' /\ KeysOK'
PROOF
<1> DEFINE k == row.key
<1>1. /\ row \in DataRow /\ k \in DataKeys
      /\ (k \notin crossed => row \in data) /\ \A r \in data : Same(r, {row}) => r.key = k
  BY DEF FoundOK, DataCalls, DataRow
<1>2. /\ \A j \in DataKeys \ {k} : may[j] \subseteq may'[j]
      /\ k \notin crossed => Unset \in may'[k]
  OBVIOUS
<1>3. data' \subseteq data /\ \A r \in data : r.key # k => r \in data'
  BY <1>1
<1> HIDE DEF k
<1>4. \A j \in DataKeys \ {k} : RowsOf(j)' = RowsOf(j)
  BY <1>3 DEF RowsOf
<1>5. RowsOf(k)' \subseteq RowsOf(k)
  BY <1>3 DEF RowsOf
<1>6. ~Several(k) => ~Several(k)'
  BY <1>5 DEF Several
<1>7. k \notin crossed => RowsOf(k)' = {}
  <2> SUFFICES ASSUME k \notin crossed, NEW r \in RowsOf(k)' PROVE FALSE
    OBVIOUS
  <2>1. row \in RowsOf(k) /\ r \in RowsOf(k) /\ ~Several(k)
    BY <1>1, <1>5 DEF RowsOf, KeysOK, k
  <2>2. r = row
    BY <2>1 DEF Several
  <2> QED
    BY <2>2 DEF RowsOf, Same
<1>8. k \notin crossed' => ~Several(k)'
  BY <1>7 DEF Several
<1>9. k \notin crossed' => SaysOne(k)'
  BY <1>2, <1>7 DEF SaysOne
<1>10. Table(k) \in indexed => ~Several(k)'
  BY <1>1, <1>6 DEF IdsOK
<1>11. /\ \A r \in data' : r.id # 0 /\ r.id <= lastIds'[Table(r.key)]
       /\ \A r, q \in data' : Table(r.key) = Table(q.key) /\ r.id = q.id => r = q
  BY <1>3 DEF IdsOK
<1>12. IdsOK' /\ KeysOK'
  BY <1>1, <1>2, <1>4, <1>8, <1>9, <1>10, <1>11, KeysAlike
<1>13. RowsLast /\ IdsGrow
  BY <1>3 DEF RowsLast, Same, IdsGrow, DataType
<1>14. data' \subseteq DataRow /\ IsFiniteSet(data')
  BY <1>3, FS_Subset DEF DataType
<1> QED
  BY <1>4, <1>12, <1>13, <1>14 DEF k

LEMMA MergeKeeps ==
    ASSUME DataInv, NEW c \in BagToSet(tasks), Merge(c)
    PROVE  DataInv'
PROOF
<1>1. Reads /\ c.pc = "merge"
  BY DEF Merge, Reads
<1>2. c \in DataCalls /\ DataCallOK(c)
  BY DEF DataInv, DataType, DataCallsOK
<1>3. /\ c.op = "collect" /\ PutOK(c) /\ c.items \in Seq(DataItem) /\ Len(c.items) = 1 /\ c.items # <<>>
      /\ c.found = {}
  BY <1>1, <1>2 DEF DataCallOK, PutOK, DataCalls
<1> DEFINE i == c.items[1]
           k == i.key
           rests == {r.rest : r \in RowsOf(k)}
           Next1(rest, sure) == [c EXCEPT !.pc = "look", !.items[1].rest = rest, !.sure = sure]
<1>4. i \in DataItem /\ k \in KeysOf(c) /\ k \in DataKeys /\ Unset \in Fields
  <2>1. i \in DataItem /\ 1 \in DOMAIN c.items
    BY <1>3, TailItems
  <2> QED
    BY <1>3, <2>1, DataAssumption DEF DataItem, PutOK
<1>5. CASE TaskEnds(c) /\ Doubt(c)
  BY <1>1, <1>5, ReadsKeep DEF Proceeds
<1>6. ASSUME NEW rest \in Fields, NEW sure \in BOOLEAN, TaskGoes(c, Next1(rest, sure)),
             (sure /\ UNCHANGED may) \/ (~sure /\ Doubt(c)),
             k \notin crossed =>
                 /\ [info |-> i.info, rest |-> rest] \in c.leaves[k]
                 /\ sure => [info |-> i.info, rest |-> rest] \in Puts("collect", i, may[k])
      PROVE  DataInv'
  <2> DEFINE x == [i EXCEPT !.rest = rest]
             s == [c.items EXCEPT ![1] = x]
             d == [c EXCEPT !.pc = "look", !.items = s, !.sure = sure]
  <2>1. TaskGoes(c, d)
    BY <1>6
  <2>2. x \in DataItem /\ x.key = k /\ x.info = i.info /\ x.rest = rest
    BY <1>4, <1>6 DEF DataItem
  <2> HIDE DEF x
  <2>3. s \in Seq(DataItem) /\ Len(s) = 1 /\ s[1] = x /\ s # <<>> /\ DOMAIN s = {1}
    BY <1>3, <2>2
  <2> HIDE DEF s
  <2>4. /\ d \in DataCalls /\ d.op = "collect" /\ d.pc = "look" /\ d.found = {} /\ d.items = s
        /\ d.leaves = c.leaves /\ d.sure = sure
    BY <1>2, <1>3, <2>3 DEF DataCalls
  <2> HIDE DEF d
  <2>5. KeysOf(d) = KeysOf(c)
    BY <2>4 DEF KeysOf
  <2>6. SureOK(d)'
    <3>1. CASE sure
      BY <2>4, <3>1 DEF SureOK
    <3>2. CASE ~sure
      <4>1. Doubt(c) /\ KeysOf(c) \subseteq DataKeys
        BY <1>2, <1>6, <3>2, CallKeys
      <4> QED
        BY <2>4, <2>5, <4>1 DEF SureOK, Doubt, KeysOf
    <3> QED
      BY <3>1, <3>2
  <2>7. PutOK(d)'
    <3>1. d.items[1].key = k /\ Says(d.items[1]) = [info |-> i.info, rest |-> rest]
      BY <2>2, <2>3, <2>4 DEF Says
    <3>2. k \notin crossed => /\ Says(d.items[1]) \in d.leaves[k]
                              /\ sure => Says(d.items[1]) \in Puts("collect", d.items[1], may[k])'
      <4>1. d.items[1].info = i.info
        BY <2>2, <2>3, <2>4
      <4>2. Puts("collect", d.items[1], may[k]) = Puts("collect", i, may[k])
        BY <4>1 DEF Puts
      <4>3. sure => may' = may
        BY <1>6
      <4> QED
        BY <1>6, <2>4, <3>1, <4>2, <4>3
    <3>3. \A j \in DOMAIN d.items : d.items[j].key \in KeysOf(d)
      BY <1>4, <2>2, <2>3, <2>4, <2>5
    <3>4. crossed' = crossed
      BY <1>1 DEF Reads
    <3> QED
      BY <2>3, <2>4, <3>1, <3>2, <3>3, <3>4 DEF PutOK, KeysOf, Says
  <2>8. DataCallOK(d)'
    BY <2>4, <2>6, <2>7 DEF DataCallOK, FoundOK
  <2>9. Proceeds(c)
    BY <2>1, <2>4, <2>5, <2>8 DEF Proceeds
  <2> QED
    BY <1>1, <1>6, <2>9, ReadsKeep
<1>7. \A r \in may[k] \cup {Unset} : k \notin crossed =>
          [info |-> i.info, rest |-> IF r = Unset THEN Unset ELSE r.rest] \in c.leaves[k]
  BY <1>1, <1>3 DEF PutOK, Puts
<1>8. ASSUME NEW rest \in IF rests = {} THEN {Unset} ELSE rests, TaskGoes(c, Next1(rest, TRUE)), UNCHANGED may
      PROVE  DataInv'
  <2>1. rest \in Fields
    BY <1>4, <1>8 DEF RowsOf, DataInv, DataType, DataRow
  <2>2. ASSUME k \notin crossed PROVE \E r \in may[k] : rest = IF r = Unset THEN Unset ELSE r.rest
    <3>1. ~Several(k) /\ SaysOne(k)
      BY <1>4, <2>2 DEF DataInv, KeysOK
    <3>2. CASE RowsOf(k) = {}
      BY <1>8, <3>1, <3>2 DEF SaysOne
    <3>3. CASE RowsOf(k) # {}
      <4>1. PICK r \in RowsOf(k) : rest = r.rest
        BY <1>8, <3>3
      <4>2. Says(r) \in may[k] /\ Says(r).rest = rest
        BY <3>1, <4>1 DEF SaysOne, Says
      <4>3. Says(r) # Unset
        <5>1. r \in DataRow
          BY <4>1 DEF RowsOf, DataInv, DataType
        <5>2. Says(r) \in [info : Fields, rest : Fields]
          BY <5>1 DEF DataRow, Says
        <5> QED
          BY <5>2, DataAssumption
      <4> QED
        BY <4>2, <4>3
    <3> QED
      BY <3>2, <3>3
  <2>3. k \notin crossed => /\ [info |-> i.info, rest |-> rest] \in c.leaves[k]
                            /\ [info |-> i.info, rest |-> rest] \in Puts("collect", i, may[k])
    BY <1>7, <2>2 DEF Puts
  <2> HIDE DEF Next1, k, i
  <2> QED
    BY <1>6, <1>8, <2>1, <2>3
<1>9. CASE TaskGoes(c, Next1(Unset, FALSE)) /\ Doubt(c)
  <2>1. k \notin crossed => [info |-> i.info, rest |-> Unset] \in c.leaves[k]
    BY <1>7
  <2> HIDE DEF Next1, k, i
  <2> QED
    BY <1>4, <1>6, <1>9, <2>1
<1> QED
  BY <1>5, <1>8, <1>9 DEF Merge

LEMMA LookUpKeeps ==
    ASSUME DataInv, NEW c \in BagToSet(tasks), LookUpRow(c)
    PROVE  DataInv'
PROOF
<1>1. Reads /\ c.pc = "look"
  BY DEF LookUpRow, Reads
<1>2. c \in DataCalls /\ DataCallOK(c)
  BY DEF DataInv, DataType, DataCallsOK
<1>3. c.op \in {"put", "collect"} /\ PutOK(c) /\ SureOK(c) /\ c.items \in Seq(DataItem) /\ c.items # <<>>
  BY <1>1, <1>2 DEF DataCallOK, PutOK, DataCalls
<1> DEFINE k == c.items[1].key
           found == Matches(k)
<1>4. k \in KeysOf(c) /\ k \in DataKeys /\ KeysOf(c) \subseteq DataKeys
  BY <1>2, <1>3, TailItems, CallKeys DEF PutOK
<1>5. Doubt(c) => InDoubt(c)
  BY <1>4 DEF Doubt, InDoubt
<1> HIDE DEF k
<1>6. CASE ItemEnds(c, FALSE) /\ Doubt(c)
  BY <1>1, <1>2, <1>3, <1>5, <1>6, ItemGoes, ReadsKeep
<1>7. ASSUME NEW first \in SUBSET DataRow, NEW sure \in BOOLEAN,
             TaskGoes(c, [c EXCEPT !.pc = "write", !.found = first, !.sure = sure]),
             (sure = c.sure /\ UNCHANGED may) \/ (~sure /\ Doubt(c)),
             \A f \in first : first = {f} /\ f.key = k /\ (f \in data \/ (f.id = 0 /\ ~sure))
      PROVE  DataInv'
  <2> DEFINE d == [c EXCEPT !.pc = "write", !.found = first, !.sure = sure]
  <2>1. /\ d \in DataCalls /\ d.op = c.op /\ d.pc = "write" /\ d.found = first /\ d.items = c.items
        /\ d.leaves = c.leaves /\ d.sure = sure
    BY <1>2, <1>7 DEF DataCalls
  <2>2. TaskGoes(c, d)
    BY <1>7
  <2> HIDE DEF d
  <2>3. KeysOf(d) = KeysOf(c) /\ data' = data /\ lastIds' = lastIds /\ crossed' = crossed
    BY <1>1, <2>1 DEF KeysOf, Reads
  <2>4. FoundOK(d)'
    <3> SUFFICES ASSUME NEW f \in d.found
                 PROVE  /\ f.key \in KeysOf(d) /\ f.id <= lastIds'[Table(f.key)]
                        /\ \A r \in data' : Same(r, {f}) => r.key = f.key
                        /\ f.key \notin crossed' /\ f.id # 0 => f \in data'
      BY DEF FoundOK, KeysOf, Same
    <3>1. f.key = k /\ (f \in data \/ f.id = 0)
      BY <1>7, <2>1
    <3>2. f.id <= lastIds[Table(f.key)]
      <4>1. lastIds[Table(k)] \in Nat
        BY <1>4, TableOf DEF DataInv, DataType
      <4> QED
        BY <3>1, <4>1 DEF DataInv, IdsOK
    <3>3. \A r \in data : Same(r, {f}) => r.key = f.key
      BY <3>1 DEF DataInv, IdsOK, Same
    <3> QED
      BY <1>4, <2>3, <3>1, <3>2, <3>3
  <2>5. SureOK(d)'
    BY <1>3, <1>5, <1>7, <2>1, <2>3 DEF SureOK, InDoubt, KeysOf
  <2>6. PutOK(d)'
    <3>1. \A f \in d.found : d.found = {f} /\ f.key = d.items[1].key /\ (f.id = 0 => ~d.sure)
      BY <1>7, <2>1 DEF DataInv, IdsOK, k
    <3>2. d.sure => c.sure /\ may' = may
      BY <1>7, <2>1
    <3>3. d.sure => Puts("collect", d.items[1], may[k])' = Puts("collect", d.items[1], may[k])
      BY <3>2 DEF Puts
    <3>4. c.items[1].key = k
      BY DEF k
    <3> QED
      BY <1>1, <1>3, <2>1, <2>3, <3>1, <3>2, <3>3, <3>4 DEF PutOK, KeysOf, Says
  <2>7. DataCallOK(d)'
    BY <1>3, <2>1, <2>4, <2>5, <2>6 DEF DataCallOK
  <2>8. Proceeds(c)
    BY <2>1, <2>2, <2>3, <2>7 DEF Proceeds
  <2> QED
    BY <1>1, <1>7, <2>8, ReadsKeep
<1>8. c.sure \in BOOLEAN /\ \A f \in found : f \in data /\ f.key = k /\ f \in DataRow
  BY <1>2 DEF Matches, RowsOf, DataInv, DataType, DataCalls
<1>9. ASSUME NEW first \in IF found = {} THEN {{}} ELSE {{r} : r \in found}, UNCHANGED may,
             TaskGoes(c, [c EXCEPT !.pc = "write", !.found = first, !.sure = c.sure])
      PROVE  DataInv'
  <2>1. first \subseteq found /\ \A f \in first : first = {f}
    BY <1>9
  <2> HIDE DEF found
  <2> QED
    BY <1>7, <1>8, <1>9, <2>1
<1>10. ASSUME NEW first \in {{}} \cup (IF Table(k) = "icon" THEN {{Blank(k)}} ELSE {}), Doubt(c),
              TaskGoes(c, [c EXCEPT !.pc = "write", !.found = first, !.sure = FALSE])
       PROVE  DataInv'
  <2>1. Blank(k) \in DataRow /\ Blank(k).id = 0 /\ Blank(k).key = k
    BY <1>4, DataAssumption DEF Blank, DataRow
  <2>2. first \in {{}, {Blank(k)}}
    BY <1>10
  <2>3. first \subseteq DataRow /\ \A f \in first : first = {f} /\ f.key = k /\ f.id = 0
    BY <2>1, <2>2
  <2> QED
    BY <1>7, <1>10, <2>3
<1> QED
  BY <1>6, <1>9, <1>10 DEF LookUpRow, k

LEMMA FindKeeps ==
    ASSUME DataInv, NEW c \in BagToSet(tasks), FindRows(c)
    PROVE  DataInv'
PROOF
<1>1. Reads /\ c.pc = "find"
  BY DEF FindRows, Reads
<1>2. c \in DataCalls /\ DataCallOK(c)
  BY DEF DataInv, DataType, DataCallsOK
<1>3. c.op = "delete" /\ DeleteOK(c) /\ KeysOf(c) \subseteq DataKeys /\ SureOK(c)
  BY <1>1, <1>2, CallKeys DEF DataCallOK, DataCalls
<1>4. PICK found : found = UNION {RowsOf(k) : k \in KeysOf(c)}
  OBVIOUS
<1>5. CASE TaskEnds(c) /\ Doubt(c)
  BY <1>1, <1>5, ReadsKeep DEF Proceeds
<1>6. ASSUME NEW some \in SUBSET found, some # {}, NEW sure \in BOOLEAN,
             TaskGoes(c, [c EXCEPT !.pc = "delete", !.found = some, !.sure = sure]),
             (sure /\ UNCHANGED may) \/ (~sure /\ Doubt(c))
      PROVE  DataInv'
  <2> DEFINE d == [c EXCEPT !.pc = "delete", !.found = some, !.sure = sure]
  <2>1. \A f \in some : f \in data /\ f.key \in KeysOf(c) /\ f \in DataRow /\ f.id # 0
    BY <1>4 DEF RowsOf, DataInv, DataType, IdsOK
  <2>2. /\ d \in DataCalls /\ d.op = "delete" /\ d.pc = "delete" /\ d.found = some /\ d.items = c.items
        /\ d.leaves = c.leaves /\ d.sure = sure
    BY <1>2, <1>3, <2>1 DEF DataCalls
  <2>3. TaskGoes(c, d)
    BY <1>6
  <2> HIDE DEF d
  <2>4. KeysOf(d) = KeysOf(c) /\ data' = data /\ lastIds' = lastIds /\ crossed' = crossed
    BY <1>1, <2>2 DEF KeysOf, Reads
  <2>5. FoundOK(d)'
    <3> SUFFICES ASSUME NEW f \in d.found
                 PROVE  /\ f.key \in KeysOf(d) /\ f.id <= lastIds'[Table(f.key)]
                        /\ \A r \in data' : Same(r, {f}) => r.key = f.key
                        /\ f.key \notin crossed' /\ f.id # 0 => f \in data'
      BY DEF FoundOK, KeysOf, Same
    <3>1. f \in data /\ f.key \in KeysOf(c)
      BY <2>1, <2>2
    <3> QED
      BY <2>4, <3>1 DEF DataInv, IdsOK, Same
  <2>6. SureOK(d)'
    <3>1. CASE sure
      BY <2>2, <3>1 DEF SureOK
    <3>2. CASE ~sure
      BY <1>3, <1>6, <2>2, <2>4, <3>2 DEF SureOK, Doubt, KeysOf
    <3> QED
      BY <3>1, <3>2
  <2>7. DataCallOK(d)'
    BY <1>3, <1>6, <2>1, <2>2, <2>4, <2>5, <2>6 DEF DataCallOK, DeleteOK, KeysOf
  <2>8. Proceeds(c)
    BY <2>2, <2>3, <2>4, <2>7 DEF Proceeds
  <2> QED
    BY <1>1, <1>6, <2>8, ReadsKeep
<1>7. CASE found # {} /\ UNCHANGED may /\ TaskGoes(c, [c EXCEPT !.pc = "delete", !.found = found, !.sure = TRUE])
  BY <1>6, <1>7
<1>8. ASSUME NEW some \in (SUBSET found) \ {{}, found}, Doubt(c),
             TaskGoes(c, [c EXCEPT !.pc = "delete", !.found = some, !.sure = FALSE])
      PROVE  DataInv'
  BY <1>6, <1>8
<1> QED
  BY <1>4, <1>5, <1>7, <1>8 DEF FindRows

\* WriteRow: inserts, updates or fails.
LEMMA WriteKeeps ==
    ASSUME DataInv, NEW c \in BagToSet(tasks), WriteRow(c)
    PROVE  DataInv'
PROOF
<1>1. indexed' = indexed /\ c.pc = "write"
  BY DEF WriteRow
<1>2. c \in DataCalls /\ DataCallOK(c)
  BY DEF DataInv, DataType, DataCallsOK
<1>3. c.op # "delete" /\ PutOK(c) /\ FoundOK(c) /\ SureOK(c) /\ c.sure \in BOOLEAN
  BY <1>1, <1>2 DEF DataCallOK, DataCalls
<1> DEFINE i == c.items[1]
           k == i.key
           mine == Puts(c.op, i, may[k])
<1>4. /\ k \in KeysOf(c) /\ k \in DataKeys /\ mine \subseteq [info : Fields, rest : Fields]
      /\ k \notin crossed => Says(i) \in c.leaves[k] /\ (c.sure => Says(i) \in mine)
      /\ KeysOf(c) \subseteq DataKeys
  BY <1>1, <1>2, <1>3, PutSays, CallKeys DEF DataInv
<1>5. CASE Reads /\ ItemEnds(c, FALSE) /\ Doubt(c)
  <2>1. InDoubt(c)
    BY <1>4, <1>5 DEF Doubt, InDoubt
  <2>2. Proceeds(c)
    BY <1>2, <1>3, <1>5, <2>1, ItemGoes
  <2> QED
    BY <1>5, <2>2, ReadsKeep
<1>6. ASSUME NEW ok \in BOOLEAN, ItemEnds(c, ok), (Through(c, k, mine) /\ ok) \/ (Doubt(c) /\ ~ok),
             (c.found = {} /\ ~Refused(c) /\ Insert(c)) \/ (c.found # {} /\ Update(c))
      PROVE  DataInv'
  <2>1. crossed \subseteq crossed'
    BY <1>6 DEF Insert, Update
  <2>2. /\ may' \in [DataKeys -> SUBSET Sayings]
        /\ \A j \in DataKeys \ KeysOf(c) : may'[j] = may[j]
        /\ \A j \in DataKeys \ {k} : may[j] \subseteq may'[j]
        /\ k \notin crossed => Says(i) \in may'[k]
        /\ ~c.sure \/ Doubt(c) => InDoubt(c) /\ \A j \in DataKeys : may[j] \subseteq may'[j]
    <3>1. mine \in SUBSET Sayings
      BY <1>4 DEF Sayings
    <3> HIDE DEF mine, k
    <3> QED
      BY <1>2, <1>3, <1>4, <1>6, <2>1, <3>1, MayBecome DEF DataInv
  <2>3. Proceeds(c)
    BY <1>2, <1>3, <1>6, <2>2, ItemGoes
  <2>4. /\ data' \subseteq DataRow /\ IsFiniteSet(data') /\ RowsLast /\ IdsGrow
        /\ \A j \in DataKeys \ {k} : RowsOf(j)' = RowsOf(j)
        /\ IdsOK' /\ KeysOK'
    <3>1. CASE c.found = {} /\ ~Refused(c) /\ Insert(c)
      BY <1>1, <1>2, <1>3, <2>2, <3>1, RowInserted DEF DataInv
    <3>2. CASE c.found # {} /\ Update(c)
      BY <1>1, <1>2, <1>3, <1>4, <2>2, <3>2, RowUpdated DEF DataInv
    <3> QED
      BY <1>6, <3>1, <3>2
  <2>5. \A j \in DataKeys \ KeysOf(c) : KeyAlike(j)
    BY <1>4, <2>2, <2>4 DEF KeyAlike
  <2> QED
    BY <1>1, <2>1, <2>2, <2>3, <2>4, <2>5, DataSteps
<1> HIDE DEF mine, k, i
<1>7. CASE \/ ItemEnds(c, TRUE) /\ Through(c, k, mine)
           \/ ItemEnds(c, FALSE) /\ Doubt(c)
  <2>1. CASE (c.found = {} /\ ~Refused(c) /\ Insert(c)) \/ (c.found # {} /\ Update(c))
    BY <1>6, <1>7, <2>1
  <2>2. CASE Reads /\ ItemEnds(c, FALSE) /\ Doubt(c)
    BY <1>5, <2>2
  <2> QED
    BY <1>1, <2>1, <2>2 DEF WriteRow, Reads
<1> QED
  BY <1>7 DEF WriteRow, mine, k, i

\* DeleteRow: deletes or fails, and goes on.
LEMMA DeleteKeeps ==
    ASSUME DataInv, NEW c \in BagToSet(tasks), DeleteRow(c)
    PROVE  DataInv'
PROOF
<1>1. UNCHANGED <<lastIds, indexed, crossed>> /\ c.pc = "delete"
  BY DEF DeleteRow
<1>2. c \in DataCalls /\ DataCallOK(c)
  BY DEF DataInv, DataType, DataCallsOK
<1>3. /\ c.op = "delete" /\ DeleteOK(c) /\ FoundOK(c) /\ SureOK(c) /\ c.sure \in BOOLEAN
      /\ KeysOf(c) \subseteq DataKeys /\ c.leaves \in [KeysOf(c) -> SUBSET Sayings]
  BY <1>1, <1>2, CallKeys DEF DataCallOK, DataCalls
<1>4. PICK row \in c.found, ok \in BOOLEAN :
        /\ IF c.found = {row} THEN TaskEnds(c)
           ELSE TaskGoes(c, [c EXCEPT !.found = @ \ {row}, !.sure = ok /\ @])
        /\ \/ ok /\ data' = {r \in data : ~Same(r, {row})} /\ Through(c, row.key, {Unset})
           \/ ~ok /\ data' = data /\ Doubt(c)
  BY DEF DeleteRow
<1>5. row.key \in KeysOf(c) /\ row \in DataRow /\ row.id # 0
  BY <1>1, <1>2, <1>3 DEF FoundOK, DataCalls, DeleteOK
<1>6. /\ may' \in [DataKeys -> SUBSET Sayings]
      /\ \A j \in DataKeys \ KeysOf(c) : may'[j] = may[j]
      /\ \A j \in DataKeys \ {row.key} : may[j] \subseteq may'[j]
      /\ row.key \notin crossed => Unset \in may'[row.key]
      /\ ~c.sure \/ Doubt(c) => InDoubt(c) /\ \A j \in DataKeys : may[j] \subseteq may'[j]
  <2>1. {Unset} \in SUBSET Sayings /\ crossed \subseteq crossed'
    BY <1>1 DEF Sayings
  <2>2. row.key \notin crossed => Unset \in c.leaves[row.key] /\ (c.sure => Unset \in {Unset})
    BY <1>3, <1>5 DEF DeleteOK
  <2> QED
    BY <1>2, <1>3, <1>4, <1>5, <2>1, <2>2, MayBecome DEF DataInv
<1>7. Proceeds(c)
  <2>1. CASE c.found = {row}
    BY <1>4, <2>1 DEF Proceeds
  <2>2. CASE c.found # {row}
    <3> DEFINE d == [c EXCEPT !.found = c.found \ {row}, !.sure = ok /\ c.sure]
    <3>1. /\ d \in DataCalls /\ d.op = "delete" /\ d.pc = "delete" /\ d.items = c.items
          /\ d.found = c.found \ {row} /\ d.found # {} /\ d.leaves = c.leaves /\ d.sure = (ok /\ c.sure)
      BY <1>1, <1>2, <1>3, <2>2 DEF DataCalls
    <3>2. TaskGoes(c, d)
      BY <1>4, <2>2
    <3> HIDE DEF d
    <3>3. KeysOf(d) = KeysOf(c)
      BY <3>1 DEF KeysOf
    <3>4. FoundOK(d)'
      <4> SUFFICES ASSUME NEW f \in d.found
                   PROVE  /\ f.key \in KeysOf(d) /\ f.id <= lastIds'[Table(f.key)]
                          /\ \A r \in data' : Same(r, {f}) => r.key = f.key
                          /\ f.key \notin crossed' /\ f.id # 0 => f \in data'
        BY DEF FoundOK, KeysOf, Same
      <4>1. /\ f \in c.found /\ f # row /\ f.key \in KeysOf(c) /\ f.id <= lastIds[Table(f.key)]
            /\ \A r \in data : Same(r, {f}) => r.key = f.key
            /\ f.key \notin crossed /\ f.id # 0 => f \in data
        BY <1>3, <3>1 DEF FoundOK
      <4>2. data' \subseteq data
        BY <1>4
      <4>3. f.key \notin crossed /\ f.id # 0 => f \in data'
        <5> SUFFICES ASSUME f.key \notin crossed, f.id # 0, f \notin data' PROVE FALSE
          OBVIOUS
        <5>1. f \in data /\ Same(f, {row})
          BY <1>4, <4>1
        <5>2. f.key = row.key
          BY <1>3, <5>1 DEF FoundOK
        <5>3. row \in data
          BY <1>3, <1>5, <5>2 DEF FoundOK
        <5> QED
          BY <4>1, <5>1, <5>3 DEF DataInv, IdsOK, Same
      <4> QED
        BY <1>1, <3>3, <4>1, <4>2, <4>3
    <3>5. SureOK(d)'
      BY <1>1, <1>4, <1>6, <3>1, <3>3 DEF SureOK, InDoubt, KeysOf
    <3>6. DataCallOK(d)'
      BY <1>1, <1>3, <3>1, <3>3, <3>4, <3>5 DEF DataCallOK, DeleteOK, KeysOf
    <3> QED
      BY <3>1, <3>2, <3>3, <3>6 DEF Proceeds
  <2> QED
    BY <2>1, <2>2
<1>8. CASE ~ok
  <2>1. Reads /\ Doubt(c)
    BY <1>1, <1>4, <1>8 DEF Reads
  <2> QED
    BY <1>7, <2>1, ReadsKeep
<1>9. CASE ok
  <2>1. data' = {r \in data : ~Same(r, {row})}
    BY <1>4, <1>9
  <2>2. /\ data' \subseteq DataRow /\ IsFiniteSet(data') /\ RowsLast /\ IdsGrow
        /\ \A j \in DataKeys \ {row.key} : RowsOf(j)' = RowsOf(j)
        /\ IdsOK' /\ KeysOK'
    BY <1>1, <1>2, <1>3, <1>5, <1>6, <2>1, RowDeleted DEF DataInv
  <2>3. \A j \in DataKeys \ KeysOf(c) : KeyAlike(j)
    BY <1>5, <1>6, <2>2 DEF KeyAlike
  <2> QED
    BY <1>1, <1>6, <1>7, <2>2, <2>3, DataSteps
<1> QED
  BY <1>8, <1>9

\* What the items of a call may leave.
LEMMA LeavesAll ==
    ASSUME DataType, NEW op, NEW items, DOMAIN items \in SUBSET Nat,
           \/ op = "delete" /\ \A i \in DOMAIN items : items[i] \in [key : DeviceKeys]
           \/ op \in {"put", "collect"} /\ \A i \in DOMAIN items : items[i] \in DataItem
    PROVE  /\ Leaves(op, items) \in Promises
           /\ \A i \in DOMAIN items :
                  /\ items[i].key \in DOMAIN Leaves(op, items)
                  /\ Puts(op, items[i], may[items[i].key] \cup {Unset}) \subseteq Leaves(op, items)[items[i].key]
           /\ \A k \in DOMAIN Leaves(op, items) : \E i \in DOMAIN items : k = items[i].key
PROOF
<1> DEFINE K == {items[i].key : i \in DOMAIN items}
           Of(k) == {j \in DOMAIN items : items[j].key = k}
           P(i, k) == Puts(op, items[i], may[k] \cup {Unset})
<1>1. \A i \in DOMAIN items : items[i].key \in DataKeys
  <2>1. CASE op = "delete"
    BY <2>1 DEF DataKeys
  <2>2. CASE op \in {"put", "collect"}
    BY <2>2 DEF DataItem
  <2> QED
    BY <2>1, <2>2
<1>2. ASSUME NEW i \in DOMAIN items, NEW k \in DataKeys PROVE P(i, k) \subseteq Sayings
  <2>1. may[k] \subseteq Sayings /\ Unset \in Fields /\ Unset \in Sayings
    BY DataAssumption DEF DataType, Sayings
  <2>2. CASE op = "delete"
    BY <2>1, <2>2 DEF Puts
  <2>3. CASE op = "put"
    <3>1. items[i] \in DataItem
      BY <2>3
    <3> QED
      BY <2>3, <3>1 DEF Puts, Sayings, DataItem
  <2>4. CASE op = "collect"
    <3>1. items[i].info \in Fields
      BY <2>4 DEF DataItem
    <3>2. \A r \in may[k] \cup {Unset} : (IF r = Unset THEN Unset ELSE r.rest) \in Fields
      BY <2>1 DEF Sayings
    <3>3. P(i, k) = {[info |-> items[i].info, rest |-> IF r = Unset THEN Unset ELSE r.rest] : r \in may[k] \cup {Unset}}
      BY <2>4 DEF Puts
    <3> HIDE DEF P
    <3> QED
      BY <3>1, <3>2, <3>3 DEF Sayings
  <2> QED
    BY <2>2, <2>3, <2>4
<1>3. Leaves(op, items) = [k \in K |-> may[k] \cup UNION {P(i, k) : i \in Of(k)}]
  BY DEF Leaves
<1> HIDE DEF P
<1>4. \A k \in K : k \in DataKeys /\ Of(k) \subseteq DOMAIN items
  BY <1>1
<1>5. \A k \in K : may[k] \cup UNION {P(i, k) : i \in Of(k)} \in SUBSET Sayings
  BY <1>2, <1>4 DEF DataType
<1>6. Leaves(op, items) \in [K -> SUBSET Sayings] /\ K \in SUBSET DataKeys
  BY <1>3, <1>4, <1>5
<1>7. ASSUME NEW i \in DOMAIN items
      PROVE  items[i].key \in K /\ P(i, items[i].key) \subseteq Leaves(op, items)[items[i].key]
  <2>1. items[i].key \in K /\ i \in Of(items[i].key)
    OBVIOUS
  <2> HIDE DEF K, Of
  <2> QED
    BY <1>3, <2>1
<1>8. Leaves(op, items) \in Promises
  BY <1>6 DEF Promises
<1>9. DOMAIN Leaves(op, items) = K
  BY <1>3
<1> QED
  BY <1>7, <1>8, <1>9 DEF P

\* A call begins: a key that it shares with another counts as crossed.
LEMMA AskKeeps ==
    ASSUME DataInv, NEW op, NEW pc, NEW items, Ask(op, pc, items), NEW c \in DataCalls,
           c = [op |-> op, pc |-> pc, items |-> items, found |-> {},
                leaves |-> Leaves(op, items), sure |-> TellsAll(op, items)],
           SureOK(c)' => DataCallOK(c)'
    PROVE  DataInv'
PROOF
<1>1. /\ UNCHANGED <<data, lastIds, indexed>> /\ crossed' = crossed \cup (KeysOf(c) \cap Busy)
      /\ tasks' = tasks (+) SetToBag({c}) /\ (IF c.sure THEN UNCHANGED may ELSE Doubt(c))
  BY DEF Ask
<1>2. /\ IsABag(tasks') /\ BagToSet(tasks') = BagToSet(tasks) \cup {c}
      /\ \A e \in BagToSet(tasks) \ {c} : tasks'[e] = tasks[e]
      /\ c \notin BagToSet(tasks) => tasks'[c] = 1
  <2> DEFINE C == tasks (+) SetToBag({c})
  <2>1. /\ IsABag(C) /\ BagToSet(C) = BagToSet(tasks) \cup {c}
        /\ \A e \in BagToSet(tasks) \ {c} : C[e] = tasks[e]
        /\ c \notin BagToSet(tasks) => C[c] = 1
    BY BagAdd DEF DataInv, DataType
  <2> QED
    BY <1>1, <2>1
<1>3. /\ may' \in [DataKeys -> SUBSET Sayings] /\ \A j \in DataKeys \ KeysOf(c) : may'[j] = may[j]
      /\ \A j \in DataKeys : may[j] \subseteq may'[j]
      /\ SureOK(c)'
  <2>1. may \in [DataKeys -> SUBSET Sayings]
    BY DEF DataInv, DataType
  <2>2. KeysOf(c) \subseteq DataKeys /\ \A j \in KeysOf(c) : c.leaves[j] \in SUBSET Sayings
    BY <1>1, CallKeys
  <2>3. CASE c.sure
    BY <1>1, <2>1, <2>3 DEF SureOK
  <2>4. CASE ~c.sure
    <3>1. may' = [k \in DataKeys |-> IF k \in KeysOf(c) THEN may[k] \cup c.leaves[k] ELSE may[k]]
      BY <1>1, <2>4 DEF Doubt
    <3> QED
      BY <2>1, <2>2, <3>1 DEF SureOK, KeysOf
  <2> QED
    BY <2>3, <2>4
<1>4. \A j : RowsOf(j)' = RowsOf(j) /\ (Several(j)' <=> Several(j))
  BY <1>1 DEF RowsOf, Several
<1>5. \A j \in DataKeys : SaysOne(j) => SaysOne(j)'
  BY <1>3, <1>4 DEF SaysOne, Says
<1>6. RowsLast /\ IdsGrow /\ data' \subseteq DataRow /\ IsFiniteSet(data')
  BY <1>1 DEF RowsLast, Same, IdsGrow, DataInv, DataType
<1>7. IdsOK' /\ KeysOK'
  BY <1>1, <1>4, <1>5 DEF DataInv, IdsOK, KeysOK
<1>8. ASSUME NEW e \in BagToSet(tasks') PROVE e \in DataCalls /\ DataCallOK(e)'
  <2>1. CASE e \in BagToSet(tasks)
    <3>1. e \in DataCalls /\ DataCallOK(e) /\ KeysOf(e) \subseteq DataKeys /\ KeysOf(e) \subseteq Busy
      BY <2>1, CallKeys DEF DataInv, DataType, DataCallsOK, Busy
    <3>2. \A k \in KeysOf(e) \ crossed' : KeyAlike(k)
      BY <1>1, <1>3, <1>4, <3>1 DEF KeyAlike
    <3> QED
      BY <1>1, <1>6, <3>1, <3>2, CallStays DEF DataInv
  <2> QED
    BY <1>1, <1>2, <1>3, <2>1
<1>9. ASSUME NEW e \in BagToSet(tasks'), NEW f \in BagToSet(tasks'), NEW k \in (KeysOf(e) \cap KeysOf(f)) \ crossed'
      PROVE  e = f /\ tasks'[e] = 1
  <2>1. \A d \in BagToSet(tasks) : k \in KeysOf(d) => k \in Busy
    BY DEF Busy
  <2>2. k \notin crossed /\ ~(k \in KeysOf(c) /\ k \in Busy)
    BY <1>1, <1>9
  <2>3. CASE k \in KeysOf(c)
    <3>1. e = c /\ f = c /\ c \notin BagToSet(tasks)
      BY <1>2, <1>9, <2>1, <2>2, <2>3
    <3> QED
      BY <1>2, <3>1
  <2>4. CASE k \notin KeysOf(c)
    <3>1. e \in BagToSet(tasks) \ {c} /\ f \in BagToSet(tasks) \ {c}
      BY <1>2, <1>9, <2>4
    <3> QED
      BY <1>2, <1>9, <2>2, <3>1 DEF DataInv, OneCall
  <2> QED
    BY <2>3, <2>4
<1>10. OneCall'
  BY <1>9 DEF OneCall, KeysOf
<1> QED
  BY <1>1, <1>2, <1>3, <1>6, <1>7, <1>8, <1>10 DEF DataInv, DataType, DataCallsOK, IdsGrow

LEMMA DataCallsBegin ==
    ASSUME DataInv,
           \/ \E items \in PutRequests : PutBatch(items)
           \/ \E item \in CollectRequests : CollectInfoToProfileData(item)
           \/ \E keys \in DeleteRequests : DeleteDeviceProfileBatch(keys)
    PROVE  DataInv'
PROOF
<1>1. ASSUME NEW items \in PutRequests, PutBatch(items) PROVE DataInv'
  <2> DEFINE x == [op |-> "put", pc |-> "look", items |-> items, found |-> {},
                   leaves |-> Leaves("put", items), sure |-> TellsAll("put", items)]
  <2>1. items \in Seq(DataItem) /\ items # <<>> /\ DOMAIN items \in SUBSET Nat
    BY DataAssumption
  <2>2. \A i \in DOMAIN items : items[i] \in DataItem
    BY <2>1
  <2>3. /\ Leaves("put", items) \in Promises
        /\ \A i \in DOMAIN items :
               /\ items[i].key \in DOMAIN Leaves("put", items)
               /\ Puts("put", items[i], may[items[i].key] \cup {Unset}) \subseteq Leaves("put", items)[items[i].key]
    BY <2>1, <2>2, LeavesAll DEF DataInv
  <2> PICK c : c = x
    OBVIOUS
  <2>4. /\ c \in DataCalls /\ c.op = "put" /\ c.pc = "look" /\ c.items = items /\ c.found = {}
        /\ c.leaves = Leaves("put", items)
    BY <2>1, <2>3 DEF DataCalls, TellsAll
  <2>5. \A i \in DOMAIN c.items : c.items[i].key \in KeysOf(c) /\ Says(c.items[i]) \in c.leaves[c.items[i].key]
    BY <2>3, <2>4 DEF KeysOf, Puts, Says
  <2>6. PutOK(c)'
    BY <2>1, <2>4, <2>5 DEF PutOK, KeysOf, Says
  <2>7. SureOK(c)' => DataCallOK(c)'
    BY <2>4, <2>6 DEF DataCallOK, FoundOK
  <2> QED
    BY <1>1, <2>4, <2>7, AskKeeps DEF PutBatch, x
<1>2. ASSUME NEW item \in CollectRequests, CollectInfoToProfileData(item) PROVE DataInv'
  <2> DEFINE s == <<item>>
             x == [op |-> "collect", pc |-> "merge", items |-> s, found |-> {},
                   leaves |-> Leaves("collect", s), sure |-> TellsAll("collect", s)]
  <2>1. item \in DataItem
    BY DataAssumption
  <2>2. s \in Seq(DataItem) /\ s # <<>> /\ Len(s) = 1 /\ s[1] = item /\ DOMAIN s = {1}
    BY <2>1
  <2>3. Ask("collect", "merge", s)
    BY <1>2 DEF CollectInfoToProfileData
  <2> HIDE DEF s
  <2>4. /\ Leaves("collect", s) \in Promises
        /\ \A i \in DOMAIN s :
               /\ s[i].key \in DOMAIN Leaves("collect", s)
               /\ Puts("collect", s[i], may[s[i].key] \cup {Unset}) \subseteq Leaves("collect", s)[s[i].key]
    BY <2>1, <2>2, LeavesAll DEF DataInv
  <2> PICK c : c = x
    OBVIOUS
  <2>5. /\ c \in DataCalls /\ c.op = "collect" /\ c.pc = "merge" /\ c.items = s /\ c.found = {}
        /\ c.leaves = Leaves("collect", s) /\ c.sure = TRUE
    BY <2>2, <2>4 DEF DataCalls, TellsAll
  <2>6. may' = may
    BY <2>3, <2>5 DEF Ask
  <2>7. PutOK(c)'
    <3>1. \A i \in DOMAIN c.items : c.items[i].key \in KeysOf(c)
      BY <2>4, <2>5 DEF KeysOf
    <3>2. Puts("collect", s[1], may'[s[1].key] \cup {Unset}) \subseteq c.leaves[s[1].key]
      BY <2>2, <2>4, <2>5, <2>6
    <3> QED
      BY <2>2, <2>5, <3>1, <3>2 DEF PutOK, KeysOf, Says, Puts
  <2>8. SureOK(c)' => DataCallOK(c)'
    BY <2>5, <2>7 DEF DataCallOK, FoundOK
  <2> QED
    BY <2>3, <2>5, <2>8, AskKeeps DEF x
<1>3. ASSUME NEW keys \in DeleteRequests, DeleteDeviceProfileBatch(keys) PROVE DataInv'
  <2> DEFINE R == [key : DeviceKeys]
             items == [i \in DOMAIN keys |-> [key |-> <<keys[i][1], keys[1][2]>>]]
             x == [op |-> "delete", pc |-> "find", items |-> items, found |-> {},
                   leaves |-> Leaves("delete", items), sure |-> TellsAll("delete", items)]
  <2>1. keys \in Seq(DeviceKeys) /\ \A i \in DOMAIN keys : <<keys[i][1], keys[1][2]>> \in DeviceKeys
    BY DataAssumption
  <2>2. \A i \in DOMAIN keys : [key |-> <<keys[i][1], keys[1][2]>>] \in R
    BY <2>1
  <2>3. DOMAIN items \in SUBSET Nat /\ \A i \in DOMAIN items : items[i] \in R
    BY <2>1, <2>2
  <2>4. items \in Seq(R)
    <3>1. Len(keys) \in Nat /\ DOMAIN keys = 1 .. Len(keys)
      BY <2>1
    <3> HIDE DEF R
    <3>2. items \in [1 .. Len(keys) -> R]
      BY <2>2, <3>1
    <3> HIDE DEF items
    <3> QED
      BY <3>1, <3>2
  <2> HIDE DEF items
  <2>5. /\ Leaves("delete", items) \in Promises
        /\ \A i \in DOMAIN items :
               Puts("delete", items[i], may[items[i].key] \cup {Unset}) \subseteq Leaves("delete", items)[items[i].key]
        /\ \A k \in DOMAIN Leaves("delete", items) : \E i \in DOMAIN items : k = items[i].key
    BY <2>3, LeavesAll DEF DataInv
  <2> PICK c : c = x
    OBVIOUS
  <2>6. /\ c \in DataCalls /\ c.op = "delete" /\ c.pc = "find" /\ c.items = items /\ c.found = {}
        /\ c.leaves = Leaves("delete", items)
    BY <2>4, <2>5 DEF DataCalls, TellsAll
  <2>7. \A k \in KeysOf(c) : Unset \in c.leaves[k]
    BY <2>5, <2>6 DEF KeysOf, Puts
  <2>8. SureOK(c)' => DataCallOK(c)'
    BY <2>6, <2>7 DEF DataCallOK, FoundOK, DeleteOK, KeysOf
  <2> QED
    BY <1>3, <2>6, <2>8, AskKeeps DEF DeleteDeviceProfileBatch, x, items
<1> QED
  BY <1>1, <1>2, <1>3

\* At most one row.
LEMMA OneRow == ASSUME IsFiniteSet(data), NEW k PROVE Cardinality(RowsOf(k)) <= 1 <=> ~Several(k)
PROOF
<1>1. IsFiniteSet(RowsOf(k)) /\ Cardinality(RowsOf(k)) \in Nat
  BY FS_Subset, FS_CardinalityType DEF RowsOf
<1>2. CASE RowsOf(k) = {}
  BY <1>2, FS_EmptySet DEF Several
<1>3. CASE RowsOf(k) # {}
  <2>1. Cardinality(RowsOf(k)) # 0
    BY <1>1, <1>3, FS_EmptySet
  <2>2. Cardinality(RowsOf(k)) = 1 <=> \E x : RowsOf(k) = {x}
    BY <1>1, FS_Singleton
  <2>3. (\E x : RowsOf(k) = {x}) <=> ~Several(k)
    BY <1>3 DEF Several
  <2>4. Cardinality(RowsOf(k)) <= 1 <=> Cardinality(RowsOf(k)) = 1
    <3> DEFINE n == Cardinality(RowsOf(k))
    <3>1. n \in Nat /\ n # 0
      BY <1>1, <2>1
    <3> HIDE DEF n
    <3>2. n <= 1 <=> n = 1
      BY <3>1
    <3> QED
      BY <3>2, Zenon DEF n
  <2> QED
    BY <2>2, <2>3, <2>4, Zenon
<1> QED
  BY <1>2, <1>3

\* The store is closed; the next process opens it.
LEMMA DataProcesses ==
    ASSUME DataInv, CloseData \/ RestartData \/ UNCHANGED dataVars
    PROVE  DataInv'
PROOF
<1>1. CASE CloseData \/ UNCHANGED dataVars
  <2>1. UNCHANGED <<data, lastIds, indexed, tasks, may, crossed>>
    BY <1>1 DEF CloseData, dataVars
  <2>2. \A j : KeyAlike(j) /\ (Several(j)' <=> Several(j)) /\ (SaysOne(j)' <=> SaysOne(j))
    BY <2>1 DEF KeyAlike, RowsOf, Several, SaysOne, Says
  <2>3. data' \subseteq DataRow /\ RowsLast /\ IdsGrow
    BY <2>1 DEF RowsLast, Same, IdsGrow, DataInv, DataType
  <2>4. IdsOK' /\ KeysOK'
    BY <2>1, <2>2 DEF DataInv, IdsOK, KeysOK
  <2>5. ASSUME NEW e \in BagToSet(tasks) PROVE DataCallOK(e)'
    <3>1. e \in DataCalls /\ DataCallOK(e)
      BY DEF DataInv, DataType, DataCallsOK
    <3> QED
      BY <2>1, <2>2, <2>3, <3>1, CallStays DEF DataInv
  <2> QED
    BY <2>1, <2>4, <2>5 DEF DataInv, DataType, DataCallsOK, OneCall, KeysOf
<1>2. CASE RestartData
  <2>1. /\ UNCHANGED <<data, lastIds, may>> /\ tasks' = EmptyBag /\ crossed' = crossed \cup Busy
        /\ indexed' \in Indexable
    BY <1>2 DEF RestartData
  <2>2. \A k : (RowsOf(k)' = RowsOf(k)) /\ (Several(k)' <=> Several(k)) /\ (SaysOne(k)' <=> SaysOne(k))
    BY <2>1 DEF RowsOf, Several, SaysOne, Says
  <2>3. indexed' \subseteq Tables /\ "product" \in indexed' /\ \A k \in DataKeys : Table(k) \in indexed' => ~Several(k)
    BY <2>1, OneRow DEF Indexable, DataInv, DataType
  <2>4. IsABag(tasks') /\ BagToSet(tasks') = {}
    BY <2>1, BagEmpty
  <2>5. IdsOK' /\ KeysOK'
    BY <2>1, <2>2, <2>3 DEF DataInv, IdsOK, KeysOK
  <2> QED
    BY <2>1, <2>3, <2>4, <2>5 DEF DataInv, DataType, DataCallsOK, OneCall
<1> QED
  BY <1>1, <1>2

\* The last id of a table.
LEMMA LastIdFound ==
    ASSUME data \subseteq DataRow, IsFiniteSet(data), NEW t \in Tables
    PROVE  LastIdPresent(t) \in Nat /\ \A r \in data : Table(r.key) = t => r.id <= LastIdPresent(t)
PROOF
<1> DEFINE T == {q \in data : Table(q.key) = t}
           S == {r.id : r \in T} \cup {0}
<1>1. IsFiniteSet(T)
  BY FS_Subset
<1>2. S \in SUBSET Nat /\ S # {}
  BY DEF DataRow
<1>3. IsFiniteSet(S)
  <2> DEFINE f == [r \in T |-> r.id]
             I == {r.id : r \in T}
  <2>1. f \in Surjection(T, I)
    BY DEF Surjection
  <2>2. IsFiniteSet(I)
    BY <1>1, <2>1, FS_Surjection
  <2> QED
    BY <2>2, FS_AddElement
<1>4. PICK m \in S : \A x \in S : x <= m
  BY <1>2, <1>3, FiniteMax DEF HasMax
<1>5. LastIdPresent(t) = CHOOSE x \in S : \A y \in S : x >= y
  BY DEF LastIdPresent, Max
<1>6. \A x, y \in S : x \in Nat /\ y \in Nat /\ (y <= x <=> x >= y)
  BY <1>2
<1>7. LastIdPresent(t) \in S /\ \A y \in S : LastIdPresent(t) >= y
  <2> HIDE DEF S
  <2> QED
    BY <1>4, <1>5, <1>6
<1> QED
  BY <1>2, <1>7

LEMMA DataStarts == DataInit => DataInv
PROOF
<1> SUFFICES ASSUME DataInit PROVE DataInv
  OBVIOUS
<1>1. /\ data \subseteq DataRow /\ IsFiniteSet(data)
      /\ \A r, q \in data : Table(r.key) = Table(q.key) /\ r.id = q.id => r = q
      /\ \A r \in data : r.id # 0
  BY DataAssumption DEF DataInit
<1>2. lastIds \in [Tables -> Nat] /\ \A r \in data : r.id # 0 /\ r.id <= lastIds[Table(r.key)]
  BY <1>1, LastIdFound, TableOf DEF DataInit, DataRow
<1>3. indexed \subseteq Tables /\ "product" \in indexed /\ \A k \in DataKeys : Table(k) \in indexed => ~Several(k)
  BY <1>1, OneRow DEF DataInit, Indexable
<1>4. IsABag(tasks) /\ BagToSet(tasks) = {}
  BY BagEmpty DEF DataInit
<1>5. may \in [DataKeys -> SUBSET Sayings]
  <2>1. \A k \in DataKeys : \A r \in RowsOf(k) : Says(r) \in [info : Fields, rest : Fields]
    BY <1>1 DEF RowsOf, Says, DataRow
  <2> QED
    BY <2>1 DEF DataInit, Sayings
<1>6. KeysOK
  <2>1. \A k \in DataKeys \ crossed : ~Several(k)
    <3> SUFFICES ASSUME NEW k \in DataKeys \ crossed PROVE Cardinality(RowsOf(k)) <= 1
      BY <1>1, OneRow
    <3>1. Cardinality(RowsOf(k)) \in Nat
      BY <1>1, FS_Subset, FS_CardinalityType DEF RowsOf
    <3> QED
      BY <3>1 DEF DataInit
  <2>2. \A k \in DataKeys : SaysOne(k)
    BY DEF DataInit, SaysOne
  <2> QED
    BY <2>1, <2>2 DEF KeysOK
<1> QED
  BY <1>1, <1>2, <1>3, <1>4, <1>5, <1>6 DEF DataInv, DataType, IdsOK, DataCallsOK, OneCall

\* DataAsAnswered: where the unique index is in place a key has one row; and it says what the
\* answers to its calls leave possible, unless they overlapped or were cut off, although
\* PutDeviceProfile and the others look a row up and write it by its id in two statements, next
\* to calls for other keys. For any keys, rows left by earlier processes, requests and faults.
THEOREM DataFollowsAnswers == DataSpec => []DataAsAnswered
PROOF
<1>1. DataInv /\ [DataNext]_dataVars => DataInv'
  BY MergeKeeps, LookUpKeeps, WriteKeeps, FindKeeps, DeleteKeeps, DataCallsBegin, DataProcesses DEF DataNext
<1>2. DataInv => DataAsAnswered
  <2> SUFFICES ASSUME DataInv, NEW k \in DataKeys, Table(k) \in indexed
               PROVE  /\ Cardinality(RowsOf(k)) <= 1
                      /\ k \notin crossed \cup Busy =>
                             (IF RowsOf(k) = {} THEN Unset ELSE Says(CHOOSE r \in RowsOf(k) : TRUE)) \in may[k]
    BY DEF DataAsAnswered
  <2>1. ~Several(k) /\ Cardinality(RowsOf(k)) <= 1
    BY OneRow DEF DataInv, IdsOK, DataType
  <2>2. k \notin crossed => SaysOne(k)
    BY <2>1 DEF DataInv, KeysOK
  <2> QED
    BY <2>1, <2>2 DEF SaysOne
<1> QED
  BY <1>1, <1>2, DataStarts, PTL DEF DataSpec
=============================================================================
