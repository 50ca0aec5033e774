----------------------------- MODULE LocalStores -----------------------------
(***************************************************************************)
(* What stays on this device: the table of local service infos with the    *)
(* subscribers of their PIN codes (LocalServiceInfoManager), the business  *)
(* events with their callbacks (BusinessEventManager), and the session     *)
(* keys of SessionKeys.  A call looks a row up, writes it and posts what   *)
(* it has to tell to the one event handler in critical sections of their   *)
(* own; the event handler calls back in the order of the posts.            *)
(***************************************************************************)
EXTENDS SessionKeys, SequencesExt

CONSTANTS
    Services,      \* pairs of a bundle name and a PIN exchange type
    Infos,         \* what a row may say
    InvalidInfos,  \* those of them whose PIN is INVALID_PINCODE
    PinClients,    \* subscribers of PIN codes
    BusinessKeys,  \* validKeys_
    BusinessValues,
    SaIds,         \* the system abilities that register business callbacks
    MaxCallbacks   \* MAX_CALLBACK_LEN

ASSUME LocalStoresAssumption ==
    /\ InvalidInfos \subseteq Infos /\ None \notin Infos \cup BusinessValues \cup Secrets
    /\ Services \cap BusinessKeys = {} /\ None \notin PinClients \cup SaIds
    /\ MaxCallbacks \in Nat /\ MaxEvents \in Nat /\ MaxFaults \in Nat

VARIABLES
    table,      \* local_service_info: no table, one without the unique index, one with it
    rows,       \* the rows of each service
    pins,       \* pinCodeCallbackMap_
    business,   \* dp_kv_store_business
    kvAlive,    \* the KV service that kvStorePtr_ refers to
    callbacks,  \* businessCallbackMap_
    calls,      \* the calls under way, a bag
    queue,      \* the event handler
    heard,      \* what each subscriber of a key read when it subscribed or heard since
    stale,      \* history: who has subscribed again with a callback that a task still has
    acked,      \* history: what the answers leave possible for the row of a service
    overlapped  \* history: keys with calls that overlapped, were cut off or not announced

storeVars == <<table, rows, pins, business, kvAlive, callbacks, calls, queue, heard, stale, acked, overlapped>>
vars == <<keyVars, storeVars, events, faults>>
answers == <<acked, overlapped>>
posts == <<queue, stale>>

StoreKeys == Services \cup BusinessKeys
Listeners == PinClients \cup SaIds
Row(s) == IF rows[s] = <<>> THEN None ELSE rows[s][1]

\* CreateTable and CreateIndex: their failures are ignored, and rows that are there twice
\* cannot be indexed.
Created == {t \in {"none", "bare", "indexed"} :
               /\ t = "none" => \A s \in Services : rows[s] = <<>>
               /\ t = "indexed" => \A s \in Services : Len(rows[s]) <= 1}

Init ==
    /\ SessionKeysInit /\ events = 0 /\ faults = 0
    /\ rows = [s \in Services |-> <<>>] /\ table \in Created
    /\ pins = [s \in Services |-> None]
    /\ business = [k \in BusinessKeys |-> None] /\ kvAlive = TRUE /\ callbacks = {}
    /\ calls = EmptyBag /\ queue = <<>> /\ stale = {}
    /\ heard = [l \in Listeners |-> [k \in StoreKeys |-> None]]
    /\ acked = [s \in Services |-> {None}] /\ overlapped = {}

Active == {c.key : c \in BagToSet(calls)}
Call(op, pc, key, v) ==
    /\ Count
    /\ calls' = calls (+) SetToBag({[op |-> op, pc |-> pc, key |-> key, value |-> v]})
    /\ overlapped' = overlapped \cup ({key} \cap Active)
    /\ UNCHANGED <<keyVars, table, rows, pins, business, kvAlive, callbacks, posts, heard, acked, faults>>

PutLocalServiceInfo(s, v) == Call("put", "look", s, v)
UpdateLocalServiceInfo(s, v) == Call("update", "look", s, v)
DeleteLocalServiceInfo(s) == Call("delete", "look", s, None)
PutBusinessEvent(k, v) == Call("event", "store", k, v)

Without(c) == calls (-) SetToBag({c})
Ends(c) == calls' = Without(c)
Goes(c, pc) == calls' = Without(c) (+) SetToBag({[c EXCEPT !.pc = pc]})
Acked(s, possible) == acked' = [acked EXCEPT ![s] = possible]

(***************************************************************************)
(* Local service infos.                                                    *)
(***************************************************************************)
\* MUTANT: an update does not look.
LookUpUnlessUpdate(c) ==
    /\ c.pc = "look"
    /\ IF c.op = "update" \/ (c.op = "put" <=> Row(c.key) = None) THEN Goes(c, "write") ELSE Ends(c)
    /\ UNCHANGED <<keyVars, table, rows, pins, business, kvAlive, callbacks, posts, heard, answers,
                   events, faults>>
\* GetLocalServiceInfoByBundleAndPinType and what the calls make of it: a put goes on after
\* any error, the others only with a row, and nothing to delete is a success.  A read that
\* fails is an error, or is taken for no row when it is the result set that fails; a delete
\* then answers that it succeeded, with the row still there.
LookUp(c) ==
    /\ c.pc = "look"
    /\ \/ /\ Row(c.key) # None
          /\ IF c.op = "put" THEN Ends(c) ELSE Goes(c, "write")
          /\ UNCHANGED <<acked, faults>>
       \/ /\ Row(c.key) = None
          /\ IF c.op = "put" THEN Goes(c, "write") ELSE Ends(c)
          /\ IF c.op = "delete" THEN Acked(c.key, {None}) ELSE UNCHANGED acked
          /\ UNCHANGED faults
       \/ /\ Fault
          /\ IF c.op = "put" THEN Goes(c, "write") ELSE Ends(c)
          /\ \/ UNCHANGED acked
             \/ c.op = "delete" /\ Acked(c.key, acked[c.key] \cup {None})
    /\ UNCHANGED <<keyVars, table, rows, pins, business, kvAlive, callbacks, posts, heard,
                   overlapped, events>>

\* The insert, the update, which may meet no row any more, or the delete.
Insertable(s) == table = "bare" \/ (table = "indexed" /\ rows[s] = <<>>)
Written(c) == CASE c.op = "put" -> Append(rows[c.key], c.value)
                [] c.op = "update" -> [i \in DOMAIN rows[c.key] |-> c.value]
                [] c.op = "delete" -> <<>>
Write(c) ==
    /\ c.pc = "write"
    /\ \/ /\ c.op = "put" => Insertable(c.key)
          /\ rows' = [rows EXCEPT ![c.key] = Written(c)] /\ Acked(c.key, {c.value})
          /\ IF c.value \in InvalidInfos THEN Goes(c, "tell") ELSE Ends(c)
          /\ UNCHANGED faults
       \/ /\ IF c.op = "put" /\ ~Insertable(c.key) THEN UNCHANGED faults ELSE Fault
          /\ Ends(c) /\ UNCHANGED <<rows, acked>>
    /\ UNCHANGED <<keyVars, table, pins, business, kvAlive, callbacks, posts, heard, overlapped, events>>

\* A subscriber reads what is stored.  The tasks that are queued for an earlier subscription
\* of his have another callback object, or the same one and he will hear of them.
For(l, key) == {i \in DOMAIN queue : queue[i].to = l /\ queue[i].key = key}
Subscribes(l, key, value) ==
    /\ heard' = [heard EXCEPT ![l][key] = value]
    /\ \/ /\ queue' = [i \in DOMAIN queue |-> IF i \in For(l, key) THEN [queue[i] EXCEPT !.to = None] ELSE queue[i]]
          /\ stale' = stale \ {<<l, key>>}
       \/ /\ For(l, key) # {} /\ stale' = stale \cup {<<l, key>>} /\ UNCHANGED queue

\* SubscribePinCodeInvalid: the later one of two subscribers of a service replaces the
\* first; one more than MAX_CALLBACK_LEN fits, and then none is replaced either.
SubscribePinCodeInvalid(l, s) ==
    /\ Count /\ Cardinality({t \in Services : pins[t] # None}) <= MaxCallbacks
    /\ pins' = [pins EXCEPT ![s] = l] /\ Subscribes(l, s, Row(s))
    /\ UNCHANGED <<keyVars, table, rows, business, kvAlive, callbacks, calls, answers, faults>>

UnSubscribePinCodeInvalid(s) ==
    /\ Count /\ pins' = [pins EXCEPT ![s] = None]
    /\ UNCHANGED <<keyVars, table, rows, business, kvAlive, callbacks, calls, posts, heard, answers, faults>>

(***************************************************************************)
(* Business events.                                                        *)
(***************************************************************************)
\* BusinessEventManager::PutBusinessEvent.  KvDeathRecipient opens another store when the
\* KV service has died, so this one fails until the process is started again.
StoreEvent(c) ==
    /\ c.pc = "store"
    /\ \/ /\ kvAlive /\ business' = [business EXCEPT ![c.key] = c.value]
          /\ Goes(c, "tell") /\ UNCHANGED faults
       \/ /\ IF kvAlive THEN Fault ELSE UNCHANGED faults
          /\ Ends(c) /\ UNCHANGED business
    /\ UNCHANGED <<keyVars, table, rows, pins, kvAlive, callbacks, posts, heard, answers, events>>

RegisterBusinessCallback(l, k) ==
    /\ Count /\ <<l, k>> \notin callbacks /\ Cardinality(callbacks) <= MaxCallbacks
    /\ callbacks' = callbacks \cup {<<l, k>>} /\ Subscribes(l, k, business[k])
    /\ UNCHANGED <<keyVars, table, rows, pins, business, kvAlive, calls, answers, faults>>

UnRegisterBusinessCallback(l, k) ==
    /\ Count /\ <<l, k>> \in callbacks
    /\ callbacks' = callbacks \ {<<l, k>>}
    /\ UNCHANGED <<keyVars, table, rows, pins, business, kvAlive, calls, posts, heard, answers, faults>>

(***************************************************************************)
(* The event handler.                                                      *)
(***************************************************************************)
Told(key) == IF key \in Services THEN {pins[key]} \ {None} ELSE {p[1] : p \in {q \in callbacks : q[2] = key}}
Tasks(c) == {[to |-> l, key |-> c.key, value |-> c.value] : l \in Told(c.key)}

\* MUTANT: a second subscriber of an event is taken for told.
NotifyFirst(c) ==
    /\ c.pc = "tell" /\ Ends(c)
    /\ queue' = IF Tasks(c) = {} THEN queue ELSE Append(queue, SetToSeq(Tasks(c))[1])
    /\ UNCHANGED <<keyVars, table, rows, pins, business, kvAlive, callbacks, heard, stale, answers, events, faults>>
\* NotifyPinCodeInvalid and NotifyBusinessEvent: who is subscribed now.  A task that cannot
\* be posted is dropped, and the call is a success all the same.
Notify(c) ==
    /\ c.pc = "tell" /\ Ends(c)
    /\ \/ /\ queue' = queue \o SetToSeq(Tasks(c)) /\ UNCHANGED <<overlapped, faults>>
       \/ /\ Fault /\ overlapped' = overlapped \cup {c.key}
          /\ \E dropped \in (SUBSET Tasks(c)) \ {{}} : queue' = queue \o SetToSeq(Tasks(c) \ dropped)
    /\ UNCHANGED <<keyVars, table, rows, pins, business, kvAlive, callbacks, heard, stale, acked, events>>

\* OnPincodeInvalid, OnBusinessEvent.
Deliver ==
    /\ queue # <<>> /\ queue' = Tail(queue)
    /\ heard' = IF Head(queue).to = None THEN heard
                ELSE [heard EXCEPT ![Head(queue).to][Head(queue).key] = Head(queue).value]
    /\ UNCHANGED <<keyVars, table, rows, pins, business, kvAlive, callbacks, calls, stale, answers, events, faults>>

KvDies ==
    /\ Count /\ kvAlive /\ kvAlive' = FALSE
    /\ UNCHANGED <<keyVars, table, rows, pins, business, callbacks, calls, posts, heard, answers, faults>>

\* The process dies and is started again: the stores are left, and all else is gone.
Restart ==
    /\ Count /\ table' \in Created /\ kvAlive' = TRUE
    /\ table # "none" => table' # "none"
    /\ table = "indexed" => table' = "indexed"
    /\ pins' = [s \in Services |-> None] /\ callbacks' = {}
    /\ calls' = EmptyBag /\ adding' = EmptyBag /\ queue' = <<>> /\ stale' = {}
    /\ overlapped' = overlapped \cup Active
    /\ UNCHANGED <<assets, parties, clashes, rows, business, heard, acked, faults>>

StoreNext ==
    \/ \E s \in Services, v \in Infos : PutLocalServiceInfo(s, v) \/ UpdateLocalServiceInfo(s, v)
    \/ \E s \in Services : DeleteLocalServiceInfo(s) \/ UnSubscribePinCodeInvalid(s)
    \/ \E l \in PinClients, s \in Services : SubscribePinCodeInvalid(l, s)
    \/ \E k \in BusinessKeys, v \in BusinessValues : PutBusinessEvent(k, v)
    \/ \E l \in SaIds, k \in BusinessKeys :
           RegisterBusinessCallback(l, k) \/ UnRegisterBusinessCallback(l, k)
    \/ \E c \in BagToSet(calls) : LookUp(c) \/ Write(c) \/ StoreEvent(c) \/ Notify(c)
    \/ Deliver \/ KvDies \/ Restart

Next == StoreNext \/ (SessionKeysNext /\ UNCHANGED storeVars)
LocalStoresSpec == Init /\ [][Next]_vars

-----------------------------------------------------------------------------
(***************************************************************************)
(* Properties                                                              *)
(***************************************************************************)
\* In a table with its unique index no service has two rows, however the look-ups and
\* inserts of LocalServiceInfoManager overlap and fail; and a service whose calls never
\* overlapped has the row that its last successful put or update stated, or none after a
\* delete, also when other calls fail in between and the process is started again.  After a
\* delete that took a failing result set for no row, either is possible.  (A put that cannot
\* read the table inserts a second row where CreateIndex has failed.)
RowsAsAnswered ==
    \A s \in Services : table = "indexed" =>
        /\ Len(rows[s]) <= 1
        /\ s \notin overlapped \cup Active => Row(s) \in acked[s]

\* Once the event handler is through, a subscriber that read the value when it subscribed
\* and follows its callbacks knows the last event of a business key, and knows of an
\* invalid PIN: PutLocalServiceInfo, UpdateLocalServiceInfo and PutBusinessEvent write,
\* unlock, and only then look for whom to tell.  (Who subscribes again with the same
\* callback while a task with it is queued may hear of the older value last.)
HeardAsStored ==
    LET settled == StoreKeys \ (overlapped \cup Active \cup {queue[i].key : i \in DOMAIN queue})
    IN /\ \A p \in callbacks \ stale : p[2] \in settled => heard[p[1]][p[2]] = business[p[2]]
       /\ \A s \in Services \cap settled :
              table = "indexed" /\ pins[s] # None /\ <<pins[s], s>> \notin stale /\ Row(s) \in InvalidInfos
                  => heard[pins[s]][s] = Row(s)
=============================================================================
