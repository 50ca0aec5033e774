----------------------------- MODULE ProfileData -----------------------------
(***************************************************************************)
(* ProfileDataManager and its DAOs: the tables device_profile, by device   *)
(* and user, product_info and device_icon_info.  A put looks its row up    *)
(* and then inserts it or updates the row by its id; only a statement is   *)
(* under a mutex.  The content sensor manager reads the row of this device *)
(* first and keeps what the cloud has put into it.                         *)
(***************************************************************************)
EXTENDS Integers, Sequences, FiniteSets, FiniteSetsExt, Bags

CONSTANTS
    DeviceKeys,      \* pairs of a device and a user
    ProductKeys,     \* product ids
    IconKeys,        \* product, sub-product, image type and name
    Unset,           \* no row; an empty field
    Fields,          \* what a field of a row may be
    Stored,          \* the tables that an earlier process may have left, sets of rows
    PutRequests,     \* batches of rows of one table
    CollectRequests, \* what the collectors find out of this device
    DeleteRequests,  \* batches of device keys
    MaxRequests,     \* bound: calls and deaths
    MaxDataFaults    \* bound: statements that fail

DataKeys == DeviceKeys \cup ProductKeys \cup IconKeys
Table(k) == CASE k \in DeviceKeys -> "device" [] k \in ProductKeys -> "product" [] k \in IconKeys -> "icon"
Tables == {"device", "product", "icon"}
DataItem == [key : DataKeys, info : Fields, rest : Fields]
DataRow == [id : Nat, key : DataKeys, info : Fields, rest : Fields]

\* A delete takes devices of one user. Ids and product ids are primary keys.
ASSUME DataAssumption ==
    /\ DeviceKeys \cap ProductKeys = {} /\ IconKeys \cap (DeviceKeys \cup ProductKeys) = {}
    /\ Unset \in Fields /\ Unset \notin [info : Fields, rest : Fields]
    /\ PutRequests \subseteq Seq(DataItem) \ {<<>>}
    /\ CollectRequests \subseteq {i \in DataItem : i.key \in DeviceKeys}
    /\ \A keys \in DeleteRequests :
           keys \in Seq(DeviceKeys) /\ \A i \in DOMAIN keys : <<keys[i][1], keys[1][2]>> \in DeviceKeys
    /\ \A rows \in Stored :
           /\ rows \subseteq DataRow /\ IsFiniteSet(rows) /\ \A r \in rows : r.id # 0
           /\ \A r, q \in rows : Table(r.key) = Table(q.key) /\ r.id = q.id => r = q
           /\ \A r, q \in rows : r.key \in ProductKeys /\ q.key = r.key => r = q
    /\ {MaxRequests, MaxDataFaults} \subseteq Nat

VARIABLES
    data,       \* the rows: id, key, info, and rest, which of a device comes from the
                \* cloud and of an icon is the internal model
    lastIds,    \* the last id of each table
    indexed,    \* the tables that have their unique index
    opened,     \* store_ of ProfileDataRdbAdapter, which the DAOs share
    tasks,      \* the calls under way, a bag
    may,        \* history: the rows that the answers for a key leave possible
    crossed,    \* history: keys with calls that overlapped or were cut off, or with two rows
    requests, dataFaults

dataVars == <<data, lastIds, indexed, opened, tasks, may, crossed, requests, dataFaults>>

RowsOf(k) == {r \in data : r.key = k}
Says(r) == [info |-> r.info, rest |-> r.rest]
Fails == dataFaults < MaxDataFaults /\ dataFaults' = dataFaults + 1
Asks == requests < MaxRequests /\ requests' = requests + 1

\* CreateTable and CreateIndex, whose failures are ignored; the product id is a primary key.
Indexable == {s \in SUBSET Tables :
                 "product" \in s /\ \A k \in DataKeys : Table(k) \in s => Cardinality(RowsOf(k)) <= 1}

LastIdPresent(t) == Max({r.id : r \in {q \in data : Table(q.key) = t}} \cup {0})

DataInit ==
    /\ data \in Stored /\ indexed \in Indexable /\ opened = TRUE
    /\ lastIds = [t \in Tables |-> LastIdPresent(t)]
    /\ tasks = EmptyBag /\ crossed = {k \in DataKeys : Cardinality(RowsOf(k)) > 1}
    /\ may = [k \in DataKeys |-> IF RowsOf(k) = {} THEN {Unset} ELSE {Says(r) : r \in RowsOf(k)}]
    /\ requests = 0 /\ dataFaults = 0

KeysOf(c) == DOMAIN c.leaves
Busy == UNION {KeysOf(c) : c \in BagToSet(tasks)}

\* What an item makes of its row; the collectors keep the rest of the row that they have read.
Puts(op, item, rows) ==
    CASE op = "put" -> {[info |-> item.info, rest |-> item.rest]}
      [] op = "collect" -> {[info |-> item.info, rest |-> IF r = Unset THEN Unset ELSE r.rest] : r \in rows}
      [] op = "delete" -> {Unset}
Leaves(op, items) ==
    [k \in {items[i].key : i \in DOMAIN items} |->
        may[k] \cup UNION {Puts(op, items[i], may[k] \cup {Unset}) : i \in {j \in DOMAIN items : items[j].key = k}}]

\* A batch has one answer. As long as it is sure to tell that all of the items are through,
\* each counts as it gets through; in doubt any of them is, or is not.
TellsAll(op, items) == ~(op = "put" /\ Table(items[1].key) = "device" /\ Len(items) > 1)
Through(c, k, rows) == may' = IF c.sure THEN [may EXCEPT ![k] = rows] ELSE may
Doubt(c) == may' = [k \in DataKeys |-> IF k \in KeysOf(c) THEN may[k] \cup c.leaves[k] ELSE may[k]]

Ask(op, pc, items) ==
    LET c == [op |-> op, pc |-> pc, items |-> items, found |-> {},
              leaves |-> Leaves(op, items), sure |-> TellsAll(op, items)]
    IN /\ Asks
       /\ tasks' = tasks (+) SetToBag({c})
       /\ crossed' = crossed \cup (KeysOf(c) \cap Busy)
       /\ IF c.sure THEN UNCHANGED may ELSE Doubt(c)
       /\ UNCHANGED <<data, lastIds, indexed, opened, dataFaults>>

\* PutDeviceProfileBatch, PutProductInfoBatch and PutDeviceIconInfoBatch; the collectors' put.
PutBatch(items) == Ask("put", "look", items)
CollectInfoToProfileData(item) == Ask("collect", "merge", <<item>>)
\* The user of the first profile counts for all.
DeleteDeviceProfileBatch(keys) ==
    Ask("delete", "find", [i \in DOMAIN keys |-> [key |-> <<keys[i][1], keys[1][2]>>]])

TaskEnds(c) == tasks' = tasks (-) SetToBag({c})
TaskGoes(c, d) == tasks' = tasks (-) SetToBag({c}) (+) SetToBag({d})

\* The first item is done with: a batch of devices goes on after a failure and answers that it
\* succeeded if one of them has; the others stop and answer that they failed.
ItemEnds(c, ok) ==
    LET left == Tail(c.items)
    IN IF left = <<>> \/ (~ok /\ Table(c.items[1].key) # "device") THEN TaskEnds(c)
       ELSE TaskGoes(c, [c EXCEPT !.items = left, !.pc = "look", !.found = {}, !.sure = ok /\ @])

\* MUTANT: the collectors write without what the cloud has put.
MergeNothing(c) ==
    /\ c.pc = "merge" /\ opened /\ TaskGoes(c, [c EXCEPT !.pc = "look"])
    /\ UNCHANGED <<data, lastIds, indexed, opened, may, crossed, requests, dataFaults>>
\* GetDeviceProfiles of the DAO answers that there is no row when its result set fails; the
\* collectors then go on and put the row without what the cloud has put.
Merge(c) ==
    /\ c.pc = "merge"
    /\ LET rests == {r.rest : r \in RowsOf(c.items[1].key)}
           Goes(rest, sure) == TaskGoes(c, [c EXCEPT !.pc = "look", !.items[1].rest = rest, !.sure = sure])
       IN \/ /\ opened /\ UNCHANGED <<may, dataFaults>>
             /\ \E rest \in IF rests = {} THEN {Unset} ELSE rests : Goes(rest, TRUE)
          \/ /\ opened /\ rests # {} /\ Fails
             /\ Goes(Unset, FALSE) /\ Doubt(c)
          \/ /\ IF opened THEN Fails ELSE UNCHANGED dataFaults
             /\ TaskEnds(c) /\ Doubt(c)
    /\ UNCHANGED <<data, lastIds, indexed, opened, crossed, requests>>

\* The look-up before a put; that of an icon asks for an empty internal model. A result set
\* that fails is no row, or a row of defaults: its id is 0, which no row has; a device is then
\* inserted, a product updated by its product id, and the update of an icon meets no row.
Matches(k) == {r \in RowsOf(k) : Table(k) = "icon" => r.rest = Unset}
Blank(k) == [id |-> 0, key |-> k, info |-> Unset, rest |-> Unset]
LookUpRow(c) ==
    /\ c.pc = "look"
    /\ LET k == c.items[1].key
           found == Matches(k)
           Goes(first, sure) == TaskGoes(c, [c EXCEPT !.pc = "write", !.found = first, !.sure = sure])
       IN \/ /\ opened /\ UNCHANGED <<may, dataFaults>>
             /\ \E first \in IF found = {} THEN {{}} ELSE {{r} : r \in found} : Goes(first, c.sure)
          \/ /\ opened /\ found # {} /\ Fails
             /\ \E first \in {{}} \cup (IF Table(k) = "icon" THEN {{Blank(k)}} ELSE {}) : Goes(first, FALSE)
             /\ Doubt(c)
          \/ /\ IF opened THEN Fails ELSE UNCHANGED dataFaults
             /\ ItemEnds(c, FALSE) /\ Doubt(c)
    /\ UNCHANGED <<data, lastIds, indexed, opened, crossed, requests>>

\* AUTOINCREMENT.
LastId(t) == lastIds[t]

\* A statement finds rows by their id, whatever they say now.
Same(r, found) == \E f \in found : Table(r.key) = Table(f.key) /\ r.id = f.id

\* Insert and Update of the DAOs; an insert is read again, which may fail after the row is
\* there, and an update that meets no row any more is a success.
Refused(c) == c.found = {} /\ Table(c.items[1].key) \in indexed /\ RowsOf(c.items[1].key) # {}
Insert(c) ==
    LET i == c.items[1]  t == Table(i.key)
    IN /\ data' = data \cup {[id |-> LastId(t) + 1, key |-> i.key, info |-> i.info, rest |-> i.rest]}
       /\ lastIds' = [lastIds EXCEPT ![t] = LastId(t) + 1]
       /\ crossed' = IF RowsOf(i.key) = {} THEN crossed ELSE crossed \cup {i.key}
Update(c) ==
    LET i == c.items[1]
        old == {r \in data : Same(r, c.found)}
    IN /\ data' = (data \ old) \cup {[id |-> r.id, key |-> i.key, info |-> i.info, rest |-> i.rest] : r \in old}
       /\ UNCHANGED <<lastIds, crossed>>
WriteRow(c) ==
    /\ c.pc = "write"
    /\ LET i == c.items[1]
       IN \/ /\ opened
             /\ IF c.found = {} THEN ~Refused(c) /\ Insert(c) ELSE Update(c)
             /\ \/ ItemEnds(c, TRUE) /\ Through(c, i.key, Puts(c.op, i, may[i.key])) /\ UNCHANGED dataFaults
                \/ c.found = {} /\ Table(i.key) = "device" /\ Fails /\ ItemEnds(c, FALSE) /\ Doubt(c)
          \/ /\ IF opened /\ ~Refused(c) THEN Fails ELSE UNCHANGED dataFaults
             /\ ItemEnds(c, FALSE) /\ Doubt(c) /\ UNCHANGED <<data, lastIds, crossed>>
    /\ UNCHANGED <<indexed, opened, requests>>

\* A delete that finds no row is an error; a result set that fails has some of the rows, and the
\* delete of these alone is a success.
FindRows(c) ==
    /\ c.pc = "find"
    /\ LET found == UNION {RowsOf(k) : k \in KeysOf(c)}
           Goes(some, sure) == TaskGoes(c, [c EXCEPT !.pc = "delete", !.found = some, !.sure = sure])
       IN \/ opened /\ found # {} /\ UNCHANGED <<may, dataFaults>> /\ Goes(found, TRUE)
          \/ /\ opened /\ Fails
             /\ \E some \in (SUBSET found) \ {{}, found} : Goes(some, FALSE)
             /\ Doubt(c)
          \/ /\ IF opened /\ found # {} THEN Fails ELSE UNCHANGED dataFaults
             /\ TaskEnds(c) /\ Doubt(c)
    /\ UNCHANGED <<data, lastIds, indexed, opened, crossed, requests>>

\* DeleteDeviceProfile for each row found, also after one has failed.
DeleteRow(c) ==
    /\ c.pc = "delete"
    /\ \E row \in c.found :
        LET Goes(ok) == IF c.found = {row} THEN TaskEnds(c)
                        ELSE TaskGoes(c, [c EXCEPT !.found = @ \ {row}, !.sure = ok /\ @])
        IN \/ /\ opened /\ data' = {r \in data : ~Same(r, {row})}
              /\ Goes(TRUE) /\ Through(c, row.key, {Unset}) /\ UNCHANGED dataFaults
           \/ /\ IF opened THEN Fails ELSE UNCHANGED dataFaults
              /\ Goes(FALSE) /\ Doubt(c) /\ UNCHANGED data
    /\ UNCHANGED <<lastIds, indexed, opened, crossed, requests>>

\* UnInit at OnStop, in which the first DAO closes the store of all; the next process.
CloseData ==
    /\ Asks /\ opened /\ opened' = FALSE
    /\ UNCHANGED <<data, lastIds, indexed, tasks, may, crossed, dataFaults>>
RestartData ==
    /\ Asks /\ opened' = TRUE /\ indexed' \in {s \in Indexable : indexed \subseteq s}
    /\ tasks' = EmptyBag /\ crossed' = crossed \cup Busy
    /\ UNCHANGED <<data, lastIds, may, dataFaults>>

DataNext ==
    \/ \E items \in PutRequests : PutBatch(items)
    \/ \E item \in CollectRequests : CollectInfoToProfileData(item)
    \/ \E keys \in DeleteRequests : DeleteDeviceProfileBatch(keys)
    \/ \E c \in BagToSet(tasks) : Merge(c) \/ LookUpRow(c) \/ WriteRow(c) \/ FindRows(c) \/ DeleteRow(c)
    \/ CloseData \/ RestartData

DataSpec == DataInit /\ [][DataNext]_dataVars

-----------------------------------------------------------------------------
\* In a table with its unique index no key has two rows; and a key whose calls never
\* overlapped has the row that the answers given for it leave possible, with what the cloud had
\* put where a collector has written since, although rows are looked up and then written by
\* their id outside the mutex, next to calls for other keys: a stale id never hits the row
\* of another device. A batch of devices that succeeded tells that one of them is written, a
\* batch that failed and a read that fell short tell nothing: then a row is as it was, or as asked.
DataAsAnswered ==
    \A k \in DataKeys : Table(k) \in indexed =>
        /\ Cardinality(RowsOf(k)) <= 1
        /\ k \notin crossed \cup Busy =>
               (IF RowsOf(k) = {} THEN Unset ELSE Says(CHOOSE r \in RowsOf(k) : TRUE)) \in may[k]
=============================================================================
