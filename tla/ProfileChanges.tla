--------------------------- MODULE ProfileChanges ---------------------------
(***************************************************************************)
(* What subscribers hear of the dynamic profiles.  The KV layer announces  *)
(* which names were inserted, updated and deleted; KvDataChangeListener    *)
(* reads their values, leaves out a plain name whose OH name is stored as  *)
(* well, and has SubscribeProfileManager call the subscribers.  A profile  *)
(* is stored under a plain name, under one with the OH suffix, or both;    *)
(* subscribers know it by one key, and readers see the OH name first.      *)
(***************************************************************************)
EXTENDS Sequences, Subscriptions

CONSTANTS
    CharKeys,     \* the keys among SubKeys that are characteristics
    DataValues,
    Batches,      \* what is written at a time: functions from names to values
    Gone          \* what a subscriber hears of a deletion

Names == SubKeys \X {"plain", "oh"}
Kinds == <<"add", "update", "delete">>
ASSUME ChangesAssumption ==
    /\ CharKeys \subseteq SubKeys /\ None \notin DataValues /\ Gone \notin DataValues
    /\ \A i \in 1 .. 3 : Kinds[i] \in ChangeTypes
    /\ \A b \in Batches : DOMAIN b \subseteq Names
                          /\ \A n \in DOMAIN b : b[n] \in DataValues \cup {None}

VARIABLES
    data,    \* the dynamic profiles in the KV layer, None where there is none
    changes, \* announcements that are to come, oldest first
    change,  \* the one that is under way
    missed   \* history: keys with a change that no listener was there to hear

dataVars == <<data, changes, change, missed>>

NoChange == [pc |-> "idle", kind |-> 1, names |-> [k \in 1 .. 3 |-> {}], recs |-> <<>>]

ChangesInit ==
    /\ data = [n \in Names |-> None]
    /\ changes = <<>> /\ change = NoChange /\ missed = {}
    /\ SubscriptionsInit

\* A write, of this device or by a synchronisation.  The observer of the store
\* hears of it while it is registered.
KvWrite(b, registered) ==
    LET changed == {n \in DOMAIN b : data[n] # b[n]}
        ins == {n \in changed : data[n] = None}
        del == {n \in changed : b[n] = None}
    IN /\ changed # {}
       /\ data' = [n \in Names |-> IF n \in changed THEN b[n] ELSE data[n]]
       /\ IF registered
          THEN /\ changes' = Append(changes, <<ins, changed \ (ins \cup del), del>>)
               /\ UNCHANGED missed
          ELSE /\ missed' = missed \cup {n[1] : n \in changed}
               /\ UNCHANGED changes
       /\ UNCHANGED <<change, subVars>>

\* GetEntriesByKeys: what is stored now, and nothing while the store is closed.
GetEntriesByKeys(names, open) ==
    LET found == IF open THEN {n \in names : data[n] # None} ELSE {}
    IN [n \in found |-> data[n]]

\* What comes next of an announcement: the inserted, the updated, the deleted names.
NextKind(c) == IF c.kind = 3 THEN NoChange
               ELSE [c EXCEPT !.kind = @ + 1, !.pc = "read", !.recs = <<>>]

OnChange ==
    /\ change = NoChange /\ changes # <<>>
    /\ change' = [NoChange EXCEPT !.pc = "read", !.names = Head(changes)]
    /\ changes' = Tail(changes)
    /\ UNCHANGED <<data, missed, subVars>>

\* The values of inserted and updated names are read; deleted ones have none.
ReadRecords(open) ==
    /\ change.pc = "read"
    /\ LET names == change.names[change.kind]
           recs == IF Kinds[change.kind] = "delete" THEN [n \in names |-> Gone]
                   ELSE GetEntriesByKeys(names, open)
       IN /\ change' = IF recs = <<>> THEN NextKind(change)
                       ELSE [change EXCEPT !.pc = "handle", !.recs = recs]
          /\ missed' = IF open THEN missed ELSE missed \cup {n[1] : n \in names}
    /\ UNCHANGED <<data, changes, subVars>>

\* FilterEntries: no plain name together with its OH name, nor, unless it is
\* deleted, one whose OH name is stored; characteristics are not looked up.
Paired(recs) == {n \in DOMAIN recs : n[2] = "plain" /\ <<n[1], "oh">> \in DOMAIN recs}
FilterPairs(recs, kind, open) == DOMAIN recs \ Paired(recs)
FilterEntries(recs, kind, open) ==
    LET stored == {n \in DOMAIN recs :
                      /\ n[2] = "plain" /\ n[1] \notin CharKeys /\ kind # "delete"
                      /\ <<n[1], "oh">> \in DOMAIN GetEntriesByKeys({<<n[1], "oh">>}, open)}
    IN DOMAIN recs \ (Paired(recs) \cup stored)

\* HandleAddChange, HandleUpdateChange and HandleDeleteChange: the subscribers of
\* each entry that is left are called, by the kind of the profile and the change.
NotifyEntries(names, recs, kind) ==
    told' = [s \in Subscribers |-> [k \in SubKeys |->
                IF kind \in subs[k][s] /\ \E n \in names : n[1] = k
                THEN recs[CHOOSE n \in names : n[1] = k] ELSE told[s][k]]]

HandleChange(open) ==
    /\ change.pc = "handle"
    /\ LET kind == Kinds[change.kind]
       IN NotifyEntries(FilterEntries(change.recs, kind, open), change.recs, kind)
    /\ change' = NextKind(change)
    /\ missed' = IF open THEN missed ELSE missed \cup {n[1] : n \in DOMAIN change.recs}
    /\ UNCHANGED <<data, changes, subs>>

ChangesTypeOK ==
    /\ data \in [Names -> DataValues \cup {None}]
    /\ change.pc \in {"idle", "read", "handle"} /\ change.kind \in 1 .. 3
    /\ DOMAIN change.recs \subseteq Names /\ missed \subseteq SubKeys
    /\ subs \in [SubKeys -> [Subscribers -> SUBSET ChangeTypes]]
    /\ told \in [Subscribers -> [SubKeys -> DataValues \cup {Gone, None}]]

\* A reader sees the OH name first.
Visible(k) == IF data[<<k, "oh">>] # None THEN data[<<k, "oh">>] ELSE data[<<k, "plain">>]

\* When every announcement has been handled, a subscriber that heard a value last
\* heard the one a reader gets, unless changes came while no listener was
\* registered.  What it heard of a deletion may be of one of the two names only.
ToldVisible ==
    (changes = <<>> /\ change = NoChange) =>
        \A s \in Subscribers, k \in SubKeys \ (CharKeys \cup missed) :
            told[s][k] \in DataValues => told[s][k] = Visible(k)
=============================================================================
