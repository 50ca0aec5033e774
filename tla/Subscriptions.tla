---------------------------- MODULE Subscriptions ----------------------------
(***************************************************************************)
(* SubscribeProfileManager: which system abilities subscribe to which keys *)
(* of the KV layer and to which kinds of change, and what each heard last. *)
(***************************************************************************)
EXTENDS Naturals, FiniteSets

CONSTANTS
    Subscribers,  \* system abilities
    SubKeys,      \* the keys they subscribe to
    ChangeTypes,  \* the kinds of change they may ask for
    MaxListeners, \* MAX_LISTENER_SIZE
    None

VARIABLES
    subs,  \* subscribeInfoMap_: the kinds each subscriber of a key asks for
    told   \* what each subscriber heard last of a key

subVars == <<subs, told>>
Nobody == [s \in Subscribers |-> {}]
SubscribersOf(k) == {s \in Subscribers : subs[k][s] # {}}

SubscriptionsInit ==
    /\ subs = [k \in SubKeys |-> Nobody]
    /\ told = [s \in Subscribers |-> [k \in SubKeys |-> None]]

\* One more than MAX_LISTENER_SIZE fits, of keys and of subscribers of a key; a
\* second subscription of a subscriber replaces the first.
SubscribeDeviceProfile(s, k, types) ==
    /\ Cardinality({j \in SubKeys : SubscribersOf(j) # {}}) <= MaxListeners
    /\ Cardinality(SubscribersOf(k)) <= MaxListeners
    /\ subs' = [subs EXCEPT ![k][s] = types]
    /\ UNCHANGED told

UnSubscribeDeviceProfile(s, k) ==
    /\ subs' = [subs EXCEPT ![k][s] = {}]
    /\ told' = [told EXCEPT ![s][k] = None]

\* The subscribers of a key are copied, and those that ask for the kind are called.
NotifyProfileChange(kind, k, val) ==
    told' = [s \in Subscribers |-> [j \in SubKeys |->
                IF j = k /\ kind \in subs[j][s] THEN val ELSE told[s][j]]]
=============================================================================
