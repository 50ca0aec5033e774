----------------------------- MODULE SessionKeys -----------------------------
(***************************************************************************)
(* SessionKeyManager: keys in the asset store under a user and an id.  The *)
(* id is drawn at random and checked against the ids that the parties of   *)
(* ACLs carry; a client then puts it into an ACL, and a key that is asked  *)
(* for by its id alone is found through the user of such a party.          *)
(***************************************************************************)
EXTENDS Integers, FiniteSets, Bags

CONSTANTS
    Users, Ids, Secrets, None,
    MaxEvents,  \* bound: calls, deaths
    MaxFaults   \* bound: operations of a store or of the event handler that fail

VARIABLES
    assets,   \* the asset store: a secret for each user and id, or None
    parties,  \* the rows of the accesser and the accessee table that carry an id
    adding,   \* the calls that have drawn an id and not yet stored the key
    clashes,  \* history: ids that came to stand for the keys of two users, or twice for one
    events, faults

keyVars == <<assets, parties, adding, clashes>>
Roles == {"accesser", "accessee"}
Count == events < MaxEvents /\ events' = events + 1
Fault == faults < MaxFaults /\ faults' = faults + 1

SessionKeysInit ==
    /\ assets = [u \in Users |-> [i \in Ids |-> None]]
    /\ parties = {} /\ adding = EmptyBag /\ clashes = {}

Carriers(id) == {p \in parties : p.id = id}
Holders(id) == {u \in Users : assets[u][id] # None} \cup {p.user : p \in {q \in BagToSet(adding) : q.id = id}}

\* MUTANT: the table of the accessees is forgotten.
CheckAccesserOnly(id) == \E p \in Carriers(id) : p.role = "accesser"
CheckSessionKeyIdExists(id) == Carriers(id) # {}

\* The rows of the accessers come first; of several rows the last one counts.
GetUserIdBySessionKeyId(id) ==
    LET accessers == {p \in Carriers(id) : p.role = "accesser"}
    IN {p.user : p \in IF accessers # {} THEN accessers ELSE Carriers(id)}

\* What a client may be given for an id; None is an error.
GetSessionKey(id) ==
    LET users == GetUserIdBySessionKeyId(id)
    IN IF users = {} THEN {None} ELSE {assets[u][id] : u \in users}

\* PutSessionKey up to GeneratedSessionKeyId: a read that fails finds no such id.
GeneratedSessionKeyId(u, id, s) ==
    /\ Count
    /\ IF CheckSessionKeyIdExists(id) THEN Fault ELSE UNCHANGED faults
    /\ adding' = adding (+) SetToBag({[user |-> u, id |-> id, secret |-> s]})
    /\ clashes' = IF Holders(id) # {} \/ CheckSessionKeyIdExists(id) THEN clashes \cup {id} ELSE clashes \ {id}
    /\ UNCHANGED <<assets, parties>>

\* The rest of it: AssetAdd refuses an id that the user has already.
PutSessionKey(a) ==
    /\ adding' = adding (-) SetToBag({a})
    /\ \/ /\ assets[a.user][a.id] = None
          /\ assets' = [assets EXCEPT ![a.user][a.id] = a.secret] /\ UNCHANGED faults
       \/ assets[a.user][a.id] # None /\ UNCHANGED <<assets, faults>>
       \/ Fault /\ UNCHANGED assets
    /\ UNCHANGED <<parties, clashes, events>>

UpdateSessionKey(u, id, s) ==
    /\ Count /\ assets[u][id] # None
    /\ \/ assets' = [assets EXCEPT ![u][id] = s] /\ UNCHANGED faults
       \/ Fault /\ UNCHANGED assets
    /\ UNCHANGED <<parties, adding, clashes>>

DeleteSessionKey(u, id) ==
    /\ Count /\ assets[u][id] # None
    /\ \/ assets' = [assets EXCEPT ![u][id] = None] /\ UNCHANGED faults
       \/ Fault /\ UNCHANGED assets
    /\ UNCHANGED <<parties, adding, clashes>>

\* TrustProfileManager stores or deletes a party.
PutParty(r, u, id) ==
    /\ Count
    /\ parties' = parties \cup {[role |-> r, user |-> u, id |-> id]}
    /\ clashes' = IF Holders(id) \subseteq {u} THEN clashes ELSE clashes \cup {id}
    /\ UNCHANGED <<assets, adding, faults>>
DeleteParty(p) ==
    /\ Count /\ p \in parties /\ parties' = parties \ {p}
    /\ UNCHANGED <<assets, adding, clashes, faults>>

SessionKeysNext ==
    \/ \E u \in Users, id \in Ids, s \in Secrets : GeneratedSessionKeyId(u, id, s) \/ UpdateSessionKey(u, id, s)
    \/ \E a \in BagToSet(adding) : PutSessionKey(a)
    \/ \E u \in Users, id \in Ids : DeleteSessionKey(u, id)
    \/ \E r \in Roles, u \in Users, id \in Ids : PutParty(r, u, id)
    \/ \E p \in parties : DeleteParty(p)

-----------------------------------------------------------------------------
\* A key is found by its id alone as soon as a party of its user carries the id, and what
\* is found is that key, not the one of a party of another ACL that carried the same id
\* before: the id is drawn and checked in PutSessionKey, stored after aclMutex_ is
\* released and resolved through two tables in GetSessionKey.
KeyOfOwner ==
    \A id \in Ids \ clashes, u \in Users :
        assets[u][id] # None /\ (\E p \in Carriers(id) : p.user = u)
            => GetSessionKey(id) = {assets[u][id]}
=============================================================================
