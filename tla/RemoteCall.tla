----------------------------- MODULE RemoteCall -----------------------------
(***************************************************************************)
(* What the client promises of a request to the device profile service: a  *)
(* call is carried out at most once, or, if it is of those that are        *)
(* repeated, at most once per attempt; it returns; DP_SUCCESS is the answer *)
(* only if the service carried it out, and a refusal to a call that is not *)
(* repeated only if it did not.                                            *)
(***************************************************************************)
EXTENDS Naturals

CONSTANTS
    Callers,
    MaxRetries,    \* how often a call is repeated
    None           \* no call; no answer

VARIABLES
    open,          \* what each caller waits for: None, a call made "once" or one "retried"
    done,          \* how often the service carried its last call out
    answer         \* of its last call

vars == <<open, done, answer>>

Refusals ==
    {"ERROR", "DP_GET_SERVICE_FAILED", "DP_SERVICE_STOPPED", "DP_SERVICE_ON_IDLE", "DP_LOAD_SERVICE_ERR",
     "DP_ERR_DEAD_OBJECT"}
Answers == Refusals \cup {"DP_SUCCESS", "DP_BR_DEAD_REPLY"}

Init == open = [c \in Callers |-> None] /\ done = [c \in Callers |-> 0] /\ answer = [c \in Callers |-> None]

Call(c) ==
    /\ open[c] = None
    /\ \E kind \in {"once", "retried"} : open' = [open EXCEPT ![c] = kind]
    /\ done' = [done EXCEPT ![c] = 0]
    /\ answer' = [answer EXCEPT ![c] = None]

Execute(c) ==
    /\ open[c] # None
    /\ done[c] < IF open[c] = "once" THEN 1 ELSE MaxRetries + 1
    /\ done' = [done EXCEPT ![c] = @ + 1]
    /\ UNCHANGED <<open, answer>>

Return(c) ==
    /\ open[c] # None
    /\ \E a \in Answers :
        /\ a = "DP_SUCCESS" => done[c] > 0
        /\ a \in Refusals /\ open[c] = "once" => done[c] = 0
        /\ answer' = [answer EXCEPT ![c] = a]
    /\ open' = [open EXCEPT ![c] = None]
    /\ UNCHANGED done

Next == \E c \in Callers : Call(c) \/ Execute(c) \/ Return(c)

Spec == Init /\ [][Next]_vars /\ \A c \in Callers : WF_vars(Return(c))
=============================================================================
