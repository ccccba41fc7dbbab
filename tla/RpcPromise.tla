----------------------------- MODULE RpcPromise -----------------------------
(***************************************************************************)
(* What ClientEnd.Call of src/labrpc promises its callers: a call runs its  *)
(* handler at most once, returns once, returns true only if its handler     *)
(* ran, and may return false although the handler ran, runs or is still     *)
(* to run.  Calls whose handlers end do return.                             *)
(***************************************************************************)
CONSTANTS Calls, Terminating     \* Terminating: the calls whose handlers end

VARIABLES result, executed

vars == <<result, executed>>

Init == result = [c \in Calls |-> "none"] /\ executed = [c \in Calls |-> 0]

Invoke(c) ==
    /\ result[c] = "none"
    /\ result' = [result EXCEPT ![c] = "pending"]
    /\ UNCHANGED executed

\* The handler runs, perhaps long after the caller was told "false".
Execute(c) ==
    /\ result[c] # "none" /\ executed[c] = 0
    /\ executed' = [executed EXCEPT ![c] = 1]
    /\ UNCHANGED result

ReturnTrue(c) ==
    /\ result[c] = "pending" /\ executed[c] = 1
    /\ result' = [result EXCEPT ![c] = "true"]
    /\ UNCHANGED executed

ReturnFalse(c) ==
    /\ result[c] = "pending"
    /\ result' = [result EXCEPT ![c] = "false"]
    /\ UNCHANGED executed

Return(c) == ReturnTrue(c) \/ ReturnFalse(c)

Next == \E c \in Calls : Invoke(c) \/ Execute(c) \/ Return(c)

Spec == Init /\ [][Next]_vars /\ \A c \in Terminating : WF_vars(Return(c))
=============================================================================
