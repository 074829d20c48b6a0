--------------------------- MODULE MCGatewayParts ---------------------------
(* Parts of the gateway that share no state with the inbox, on small         *)
(* instances: admission, the retry schedule, the storage guard.  They share  *)
(* none with each other: "part" says which of them a behaviour is about, and *)
(* the others stand still.                                                   *)
(*                                                                           *)
(* A batch id is spelled in upper and in lower case.  15 durations make a    *)
(* second, and at most 255 fit, so that 17 seconds is the longest            *)
(* Retry-After; the guard's integers have 8 bits.                            *)
EXTENDS Admission, RetrySchedule, StorageGuard, TLC

VARIABLE part

SomeSpellings == {"ID", "id"}
SomeLower == [s \in SomeSpellings |-> "id"]

SomeHeaders ==
    {NoHeader}
        \cup [kind : {"seconds"}, value : {-1, 0, 1, 4, 5, 16, 17, 18, 34, 35}]
        \cup [kind : {"date"}, value : {-10, 0, 1, 59, 60, 61, 255}]

SomeJitters == {-50, 0, 49, 100, 150}

Symmetry == Permutations(Requests) \cup Permutations(Payloads)

RetryIdle ==
    /\ base = DefaultBase /\ max = DefaultMax
    /\ attempts = 0 /\ header = NoHeader /\ delay = MinimumDelay

GuardIdle == limits = <<>> /\ size = 0 /\ free = 0 /\ checked = Unchecked

PartsInit ==
    /\ Init
    /\ \/ part = "admission" /\ RetryIdle /\ GuardIdle
       \/ part = "retry" /\ RetryInit /\ GuardIdle
       \/ part = "guard" /\ RetryIdle /\ GuardStart

PartsNext ==
    \/ part = "admission" /\ Next /\ UNCHANGED <<part, retryVars, guardVars>>
    \/ part = "retry" /\ Retry /\ UNCHANGED <<part, vars, guardVars>>
    \/ part = "guard" /\ GuardStep /\ UNCHANGED <<part, vars, retryVars>>

PartsSpec == PartsInit /\ [][PartsNext]_<<part, vars, retryVars, guardVars>>
=============================================================================
