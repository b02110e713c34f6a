--------------------------- MODULE MCMixedExecution ---------------------------
(* The voting chaincode's requests for one candidate and another, and update *)
(* transactions of another chaincode that conflict with each other and share *)
(* a key with the votes.                                                     *)
EXTENDS MixedExecution

CONSTANTS a, x

ElectionRequests ==
    {[cc |-> "vote", func |-> f, key |-> a, count |-> 1] : f \in {"vote", "get"}}
UpdateRequests ==
    {[cc |-> "kv", gets |-> {a}, puts |-> {x}],
     [cc |-> "kv", gets |-> {x}, puts |-> {a, x}],
     [cc |-> "kv", gets |-> {}, puts |-> {x}]}
ConflictingRequests ==
    ElectionRequests \cup UpdateRequests \cup
        {[cc |-> "vote", func |-> "vote", key |-> x, count |-> 2],
         [cc |-> "vote", func |-> "other", key |-> x, count |-> 0]}
=============================================================================
