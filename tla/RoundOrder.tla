----------------------------- MODULE RoundOrder -----------------------------
(***************************************************************************)
(* What the round-based orderings promise: the blocks are executed round   *)
(* by round, round r being block r of every group that is not down, in the *)
(* order of the groups, once all of these blocks are known.                *)
(***************************************************************************)
EXTENDS Integers, Sequences

CONSTANT GroupCount
Group == 0 .. (GroupCount - 1)

VARIABLES
    known,     \* known[g]: the blocks of group g that are known
    down,      \* the groups reported to be down
    last,      \* the last round executed, -1 if none
    executed   \* the blocks handed to execution, in order

vars == <<known, down, last, executed>>

Init ==
    /\ known = [g \in Group |-> {}]
    /\ down = {}
    /\ last = -1
    /\ executed = <<>>

Learn ==
    /\ \A g \in Group : known[g] \subseteq known'[g]
    /\ UNCHANGED <<down, last, executed>>

Report ==
    /\ down \subseteq down'
    /\ UNCHANGED <<known, last, executed>>

\* round r is appended to what has been executed, in the order of the groups
ExecuteRound(r) ==
    LET new == (Len(executed) + 1) .. Len(executed') IN
    /\ Len(executed) <= Len(executed')
    /\ \A i \in DOMAIN executed : executed'[i] = executed[i]
    /\ {executed'[i] : i \in new} = (Group \ down) \X {r}
    /\ \A i, j \in new : i < j => executed'[i][1] < executed'[j][1]

Execute ==
    /\ \A g \in Group \ down : last + 1 \in known[g]
    /\ last' = last + 1
    /\ ExecuteRound(last + 1)
    /\ UNCHANGED <<known, down>>

Next == Learn \/ Report \/ Execute

Spec == Init /\ [][Next]_vars

=============================================================================
