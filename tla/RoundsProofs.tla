---------------------------- MODULE RoundsProofs ----------------------------
(***************************************************************************)
(* Proofs about the orderings by rounds, for every number of groups, every *)
(* epoch length and every bound on the blocks.                             *)
(***************************************************************************)
EXTENDS MCRounds, WellFoundedInduction, FiniteSetTheorems, SequenceTheorems, TLAPS

\* a set of natural numbers has a least element
LEMMA LeastNatural ==
    ASSUME NEW T, T \subseteq Nat, T # {}
    PROVE  \E x \in T : \A y \in T : x <= y
<1> DEFINE R0 == OpToRel(<, Nat)
<1>1. IsWellFoundedOn(R0, Nat) BY NatLessThanWellFounded
<1>2. \A x, y \in Nat : <<x, y>> \in R0 <=> x < y BY DEF OpToRel
<1> HIDE DEF R0
<1>3. PICK x \in T : \A y \in T : ~ (<<y, x>> \in R0) BY <1>1, WFMin
<1>4. ASSUME NEW y \in T PROVE x <= y
    <2>1. x \in Nat /\ y \in Nat /\ ~ (<<y, x>> \in R0) BY <1>3
    <2> QED BY <1>2, <2>1
<1> QED BY <1>4

-----------------------------------------------------------------------------
(* Steward.                                                                *)

\* the sources pass on committed entries only
StewardTyped ==
    /\ pending \subseteq Int
    /\ log \in Seq(Int)
    /\ committed \in Nat /\ committed <= Len(log)
    /\ heard \in [Source -> Nat] /\ \A s \in Source : heard[s] <= committed
    /\ delivered \in Seq(Int \X Int)

\* what a source has passed on has been executed
HeardExecuted ==
    \A s \in Source : \A q \in 1 .. heard[s] :
        \E j \in DOMAIN delivered : delivered[j] = <<0, log[q]>>

StewardInv == sys = "steward" => StewardTyped /\ HeardExecuted /\ S!FollowsLog

LEMMA StewardStep ==
    ASSUME StewardTyped, HeardExecuted, S!FollowsLog, S!Next
    PROVE  StewardTyped' /\ HeardExecuted' /\ S!FollowsLog'
<1>0. /\ Len(log) \in Nat /\ DOMAIN log = 1 .. Len(log)
      /\ Len(delivered) \in Nat /\ DOMAIN delivered = 1 .. Len(delivered)
    BY DEF StewardTyped
<1>1. CASE S!Insert \/ S!Replicate \/ S!waitUntilReceiveValidBlock
    <2>1. UNCHANGED <<log, heard, delivered>>
        BY <1>1 DEF S!Insert, S!Replicate, S!waitUntilReceiveValidBlock
    <2>2. pending' \subseteq Int
        <3>1. CASE S!Insert
            <4>1. PICK b \in (0 .. MaxBlock) \ agreed[0] : pending' = pending \cup {b}
                BY <3>1 DEF S!Insert
            <4>2. b \in Int BY <4>1
            <4> QED BY <4>1, <4>2 DEF StewardTyped
        <3>2. CASE S!Replicate BY <3>2 DEF S!Replicate, StewardTyped
        <3>3. CASE S!waitUntilReceiveValidBlock
            BY <3>3 DEF S!waitUntilReceiveValidBlock, StewardTyped
        <3> QED BY <1>1, <3>1, <3>2, <3>3
    <2>3. committed' \in Nat /\ committed' <= Len(log) /\ committed <= committed'
        BY <1>0, <1>1 DEF S!Insert, S!Replicate, S!waitUntilReceiveValidBlock, StewardTyped
    <2>4. StewardTyped' BY <2>1, <2>2, <2>3 DEF StewardTyped
    <2>5. HeardExecuted' BY <2>1 DEF HeardExecuted
    <2>6. S!FollowsLog' BY <2>1 DEF S!FollowsLog
    <2> QED BY <2>4, <2>5, <2>6
<1>2. CASE S!voteNewBlock
    <2>1. PICK b \in pending : /\ pending' = pending \ {b} /\ log' = Append(log, b)
                               /\ UNCHANGED <<committed, heard, delivered>>
        BY <1>2 DEF S!voteNewBlock
    <2>2. /\ log' \in Seq(Int) /\ Len(log') = Len(log) + 1 /\ DOMAIN log' = 1 .. (Len(log) + 1)
          /\ \A q \in DOMAIN log : q \in DOMAIN log' /\ log'[q] = log[q]
        BY <1>0, <2>1 DEF StewardTyped
    <2>3. StewardTyped' BY <1>0, <2>1, <2>2 DEF StewardTyped
    <2>4. ASSUME NEW s \in Source, NEW q \in 1 .. heard[s] PROVE q \in DOMAIN log
        <3>1. heard[s] \in Nat /\ committed \in Nat /\ committed <= Len(log) /\ heard[s] <= committed
            BY DEF StewardTyped
        <3> QED BY <3>1, <1>0
    <2>5. HeardExecuted'
        <3> SUFFICES ASSUME NEW s \in Source, NEW q \in 1 .. heard[s]
                     PROVE  \E j \in DOMAIN delivered : delivered[j] = <<0, log'[q]>>
            BY <2>1 DEF HeardExecuted
        <3>1. log'[q] = log[q] BY <2>2, <2>4
        <3> QED BY <3>1 DEF HeardExecuted
    <2>6. \A p \in DOMAIN log : \A q \in 1 .. (p - 1) : q \in DOMAIN log BY <1>0
    <2>7. ASSUME NEW i \in DOMAIN delivered
          PROVE  \E k \in DOMAIN log' :
                    /\ delivered[i] = <<0, log'[k]>>
                    /\ \A q \in 1 .. (k - 1) : \E j \in 1 .. (i - 1) : delivered[j] = <<0, log'[q]>>
        <3>1. PICK k \in DOMAIN log :
                    /\ delivered[i] = <<0, log[k]>>
                    /\ \A q \in 1 .. (k - 1) : \E j \in 1 .. (i - 1) : delivered[j] = <<0, log[q]>>
            BY DEF S!FollowsLog
        <3>2. k \in DOMAIN log' /\ log'[k] = log[k] BY <2>2
        <3>3. \A q \in 1 .. (k - 1) : log'[q] = log[q] BY <2>2, <2>6
        <3> QED BY <3>1, <3>2, <3>3
    <2>8. S!FollowsLog' BY <2>1, <2>7 DEF S!FollowsLog
    <2> QED BY <2>3, <2>5, <2>8
<1>3. CASE \E s \in Source : S!applyRawBlockOrder(s)
    <2>1. PICK s \in Source :
            /\ heard[s] < committed /\ heard' = [heard EXCEPT ![s] = @ + 1]
            /\ delivered' = Append(delivered, <<0, log[heard[s] + 1]>>)
            /\ UNCHANGED <<pending, log, committed>>
        BY <1>3 DEF S!applyRawBlockOrder
    <2> DEFINE p == heard[s] + 1
               n == Len(delivered) + 1
    <2>2. p \in DOMAIN log /\ p \in Nat BY <1>0, <2>1 DEF StewardTyped
    <2>3. <<0, log[p]>> \in Int \X Int BY <2>2 DEF StewardTyped
    <2>4. /\ delivered' \in Seq(Int \X Int) /\ DOMAIN delivered' = 1 .. n
          /\ delivered'[n] = <<0, log[p]>>
          /\ \A i \in DOMAIN delivered : i \in DOMAIN delivered' /\ delivered'[i] = delivered[i]
        BY <1>0, <2>1, <2>3 DEF StewardTyped
    <2>5. /\ heard' \in [Source -> Nat] /\ heard'[s] = p
          /\ \A t \in Source : t # s => heard'[t] = heard[t]
        BY <2>1 DEF StewardTyped
    <2>6. StewardTyped'
        <3>1. ASSUME NEW t \in Source PROVE heard'[t] <= committed
            <4>1. heard[s] \in Nat /\ committed \in Nat /\ heard[t] <= committed
                BY DEF StewardTyped
            <4>2. CASE t = s BY <4>1, <4>2, <2>1, <2>5
            <4>3. CASE t # s BY <4>1, <4>3, <2>5
            <4> QED BY <4>2, <4>3
        <3> QED BY <2>1, <2>4, <2>5, <3>1 DEF StewardTyped
    <2>7. HeardExecuted'
        <3> SUFFICES ASSUME NEW t \in Source, NEW q \in 1 .. heard'[t]
                     PROVE  \E j \in DOMAIN delivered' : delivered'[j] = <<0, log[q]>>
            BY <2>1 DEF HeardExecuted
        <3>1. CASE q \in 1 .. heard[t] BY <3>1, <2>4 DEF HeardExecuted
        <3>2. CASE t = s /\ q = p
            <4>1. n \in DOMAIN delivered' /\ delivered'[n] = <<0, log[p]>> BY <1>0, <2>4
            <4> QED BY <3>2, <4>1
        <3>3. q \in 1 .. heard[t] \/ (t = s /\ q = p)
            <4>1. CASE t # s BY <4>1, <2>5
            <4>2. CASE t = s
                <5>1. heard[s] \in Nat BY DEF StewardTyped
                <5>2. q \in 1 .. (heard[s] + 1) BY <4>2, <2>5
                <5> QED BY <4>2, <5>1, <5>2
            <4> QED BY <4>1, <4>2
        <3> QED BY <3>1, <3>2, <3>3
    <2>8. S!FollowsLog'
        <3> SUFFICES ASSUME NEW i \in DOMAIN delivered'
                     PROVE  \E k \in DOMAIN log :
                                /\ delivered'[i] = <<0, log[k]>>
                                /\ \A q \in 1 .. (k - 1) : \E j \in 1 .. (i - 1) :
                                        delivered'[j] = <<0, log[q]>>
            BY <2>1 DEF S!FollowsLog
        <3>1. CASE i \in DOMAIN delivered
            <4>1. PICK k \in DOMAIN log :
                        /\ delivered[i] = <<0, log[k]>>
                        /\ \A q \in 1 .. (k - 1) : \E j \in 1 .. (i - 1) :
                                delivered[j] = <<0, log[q]>>
                BY <3>1 DEF S!FollowsLog
            <4>2. \A j \in 1 .. (i - 1) : j \in DOMAIN delivered BY <1>0, <3>1
            <4> QED BY <4>1, <4>2, <2>4, <3>1
        <3>2. CASE i = n
            <4>1. i - 1 = Len(delivered) /\ p - 1 = heard[s] BY <1>0, <2>2, <3>2 DEF StewardTyped
            <4>2. ASSUME NEW q \in 1 .. (p - 1)
                  PROVE  \E j \in 1 .. (i - 1) : delivered'[j] = <<0, log[q]>>
                <5>1. PICK j \in DOMAIN delivered : delivered[j] = <<0, log[q]>>
                    BY <4>1 DEF HeardExecuted
                <5>2. j \in 1 .. (i - 1) /\ delivered'[j] = delivered[j] BY <5>1, <4>1, <1>0, <2>4
                <5> QED BY <5>1, <5>2
            <4>3. delivered'[i] = <<0, log[p]>> BY <3>2, <2>4
            <4> QED BY <2>2, <4>2, <4>3
        <3>3. i \in 1 .. (Len(delivered) + 1) BY <2>4
        <3>4. i \in 1 .. Len(delivered) \/ i = n BY <1>0, <3>3
        <3> QED BY <1>0, <3>1, <3>2, <3>4
    <2> QED BY <2>6, <2>7, <2>8
<1> QED BY <1>1, <1>2, <1>3 DEF S!Next

\* Under Steward the blocks are executed for the first time in the order of the
\* one Raft log, from however many nodes of its group a node hears the entries.
THEOREM StewardFollowsLog == MCSpec => []FollowsLog
<1>1. MCInit => StewardInv
    <2> SUFFICES ASSUME MCInit PROVE StewardTyped /\ HeardExecuted /\ S!FollowsLog
        BY DEF StewardInv
    <2>1. /\ delivered = <<>> /\ pending = {} /\ log = <<>> /\ committed = 0
          /\ heard = [s \in Source |-> 0]
        BY DEF MCInit, Init
    <2> QED BY <2>1 DEF StewardTyped, HeardExecuted, S!FollowsLog
<1>2. StewardInv /\ [MCNext]_all => StewardInv'
    <2> SUFFICES ASSUME StewardInv, [MCNext]_all, sys' = "steward"
                 PROVE  StewardTyped' /\ HeardExecuted' /\ S!FollowsLog'
        BY DEF StewardInv
    <2>1. CASE MCNext
        <3>1. sys = "steward" /\ S!Next BY <2>1 DEF MCNext
        <3> QED BY <3>1, StewardStep DEF StewardInv
    <2>2. CASE UNCHANGED all
        BY <2>2 DEF all, vars, stewardVars, StewardInv, StewardTyped, HeardExecuted, S!FollowsLog
    <2> QED BY <2>1, <2>2
<1>3. StewardInv => FollowsLog BY DEF StewardInv, FollowsLog
<1> QED BY <1>1, <1>2, <1>3, PTL DEF MCSpec

-----------------------------------------------------------------------------
(* The order by rounds.                                                    *)

\* the groups of n and less that are not down, in ascending order
IsValidGroups(v, n) ==
    /\ v \in Seq(Int)
    /\ \A i \in DOMAIN v : v[i] \in (0 .. (n - 1)) \ invalidGroupList
    /\ \A g \in (0 .. (n - 1)) \ invalidGroupList : \E i \in DOMAIN v : v[i] = g
    /\ \A i, j \in DOMAIN v : i < j => v[i] < v[j]

\* The definition of ValidGroups by recursion has a solution: on an initial
\* segment of the numbers it has one, and any two of these agree.
LEMMA ValidGroupsDefined ==
    ValidGroups = [n \in Nat |->
                    IF n = 0 THEN <<>>
                    ELSE IF n - 1 \in invalidGroupList THEN ValidGroups[n - 1]
                    ELSE Append(ValidGroups[n - 1], n - 1)]
<1> DEFINE G(f, k) == IF k = 0 THEN <<>>
                      ELSE IF k - 1 \in invalidGroupList THEN f[k - 1]
                      ELSE Append(f[k - 1], k - 1)
           Good(f, n) == f = [k \in 0 .. n |-> G(f, k)]
<1>1. ASSUME NEW m \in Nat, NEW n \in Nat, NEW f, NEW h, Good(f, m), Good(h, n), m <= n
      PROVE  \A k \in 0 .. m : f[k] = h[k]
    <2> DEFINE T == {k \in 0 .. m : f[k] # h[k]}
    <2> SUFFICES ASSUME T # {} PROVE FALSE OBVIOUS
    <2>1. T \subseteq Nat OBVIOUS
    <2>2. PICK k \in T : \A j \in T : k <= j BY <2>1, LeastNatural
    <2>3. k \in 0 .. m /\ k \in 0 .. n /\ f[k] # h[k] BY <1>1, <2>2
    <2>4. f[k] = G(f, k) /\ h[k] = G(h, k) BY <1>1, <2>3
    <2>5. k # 0 BY <2>3, <2>4
    <2>6. k - 1 \in 0 .. m /\ k - 1 \notin T BY <2>2, <2>3, <2>5
    <2>7. f[k - 1] = h[k - 1] BY <2>6
    <2> QED BY <2>3, <2>4, <2>7
<1>2. ASSUME NEW n \in Nat PROVE \E f : Good(f, n)
    <2> DEFINE T == {k \in Nat : ~ \E f : Good(f, k)}
    <2> SUFFICES ASSUME T # {} PROVE FALSE OBVIOUS
    <2>1. PICK k \in T : \A j \in T : k <= j BY LeastNatural
    <2>2. k \in Nat BY <2>1
    <2>3. CASE k = 0
        <3> DEFINE f == [j \in 0 .. k |-> <<>>]
        <3>1. \A j \in 0 .. k : G(f, j) = <<>> BY <2>3
        <3>2. Good(f, k) BY <3>1
        <3> QED BY <2>1, <3>2
    <2>4. CASE k # 0
        <3>1. k - 1 \in Nat /\ k - 1 \notin T
            <4>1. k - 1 \in Nat /\ ~ (k <= k - 1) BY <2>2, <2>4
            <4> HIDE DEF T
            <4> QED BY <2>1, <4>1
        <3>2. PICK h : Good(h, k - 1) BY <3>1
        <3> DEFINE f == [j \in 0 .. k |-> G(h, j)]
        <3>3. \A j \in 0 .. (k - 1) : f[j] = h[j]
            <4>1. \A j \in 0 .. (k - 1) : j \in 0 .. k BY <2>2
            <4> QED BY <3>2, <4>1
        <3>4. ASSUME NEW j \in 0 .. k PROVE G(f, j) = G(h, j)
            <4>1. CASE j = 0 BY <4>1
            <4>2. CASE j # 0
                <5>1. j - 1 \in 0 .. (k - 1) BY <2>2, <4>2
                <5>2. f[j - 1] = h[j - 1] BY <3>3, <5>1
                <5> HIDE DEF f
                <5> QED BY <5>2
            <4> QED BY <4>1, <4>2
        <3>5. Good(f, k) BY <3>4
        <3> QED BY <2>1, <3>5
    <2> QED BY <2>3, <2>4
<1> DEFINE C(n) == CHOOSE f : Good(f, n)
           F == [n \in Nat |-> C(n)[n]]
<1>3. \A n \in Nat : Good(C(n), n) BY <1>2
<1> HIDE DEF Good, C
<1>4. ASSUME NEW n \in Nat PROVE F[n] = G(F, n)
    <2>1. F[n] = C(n)[n] OBVIOUS
    <2>2. C(n)[n] = G(C(n), n)
        <3>1. C(n) = [k \in 0 .. n |-> G(C(n), k)] BY <1>3 DEF Good
        <3>2. n \in 0 .. n OBVIOUS
        <3> QED BY <3>1, <3>2
    <2>3. CASE n = 0 BY <2>1, <2>2, <2>3
    <2>4. CASE n # 0
        <3>1. n - 1 \in Nat /\ n - 1 <= n /\ n - 1 \in 0 .. (n - 1) BY <2>4
        <3>2. C(n - 1)[n - 1] = C(n)[n - 1] BY <1>1, <1>3, <3>1
        <3>3. F[n - 1] = C(n)[n - 1] BY <3>1, <3>2
        <3> HIDE DEF F
        <3> QED BY <2>1, <2>2, <3>3
    <2> QED BY <2>3, <2>4
<1>5. F = [n \in Nat |-> G(F, n)] BY <1>4
<1> HIDE DEF F
<1>6. \E f : f = [n \in Nat |-> G(f, n)] BY <1>5
<1> QED BY <1>6, Zenon DEF ValidGroups

\* the loop of tryCommitBlock, by the least number of iterations that is wrong
LEMMA ValidGroupsCorrect == IsValidGroups(ValidGroups[GroupCount], GroupCount)
<1> DEFINE T == {n \in Nat : ~ IsValidGroups(ValidGroups[n], n)}
<1>0. ValidGroups = [n \in Nat |->
                        IF n = 0 THEN <<>>
                        ELSE IF n - 1 \in invalidGroupList THEN ValidGroups[n - 1]
                        ELSE Append(ValidGroups[n - 1], n - 1)]
    BY ValidGroupsDefined
<1>1. T = {}
    <2> SUFFICES ASSUME T # {} PROVE FALSE OBVIOUS
    <2>1. PICK n \in T : \A m \in T : n <= m BY LeastNatural
    <2>2. n \in Nat /\ ~ IsValidGroups(ValidGroups[n], n) BY <2>1
    <2>3. CASE n = 0
        <3>1. ValidGroups[n] = <<>> BY <1>0, <2>3
        <3>2. 0 .. (n - 1) = {} BY <2>3
        <3>3. <<>> \in Seq(Int) /\ DOMAIN <<>> = {} OBVIOUS
        <3>4. IsValidGroups(<<>>, n) BY <3>2, <3>3 DEF IsValidGroups
        <3> QED BY <2>2, <3>1, <3>4
    <2>4. CASE n # 0
        <3> DEFINE m == n - 1
                   w == ValidGroups[m]
        <3>1. m \in Nat /\ m \notin T /\ n = m + 1 BY <2>1, <2>2, <2>4
        <3>2. IsValidGroups(w, m) BY <3>1
        <3>3. ValidGroups[n] = IF m \in invalidGroupList THEN w ELSE Append(w, m)
            BY <1>0, <2>2, <2>4
        <3>4. \A g : g \in 0 .. (n - 1) <=> g \in 0 .. (m - 1) \/ g = m BY <3>1
        <3>5. CASE m \in invalidGroupList
            <4>1. IsValidGroups(w, n) BY <3>2, <3>4, <3>5 DEF IsValidGroups
            <4> QED BY <2>2, <3>3, <3>5, <4>1
        <3>6. CASE m \notin invalidGroupList
            <4> DEFINE z == Append(w, m)
            <4> HIDE DEF w
            <4>0. w \in Seq(Int) /\ Len(w) \in Nat /\ DOMAIN w = 1 .. Len(w) /\ m \in Int
                BY <3>1, <3>2 DEF IsValidGroups
            <4>1. /\ z \in Seq(Int) /\ DOMAIN z = 1 .. (Len(w) + 1) /\ z[Len(w) + 1] = m
                  /\ \A i \in DOMAIN w : i \in DOMAIN z /\ z[i] = w[i]
                BY <4>0
            <4>2. \A i \in DOMAIN z : i \in DOMAIN w \/ i = Len(w) + 1 BY <4>0, <4>1
            <4>3. Len(w) + 1 \in DOMAIN z BY <4>0, <4>1
            <4> HIDE DEF z
            <4>4. \A i \in DOMAIN z : z[i] \in (0 .. (n - 1)) \ invalidGroupList
                BY <3>2, <3>4, <3>6, <4>1, <4>2 DEF IsValidGroups
            <4>5. \A g \in (0 .. (n - 1)) \ invalidGroupList : \E i \in DOMAIN z : z[i] = g
                BY <3>2, <3>4, <4>1, <4>3 DEF IsValidGroups
            <4>6. ASSUME NEW i \in DOMAIN z, NEW j \in DOMAIN z, i < j PROVE z[i] < z[j]
                <5>1. i \in DOMAIN w BY <4>6, <4>0, <4>1, <4>2
                <5>2. CASE j \in DOMAIN w BY <5>1, <5>2, <4>6, <4>1, <3>2 DEF IsValidGroups
                <5>3. CASE j = Len(w) + 1
                    <6>1. w[i] \in 0 .. (m - 1) BY <5>1, <3>2 DEF IsValidGroups
                    <6>2. z[i] = w[i] /\ z[j] = m BY <5>1, <5>3, <4>1
                    <6> QED BY <6>1, <6>2, <3>1
                <5> QED BY <5>2, <5>3, <4>2
            <4>7. IsValidGroups(z, n) BY <4>1, <4>4, <4>5, <4>6 DEF IsValidGroups
            <4> QED BY <2>2, <3>3, <3>6, <4>7 DEF z
        <3> QED BY <3>5, <3>6
    <2> QED BY <2>3, <2>4
<1> QED BY <1>1, GroupCountAssumption

LEMMA AppendsRound ==
    ASSUME NEW r \in Int, NEW v, IsValidGroups(v, GroupCount),
           delivered \in Seq(Int \X Int),
           delivered' = delivered \o [i \in DOMAIN v |-> <<v[i], r>>]
    PROVE  R!ExecuteRound(r) /\ delivered' \in Seq(Int \X Int)
<1> DEFINE w == [i \in DOMAIN v |-> <<v[i], r>>]
           n == Len(delivered)
<1>1. v \in Seq(Int) /\ Len(v) \in Nat /\ DOMAIN v = 1 .. Len(v) BY DEF IsValidGroups
<1>2. w \in Seq(Int \X Int) /\ Len(w) = Len(v) BY <1>1
<1>3. n \in Nat /\ DOMAIN delivered = 1 .. n OBVIOUS
<1>4. /\ delivered' \in Seq(Int \X Int) /\ Len(delivered') = n + Len(v)
      /\ \A i \in DOMAIN delivered : delivered'[i] = delivered[i]
      /\ \A i \in 1 .. Len(v) : delivered'[n + i] = w[i]
    BY <1>1, <1>2, <1>3
<1>5. \A i \in DOMAIN v : delivered'[n + i] = <<v[i], r>> BY <1>1, <1>4
<1> HIDE DEF w, n
<1> DEFINE new == (n + 1) .. (n + Len(v))
<1>6. \A k \in new : k - n \in DOMAIN v /\ k = n + (k - n) BY <1>1, <1>3
<1>7. \A k \in new : delivered'[k] = <<v[k - n], r>> BY <1>5, <1>6
<1>8. \A i \in DOMAIN v : n + i \in new BY <1>1, <1>3
<1>9. {delivered'[i] : i \in new} = (R!Group \ invalidGroupList) \X {r}
    <2>1. R!Group = 0 .. (GroupCount - 1) BY DEF R!Group
    <2>2. \A k \in new : delivered'[k] \in (R!Group \ invalidGroupList) \X {r}
        <3>1. \A k \in new : v[k - n] \in R!Group \ invalidGroupList
            BY <1>6, <2>1 DEF IsValidGroups
        <3>2. ASSUME NEW k \in new
              PROVE  delivered'[k] \in (R!Group \ invalidGroupList) \X {r}
            <4>1. delivered'[k] = <<v[k - n], r>> /\ v[k - n] \in R!Group \ invalidGroupList
                BY <1>7, <3>1
            <4>2. \A x \in R!Group \ invalidGroupList :
                        <<x, r>> \in (R!Group \ invalidGroupList) \X {r}
                OBVIOUS
            <4> QED BY <4>1, <4>2, Zenon
        <3> QED BY <3>2
    <2>3. ASSUME NEW g \in R!Group \ invalidGroupList
          PROVE  \E k \in new : delivered'[k] = <<g, r>>
        <3>1. PICK i \in DOMAIN v : v[i] = g BY <2>1 DEF IsValidGroups
        <3>2. n + i \in new /\ delivered'[n + i] = <<g, r>> BY <1>5, <1>8, <3>1
        <3> QED BY <3>2
    <2> HIDE DEF new
    <2>4. ASSUME NEW z \in (R!Group \ invalidGroupList) \X {r}
          PROVE  \E k \in new : delivered'[k] = z
        <3>1. PICK g \in R!Group \ invalidGroupList : z = <<g, r>> OBVIOUS
        <3> QED BY <2>3, <3>1
    <2> DEFINE L == {delivered'[i] : i \in new}
               M == (R!Group \ invalidGroupList) \X {r}
    <2>5. \A z : z \in L <=> \E k \in new : z = delivered'[k] BY Zenon
    <2>6. \A z \in L : z \in M BY <2>2, <2>5, Zenon
    <2>7. \A z \in M : z \in L BY <2>4, <2>5, Zenon
    <2> HIDE DEF L, M
    <2>8. L = M BY <2>6, <2>7, Zenon
    <2> QED BY <2>8, Zenon DEF L, M
<1>10. ASSUME NEW i \in new, NEW j \in new, i < j PROVE delivered'[i][1] < delivered'[j][1]
    <2>1. i - n \in DOMAIN v /\ j - n \in DOMAIN v /\ i - n < j - n BY <1>1, <1>3, <1>6, <1>10
    <2>2. v[i - n] < v[j - n] BY <2>1 DEF IsValidGroups
    <2>3. delivered'[i] = <<v[i - n], r>> /\ delivered'[j] = <<v[j - n], r>> BY <1>7
    <2>4. \A x : <<x, r>>[1] = x OBVIOUS
    <2> QED BY <2>2, <2>3, <2>4, Zenon
<1>11. n <= n + Len(v) BY <1>1, <1>3
<1> QED BY <1>3, <1>4, <1>9, <1>10, <1>11 DEF R!ExecuteRound, n

\* what is common to the orderings by rounds
RoundsTyped ==
    /\ agreed = [g \in Group |-> agreed[g]]
    /\ lastCommittedRound \in Int
    /\ delivered \in Seq(Int \X Int)

\* the order manager has received agreed blocks only, and group 0 is not down
ManagerInv ==
    /\ \A r \in DOMAIN receiveMap : \A g \in Group : g \in receiveMap[r] => r \in agreed[g]
    /\ invalidGroupList \subseteq Faulty

\* GeoBFT has executed the rounds of the slowest group
GeoInv ==
    /\ subscriber \in [Group -> Seq(Int)]
    /\ blockList \in [Group -> Int]
    /\ \A g \in Group : \A i \in DOMAIN subscriber[g] : subscriber[g][i] \in agreed[g]
    /\ \A g \in Group : lastCommittedRound <= blockList[g] /\ -1 <= blockList[g]
    /\ \A g \in Group : 0 .. blockList[g] \subseteq agreed[g]
    /\ \E g \in Group : blockList[g] = lastCommittedRound
    /\ invalidGroupList = {}

RoundsInv ==
    /\ sys # "steward" => RoundsTyped
    /\ sys \in {"rb", "iss"} => ManagerInv
    /\ sys = "geobft" => GeoInv

LEMMA LearnStep ==
    ASSUME RoundsTyped, NEW g \in Group, NEW b,
           agreed' = [agreed EXCEPT ![g] = @ \cup {b}],
           UNCHANGED <<lastCommittedRound, delivered>>
    PROVE  /\ RoundsTyped' /\ b \in agreed'[g]
           /\ \A h \in Group : agreed[h] \subseteq agreed'[h]
           /\ UNCHANGED invalidGroupList => R!Learn
<1>1. DOMAIN agreed = Group BY DEF RoundsTyped
<1>2. /\ agreed' = [h \in Group |-> agreed'[h]] /\ agreed'[g] = agreed[g] \cup {b}
      /\ \A h \in Group : h # g => agreed'[h] = agreed[h]
    BY <1>1
<1>3. \A h \in Group : agreed[h] \subseteq agreed'[h] BY <1>2
<1>4. Group = R!Group BY DEF Group, R!Group
<1> QED BY <1>2, <1>3, <1>4 DEF RoundsTyped, R!Learn

LEMMA PushStep ==
    ASSUME ManagerInv, RoundsTyped, NEW g \in Group, NEW b, pushDecision(g, b), b \in agreed'[g],
           \A h \in Group : agreed[h] \subseteq agreed'[h],
           invalidGroupList' = invalidGroupList
    PROVE  ManagerInv'
<1>1. ASSUME NEW r \in DOMAIN receiveMap', NEW h \in Group, h \in receiveMap'[r]
      PROVE  r \in agreed'[h]
    <2>1. r \in DOMAIN receiveMap \cup {b}
          /\ receiveMap'[r] = IF r = b
                              THEN (IF r \in DOMAIN receiveMap THEN receiveMap[r] ELSE {}) \cup {g}
                              ELSE receiveMap[r]
        BY <1>1 DEF pushDecision
    <2>2. CASE r \in DOMAIN receiveMap /\ h \in receiveMap[r] BY <2>2 DEF ManagerInv
    <2>3. CASE r = b /\ h = g BY <2>3
    <2> QED BY <1>1, <2>1, <2>2, <2>3
<1> QED BY <1>1 DEF ManagerInv

LEMMA CommitStep ==
    ASSUME ManagerInv, RoundsTyped, 0 \notin Faulty, CommitRound
    PROVE  ManagerInv' /\ RoundsTyped' /\ R!Execute
<1> DEFINE r == lastCommittedRound + 1
           v == ValidGroups[GroupCount]
<1>1. /\ isRoundCommitted(r) /\ lastCommittedRound' = r
      /\ receiveMap' = [k \in DOMAIN receiveMap \ {r} |-> receiveMap[k]]
      /\ delivered' = delivered \o [i \in DOMAIN v |-> <<v[i], r>>]
      /\ UNCHANGED <<agreed, invalidGroupList>>
    BY DEF CommitRound
<1>2. r \in Int BY DEF RoundsTyped
<1>3. IsValidGroups(v, GroupCount) BY ValidGroupsCorrect
<1> HIDE DEF r, v
<1>4. R!ExecuteRound(r) /\ delivered' \in Seq(Int \X Int)
    BY <1>1, <1>2, <1>3, AppendsRound DEF RoundsTyped
<1>5. ManagerInv' BY <1>1 DEF ManagerInv
<1>6. RoundsTyped' BY <1>1, <1>2, <1>4 DEF RoundsTyped
<1>7. \A g \in Group : r \in agreed[g] BY <1>1 DEF ManagerInv, isRoundCommitted
<1>8. Group = R!Group BY DEF Group, R!Group
<1> QED BY <1>1, <1>4, <1>5, <1>6, <1>7, <1>8 DEF R!Execute, r

\* A step of the order manager, of the round-based ordering or of ISS.
LEMMA ManagerStep ==
    ASSUME ManagerInv, RoundsTyped, 0 \notin Faulty,
           Next \/ (\E v \in Group : IssPush(v))
    PROVE  /\ ManagerInv' /\ RoundsTyped'
           /\ [R!Next]_<<agreed, invalidGroupList, lastCommittedRound, delivered>>
<1>1. ASSUME NEW g \in Group, Apply(g) PROVE ManagerInv' /\ RoundsTyped' /\ R!Learn
    <2>1. PICK b \in (0 .. MaxBlock) \ agreed[g] :
                pushDecision(g, b) /\ agreed' = [agreed EXCEPT ![g] = @ \cup {b}]
        BY <1>1 DEF Apply
    <2>2. UNCHANGED <<lastCommittedRound, invalidGroupList, delivered>> BY <1>1 DEF Apply
    <2>3. /\ RoundsTyped' /\ b \in agreed'[g] /\ R!Learn
          /\ \A h \in Group : agreed[h] \subseteq agreed'[h]
        BY <2>1, <2>2, LearnStep
    <2> QED BY <2>1, <2>2, <2>3, PushStep
<1>2. ASSUME NEW g \in Group, IssPush(g) PROVE ManagerInv' /\ RoundsTyped' /\ R!Learn
    <2> DEFINE b == Cardinality(agreed[g])
    <2>1. /\ pushDecision(g, b) /\ agreed' = [agreed EXCEPT ![g] = @ \cup {b}]
          /\ UNCHANGED <<lastCommittedRound, invalidGroupList, delivered>>
        BY <1>2 DEF IssPush
    <2> HIDE DEF b
    <2>2. /\ RoundsTyped' /\ b \in agreed'[g] /\ R!Learn
          /\ \A h \in Group : agreed[h] \subseteq agreed'[h]
        BY <2>1, LearnStep
    <2> QED BY <2>1, <2>2, PushStep
<1>3. ASSUME NEW g \in Group, Duplicate(g)
      PROVE  /\ ManagerInv' /\ RoundsTyped'
             /\ UNCHANGED <<agreed, invalidGroupList, lastCommittedRound, delivered>>
    <2>1. PICK b \in agreed[g] : pushDecision(g, b) BY <1>3 DEF Duplicate
    <2>2. UNCHANGED <<agreed, lastCommittedRound, invalidGroupList, delivered>>
        BY <1>3 DEF Duplicate
    <2>3. RoundsTyped' BY <2>2 DEF RoundsTyped
    <2>4. ManagerInv' BY <2>1, <2>2, PushStep
    <2> QED BY <2>2, <2>3, <2>4
<1>4. ASSUME CommitDone
      PROVE  /\ ManagerInv' /\ RoundsTyped'
             /\ UNCHANGED <<agreed, invalidGroupList, lastCommittedRound, delivered>>
    BY <1>4 DEF CommitDone, ManagerInv, RoundsTyped
<1>5. ASSUME NEW g \in Faulty, invalidateChain(g) PROVE ManagerInv' /\ RoundsTyped' /\ R!Report
    BY <1>5 DEF invalidateChain, ManagerInv, RoundsTyped, R!Report
<1> QED BY <1>1, <1>2, <1>3, <1>4, <1>5, CommitStep DEF Next, R!Next

\* A block is stored, and given to the subscription.
LEMMA GeoInsertStep ==
    ASSUME GeoInv, RoundsTyped, NEW g \in Group, B!insertBlockAndNotify(g),
           UNCHANGED invalidGroupList
    PROVE  GeoInv' /\ RoundsTyped' /\ R!Learn
<1> DEFINE b == blockList[g] + 1 + Len(subscriber[g])
<1>0. /\ agreed' = [agreed EXCEPT ![g] = @ \cup {b}]
      /\ subscriber' = [subscriber EXCEPT ![g] = Append(@, b)]
      /\ UNCHANGED <<blockList, lastCommittedRound, aborted, delivered>>
    BY DEF B!insertBlockAndNotify
<1>1. subscriber[g] \in Seq(Int) /\ Len(subscriber[g]) \in Nat /\ blockList[g] \in Int
    BY DEF GeoInv
<1>2. b \in Int BY <1>1
<1> HIDE DEF b
<1>3. /\ RoundsTyped' /\ b \in agreed'[g] /\ R!Learn
      /\ \A h \in Group : agreed[h] \subseteq agreed'[h]
    BY <1>0, LearnStep
<1>4. Append(subscriber[g], b) \in Seq(Int) BY <1>1, <1>2
<1>5. /\ subscriber' \in [Group -> Seq(Int)] /\ subscriber'[g] = Append(subscriber[g], b)
      /\ \A h \in Group : h # g => subscriber'[h] = subscriber[h]
    BY <1>0, <1>4 DEF GeoInv
<1>6. ASSUME NEW h \in Group, NEW i \in DOMAIN subscriber'[h] PROVE subscriber'[h][i] \in agreed'[h]
    <2>1. CASE h # g BY <1>3, <1>5, <2>1 DEF GeoInv
    <2>2. CASE h = g
        <3>1. i \in 1 .. (Len(subscriber[g]) + 1) BY <1>1, <1>2, <1>5, <2>2
        <3>2. CASE i = Len(subscriber[g]) + 1
            <4>1. subscriber'[g][i] = b BY <1>1, <1>2, <1>5, <3>2
            <4> QED BY <2>2, <4>1, <1>3
        <3>3. CASE i \in 1 .. Len(subscriber[g])
            <4>1. i \in DOMAIN subscriber[g] /\ subscriber'[g][i] = subscriber[g][i]
                BY <1>1, <1>2, <1>5, <3>3
            <4> QED BY <2>2, <4>1, <1>3 DEF GeoInv
        <3> QED BY <1>1, <3>1, <3>2, <3>3
    <2> QED BY <2>1, <2>2
<1>7. \A h \in Group : 0 .. blockList[h] \subseteq agreed'[h] BY <1>3 DEF GeoInv
<1>8. GeoInv' BY <1>0, <1>5, <1>6, <1>7 DEF GeoInv
<1> QED BY <1>3, <1>8

\* The thread takes a block; it may be the last of its round.
LEMMA GeoOrderStep ==
    ASSUME GeoInv, RoundsTyped, NEW g \in Group, B!orderBlock(g), UNCHANGED invalidGroupList
    PROVE  /\ GeoInv' /\ RoundsTyped'
           /\ R!Execute \/ UNCHANGED <<agreed, invalidGroupList, lastCommittedRound, delivered>>
<1> DEFINE q == subscriber[g]
<1>1. q \in Seq(Int) /\ Len(q) \in Nat /\ DOMAIN q = 1 .. Len(q) BY DEF GeoInv
<1>2. PICK i \in DOMAIN q :
        /\ subscriber' = [subscriber EXCEPT ![g] = B!RemoveAt(@, i)]
        /\ aborted' = (blockList[g] # q[i] - 1)
        /\ blockList' = IF aborted' THEN blockList ELSE [blockList EXCEPT ![g] = q[i]]
        /\ IF ~aborted' /\ B!canExecute([blockList EXCEPT ![g] = q[i]], q[i])
           THEN /\ lastCommittedRound' = q[i]
                /\ delivered' = delivered \o [k \in 1 .. GroupCount |-> <<k - 1, q[i]>>]
           ELSE UNCHANGED <<lastCommittedRound, delivered>>
    BY DEF B!orderBlock, B!Returnable
<1>3. UNCHANGED agreed BY DEF B!orderBlock
<1> DEFINE b == q[i]
<1>4. b \in Int /\ b \in agreed[g] BY <1>1 DEF GeoInv
<1>5. /\ B!RemoveAt(q, i) \in Seq(Int)
      /\ \A k \in DOMAIN B!RemoveAt(q, i) : \E j \in DOMAIN q : B!RemoveAt(q, i)[k] = q[j]
    <2> DEFINE x == SubSeq(q, 1, i - 1)
               y == SubSeq(q, i + 1, Len(q))
    <2>1. i \in 1 .. Len(q) BY <1>1
    <2>2. x \in Seq(Int) /\ Len(x) = i - 1 /\ \A k \in 1 .. (i - 1) : x[k] = q[k]
        BY <1>1, <2>1
    <2>3. y \in Seq(Int) /\ Len(y) = Len(q) - i
          /\ \A k \in 1 .. (Len(q) - i) : y[k] = q[i + k]
        <3> DEFINE m == i + 1
                   n == Len(q)
        <3>1. m \in Nat /\ n \in Nat /\ 1 <= m /\ m <= n + 1 BY <1>1, <2>1
        <3>2. \A k \in m .. n : q[k] \in Int BY <1>1, <2>1
        <3> HIDE DEF m, n, q
        <3>3. SubSeq(q, m, n) \in Seq(Int) /\ Len(SubSeq(q, m, n)) = n - m + 1
              /\ \A k \in 1 .. (n - m + 1) : SubSeq(q, m, n)[k] = q[m + k - 1]
            BY <3>1, <3>2, SubSeqProperties
        <3>4. n - m + 1 = n - i BY <1>1, <2>1, <3>1 DEF m
        <3>5. \A k \in 1 .. (n - i) : m + k - 1 = i + k BY <1>1, <2>1, <3>1 DEF m
        <3> QED BY <3>3, <3>4, <3>5 DEF m, n
    <2>4. B!RemoveAt(q, i) = x \o y BY DEF B!RemoveAt
    <2> DEFINE z == x \o y
    <2> HIDE DEF x, y, q
    <2>5. z \in Seq(Int) /\ Len(z) = Len(x) + Len(y)
          /\ \A k \in 1 .. Len(z) : z[k] = IF k <= Len(x) THEN x[k] ELSE y[k - Len(x)]
        <3>1. x \in Seq(Int) /\ y \in Seq(Int) BY <2>2, <2>3
        <3>2. /\ x \o y \in Seq(Int) /\ Len(x \o y) = Len(x) + Len(y)
              /\ \A k \in 1 .. (Len(x) + Len(y)) :
                    (x \o y)[k] = IF k <= Len(x) THEN x[k] ELSE y[k - Len(x)]
            BY <3>1, ConcatProperties
        <3> QED BY <3>2, Zenon
    <2> HIDE DEF z
    <2>6. ASSUME NEW k \in DOMAIN z PROVE \E j \in DOMAIN q : z[k] = q[j]
        <3>0. k \in 1 .. Len(z) /\ (z[k] = IF k <= i - 1 THEN x[k] ELSE y[k - (i - 1)])
            <4>1. k \in 1 .. Len(z) BY <2>5
            <4>2. z[k] = IF k <= Len(x) THEN x[k] ELSE y[k - Len(x)] BY <2>5, <4>1
            <4> QED BY <2>2, <4>1, <4>2
        <3>1. k \in 1 .. (Len(q) - 1) BY <1>1, <2>1, <2>2, <2>3, <2>5
        <3>2. CASE k <= i - 1
            <4>1. k \in 1 .. (i - 1) BY <1>1, <2>1, <3>1, <3>2
            <4>2. z[k] = x[k] BY <3>0, <3>2
            <4>3. z[k] = q[k] BY <2>2, <4>1, <4>2
            <4>4. k \in DOMAIN q BY <1>1, <3>1
            <4> QED BY <4>3, <4>4
        <3>3. CASE ~ (k <= i - 1)
            <4>1. k - (i - 1) \in 1 .. (Len(q) - i) BY <1>1, <2>1, <3>1, <3>3
            <4>2. z[k] = y[k - (i - 1)] BY <3>0, <3>3
            <4>3. z[k] = q[i + (k - (i - 1))] BY <2>3, <4>1, <4>2
            <4>4. i + (k - (i - 1)) \in DOMAIN q BY <1>1, <2>1, <3>1, <3>3
            <4> QED BY <4>3, <4>4
        <3> QED BY <3>2, <3>3
    <2> QED BY <2>4, <2>5, <2>6 DEF z
<1>6. /\ subscriber' \in [Group -> Seq(Int)] /\ subscriber'[g] = B!RemoveAt(q, i)
      /\ \A h \in Group : h # g => subscriber'[h] = subscriber[h]
    BY <1>2, <1>5 DEF GeoInv
<1>7. \A h \in Group : \A k \in DOMAIN subscriber'[h] : subscriber'[h][k] \in agreed[h]
    <2> SUFFICES ASSUME NEW h \in Group, NEW k \in DOMAIN subscriber'[h]
                 PROVE  subscriber'[h][k] \in agreed[h]
        OBVIOUS
    <2>1. CASE h = g BY <1>5, <1>6, <2>1 DEF GeoInv
    <2>2. CASE h # g BY <1>6, <2>2 DEF GeoInv
    <2> QED BY <2>1, <2>2
<1> DEFINE list == [blockList EXCEPT ![g] = b]
<1>8. list \in [Group -> Int] /\ list[g] = b /\ \A h \in Group : h # g => list[h] = blockList[h]
    BY <1>4 DEF GeoInv
<1>9. lastCommittedRound \in Int /\ \A h \in Group : blockList[h] \in Int
    BY DEF RoundsTyped, GeoInv
<1>10. CASE aborted'
    <2>1. UNCHANGED <<blockList, lastCommittedRound, delivered>> BY <1>2, <1>10
    <2>2. GeoInv' BY <1>3, <1>6, <1>7, <2>1 DEF GeoInv
    <2>3. RoundsTyped' BY <1>3, <2>1 DEF RoundsTyped
    <2> QED BY <1>3, <2>1, <2>2, <2>3
<1>11. CASE ~aborted'
    <2>1. blockList' = list /\ blockList[g] = b - 1 BY <1>2, <1>9, <1>4, <1>11
    <2> HIDE DEF list, b, q
    <2>2. b >= 0 /\ -1 <= b BY <1>4, <1>9, <2>1 DEF GeoInv
    <2>3. ASSUME NEW h \in Group PROVE 0 .. list[h] \subseteq agreed[h]
        <3>1. CASE h = g
            <4>1. \A k \in 0 .. b : k \in 0 .. blockList[g] \/ k = b BY <1>4, <1>9, <2>1
            <4> QED BY <1>4, <1>8, <3>1, <4>1 DEF GeoInv
        <3>2. CASE h # g BY <1>8, <3>2 DEF GeoInv
        <3> QED BY <3>1, <3>2
    <2>4. ASSUME NEW h \in Group PROVE lastCommittedRound <= list[h] /\ -1 <= list[h]
        <3>1. CASE h = g
            <4>1. lastCommittedRound <= b - 1 BY <2>1 DEF GeoInv
            <4> QED BY <1>4, <1>8, <1>9, <2>2, <3>1, <4>1
        <3>2. CASE h # g BY <1>8, <3>2 DEF GeoInv
        <3> QED BY <3>1, <3>2
    <2>5. PICK m \in Group : blockList[m] = lastCommittedRound BY DEF GeoInv
    <2>6. CASE \A h \in Group : list[h] >= b
        <3>1. /\ lastCommittedRound' = b
              /\ delivered' = delivered \o [k \in 1 .. GroupCount |-> <<k - 1, b>>]
            BY <1>2, <1>11, <2>6 DEF B!canExecute, B!Group, Group, list, b
        <3>2. lastCommittedRound = b - 1
            <4>1. CASE m = g BY <2>1, <2>5, <4>1
            <4>2. CASE m # g
                <5>1. lastCommittedRound >= b BY <1>8, <2>5, <2>6, <4>2
                <5>2. lastCommittedRound <= b - 1 BY <2>1 DEF GeoInv
                <5> QED BY <1>4, <1>9, <5>1, <5>2
            <4> QED BY <4>1, <4>2
        <3>3. GeoInv'
            <4>1. list[g] = b BY <1>8
            <4>2. \A h \in Group : b <= list[h] BY <1>4, <1>8, <2>6
            <4> QED BY <1>3, <1>6, <1>7, <1>8, <2>1, <2>3, <2>4, <3>1, <4>1, <4>2 DEF GeoInv
        <3> DEFINE v == [k \in 1 .. GroupCount |-> k - 1]
        <3>4. IsValidGroups(v, GroupCount)
            <4>1. v \in Seq(Int) /\ DOMAIN v = 1 .. GroupCount BY GroupCountAssumption
            <4>2. invalidGroupList = {} BY DEF GeoInv
            <4>3. \A k \in 1 .. GroupCount : v[k] = k - 1 OBVIOUS
            <4>4. \A k \in 1 .. GroupCount : k - 1 \in 0 .. (GroupCount - 1)
                BY GroupCountAssumption
            <4>5. ASSUME NEW h \in 0 .. (GroupCount - 1) PROVE \E k \in 1 .. GroupCount : v[k] = h
                <5>1. h + 1 \in 1 .. GroupCount /\ (h + 1) - 1 = h BY GroupCountAssumption
                <5> QED BY <5>1
            <4>6. \A j, k \in 1 .. GroupCount : j < k => v[j] < v[k] BY GroupCountAssumption
            <4> HIDE DEF v
            <4> QED BY <4>1, <4>2, <4>3, <4>4, <4>5, <4>6 DEF IsValidGroups
        <3>5. delivered' = delivered \o [k \in DOMAIN v |-> <<v[k], b>>]
            <4>1. [k \in DOMAIN v |-> <<v[k], b>>] = [k \in 1 .. GroupCount |-> <<k - 1, b>>]
                OBVIOUS
            <4> QED BY <3>1, <4>1
        <3> HIDE DEF v
        <3>6. R!ExecuteRound(b) /\ delivered' \in Seq(Int \X Int)
            BY <1>4, <3>4, <3>5, AppendsRound DEF RoundsTyped
        <3>7. RoundsTyped' BY <1>3, <1>4, <3>1, <3>6 DEF RoundsTyped
        <3>8. \A h \in Group : b \in agreed[h]
            <4> SUFFICES ASSUME NEW h \in Group PROVE b \in agreed[h] OBVIOUS
            <4>1. b \in 0 .. list[h] BY <1>4, <1>8, <2>2, <2>6
            <4> QED BY <2>3, <4>1
        <3>9. lastCommittedRound + 1 = b BY <1>4, <3>2
        <3>10. R!Group = Group BY DEF R!Group, Group
        <3>11. R!Execute BY <1>3, <3>1, <3>6, <3>8, <3>9, <3>10 DEF R!Execute
        <3> QED BY <3>3, <3>7, <3>11
    <2>7. CASE ~ \A h \in Group : list[h] >= b
        <3>1. UNCHANGED <<lastCommittedRound, delivered>>
            BY <1>2, <2>7 DEF B!canExecute, B!Group, Group, list, b
        <3>2. \E h \in Group : list[h] = lastCommittedRound
            <4>1. CASE m # g BY <1>8, <2>5, <4>1
            <4>2. CASE m = g
                <5>1. PICK h \in Group : ~ (list[h] >= b) BY <2>7
                <5>2. list[h] \in Int /\ lastCommittedRound = b - 1 /\ lastCommittedRound <= list[h]
                    BY <1>8, <2>1, <2>4, <2>5, <4>2
                <5>3. list[h] = lastCommittedRound BY <1>4, <1>9, <5>1, <5>2
                <5> QED BY <5>3
            <4> QED BY <4>1, <4>2
        <3>3. GeoInv' BY <1>3, <1>6, <1>7, <1>8, <2>1, <2>3, <2>4, <3>1, <3>2 DEF GeoInv
        <3>4. RoundsTyped' BY <1>3, <3>1 DEF RoundsTyped
        <3> QED BY <1>3, <3>1, <3>3, <3>4
    <2> QED BY <2>6, <2>7
<1> QED BY <1>10, <1>11

\* Every ordering by rounds executes complete rounds of the groups that are not
\* down, in order and none twice, as long as the leader of group 0 is not reported
\* to be down: however the logs of the groups interleave, whatever is gossiped
\* again, and in whatever order the subscription returns the blocks.
THEOREM RoundsInOrder ==
    ASSUME 0 \notin Faulty PROVE MCSpec => RoundsImplemented
<1> DEFINE A == <<agreed, invalidGroupList, lastCommittedRound, delivered>>
<1>1. MCInit => RoundsInv
    <2> SUFFICES ASSUME MCInit PROVE RoundsInv OBVIOUS
    <2>1. /\ agreed = [g \in Group |-> {}] /\ receiveMap = [r \in {} |-> {}]
          /\ lastCommittedRound = -1 /\ invalidGroupList = {} /\ delivered = <<>>
          /\ subscriber = [g \in Group |-> <<>>] /\ blockList = [g \in Group |-> -1]
        BY DEF MCInit, Init
    <2>2. RoundsTyped BY <2>1 DEF RoundsTyped
    <2>3. ManagerInv BY <2>1 DEF ManagerInv
    <2>4. 0 \in Group BY GroupCountAssumption DEF Group
    <2>5. GeoInv
        <3>1. \A g \in Group : subscriber[g] = <<>> /\ blockList[g] = -1 BY <2>1
        <3>2. 0 .. -1 = {} OBVIOUS
        <3>3. subscriber \in [Group -> Seq(Int)] /\ blockList \in [Group -> Int] BY <2>1
        <3> QED BY <2>1, <2>4, <3>1, <3>2, <3>3 DEF GeoInv
    <2> QED BY <2>2, <2>3, <2>5 DEF RoundsInv
<1>2. ASSUME RoundsInv, MCNext
      PROVE  RoundsInv' /\ (sys # "steward" => [R!Next]_A)
    <2>1. sys' = sys BY <1>2 DEF MCNext
    <2>2. CASE sys = "rb" \/ sys = "iss"
        <3>1. ManagerInv /\ RoundsTyped BY <1>2, <2>2 DEF RoundsInv
        <3>2. CASE Next \/ (\E v \in Group : IssPush(v))
            BY <2>1, <2>2, <3>1, <3>2, ManagerStep DEF RoundsInv
        <3>3. CASE UNCHANGED vars
            BY <2>1, <2>2, <3>1, <3>3 DEF RoundsInv, vars, ManagerInv, RoundsTyped
        <3> QED BY <1>2, <2>2, <3>2, <3>3 DEF MCNext, IssStep, Next
    <2>3. CASE sys = "geobft"
        <3>1. B!Next /\ UNCHANGED invalidGroupList BY <1>2, <2>3 DEF MCNext, managerVars
        <3>2. GeoInv /\ RoundsTyped BY <1>2, <2>3 DEF RoundsInv
        <3>3. PICK g \in Group : B!insertBlockAndNotify(g) \/ B!orderBlock(g)
            BY <3>1 DEF B!Next, B!Group, Group
        <3>4. GeoInv' /\ RoundsTyped' /\ [R!Next]_A
            BY <3>1, <3>2, <3>3, GeoInsertStep, GeoOrderStep DEF R!Next
        <3> QED BY <2>1, <2>3, <3>4 DEF RoundsInv
    <2>4. CASE sys = "steward" BY <2>1, <2>4 DEF RoundsInv
    <2> QED BY <1>2, <2>2, <2>3, <2>4 DEF MCNext
<1>3. RoundsInv /\ [MCNext]_all => RoundsInv' /\ [sys # "steward" => R!Next]_A
    <2> SUFFICES ASSUME RoundsInv, [MCNext]_all
                 PROVE  RoundsInv' /\ [sys # "steward" => R!Next]_A
        OBVIOUS
    <2>1. CASE MCNext BY <1>2, <2>1
    <2>2. CASE UNCHANGED all
        BY <2>2 DEF all, vars, geoVars, RoundsInv, RoundsTyped, ManagerInv, GeoInv
    <2> QED BY <2>1, <2>2
<1> QED BY <1>1, <1>3, PTL DEF MCSpec, RoundsImplemented

-----------------------------------------------------------------------------
(* The epochs of ISS.                                                      *)

LEMMA IssGroup == I!Group = Group BY DEF I!Group, Group

\* the multiples of the length of an epoch
LEMMA Multiples ==
    /\ EpochLength \in Nat /\ EpochLength >= 1
    /\ \A e \in Nat : EpochLength * e \in Nat /\ EpochLength * (e + 1) = EpochLength * e + EpochLength
    /\ \A e, f \in Nat : e <= f => EpochLength * e <= EpochLength * f
<1>1. EpochLength \in Nat /\ EpochLength >= 1 BY EpochAssumption
<1>2. \A l, e \in Nat : l * e \in Nat /\ l * (e + 1) = l * e + l OBVIOUS
<1>3. \A l, e, f \in Nat : e <= f => l * e <= l * f OBVIOUS
<1> QED BY <1>1, <1>2, <1>3

\* a bucket that is as large as the set of groups holds them all
LEMMA FullBucket ==
    ASSUME NEW T \in SUBSET Group, I!Cardinality(T) >= GroupCount
    PROVE  T = Group
<1>1. I!Cardinality(T) = Cardinality(T) BY DEF I!Cardinality, Cardinality
<1>2. GroupCount \in Nat /\ GroupCount - 1 \in Int /\ ~ (0 > GroupCount - 1)
      /\ (GroupCount - 1) - 0 + 1 = GroupCount
    BY GroupCountAssumption
<1>3. IsFiniteSet(Group) /\ Cardinality(Group) = GroupCount BY <1>2, FS_Interval DEF Group
<1>4. IsFiniteSet(T) /\ Cardinality(T) <= GroupCount /\ (GroupCount = Cardinality(T) => Group = T)
    BY <1>3, FS_Subset
<1>5. Cardinality(T) \in Nat BY <1>4, FS_CardinalityType
<1> QED BY <1>1, <1>2, <1>4, <1>5

IssTyped ==
    /\ inserted \in [Group -> Nat]
    /\ queue \in [Group -> SUBSET Nat]
    /\ lastBlockId \in [Group -> Int]
    /\ target \in [Group -> Int]
    /\ proposed \in [Group -> Nat]
    /\ bucket \in [Group -> [0 .. IssMaxBlock -> SUBSET Group]]
    /\ currentEpoch \in [Group -> Nat]
    /\ applied \in [Group -> [Group -> Nat]]

\* The leader of u proposes blocks it has: the numbers between the last block
\* proposed and the one that the queue has returned are those of earlier blocks.
ProposesOwn ==
    \A u \in Group :
        /\ \A b \in queue[u] : b < inserted[u]
        /\ inserted[u] <= IssMaxBlock + 1
        /\ IF target[u] = -1
           THEN proposed[u] = lastBlockId[u] + 1 /\ proposed[u] <= inserted[u]
           ELSE /\ lastBlockId[u] + 1 <= proposed[u] /\ proposed[u] <= target[u]
                /\ target[u] < inserted[u]

\* it proposes in the epochs that it has reached
InEpoch ==
    \A u \in Group :
        /\ currentEpoch[u] <= IssMaxBlock + 1
        /\ proposed[u] <= EpochLength * (currentEpoch[u] + 1)

\* it knows all blocks of the epochs before, and has applied what it knows
EpochsKnown ==
    \A u \in Group :
        /\ \A b \in 0 .. IssMaxBlock : \A v \in bucket[u][b] : b < applied[u][v]
        /\ \A i \in 0 .. (currentEpoch[u] - 1) :
             \A b \in (EpochLength * i) .. (EpochLength * (i + 1) - 1) :
                b \in 0 .. IssMaxBlock /\ bucket[u][b] = Group

\* it applies blocks that have been proposed
AppliesProposed == \A u, v \in Group : applied[u][v] <= proposed[v]

IssInv == IssTyped /\ ProposesOwn /\ AppliesProposed /\ InEpoch /\ EpochsKnown

\* a leader that receives a block stays in its epoch, or goes on to a later one
\* all of whose blocks, and those of the epochs in between, it has received
LEMMA ReceivedStep ==
    ASSUME IssInv, NEW u \in Group, NEW v \in Group, NEW b \in 0 .. IssMaxBlock,
           I!receivedBlock(u, v, b),
           b < applied'[u][v],
           applied' \in [Group -> [Group -> Nat]],
           \A x, y \in Group : applied[x][y] <= applied'[x][y] /\ applied'[x][y] <= proposed[y],
           UNCHANGED <<inserted, queue, lastBlockId, target, proposed>>
    PROVE  IssInv'
<1> DEFINE k == [bucket[u] EXCEPT ![b] = @ \cup {v}]
           Reached(e) == \A i \in currentEpoch[u] .. (e - 1) : I!checkEpoch(k, i)
           E == {e \in currentEpoch[u] .. (IssMaxBlock + 1) : Reached(e)}
<1>1. /\ bucket' = [bucket EXCEPT ![u] = k]
      /\ currentEpoch' = [currentEpoch EXCEPT ![u] = I!Max(E)]
    BY DEF I!receivedBlock, IssInv, IssTyped
<1>2. bucket[u] \in [0 .. IssMaxBlock -> SUBSET Group] /\ currentEpoch[u] \in Nat
      /\ IssMaxBlock \in Nat /\ currentEpoch[u] <= IssMaxBlock + 1
    BY EpochAssumption DEF IssInv, IssTyped, InEpoch
<1>3. /\ k \in [0 .. IssMaxBlock -> SUBSET Group]
      /\ \A c \in 0 .. IssMaxBlock : k[c] = IF c = b THEN bucket[u][c] \cup {v} ELSE bucket[u][c]
    BY <1>2
<1> HIDE DEF k
<1>4. I!Max(E) \in E
    <2>1. currentEpoch[u] \in E
        <3>1. currentEpoch[u] .. (currentEpoch[u] - 1) = {} BY <1>2
        <3>2. currentEpoch[u] \in currentEpoch[u] .. (IssMaxBlock + 1) BY <1>2
        <3> QED BY <3>1, <3>2
    <2>2. \A e \in E : e \in Nat /\ e <= IssMaxBlock + 1 BY <1>2
    <2> HIDE DEF E
    <2> DEFINE D == {(IssMaxBlock + 1) - e : e \in E}
    <2>3. D \subseteq Nat
        <3>1. \A e \in E : (IssMaxBlock + 1) - e \in Nat BY <1>2, <2>2
        <3> QED BY <3>1
    <2>4. D # {} BY <2>1
    <2>5. PICK d \in D : \A c \in D : d <= c BY <2>3, <2>4, LeastNatural
    <2>6. PICK e \in E : d = (IssMaxBlock + 1) - e BY <2>5
    <2>7. ASSUME NEW f \in E PROVE e >= f
        <3>1. (IssMaxBlock + 1) - f \in D OBVIOUS
        <3>2. (IssMaxBlock + 1) - e <= (IssMaxBlock + 1) - f BY <2>5, <2>6, <3>1
        <3> QED BY <1>2, <2>2, <3>2
    <2>8. \E x \in E : \A y \in E : x >= y BY <2>7
    <2> QED BY <2>8, Zenon DEF I!Max
<1> DEFINE m == I!Max(E)
<1>5. /\ m \in Nat /\ currentEpoch[u] <= m /\ m <= IssMaxBlock + 1
      /\ \A i \in currentEpoch[u] .. (m - 1) : I!checkEpoch(k, i)
    <2>1. m \in currentEpoch[u] .. (IssMaxBlock + 1) /\ Reached(m) BY <1>4
    <2> HIDE DEF m
    <2> QED BY <2>1, <1>2
<1> HIDE DEF m, E
<1>6. /\ currentEpoch' \in [Group -> Nat] /\ currentEpoch'[u] = m
      /\ \A w \in Group : w # u => currentEpoch'[w] = currentEpoch[w]
    BY <1>1, <1>5 DEF IssInv, IssTyped, m
<1>7. /\ bucket' \in [Group -> [0 .. IssMaxBlock -> SUBSET Group]] /\ bucket'[u] = k
      /\ \A w \in Group : w # u => bucket'[w] = bucket[w]
    BY <1>1, <1>3 DEF IssInv, IssTyped
<1>8. IssTyped' BY <1>6, <1>7 DEF IssInv, IssTyped
<1>9. ProposesOwn' /\ AppliesProposed' BY DEF IssInv, ProposesOwn, AppliesProposed
<1>10. InEpoch'
    <2> SUFFICES ASSUME NEW w \in Group
                 PROVE  /\ currentEpoch'[w] <= IssMaxBlock + 1
                        /\ proposed[w] <= EpochLength * (currentEpoch'[w] + 1)
        BY DEF InEpoch
    <2>1. CASE w # u BY <1>6, <2>1 DEF IssInv, InEpoch
    <2>2. CASE w = u
        <3>1. proposed[u] <= EpochLength * (currentEpoch[u] + 1) /\ proposed[u] \in Nat
            BY DEF IssInv, InEpoch, IssTyped
        <3>2. currentEpoch[u] + 1 \in Nat /\ m + 1 \in Nat /\ currentEpoch[u] + 1 <= m + 1
            BY <1>2, <1>5, SMTT(30)
        <3>3. EpochLength * (currentEpoch[u] + 1) <= EpochLength * (m + 1)
              /\ EpochLength * (currentEpoch[u] + 1) \in Nat /\ EpochLength * (m + 1) \in Nat
            BY <3>2, Multiples
        <3>4. proposed[u] <= EpochLength * (m + 1)
            <4> DEFINE x == EpochLength * (currentEpoch[u] + 1)
                       y == EpochLength * (m + 1)
            <4>1. proposed[u] <= x /\ x <= y /\ x \in Nat /\ y \in Nat /\ proposed[u] \in Nat
                BY <3>1, <3>3
            <4> HIDE DEF x, y
            <4>2. proposed[u] <= y BY <4>1
            <4> QED BY <4>2 DEF y
        <3> QED BY <1>5, <1>6, <2>2, <3>4
    <2> QED BY <2>1, <2>2
<1>11. EpochsKnown'
    <2>1. ASSUME NEW w \in Group, NEW c \in 0 .. IssMaxBlock, NEW x \in bucket'[w][c]
          PROVE  c < applied'[w][x]
        <3>1. CASE x \in bucket[w][c]
            <4>0. bucket[w] \in [0 .. IssMaxBlock -> SUBSET Group] BY DEF IssInv, IssTyped
            <4>1. x \in Group BY <3>1, <4>0
            <4>2. c < applied[w][x] /\ applied[w][x] <= applied'[w][x]
                BY <3>1, <4>1 DEF IssInv, EpochsKnown
            <4>3. applied[w][x] \in Nat /\ applied'[w][x] \in Nat /\ c \in Int
                BY <4>1 DEF IssInv, IssTyped
            <4> QED BY <4>2, <4>3
        <3>2. CASE w = u /\ c = b /\ x = v BY <3>2
        <3>3. x \in bucket[w][c] \/ (w = u /\ c = b /\ x = v)
            <4>1. CASE w # u BY <1>7, <2>1, <4>1
            <4>2. CASE w = u BY <1>3, <1>7, <2>1, <4>2
            <4> QED BY <4>1, <4>2
        <3> QED BY <3>1, <3>2, <3>3
    <2>2. ASSUME NEW w \in Group, NEW i \in 0 .. (currentEpoch'[w] - 1),
                 NEW c \in (EpochLength * i) .. (EpochLength * (i + 1) - 1)
          PROVE  c \in 0 .. IssMaxBlock /\ bucket'[w][c] = Group
        <3>1. CASE w # u BY <1>6, <1>7, <3>1 DEF IssInv, EpochsKnown
        <3>2. CASE w = u /\ i \in 0 .. (currentEpoch[u] - 1)
            <4>1. c \in 0 .. IssMaxBlock /\ bucket[u][c] = Group BY <3>2 DEF IssInv, EpochsKnown
            <4>2. k[c] = Group BY <1>3, <4>1
            <4> QED BY <1>7, <3>2, <4>1, <4>2
        <3>3. CASE w = u /\ i \in currentEpoch[u] .. (m - 1)
            <4>1. c \in DOMAIN k /\ I!Cardinality(k[c]) >= GroupCount
                BY <1>5, <3>3 DEF I!checkEpoch
            <4>2. c \in 0 .. IssMaxBlock BY <1>3, <4>1
            <4>3. k[c] \in SUBSET Group BY <1>3, <4>2
            <4>4. k[c] = Group BY <4>1, <4>3, FullBucket
            <4> QED BY <1>7, <3>3, <4>2, <4>4
        <3>4. w = u => i \in 0 .. (currentEpoch[u] - 1) \/ i \in currentEpoch[u] .. (m - 1)
            BY <1>2, <1>5, <1>6
        <3> QED BY <3>1, <3>2, <3>3, <3>4
    <2> QED BY <2>1, <2>2 DEF EpochsKnown
<1> QED BY <1>8, <1>9, <1>10, <1>11 DEF IssInv

LEMMA IssStepInv == ASSUME IssInv, I!Next PROVE IssInv'
<1>1. ASSUME NEW u \in Group, I!Insert(u) PROVE IssInv'
    <2>1. /\ inserted[u] <= IssMaxBlock
          /\ inserted' = [inserted EXCEPT ![u] = @ + 1]
          /\ queue' = [queue EXCEPT ![u] = @ \cup {inserted[u]}]
          /\ UNCHANGED <<lastBlockId, target, proposed, bucket, currentEpoch, applied>>
        BY <1>1 DEF I!Insert
    <2>2. inserted[u] \in Nat /\ IssMaxBlock \in Nat BY EpochAssumption DEF IssInv, IssTyped
    <2>3. /\ inserted' \in [Group -> Nat] /\ inserted'[u] = inserted[u] + 1
          /\ \A w \in Group : w # u => inserted'[w] = inserted[w]
        BY <2>1, <2>2 DEF IssInv, IssTyped
    <2>4. /\ queue' \in [Group -> SUBSET Nat] /\ queue'[u] = queue[u] \cup {inserted[u]}
          /\ \A w \in Group : w # u => queue'[w] = queue[w]
        BY <2>1, <2>2 DEF IssInv, IssTyped
    <2>5. IssTyped' BY <2>1, <2>3, <2>4 DEF IssInv, IssTyped
    <2>6. ProposesOwn'
        <3> SUFFICES ASSUME NEW w \in Group
                     PROVE  /\ \A b \in queue'[w] : b < inserted'[w]
                            /\ inserted'[w] <= IssMaxBlock + 1
                            /\ IF target[w] = -1
                               THEN proposed[w] = lastBlockId[w] + 1 /\ proposed[w] <= inserted'[w]
                               ELSE /\ lastBlockId[w] + 1 <= proposed[w] /\ proposed[w] <= target[w]
                                    /\ target[w] < inserted'[w]
            BY <2>1 DEF ProposesOwn
        <3>1. CASE w # u BY <2>3, <2>4, <3>1 DEF IssInv, ProposesOwn
        <3>2. CASE w = u
            <4>1. \A b \in queue[u] : b \in Nat /\ b < inserted[u]
                BY DEF IssInv, IssTyped, ProposesOwn
            <4>2. \A b \in queue'[u] : b < inserted'[u] BY <2>2, <2>3, <2>4, <4>1
            <4>3. proposed[u] \in Nat /\ target[u] \in Int BY DEF IssInv, IssTyped
            <4> QED BY <2>1, <2>2, <2>3, <3>2, <4>2, <4>3 DEF IssInv, ProposesOwn
        <3> QED BY <3>1, <3>2
    <2> QED BY <2>1, <2>5, <2>6 DEF IssInv, AppliesProposed, InEpoch, EpochsKnown
<1>2. ASSUME NEW u \in Group, I!voteNewBlock(u) PROVE IssInv'
    <2>1. PICK b \in queue[u] :
            /\ queue' = [queue EXCEPT ![u] = @ \ {b}]
            /\ target' = [target EXCEPT ![u] = IF b > lastBlockId[u] THEN b ELSE -1]
        BY <1>2 DEF I!voteNewBlock
    <2>2. /\ target[u] = -1
          /\ UNCHANGED <<inserted, lastBlockId, proposed, bucket, currentEpoch, applied>>
        BY <1>2 DEF I!voteNewBlock
    <2>3. b \in Nat /\ b < inserted[u] /\ lastBlockId[u] \in Int /\ proposed[u] \in Nat
          /\ proposed[u] = lastBlockId[u] + 1 /\ proposed[u] <= inserted[u]
        BY <2>2 DEF IssInv, IssTyped, ProposesOwn
    <2>4. /\ queue' \in [Group -> SUBSET Nat] /\ queue'[u] = queue[u] \ {b}
          /\ \A w \in Group : w # u => queue'[w] = queue[w]
        BY <2>1 DEF IssInv, IssTyped
    <2>5. /\ target' \in [Group -> Int] /\ target'[u] = IF b > lastBlockId[u] THEN b ELSE -1
          /\ \A w \in Group : w # u => target'[w] = target[w]
        BY <2>1, <2>3 DEF IssInv, IssTyped
    <2>6. IssTyped' BY <2>2, <2>4, <2>5 DEF IssInv, IssTyped
    <2>7. ProposesOwn'
        <3> SUFFICES ASSUME NEW w \in Group
                     PROVE  /\ \A c \in queue'[w] : c < inserted[w]
                            /\ inserted[w] <= IssMaxBlock + 1
                            /\ IF target'[w] = -1
                               THEN proposed[w] = lastBlockId[w] + 1 /\ proposed[w] <= inserted[w]
                               ELSE /\ lastBlockId[w] + 1 <= proposed[w] /\ proposed[w] <= target'[w]
                                    /\ target'[w] < inserted[w]
            BY <2>2 DEF ProposesOwn
        <3>1. CASE w # u BY <2>4, <2>5, <3>1 DEF IssInv, ProposesOwn
        <3>2. CASE w = u
            <4>1. CASE b > lastBlockId[u]
                BY <2>3, <2>4, <2>5, <3>2, <4>1 DEF IssInv, ProposesOwn
            <4>2. CASE ~ (b > lastBlockId[u])
                BY <2>3, <2>4, <2>5, <3>2, <4>2 DEF IssInv, ProposesOwn
            <4> QED BY <4>1, <4>2
        <3> QED BY <3>1, <3>2
    <2> QED BY <2>2, <2>6, <2>7 DEF IssInv, AppliesProposed, InEpoch, EpochsKnown
<1>3. ASSUME NEW u \in Group, I!voteNewBlockInner(u) PROVE IssInv'
    <2> DEFINE b == proposed[u]
    <2>1. /\ target[u] # -1 /\ b < EpochLength * (currentEpoch[u] + 1)
          /\ proposed' = [proposed EXCEPT ![u] = b + 1]
          /\ lastBlockId' = IF b = target[u] THEN [lastBlockId EXCEPT ![u] = b] ELSE lastBlockId
          /\ target' = IF b = target[u] THEN [target EXCEPT ![u] = -1] ELSE target
          /\ UNCHANGED <<inserted, queue, bucket, currentEpoch, applied>>
        BY <1>3 DEF I!voteNewBlockInner, I!canPropose
    <2>2. /\ b \in Nat /\ target[u] \in Int /\ lastBlockId[u] \in Int /\ inserted[u] \in Nat
          /\ lastBlockId[u] + 1 <= b /\ b <= target[u] /\ target[u] < inserted[u]
        BY <2>1 DEF IssInv, IssTyped, ProposesOwn
    <2>3. /\ proposed' \in [Group -> Nat] /\ proposed'[u] = b + 1
          /\ \A w \in Group : w # u => proposed'[w] = proposed[w]
        BY <2>1, <2>2 DEF IssInv, IssTyped
    <2>4. /\ target' \in [Group -> Int]
          /\ target'[u] = IF b = target[u] THEN -1 ELSE target[u]
          /\ \A w \in Group : w # u => target'[w] = target[w]
        BY <2>1 DEF IssInv, IssTyped
    <2>5. /\ lastBlockId' \in [Group -> Int]
          /\ lastBlockId'[u] = IF b = target[u] THEN b ELSE lastBlockId[u]
          /\ \A w \in Group : w # u => lastBlockId'[w] = lastBlockId[w]
        BY <2>1, <2>2 DEF IssInv, IssTyped
    <2>6. IssTyped' BY <2>1, <2>3, <2>4, <2>5 DEF IssInv, IssTyped
    <2>7. ProposesOwn'
        <3> SUFFICES ASSUME NEW w \in Group
                     PROVE  /\ \A c \in queue[w] : c < inserted[w]
                            /\ inserted[w] <= IssMaxBlock + 1
                            /\ IF target'[w] = -1
                               THEN /\ proposed'[w] = lastBlockId'[w] + 1
                                    /\ proposed'[w] <= inserted[w]
                               ELSE /\ lastBlockId'[w] + 1 <= proposed'[w]
                                    /\ proposed'[w] <= target'[w] /\ target'[w] < inserted[w]
            BY <2>1 DEF ProposesOwn
        <3>1. CASE w # u BY <2>3, <2>4, <2>5, <3>1 DEF IssInv, ProposesOwn
        <3>2. CASE w = u
            <4> HIDE DEF b
            <4>1. CASE b = target[u]
                BY <2>2, <2>3, <2>4, <2>5, <3>2, <4>1 DEF IssInv, ProposesOwn
            <4>2. CASE b # target[u]
                BY <2>1, <2>2, <2>3, <2>4, <2>5, <3>2, <4>2 DEF IssInv, ProposesOwn
            <4> QED BY <4>1, <4>2
        <3> QED BY <3>1, <3>2
    <2>8. InEpoch'
        <3> SUFFICES ASSUME NEW w \in Group
                     PROVE  /\ currentEpoch[w] <= IssMaxBlock + 1
                            /\ proposed'[w] <= EpochLength * (currentEpoch[w] + 1)
            BY <2>1 DEF InEpoch
        <3>1. CASE w # u BY <2>3, <3>1 DEF IssInv, InEpoch
        <3>2. CASE w = u
            <4> DEFINE x == EpochLength * (currentEpoch[u] + 1)
            <4>1. currentEpoch[u] + 1 \in Nat BY DEF IssInv, IssTyped
            <4>2. x \in Nat BY <4>1, Multiples
            <4>3. b < x BY <2>1
            <4> HIDE DEF x, b
            <4>4. b + 1 <= x BY <2>2, <4>2, <4>3
            <4> QED BY <2>3, <3>2, <4>4 DEF IssInv, InEpoch, x
        <3> QED BY <3>1, <3>2
    <2>9. AppliesProposed'
        <3> SUFFICES ASSUME NEW x \in Group, NEW w \in Group PROVE applied[x][w] <= proposed'[w]
            BY <2>1 DEF AppliesProposed
        <3>1. applied[x][w] \in Nat /\ applied[x][w] <= proposed[w]
            BY DEF IssInv, IssTyped, AppliesProposed
        <3>2. CASE w # u BY <2>3, <3>1, <3>2
        <3>3. CASE w = u BY <2>2, <2>3, <3>1, <3>3
        <3> QED BY <3>2, <3>3
    <2> QED BY <2>1, <2>6, <2>7, <2>8, <2>9 DEF IssInv, EpochsKnown
<1>4. ASSUME NEW u \in Group, NEW v \in Group PROVE applied[u][v] \in Nat /\ applied[u] \in [Group -> Nat]
    BY DEF IssInv, IssTyped
<1>5. \A v \in Group : proposed[v] \in Nat /\ proposed[v] <= IssMaxBlock + 1
    <2> SUFFICES ASSUME NEW v \in Group PROVE proposed[v] \in Nat /\ proposed[v] <= IssMaxBlock + 1
        OBVIOUS
    <2>1. proposed[v] \in Nat /\ target[v] \in Int /\ inserted[v] \in Nat /\ IssMaxBlock \in Nat
        BY EpochAssumption DEF IssInv, IssTyped
    <2>2. inserted[v] <= IssMaxBlock + 1 BY DEF IssInv, ProposesOwn
    <2>3. proposed[v] <= inserted[v] BY <2>1 DEF IssInv, ProposesOwn
    <2> QED BY <2>1, <2>2, <2>3
<1>6. ASSUME NEW u \in Group, NEW v \in Group, I!Apply(u, v) PROVE IssInv'
    <2>1. /\ applied[u][v] < proposed[v] /\ I!receivedBlock(u, v, applied[u][v])
          /\ applied' = [applied EXCEPT ![u][v] = @ + 1]
          /\ UNCHANGED <<inserted, queue, lastBlockId, target, proposed>>
        BY <1>6 DEF I!Apply
    <2>2. applied[u][v] \in 0 .. IssMaxBlock BY <1>4, <1>5, <2>1, EpochAssumption
    <2>3. [applied[u] EXCEPT ![v] = @ + 1] \in [Group -> Nat] BY <1>4
    <2>4. /\ applied' \in [Group -> [Group -> Nat]]
          /\ applied'[u] = [applied[u] EXCEPT ![v] = @ + 1]
          /\ \A x \in Group : x # u => applied'[x] = applied[x]
        BY <2>1, <2>3 DEF IssInv, IssTyped
    <2>5. applied'[u][v] = applied[u][v] + 1 BY <1>4, <2>4
    <2>6. applied[u][v] < applied'[u][v] BY <1>4, <2>5
    <2>7. \A x, y \in Group : applied[x][y] <= applied'[x][y]
        <3> SUFFICES ASSUME NEW x \in Group, NEW y \in Group PROVE applied[x][y] <= applied'[x][y]
            OBVIOUS
        <3>1. CASE x = u /\ y = v BY <1>4, <2>5, <3>1
        <3>2. CASE x = u /\ y # v
            <4>1. applied'[u][y] = applied[u][y] BY <1>4, <2>4, <3>2
            <4> QED BY <1>4, <3>2, <4>1
        <3>3. CASE x # u BY <1>4, <2>4, <3>3
        <3> QED BY <3>1, <3>2, <3>3
    <2>8. \A x, y \in Group : applied'[x][y] <= proposed[y]
        <3> SUFFICES ASSUME NEW x \in Group, NEW y \in Group PROVE applied'[x][y] <= proposed[y]
            OBVIOUS
        <3>0. applied[x][y] <= proposed[y] BY DEF IssInv, AppliesProposed
        <3>1. CASE x = u /\ y = v BY <1>4, <1>5, <2>1, <2>5, <3>1
        <3>2. CASE x = u /\ y # v
            <4>1. applied'[u][y] = applied[u][y] BY <1>4, <2>4, <3>2
            <4> QED BY <3>0, <3>2, <4>1
        <3>3. CASE x # u BY <3>0, <2>4, <3>3
        <3> QED BY <3>1, <3>2, <3>3
    <2> QED BY <2>1, <2>2, <2>4, <2>6, <2>7, <2>8, ReceivedStep
<1>7. ASSUME NEW u \in Group, NEW v \in Group, I!Duplicate(u, v) PROVE IssInv'
    <2>1. PICK b \in 0 .. (applied[u][v] - 1) : I!receivedBlock(u, v, b) BY <1>7 DEF I!Duplicate
    <2>2. UNCHANGED <<inserted, queue, lastBlockId, target, proposed, applied>>
        BY <1>7 DEF I!Duplicate
    <2>3. b \in Nat /\ b < applied[u][v] BY <1>4, <2>1
    <2>4. b \in 0 .. IssMaxBlock
        <3>1. applied[u][v] <= proposed[v] BY DEF IssInv, AppliesProposed
        <3> QED BY <1>4, <1>5, <2>3, <3>1, EpochAssumption
    <2>5. applied' \in [Group -> [Group -> Nat]] /\ b < applied'[u][v]
          /\ \A x, y \in Group : applied[x][y] <= applied'[x][y] /\ applied'[x][y] <= proposed[y]
        <3>1. applied' = applied BY <2>2
        <3>2. \A x, y \in Group : applied[x][y] <= applied[x][y] BY <1>4
        <3>3. \A x, y \in Group : applied[x][y] <= proposed[y] BY DEF IssInv, AppliesProposed
        <3>4. applied \in [Group -> [Group -> Nat]] BY DEF IssInv, IssTyped
        <3> QED BY <2>3, <3>1, <3>2, <3>3, <3>4
    <2> QED BY <2>1, <2>2, <2>4, <2>5, ReceivedStep
<1> QED BY <1>1, <1>2, <1>3, <1>6, <1>7, IssGroup DEF I!Next

\* A leader of ISS has applied all blocks of an epoch, of all groups, before it
\* proposes one of the next, and proposes only blocks it has: for every number of
\* groups and every length of the epochs, whatever the queues return first and
\* whatever is gossiped again.
THEOREM EpochsKeptApart == MCSpec => []EpochsSeparated
<1>1. MCInit => IssInv
    <2> SUFFICES ASSUME MCInit PROVE IssInv OBVIOUS
    <2>1. I!Init BY DEF MCInit
    <2>2. /\ inserted = [u \in Group |-> 0] /\ queue = [u \in Group |-> {}]
          /\ lastBlockId = [u \in Group |-> -1] /\ target = [u \in Group |-> -1]
          /\ proposed = [u \in Group |-> 0]
          /\ bucket = [u \in Group |-> [b \in 0 .. IssMaxBlock |-> {}]]
          /\ currentEpoch = [u \in Group |-> 0]
          /\ applied = [u \in Group |-> [v \in Group |-> 0]]
        BY <2>1, IssGroup DEF I!Init
    <2>3. IssTyped BY <2>2 DEF IssTyped
    <2>4. IssMaxBlock \in Nat /\ EpochLength \in Nat /\ EpochLength * (0 + 1) = EpochLength
        BY EpochAssumption, Multiples
    <2>5. ProposesOwn /\ AppliesProposed BY <2>2, <2>4 DEF ProposesOwn, AppliesProposed
    <2>6. InEpoch BY <2>2, <2>4 DEF InEpoch
    <2>7. EpochsKnown
        <3>1. \A u \in Group : 0 .. (currentEpoch[u] - 1) = {} BY <2>2
        <3>2. \A u \in Group : \A b \in 0 .. IssMaxBlock : bucket[u][b] = {} BY <2>2
        <3> QED BY <3>1, <3>2 DEF EpochsKnown
    <2> QED BY <2>3, <2>5, <2>6, <2>7 DEF IssInv
<1>2. IssInv /\ [MCNext]_all => IssInv'
    <2> SUFFICES ASSUME IssInv, [MCNext]_all PROVE IssInv' OBVIOUS
    <2>1. CASE I!Next BY <2>1, IssStepInv
    <2>2. CASE UNCHANGED issVars
        BY <2>2 DEF issVars, IssInv, IssTyped, ProposesOwn, AppliesProposed, InEpoch, EpochsKnown
    <2>3. I!Next \/ UNCHANGED issVars BY DEF MCNext, IssStep, all
    <2> QED BY <2>1, <2>2, <2>3
<1>3. IssInv => EpochsSeparated
    <2> SUFFICES ASSUME IssInv, NEW u \in Group
                 PROVE  /\ proposed[u] <= inserted[u]
                        /\ \A v \in Group : \A e \in 1 .. IssMaxBlock :
                             proposed[u] > EpochLength * e => applied[u][v] >= EpochLength * e
        BY IssGroup DEF EpochsSeparated, I!EpochsSeparated
    <2>1. proposed[u] \in Nat /\ target[u] \in Int /\ inserted[u] \in Nat /\ currentEpoch[u] \in Nat
        BY DEF IssInv, IssTyped
    <2>2. proposed[u] <= inserted[u] BY <2>1 DEF IssInv, ProposesOwn
    <2>3. ASSUME NEW v \in Group, NEW e \in 1 .. IssMaxBlock, proposed[u] > EpochLength * e
          PROVE  applied[u][v] >= EpochLength * e
        <3> DEFINE x == EpochLength * e
                   y == EpochLength * (currentEpoch[u] + 1)
                   z == EpochLength * (e - 1)
        <3>1. e \in Nat /\ e - 1 \in Nat /\ (e - 1) + 1 = e /\ currentEpoch[u] + 1 \in Nat
            BY <2>1, EpochAssumption
        <3>2. x \in Nat /\ y \in Nat /\ z \in Nat /\ EpochLength * ((e - 1) + 1) = z + EpochLength
            BY <3>1, Multiples
        <3>3. x = z + EpochLength BY <3>1, <3>2
        <3>4. proposed[u] <= y /\ proposed[u] > x BY <2>3 DEF IssInv, InEpoch
        <3>5. ~ (currentEpoch[u] + 1 <= e)
            <4> SUFFICES ASSUME currentEpoch[u] + 1 <= e PROVE FALSE OBVIOUS
            <4>1. y <= x BY <3>1, Multiples
            <4> HIDE DEF x, y
            <4> QED BY <2>1, <3>2, <3>4, <4>1
        <3>6. e - 1 \in 0 .. (currentEpoch[u] - 1) BY <2>1, <3>1, <3>5
        <3> HIDE DEF z
        <3>7. x - 1 \in z .. (x - 1)
            <4> HIDE DEF x
            <4> QED BY <3>2, <3>3, Multiples
        <3>8. x - 1 \in (EpochLength * (e - 1)) .. (EpochLength * ((e - 1) + 1) - 1)
            BY <3>1, <3>7 DEF z
        <3> HIDE DEF x
        <3>9. x - 1 \in 0 .. IssMaxBlock /\ bucket[u][x - 1] = Group
            BY <3>6, <3>8 DEF IssInv, EpochsKnown
        <3>10. x - 1 < applied[u][v] BY <3>9 DEF IssInv, EpochsKnown
        <3>11. applied[u][v] \in Nat BY DEF IssInv, IssTyped
        <3>12. applied[u][v] >= x BY <3>2, <3>10, <3>11
        <3> QED BY <3>12 DEF x
    <2> QED BY <2>2, <2>3
<1> QED BY <1>1, <1>2, <1>3, PTL DEF MCSpec
=============================================================================
