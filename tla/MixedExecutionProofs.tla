------------------------- MODULE MixedExecutionProofs -------------------------
(* For every block and every number of workers, the mixed and the write-based *)
(* coordinators give each request its own outcome back, the write-based one   *)
(* computes what the block and the database before it determine, and no vote  *)
(* of the CRDT transactions is lost.                                          *)
(*                                                                            *)
(* A coordinator works on a vector of places (Vector).  The workers empty it  *)
(* and fill it again, and in between a place is known by the list it is in    *)
(* (ListOf) and by the phases it has been through (Passed).  Everything else  *)
(* is said in terms of Passed: what is reserved, decided and written.         *)
EXTENDS MixedExecution, FiniteSetTheorems, WellFoundedInduction, TLAPS

Owner(i) == (i - 1) % WorkerCount

\* the vector the running coordinator was given
Vector ==
    IF stage = "crdt" THEN Split(TRUE)
    ELSE IF coordinator = "mix" THEN Split(FALSE)
    ELSE [i \in Place |-> i]

\* what afterStart puts in a worker's list
ListOf(w) ==
    [n \in {m \in DOMAIN Vector : Turn(w, m) \in DOMAIN Vector} |-> Vector[Turn(w, n)]]

\* the n-th transaction of the vector has been through phase p
Passed(n, p) ==
    \/ p = "exec" /\ phase \in {"commit", "second", "returned"}
    \/ p = "commit" /\ phase \in {"second", "returned"}
    \/ p = "second" /\ phase = "returned"
    \/ p = phase /\ Nth(n) < at[Owner(n)]

Working == {"exec", "commit", "second"}

Control ==
    /\ coordinator \in {"mix", "plain", "write_based"}
    /\ block \in Nat
    /\ stage = "idle" => phase = "start"
    /\ stage # "idle" => block > 0
    /\ \/ stage = "idle"
       \/ stage = "crdt" /\ coordinator = "mix" /\ phase \in {"start", "exec", "returned"}
       \/ stage = "det" /\ coordinator \in {"mix", "plain"}
          /\ phase \in {"start", "exec", "commit", "returned"}
       \/ stage = "write_based" /\ coordinator = "write_based"
          /\ phase \in {"start", "exec", "commit", "second", "returned"}
    /\ finished \subseteq Worker
    /\ stage = "idle" \/ phase = "returned" => finished = {}
    /\ at \in [Worker -> Nat \ {0}]
    /\ phase \in {"start", "returned"} => \A w \in Worker : at[w] = 1
    /\ DOMAIN list = Worker
    /\ block > 0 => /\ request \in [Place -> Requests]
                    /\ tid \in [Place -> Place] /\ IsInjective(tid)
                    /\ DOMAIN result = Place /\ DOMAIN writes = Place

Dealing ==
    stage # "idle" =>
        /\ DOMAIN txns = DOMAIN Vector
        /\ phase = "start" =>
              /\ \A w \in finished : list[w] = ListOf(w)
              /\ \A n \in DOMAIN Vector : Owner(n) \notin finished => txns[n] = Vector[n]
        /\ phase \in Working =>
              /\ \A w \in Worker : list[w] = ListOf(w)
              /\ \A w \in finished : ~ Has(w)
        /\ phase = LastPhase =>
              \A n \in DOMAIN Vector : Owner(n) \in finished => txns[n] = Vector[n]
        /\ phase = "returned" => \A n \in DOMAIN Vector : txns[n] = Vector[n]

\* the phase in which a coordinator's transactions get their results
Deciding == IF stage = "crdt" THEN "exec" ELSE "commit"

Decided ==
    /\ stage # "idle" =>
          \A n \in DOMAIN Vector :
              Vector[n] \in Place /\ Passed(n, Deciding) => result[Vector[n]] # "PENDING"
    /\ stage = "crdt" => waiting = Split(FALSE)
    /\ stage = "det" /\ coordinator = "mix" =>
          \A n \in DOMAIN Split(TRUE) :
              /\ done[n] = Split(TRUE)[n]
              /\ Split(TRUE)[n] \in Place => result[Split(TRUE)[n]] # "PENDING"

\* an executed transaction that writes k
Writer(i, k) == ~ WbFails(i) /\ k \in Puts(request[i])

\* what the reserve table knows
Reserved ==
    \A k \in Key :
        /\ table.writes[k] \in Int
        /\ \/ table.writes[k] = Unreserved
           \/ \E i \in Place : Passed(i, "exec") /\ Writer(i, k) /\ tid[i] = table.writes[k]
        /\ \A i \in Place : Passed(i, "exec") /\ Writer(i, k) => table.writes[k] <= tid[i]

WbResult(i) ==
    IF ~ Passed(i, "exec") THEN "PENDING"
    ELSE IF WbFails(i) THEN "ABORT_NO_RETRY"
    ELSE IF ~ Passed(i, "commit") THEN "PENDING"
    ELSE IF WbAborts(i) THEN "ABORT" ELSE "COMMIT"

\* what stands under k once i, its earliest writer, has had its second commit
WbValue(i, k) ==
    IF Passed(i, "second") /\ ~ WbAborts(i)
    THEN Written(request[i], tid[i], atStart, k) ELSE atStart[k]

WriteBased ==
    stage = "write_based" =>
        /\ phase \in {"start", "exec", "commit"} => db = atStart
        /\ Reserved
        /\ \A i \in Place : result[i] = WbResult(i)
        /\ \A i \in Place : Passed(i, "exec") /\ ~ WbFails(i) =>
              writes[i] = [k \in Puts(request[i]) |-> Written(request[i], tid[i], atStart, k)]
        /\ \A k \in Key :
              /\ \A i \in WbFirst(k) : db[k] = WbValue(i, k)
              /\ WbFirst(k) = {} => db[k] = atStart[k]

\* The inductive invariant; its last two parts are the properties of a block
\* that has been executed.
IInv ==
    /\ Control /\ Dealing /\ Decided /\ WriteBased
    /\ ResultsAligned /\ WriteBasedDeterministic

-----------------------------------------------------------------------------
(* Dealing the places out and finding them again.                            *)

\* Worker w's n-th place is dealt to w as its n-th.
LEMMA TurnDealt ==
    ASSUME NEW w \in Worker, NEW n \in Nat \ {0}
    PROVE  /\ Turn(w, n) \in Nat \ {0} /\ n <= Turn(w, n)
           /\ Owner(Turn(w, n)) = w /\ Nth(Turn(w, n)) = n
<1>1. WorkerCount \in Nat \ {0} /\ w \in 0 .. WorkerCount - 1 /\ w \in Nat
    BY MixedAssumption DEF Worker
<1>2. n - 1 \in Nat BY SMT
<1> DEFINE m == n - 1
           a == w + m * WorkerCount
<1>3. a \in Nat /\ m <= a /\ a % WorkerCount = w /\ a \div WorkerCount = m
    <2>1. m \in Nat BY <1>2
    <2> HIDE DEF m
    <2>2. m * WorkerCount \in Nat BY <1>1, <2>1
    <2>3. m <= w + m * WorkerCount BY <1>1, <2>1
    <2>4. (w + m * WorkerCount) % WorkerCount = w BY <1>1, <2>1
    <2>5. (w + m * WorkerCount) \div WorkerCount = m BY <1>1, <2>1
    <2> QED BY <1>1, <2>2, <2>3, <2>4, <2>5
<1>4. Turn(w, n) = 1 + a BY <1>1, <1>2 DEF Turn
<1> HIDE DEF a
<1>5. (1 + a) - 1 = a BY <1>3
<1> QED BY <1>3, <1>4, <1>5 DEF Owner, Nth

\* Every place is the Nth(i)-th of its owner.
LEMMA PlaceDealt ==
    ASSUME NEW i \in Nat \ {0}
    PROVE  /\ Owner(i) \in Worker /\ Nth(i) \in Nat \ {0} /\ Nth(i) <= i
           /\ Turn(Owner(i), Nth(i)) = i
<1>1. WorkerCount \in Nat \ {0} BY MixedAssumption
<1> DEFINE a == i - 1
           q == a \div WorkerCount
           r == a % WorkerCount
<1>2. a \in Nat OBVIOUS
<1>3. q \in Nat /\ r \in 0 .. WorkerCount - 1 /\ a = r + q * WorkerCount /\ q * WorkerCount \in Nat
    <2> HIDE DEF a
    <2>1. a \div WorkerCount \in Nat BY <1>1, <1>2
    <2>2. a % WorkerCount \in 0 .. WorkerCount - 1 BY <1>1, <1>2
    <2>3. a = (a % WorkerCount) + (a \div WorkerCount) * WorkerCount BY <1>1, <1>2
    <2>4. \A m \in Nat : m * WorkerCount \in Nat BY <1>1
    <2> QED BY <2>1, <2>2, <2>3, <2>4
<1>4. Owner(i) = r /\ Nth(i) = 1 + q BY DEF Owner, Nth
<1>5. q <= a
    <2> HIDE DEF q, r, a
    <2>1. r \in Nat BY <1>1, <1>3
    <2>2. \A m \in Nat : m <= r + m * WorkerCount BY <1>1, <2>1
    <2> QED BY <1>3, <2>2
<1>6. Turn(r, 1 + q) = 1 + r + q * WorkerCount
    <2>1. (1 + q) - 1 = q BY <1>3
    <2> QED BY <2>1 DEF Turn
<1>7. 1 + a = i OBVIOUS
<1> HIDE DEF q, r, a
<1> QED BY <1>1, <1>2, <1>3, <1>4, <1>5, <1>6, <1>7 DEF Worker

\* Later turns come at later places.
LEMMA TurnMonotone ==
    ASSUME NEW w \in Worker, NEW n \in Nat \ {0}, NEW m \in Nat \ {0}, n <= m
    PROVE  Turn(w, n) <= Turn(w, m)
<1>1. WorkerCount \in Nat \ {0} /\ w \in Nat BY MixedAssumption DEF Worker
<1>2. \A x, y \in Nat : x <= y => w + x * WorkerCount <= w + y * WorkerCount BY <1>1
<1>3. n - 1 \in Nat /\ m - 1 \in Nat /\ n - 1 <= m - 1 OBVIOUS
<1>4. w + (n - 1) * WorkerCount <= w + (m - 1) * WorkerCount BY <1>2, <1>3
<1>5. \A x \in Nat : x * WorkerCount \in Nat BY <1>1
<1> QED BY <1>1, <1>3, <1>4, <1>5 DEF Turn

\* The vector of one kind of requests holds every request of that kind at its
\* rank.
LEMMA SplitRanks ==
    ASSUME NEW i \in Place
    PROVE  /\ IsCrdt(i) => Rank(i) \in DOMAIN Split(TRUE) /\ Split(TRUE)[Rank(i)] = i
           /\ ~ IsCrdt(i) => Rank(i) \in DOMAIN Split(FALSE) /\ Split(FALSE)[Rank(i)] = i
<1>1. BlockLength \in Nat BY MixedAssumption
<1>2. IsFiniteSet(Place) BY <1>1, FS_Interval DEF Place
<1> DEFINE Up(j) == {l \in 1 .. j : IsCrdt(l) <=> IsCrdt(j)}
           Mine == {j \in Place : IsCrdt(j) <=> IsCrdt(i)}
<1>3. i \in Nat /\ i >= 1 /\ i <= BlockLength BY <1>1 DEF Place
<1>4. IsFiniteSet(Mine) BY <1>2, FS_Subset
<1>5. \A j \in Mine : Up(j) \in SUBSET Mine /\ j \in Up(j) BY <1>1 DEF Place
<1>6. \A j \in Mine : IsFiniteSet(Up(j)) /\ Cardinality(Up(j)) \in Nat
                      /\ Cardinality(Up(j)) <= Cardinality(Mine)
    BY <1>4, <1>5, FS_Subset, FS_CardinalityType
<1>7. ASSUME NEW j \in Mine, NEW l \in Mine, j < l PROVE Cardinality(Up(j)) # Cardinality(Up(l))
    <2>1. j \in Int /\ l \in Int BY <1>1 DEF Place
    <2>2. Up(j) \in SUBSET Up(l) /\ l \notin Up(j) /\ l \in Up(l)
        <3>1. IsCrdt(j) <=> IsCrdt(l) OBVIOUS
        <3>2. \A x \in 1 .. j : x \in 1 .. l BY <1>7, <2>1
        <3>3. l \notin 1 .. j BY <1>7, <2>1
        <3>4. l \in Up(l) BY <1>5
        <3>5. ASSUME NEW x \in Up(j) PROVE x \in Up(l)
            <4>1. x \in 1 .. l /\ (IsCrdt(x) <=> IsCrdt(j)) BY <3>2
            <4> QED BY <3>1, <4>1
        <3>6. l \notin Up(j) BY <3>3
        <3> QED BY <3>4, <3>5, <3>6
    <2> QED BY <1>6, <2>2, FS_Subset
<1>8. \A j, l \in Mine : Cardinality(Up(j)) = Cardinality(Up(l)) => j = l
    <2>1. \A j \in Mine : j \in Int BY <1>1 DEF Place
    <2> QED BY <1>7, <2>1
<1>9. \A j \in Mine : Rank(j) = Cardinality(Up(j)) BY DEF Rank
<1>10. i \in Mine /\ Cardinality(Mine) \in Nat BY <1>4, FS_CardinalityType
<1>11. Cardinality(Up(i)) # 0
    BY <1>5, <1>6, <1>10, FS_EmptySet
<1>12. Rank(i) \in 1 .. Cardinality(Mine) BY <1>6, <1>9, <1>10, <1>11
<1>13. (CHOOSE j \in Mine : Rank(j) = Rank(i)) = i
    <2>1. \A j \in Mine : Rank(j) = Rank(i) => j = i BY <1>8, <1>9, <1>10
    <2> HIDE DEF Mine
    <2> QED BY <1>10, <2>1
<1>14. ASSUME IsCrdt(i) PROVE Rank(i) \in DOMAIN Split(TRUE) /\ Split(TRUE)[Rank(i)] = i
    <2>1. Mine = {j \in Place : IsCrdt(j) <=> TRUE} BY <1>14
    <2> HIDE DEF Mine
    <2> QED BY <1>12, <1>13, <2>1 DEF Split
<1>15. ASSUME ~ IsCrdt(i) PROVE Rank(i) \in DOMAIN Split(FALSE) /\ Split(FALSE)[Rank(i)] = i
    <2>1. Mine = {j \in Place : IsCrdt(j) <=> FALSE} BY <1>15
    <2> HIDE DEF Mine
    <2> QED BY <1>12, <1>13, <2>1 DEF Split
<1> QED BY <1>14, <1>15

\* The places of a vector are numbered from one.
LEMMA VectorNumbered ==
    \E l \in Nat : DOMAIN Vector = 1 .. l
<1>1. BlockLength \in Nat BY MixedAssumption
<1>2. ASSUME NEW c PROVE Cardinality({i \in Place : IsCrdt(i) <=> c}) \in Nat
    <2>1. IsFiniteSet(Place) BY <1>1, FS_Interval DEF Place
    <2>2. IsFiniteSet({i \in Place : IsCrdt(i) <=> c}) BY <2>1, FS_Subset
    <2> QED BY <2>2, FS_CardinalityType
<1>3. CASE stage = "crdt" BY <1>2, <1>3 DEF Vector, Split
<1>4. CASE stage # "crdt" /\ coordinator = "mix" BY <1>2, <1>4 DEF Vector, Split
<1>5. CASE stage # "crdt" /\ coordinator # "mix" BY <1>1, <1>5 DEF Vector, Place
<1> QED BY <1>3, <1>4, <1>5

\* A worker's list holds exactly the places of the vector dealt to it.
LEMMA ListHolds ==
    ASSUME NEW w \in Worker
    PROVE  /\ \A m \in DOMAIN ListOf(w) :
                 /\ m \in Nat \ {0} /\ Turn(w, m) \in DOMAIN Vector
                 /\ ListOf(w)[m] = Vector[Turn(w, m)]
                 /\ Owner(Turn(w, m)) = w /\ Nth(Turn(w, m)) = m
           /\ \A n \in DOMAIN Vector : Owner(n) = w =>
                 /\ Nth(n) \in DOMAIN ListOf(w) /\ ListOf(w)[Nth(n)] = Vector[n]
                 /\ \A m \in Nat \ {0} : m <= Nth(n) => m \in DOMAIN ListOf(w)
<1>1. PICK l \in Nat : DOMAIN Vector = 1 .. l BY VectorNumbered
<1>2. DOMAIN ListOf(w) = {m \in 1 .. l : Turn(w, m) \in 1 .. l}
      /\ \A m \in DOMAIN ListOf(w) : ListOf(w)[m] = Vector[Turn(w, m)]
    BY <1>1 DEF ListOf
<1>3. ASSUME NEW m \in DOMAIN ListOf(w)
      PROVE  /\ m \in Nat \ {0} /\ Turn(w, m) \in DOMAIN Vector
             /\ ListOf(w)[m] = Vector[Turn(w, m)]
             /\ Owner(Turn(w, m)) = w /\ Nth(Turn(w, m)) = m
    <2>1. m \in Nat \ {0} /\ Turn(w, m) \in 1 .. l BY <1>2
    <2> QED BY <1>1, <1>2, <2>1, TurnDealt
<1>4. ASSUME NEW n \in DOMAIN Vector, Owner(n) = w
      PROVE  /\ Nth(n) \in DOMAIN ListOf(w) /\ ListOf(w)[Nth(n)] = Vector[n]
             /\ \A m \in Nat \ {0} : m <= Nth(n) => m \in DOMAIN ListOf(w)
    <2>1. n \in Nat \ {0} /\ n <= l BY <1>1
    <2>2. Nth(n) \in Nat \ {0} /\ Nth(n) <= n /\ Turn(w, Nth(n)) = n BY <1>4, <2>1, PlaceDealt
    <2>3. ASSUME NEW m \in Nat \ {0}, m <= Nth(n) PROVE m \in DOMAIN ListOf(w)
        <3>1. Turn(w, m) <= n BY <2>2, <2>3, TurnMonotone
        <3>2. Turn(w, m) \in Nat \ {0} /\ m <= Turn(w, m) BY TurnDealt
        <3>3. m \in 1 .. l /\ Turn(w, m) \in 1 .. l BY <2>1, <3>1, <3>2
        <3> QED BY <1>2, <3>3
    <2>4. Nth(n) \in DOMAIN ListOf(w) BY <2>2, <2>3
    <2> QED BY <1>2, <2>2, <2>3, <2>4
<1> QED BY <1>3, <1>4

\* The vector and the lists are the block's and the stage's.
LEMMA SameVector ==
    ASSUME UNCHANGED <<blockVars, stage>>
    PROVE  /\ Vector' = Vector /\ \A w \in Worker : ListOf(w)' = ListOf(w)
           /\ Split(TRUE)' = Split(TRUE) /\ Split(FALSE)' = Split(FALSE)
<1>1. /\ coordinator' = coordinator /\ request' = request /\ stage' = stage
    BY DEF blockVars
<1>2. Split(TRUE)' = Split(TRUE) /\ Split(FALSE)' = Split(FALSE)
    BY <1>1 DEF Split, Rank, IsCrdt, isCrdtChainCode
<1>3. Vector' = Vector BY <1>1, <1>2 DEF Vector
<1> QED BY <1>2, <1>3 DEF ListOf

LEMMA Phases ==
    ASSUME Control
    PROVE  /\ stage = "crdt" => LastPhase = "exec"
           /\ stage = "det" => LastPhase = "commit"
           /\ stage = "write_based" => LastPhase = "second"
           /\ phase = "start" => FollowingPhase = "exec"
           /\ phase = "exec" => FollowingPhase = "commit"
           /\ phase = "commit" => FollowingPhase = "second"
BY DEF LastPhase, FollowingPhase

-----------------------------------------------------------------------------
(* The control steps.                                                        *)

LEMMA InitInv == Init => IInv
<1> SUFFICES ASSUME Init PROVE IInv OBVIOUS
<1>1. Control BY MixedAssumption DEF Init, Control, EachWorker
<1>2. Dealing /\ Decided /\ WriteBased BY DEF Init, Dealing, Decided, WriteBased
<1>3. ResultsAligned /\ WriteBasedDeterministic
    BY DEF Init, ResultsAligned, WriteBasedDeterministic, Executed
<1> QED BY <1>1, <1>2, <1>3 DEF IInv

\* A worker's next transaction is the next place dealt to it, and a step takes
\* this place and no other through the phase.
LEMMA Worked ==
    ASSUME Control, Dealing, NEW w \in Worker, NEW p \in Working,
           Busy(w, p), Has(w), Step(w),
           UNCHANGED <<blockVars, stage, phase, txns, waiting, done, list, finished>>,
           DOMAIN result' = DOMAIN result, DOMAIN writes' = DOMAIN writes
    PROVE  /\ Control' /\ Dealing' /\ Vector' = Vector
           /\ \E n \in DOMAIN Vector :
                 /\ Current(w) = Vector[n] /\ ~ Passed(n, p)
                 /\ \A m \in DOMAIN Vector : \A q \in Working :
                       Passed(m, q)' <=> (Passed(m, q) \/ (m = n /\ q = p))
<1>0. stage # "idle" /\ phase = p /\ w \notin finished BY DEF Busy
<1>1. list[w] = ListOf(w) BY <1>0 DEF Dealing
<1>2. at[w] \in DOMAIN ListOf(w) BY <1>1 DEF Has
<1> DEFINE n == Turn(w, at[w])
<1>3. /\ n \in DOMAIN Vector /\ ListOf(w)[at[w]] = Vector[n]
      /\ Owner(n) = w /\ Nth(n) = at[w]
    BY <1>2, ListHolds
<1> HIDE DEF n
<1>4. Current(w) = Vector[n] BY <1>1, <1>3 DEF Current
<1>5. at \in [Worker -> Nat \ {0}] /\ at' = [at EXCEPT ![w] = at[w] + 1]
    BY DEF Control, Step
<1>6. /\ at' \in [Worker -> Nat \ {0}] /\ at'[w] = at[w] + 1
      /\ \A v \in Worker : v # w => at'[v] = at[v]
    BY <1>5
<1>7. Vector' = Vector /\ \A v \in Worker : ListOf(v)' = ListOf(v) BY SameVector
<1>8. phase' = phase /\ stage' = stage /\ finished' = finished /\ list' = list /\ txns' = txns
    OBVIOUS
<1>9. phase \notin {"start", "returned"} BY <1>0 DEF Working
<1>10. Control'
    BY <1>6, <1>8, <1>9 DEF Control, blockVars
<1>11. Dealing'
    <2>1. LastPhase' = LastPhase BY <1>8 DEF LastPhase
    <2>2. \A v \in finished : ~ Has(v)' 
        BY <1>0, <1>6, <1>8 DEF Has, Dealing, Control
    <2>3. \A v \in Worker : list'[v] = ListOf(v)'
        BY <1>0, <1>7, <1>8 DEF Dealing
    <2>4. phase' \notin {"start", "returned"} BY <1>8, <1>9
    <2>5. DOMAIN txns' = DOMAIN Vector' BY <1>0, <1>7, <1>8 DEF Dealing
    <2>6. phase' = LastPhase' =>
             \A x \in DOMAIN Vector' : Owner(x)' \in finished' => txns'[x] = Vector'[x]
        BY <1>0, <1>7, <1>8, <2>1 DEF Dealing, Owner
    <2> QED BY <1>8, <2>2, <2>3, <2>4, <2>5, <2>6 DEF Dealing
<1>12. ~ Passed(n, p)
    <2>1. at[w] \in Nat BY <1>5
    <2> QED BY <1>0, <1>3, <2>1 DEF Passed, Working
<1>13. ASSUME NEW m \in DOMAIN Vector, NEW q \in Working
       PROVE  Passed(m, q)' <=> (Passed(m, q) \/ (m = n /\ q = p))
    <2>0. Nth(m)' = Nth(m) /\ Owner(m)' = Owner(m) BY DEF Nth, Owner
    <2>1. m \in Nat \ {0} BY VectorNumbered
    <2>2. Nth(m) \in Nat /\ Owner(m) \in Worker /\ Turn(Owner(m), Nth(m)) = m BY <2>1, PlaceDealt
    <2>3. CASE q # p BY <1>0, <1>8, <2>3 DEF Passed
    <2>4. CASE q = p /\ Owner(m) # w
        BY <1>0, <1>3, <1>6, <1>8, <2>0, <2>2, <2>4 DEF Passed
    <2>5. CASE q = p /\ Owner(m) = w
        <3>1. m = n <=> Nth(m) = at[w] BY <1>3, <2>2, <2>5 DEF n
        <3>2. Nth(m) < at[w] + 1 <=> (Nth(m) < at[w] \/ Nth(m) = at[w])
            <4>1. at[w] \in Nat BY <1>5
            <4> QED BY <2>2, <4>1
        <3>3. Passed(m, p) <=> Nth(m) < at[w] BY <1>0, <2>5 DEF Passed, Working
        <3>4. Passed(m, p)' <=> Nth(m) < at'[w] BY <1>0, <1>8, <2>0, <2>5 DEF Passed, Working
        <3> QED BY <1>6, <2>5, <3>1, <3>2, <3>3, <3>4
    <2> QED BY <2>3, <2>4, <2>5
<1> QED BY <1>3, <1>4, <1>7, <1>10, <1>11, <1>12, <1>13

\* While a block is being executed nothing is claimed of its results.
LEMMA NotExecuted ==
    stage' # "idle" => ResultsAligned' /\ WriteBasedDeterministic'
BY DEF ResultsAligned, WriteBasedDeterministic, Executed

\* What is said of the data depends on the control through Passed only.
LEMMA SameData ==
    ASSUME Control, Decided, WriteBased, stage # "idle",
           UNCHANGED <<blockVars, stage, waiting, done, table, db, result, writes>>,
           \A n \in DOMAIN Vector : Passed(n, Deciding)' <=> Passed(n, Deciding),
           stage = "write_based" =>
              \A n \in Place : \A q \in Working : Passed(n, q)' <=> Passed(n, q),
           phase' \in {"start", "exec", "commit"} => phase \in {"start", "exec", "commit"}
    PROVE  Decided' /\ WriteBased'
<1>1. /\ Vector' = Vector /\ Split(TRUE)' = Split(TRUE) /\ Split(FALSE)' = Split(FALSE)
    BY SameVector
<1>2. /\ coordinator' = coordinator /\ request' = request /\ tid' = tid /\ atStart' = atStart
      /\ stage' = stage /\ waiting' = waiting /\ done' = done /\ table' = table /\ db' = db
      /\ result' = result /\ writes' = writes
    BY DEF blockVars
<1>3. Decided'
    <2>1. \A n \in DOMAIN Vector' : Passed(n, Deciding)' => Passed(n, Deciding) BY <1>1
    <2> QED BY <1>1, <1>2, <2>1 DEF Decided
<1>4. WriteBased'
    <2> SUFFICES ASSUME stage = "write_based" PROVE WriteBased' BY <1>2 DEF WriteBased
    <2>1. \A n \in Place : /\ Passed(n, "exec")' <=> Passed(n, "exec")
                           /\ Passed(n, "commit")' <=> Passed(n, "commit")
                           /\ Passed(n, "second")' <=> Passed(n, "second")
        BY DEF Working
    <2>2. \A i \in Place : /\ WbFails(i)' <=> WbFails(i)
                           /\ WbAborts(i)' <=> WbAborts(i)
        BY <1>2 DEF WbFails, Fails, Gets, WbAborts, WbFirst, Puts
    <2>3. \A k \in Key : WbFirst(k)' = WbFirst(k)
        BY <1>2 DEF WbFails, Fails, Gets, WbFirst, Puts
    <2>4. \A k \in Key : \A i \in Place : Writer(i, k)' <=> Writer(i, k)
        BY <1>2, <2>2 DEF Writer
    <2>5. Reserved'
        <3>1. Reserved BY DEF WriteBased
        <3> QED BY <1>2, <2>1, <2>4, <3>1 DEF Reserved
    <2>6. \A i \in Place : WbResult(i)' = WbResult(i)
        BY <2>1, <2>2 DEF WbResult
    <2>7. \A k \in Key : \A i \in WbFirst(k) : WbValue(i, k)' = WbValue(i, k)
        <3> SUFFICES ASSUME NEW k \in Key, NEW i \in WbFirst(k) PROVE WbValue(i, k)' = WbValue(i, k)
            OBVIOUS
        <3>1. i \in Place BY DEF WbFirst
        <3> QED BY <1>2, <2>1, <2>2, <3>1 DEF WbValue
    <2>8. phase' \in {"start", "exec", "commit"} => db' = atStart'
        BY <1>2 DEF WriteBased
    <2>9. \A i \in Place : result'[i] = WbResult(i)' BY <1>2, <2>6 DEF WriteBased
    <2>10. \A i \in Place : Passed(i, "exec")' /\ ~ WbFails(i)' =>
              writes'[i] = [k \in Puts(request'[i]) |-> Written(request'[i], tid'[i], atStart', k)]
        BY <1>2, <2>1, <2>2 DEF WriteBased
    <2>11. \A k \in Key : /\ \A i \in WbFirst(k)' : db'[k] = WbValue(i, k)'
                          /\ WbFirst(k)' = {} => db'[k] = atStart'[k]
        BY <1>2, <2>3, <2>7 DEF WriteBased
    <2> QED BY <2>5, <2>8, <2>9, <2>10, <2>11 DEF WriteBased
<1> QED BY <1>3, <1>4

\* afterStart fills a worker's list with the places dealt to it.
LEMMA StartInv == ASSUME IInv, NEW w \in Worker, Start(w) PROVE IInv'
<1>0. Control /\ Dealing /\ Decided /\ WriteBased BY DEF IInv
<1>1. /\ stage # "idle" /\ phase = "start" /\ w \notin finished
      /\ finished' = finished \cup {w} /\ phase' = "start" /\ stage' = stage /\ at' = at
      /\ UNCHANGED <<blockVars, stage, waiting, done, table, db, result, writes>>
    BY DEF Start
<1>2. /\ Vector' = Vector /\ \A v \in Worker : ListOf(v)' = ListOf(v) BY <1>1, SameVector
<1>3. DOMAIN txns = DOMAIN Vector /\ DOMAIN list = Worker BY <1>0, <1>1 DEF Dealing, Control
<1>4. /\ list'[w] = [n \in {m \in DOMAIN txns : Turn(w, m) \in DOMAIN txns} |-> txns[Turn(w, n)]]
      /\ \A v \in Worker : v # w => list'[v] = list[v]
      /\ DOMAIN list' = Worker
    BY <1>3 DEF Start
<1>5. list'[w] = ListOf(w)
    <2>1. \A m \in DOMAIN ListOf(w) : Turn(w, m) \in DOMAIN Vector /\ Owner(Turn(w, m)) = w
        BY ListHolds
    <2>2. \A m \in DOMAIN ListOf(w) : txns[Turn(w, m)] = Vector[Turn(w, m)]
        BY <1>0, <1>1, <2>1 DEF Dealing
    <2>3. DOMAIN ListOf(w) = {m \in DOMAIN Vector : Turn(w, m) \in DOMAIN Vector} BY DEF ListOf
    <2> QED BY <1>3, <1>4, <2>2, <2>3 DEF ListOf
<1>6. /\ DOMAIN txns' = DOMAIN txns
      /\ \A n \in DOMAIN txns : Owner(n) # w => txns'[n] = txns[n]
    BY DEF Start, Dealt, Owner
<1>7. Control' BY <1>0, <1>1, <1>4 DEF Control, blockVars
<1>8. Dealing'
    <2>1. phase' \notin Working /\ phase' # "returned" BY <1>1 DEF Working
    <2>2. phase' # LastPhase'
        <3>1. LastPhase' = LastPhase BY <1>1 DEF LastPhase
        <3>2. LastPhase \in Working BY <1>0, <1>1, Phases DEF Control, Working
        <3> QED BY <1>1, <3>1, <3>2 DEF Working
    <2>3. \A v \in finished' : list'[v] = ListOf(v)'
        BY <1>0, <1>1, <1>2, <1>4, <1>5 DEF Dealing, Control
    <2>4. \A n \in DOMAIN Vector' : Owner(n)' \notin finished' => txns'[n] = Vector'[n]
        BY <1>0, <1>1, <1>2, <1>3, <1>6 DEF Dealing, Owner
    <2> QED BY <1>2, <1>3, <1>6, <2>1, <2>2, <2>3, <2>4 DEF Dealing
<1>9. Decided' /\ WriteBased'
    <2>1. \A n : \A q \in Working : Passed(n, q)' <=> Passed(n, q)
        BY <1>1 DEF Passed, Working
    <2>2. Deciding \in Working BY DEF Deciding, Working
    <2>3. Deciding' = Deciding BY <1>1 DEF Deciding
    <2>4. \A n \in DOMAIN Vector : Passed(n, Deciding)' <=> Passed(n, Deciding)
        BY <1>1, <2>3 DEF Passed, Working
    <2> QED BY <1>0, <1>1, <2>1, <2>4, SameData
<1> QED BY <1>1, <1>7, <1>8, <1>9, NotExecuted DEF IInv

\* A worker that has reached the end of its list has taken every place dealt
\* to it through the phase.
LEMMA ListDone ==
    ASSUME Control, Dealing, stage # "idle", phase \in Working,
           NEW n \in DOMAIN Vector, ~ Has(Owner(n))
    PROVE  Nth(n) < at[Owner(n)]
<1> DEFINE w == Owner(n)
<1>1. n \in Nat \ {0} BY VectorNumbered
<1>2. w \in Worker /\ Nth(n) \in Nat \ {0} BY <1>1, PlaceDealt
<1> HIDE DEF w
<1>3. at[w] \in Nat \ {0} /\ list[w] = ListOf(w) BY <1>2 DEF Control, Dealing
<1>4. at[w] \notin DOMAIN ListOf(w) BY <1>3 DEF Has, w
<1>5. Owner(n) = w BY DEF w
<1>6. ~ (at[w] <= Nth(n)) BY <1>2, <1>3, <1>4, <1>5, ListHolds
<1>7. Nth(n) < at[w] BY <1>2, <1>3, <1>6
<1> QED BY <1>5, <1>7

\* afterCommit puts the places of a worker's list back where they were.
LEMMA FinishInv == ASSUME IInv, NEW w \in Worker, Finish(w) PROVE IInv'
<1>0. Control /\ Dealing /\ Decided /\ WriteBased BY DEF IInv
<1>1. /\ stage # "idle" /\ phase \in Working /\ w \notin finished /\ ~ Has(w)
      /\ finished' = finished \cup {w} /\ phase' = phase /\ stage' = stage /\ at' = at
      /\ list' = list
      /\ UNCHANGED <<blockVars, stage, waiting, done, table, db, result, writes>>
    BY DEF Finish, Busy, Working
<1>2. /\ Vector' = Vector /\ \A v \in Worker : ListOf(v)' = ListOf(v) BY <1>1, SameVector
<1>3. DOMAIN txns = DOMAIN Vector BY <1>0, <1>1 DEF Dealing
<1>4. LastPhase' = LastPhase BY <1>1 DEF LastPhase
<1>5. phase = LastPhase =>
         /\ DOMAIN txns' = DOMAIN txns
         /\ \A n \in DOMAIN txns : txns'[n] = IF Owner(n) = w THEN list[w][Nth(n)] ELSE txns[n]
    BY DEF Finish, Dealt, Owner
<1>6. phase # LastPhase => txns' = txns BY DEF Finish
<1>7. Control' BY <1>0, <1>1 DEF Control, blockVars, Working
<1>8. Dealing'
    <2>1. phase' \notin {"start", "returned"} BY <1>1 DEF Working
    <2>2. DOMAIN txns' = DOMAIN Vector' BY <1>2, <1>3, <1>5, <1>6
    <2>3. \A v \in Worker : list'[v] = ListOf(v)' BY <1>0, <1>1, <1>2 DEF Dealing
    <2>4. \A v \in finished' : ~ Has(v)' BY <1>0, <1>1 DEF Dealing, Has
    <2>5. ASSUME phase' = LastPhase', NEW n \in DOMAIN Vector, Owner(n) \in finished'
          PROVE  txns'[n] = Vector[n]
        <3>1. txns'[n] = IF Owner(n) = w THEN list[w][Nth(n)] ELSE txns[n]
            BY <1>1, <1>3, <1>4, <1>5, <2>5
        <3>2. CASE Owner(n) = w
            <4>1. ListOf(w)[Nth(n)] = Vector[n] BY <3>2, ListHolds
            <4> QED BY <1>0, <1>1, <3>1, <3>2, <4>1 DEF Dealing
        <3>3. CASE Owner(n) # w
            BY <1>0, <1>1, <1>4, <2>5, <3>1, <3>3 DEF Dealing
        <3> QED BY <3>2, <3>3
    <2>6. phase' = LastPhase' =>
             \A n \in DOMAIN Vector' : Owner(n)' \in finished' => txns'[n] = Vector'[n]
        BY <1>2, <2>5 DEF Owner
    <2> QED BY <2>1, <2>2, <2>3, <2>4, <2>6 DEF Dealing
<1>9. Decided' /\ WriteBased'
    <2>1. \A n : \A q \in Working : Passed(n, q)' <=> Passed(n, q)
        BY <1>1 DEF Passed, Working, Nth, Owner
    <2>2. Deciding' = Deciding /\ Deciding \in Working BY <1>1 DEF Deciding, Working
    <2>3. \A n \in DOMAIN Vector : Passed(n, Deciding)' <=> Passed(n, Deciding)
        BY <1>1, <2>2 DEF Passed, Nth, Owner
    <2> QED BY <1>0, <1>1, <2>1, <2>3, SameData
<1> QED BY <1>1, <1>7, <1>8, <1>9, NotExecuted DEF IInv

\* The barrier: all places have been through the phase that ends.
LEMMA EndPhaseInv == ASSUME IInv, EndPhase PROVE IInv'
<1>0. Control /\ Dealing /\ Decided /\ WriteBased BY DEF IInv
<1>1. /\ stage # "idle" /\ phase # "returned" /\ finished = Worker
      /\ phase' = IF phase = LastPhase THEN "returned" ELSE FollowingPhase
      /\ finished' = {} /\ at' = [w \in Worker |-> 1] /\ stage' = stage /\ list' = list
      /\ txns' = txns
      /\ UNCHANGED <<blockVars, stage, waiting, done, table, db, result, writes>>
    BY DEF EndPhase, EachWorker
<1>2. /\ Vector' = Vector /\ \A v \in Worker : ListOf(v)' = ListOf(v) BY <1>1, SameVector
<1>3. \/ phase = "start" /\ phase' = "exec"
      \/ stage = "crdt" /\ phase = "exec" /\ phase' = "returned"
      \/ stage \in {"det", "write_based"} /\ phase = "exec" /\ phase' = "commit"
      \/ stage = "det" /\ phase = "commit" /\ phase' = "returned"
      \/ stage = "write_based" /\ phase = "commit" /\ phase' = "second"
      \/ stage = "write_based" /\ phase = "second" /\ phase' = "returned"
    BY <1>0, <1>1, Phases DEF Control
<1>4. \A n \in DOMAIN Vector : Owner(n) \in Worker /\ Nth(n) \in Nat \ {0}
    BY VectorNumbered, PlaceDealt
<1>5. \A n \in DOMAIN Vector : phase \in Working => Nth(n) < at[Owner(n)]
    <2> SUFFICES ASSUME NEW n \in DOMAIN Vector, phase \in Working PROVE Nth(n) < at[Owner(n)]
        OBVIOUS
    <2>1. ~ Has(Owner(n)) BY <1>0, <1>1, <1>4 DEF Dealing
    <2> QED BY <1>0, <1>1, <2>1, ListDone
<1>6. \A n \in DOMAIN Vector : ~ (Nth(n) < at'[Owner(n)]) BY <1>1, <1>4
<1>7. Control'
    <2>1. at' \in [Worker -> Nat \ {0}] /\ \A w \in Worker : at'[w] = 1 BY <1>1
    <2> QED BY <1>0, <1>1, <1>3, <2>1 DEF Control, blockVars
<1>8. Dealing'
    <2>1. DOMAIN txns' = DOMAIN Vector' BY <1>0, <1>1, <1>2 DEF Dealing
    <2>2. phase' # "start" BY <1>3
    <2>3. \A w \in Worker : list'[w] = ListOf(w)'
        BY <1>0, <1>1, <1>2, <1>3 DEF Dealing, Working
    <2>4. finished' = {} BY <1>1
    <2>5. ASSUME phase' = "returned", NEW n \in DOMAIN Vector PROVE txns[n] = Vector[n]
        <3>1. phase = LastPhase BY <1>0, <1>3, <2>5, Phases
        <3> QED BY <1>0, <1>1, <1>4, <3>1 DEF Dealing
    <2> QED BY <1>1, <1>2, <2>1, <2>2, <2>3, <2>4, <2>5 DEF Dealing
<1>9. Decided' /\ WriteBased'
    <2>1. Deciding' = Deciding BY <1>1 DEF Deciding
    <2>2. \A n \in DOMAIN Vector : Nth(n)' = Nth(n) /\ Owner(n)' = Owner(n) BY DEF Nth, Owner
    <2>3. ASSUME NEW n \in DOMAIN Vector PROVE Passed(n, Deciding)' <=> Passed(n, Deciding)
        BY <1>3, <1>5, <1>6, <2>1, <2>2 DEF Passed, Deciding, Working
    <2>4. ASSUME stage = "write_based", NEW n \in Place, NEW q \in Working
          PROVE  Passed(n, q)' <=> Passed(n, q)
        <3>1. n \in DOMAIN Vector BY <1>0, <2>4 DEF Vector, Control
        <3> QED BY <1>3, <1>5, <1>6, <2>2, <2>4, <3>1 DEF Passed, Working
    <2>5. phase' \in {"start", "exec", "commit"} => phase \in {"start", "exec", "commit"}
        BY <1>3
    <2> QED BY <1>0, <1>1, <2>3, <2>4, <2>5, SameData
<1> QED BY <1>1, <1>7, <1>8, <1>9, NotExecuted DEF IInv

\* A block begins with its vector complete and nothing decided.
LEMMA BeginInv == ASSUME IInv, Begin PROVE IInv'
<1>0. Control BY DEF IInv
<1>1. /\ stage = "idle" /\ phase = "start" /\ finished = {} /\ block \in Nat
      /\ block' = block + 1 /\ phase' = phase /\ finished' = finished /\ at' = at /\ list' = list
      /\ coordinator' = coordinator
    BY <1>0 DEF Begin, Control
<1>2. /\ request' \in [Place -> Requests] /\ tid' \in [Place -> Place] /\ IsInjective(tid')
      /\ atStart' = db /\ db' = db
      /\ result' = [i \in Place |-> "PENDING"] /\ writes' = [i \in Place |-> <<>>]
      /\ table' = Fresh
    BY DEF Begin
<1>3. \/ coordinator = "mix" /\ stage' = "crdt" /\ txns' = Split(TRUE)' /\ waiting' = Split(FALSE)'
      \/ coordinator = "plain" /\ stage' = "det" /\ txns' = [i \in Place |-> i]
      \/ coordinator = "write_based" /\ stage' = "write_based" /\ txns' = [i \in Place |-> i]
    BY DEF Begin
<1>4. txns' = Vector' BY <1>1, <1>3 DEF Vector
<1>5. \A n : \A q \in Working : ~ Passed(n, q)' BY <1>1 DEF Passed, Working
<1>6. Control'
    <2>1. block' \in Nat /\ block' > 0 BY <1>1
    <2>2. DOMAIN result' = Place /\ DOMAIN writes' = Place BY <1>2
    <2>3. /\ coordinator \in {"mix", "plain", "write_based"} /\ DOMAIN list = Worker
          /\ at \in [Worker -> Nat \ {0}] /\ \A w \in Worker : at[w] = 1
        BY <1>0, <1>1 DEF Control
    <2> QED BY <1>1, <1>2, <1>3, <2>1, <2>2, <2>3 DEF Control
<1>7. Dealing'
    <2>1. phase' \notin Working /\ phase' # "returned" BY <1>1 DEF Working
    <2>2. LastPhase' # phase'
        <3>1. CASE stage' = "crdt" BY <1>1, <3>1 DEF LastPhase
        <3>2. CASE stage' = "det" BY <1>1, <3>2 DEF LastPhase
        <3>3. CASE stage' = "write_based" BY <1>1, <3>3 DEF LastPhase
        <3> QED BY <1>3, <3>1, <3>2, <3>3
    <2> QED BY <1>1, <1>4, <2>1, <2>2 DEF Dealing
<1>8. Decided'
    <2>1. Deciding' = "exec" \/ Deciding' = "commit" BY DEF Deciding
    <2>2. \A n : ~ Passed(n, Deciding)' BY <1>1, <2>1 DEF Passed
    <2> QED BY <1>1, <1>3, <2>2 DEF Decided
<1>9. WriteBased'
    <2>1. \A n : ~ Passed(n, "exec")' /\ ~ Passed(n, "second")' BY <1>5 DEF Working
    <2>2. \A k \in Key : table'.writes[k] = Unreserved /\ table'.writes[k] \in Int
        BY <1>2, MixedAssumption DEF Fresh, Unreserved
    <2>3. Reserved' BY <2>1, <2>2 DEF Reserved
    <2>4. \A i \in Place : result'[i] = WbResult(i)' BY <1>2, <2>1 DEF WbResult
    <2>5. \A k \in Key : \A i \in WbFirst(k)' : db'[k] = WbValue(i, k)' BY <1>2, <2>1 DEF WbValue
    <2> QED BY <1>2, <2>1, <2>3, <2>4, <2>5 DEF WriteBased
<1>10. stage' # "idle" BY <1>3
<1> QED BY <1>6, <1>7, <1>8, <1>9, <1>10, NotExecuted DEF IInv

\* The CRDT transactions are back in their vector and all of them decided.
LEMMA EndCrdtInv == ASSUME IInv, EndCrdt PROVE IInv'
<1>0. Control /\ Dealing /\ Decided BY DEF IInv
<1>1. /\ stage = "crdt" /\ phase = "returned" /\ stage' = "det" /\ phase' = "start"
      /\ done' = txns /\ txns' = waiting
      /\ UNCHANGED <<blockVars, list, at, finished, result, writes>>
    BY DEF EndCrdt
<1>2. /\ coordinator = "mix" /\ finished = {} /\ \A w \in Worker : at[w] = 1
      /\ coordinator' = coordinator /\ request' = request /\ finished' = finished
    BY <1>0, <1>1 DEF Control, blockVars
<1>3. Split(TRUE)' = Split(TRUE) /\ Split(FALSE)' = Split(FALSE)
    BY <1>2 DEF Split, Rank, IsCrdt, isCrdtChainCode
<1>4. Vector = Split(TRUE) /\ Vector' = Split(FALSE) BY <1>1, <1>2, <1>3 DEF Vector
<1>5. txns' = Vector' BY <1>0, <1>1, <1>4 DEF Decided
<1>6. Control' BY <1>0, <1>1, <1>2 DEF Control, blockVars
<1>7. Dealing'
    <2>1. phase' \notin Working /\ phase' # "returned" BY <1>1 DEF Working
    <2>2. LastPhase' # phase' BY <1>1 DEF LastPhase
    <2> QED BY <1>2, <1>5, <2>1, <2>2 DEF Dealing
<1>8. Decided'
    <2>1. Deciding' = "commit" BY <1>1 DEF Deciding
    <2>2. \A n : ~ Passed(n, Deciding)' BY <1>1, <2>1 DEF Passed
    <2>3. \A n \in DOMAIN Split(TRUE) : done'[n] = Split(TRUE)[n]
        BY <1>0, <1>1, <1>4 DEF Dealing
    <2>4. \A n \in DOMAIN Split(TRUE) : Split(TRUE)[n] \in Place => result[Split(TRUE)[n]] # "PENDING"
        <3>1. \A n : Passed(n, Deciding) BY <1>1 DEF Passed, Deciding
        <3> QED BY <1>0, <1>1, <1>4, <3>1 DEF Decided
    <2> QED BY <1>1, <1>3, <2>2, <2>3, <2>4 DEF Decided
<1>9. WriteBased' BY <1>1 DEF WriteBased
<1>10. stage' # "idle" BY <1>1
<1> QED BY <1>6, <1>7, <1>8, <1>9, <1>10, NotExecuted DEF IInv

\* At the end of a block every place of the block is where it began.
LEMMA PlacesBack ==
    ASSUME Control, Dealing, Decided, stage \in {"det", "write_based"}, phase = "returned",
           NEW i \in Place
    PROVE  /\ result[i] # "PENDING"
           /\ coordinator # "mix" => txns[i] = i
           /\ coordinator = "mix" /\ IsCrdt(i) => done[Rank(i)] = i
           /\ coordinator = "mix" /\ ~ IsCrdt(i) => txns[Rank(i)] = i
<1>1. \A n : Passed(n, Deciding) BY DEF Passed, Deciding
<1>2. \A n \in DOMAIN Vector : /\ txns[n] = Vector[n]
                               /\ Vector[n] \in Place => result[Vector[n]] # "PENDING"
    BY <1>1 DEF Dealing, Decided
<1>3. CASE coordinator # "mix"
    <2>1. Vector = [n \in Place |-> n] BY <1>3 DEF Vector
    <2> QED BY <1>2, <1>3, <2>1
<1>4. CASE coordinator = "mix"
    <2>1. stage = "det" /\ Vector = Split(FALSE) BY <1>4 DEF Vector, Control
    <2>2. CASE IsCrdt(i)
        <3>1. Rank(i) \in DOMAIN Split(TRUE) /\ Split(TRUE)[Rank(i)] = i BY <2>2, SplitRanks
        <3>2. /\ done[Rank(i)] = Split(TRUE)[Rank(i)]
              /\ Split(TRUE)[Rank(i)] \in Place => result[Split(TRUE)[Rank(i)]] # "PENDING"
            BY <1>4, <2>1, <3>1 DEF Decided
        <3> QED BY <1>4, <2>2, <3>1, <3>2
    <2>3. CASE ~ IsCrdt(i)
        <3>1. Rank(i) \in DOMAIN Split(FALSE) /\ Split(FALSE)[Rank(i)] = i BY <2>3, SplitRanks
        <3> QED BY <1>2, <1>4, <2>1, <2>3, <3>1
    <2> QED BY <2>2, <2>3
<1> QED BY <1>3, <1>4

\* The outcomes are handed out in the order of the requests.
LEMMA EndBlockInv == ASSUME IInv, EndBlock PROVE IInv'
<1>0. Control /\ Dealing /\ Decided /\ WriteBased BY DEF IInv
<1>1. /\ stage \in {"det", "write_based"} /\ phase = "returned"
      /\ stage' = "idle" /\ phase' = "start"
      /\ retResults' = IF coordinator = "mix" THEN Merge(done, txns)
                       ELSE [i \in Place |-> Outcome(txns[i])]
      /\ UNCHANGED <<blockVars, txns, waiting, done, workVars, db, result, writes>>
    BY DEF EndBlock
<1>2. /\ finished = {} /\ finished' = {} /\ at' = at /\ list' = list
      /\ coordinator' = coordinator /\ request' = request /\ tid' = tid /\ atStart' = atStart
      /\ result' = result /\ db' = db /\ block' = block
    BY <1>0, <1>1 DEF Control, blockVars, workVars
<1>3. Control' BY <1>0, <1>1, <1>2 DEF Control
<1>4. Dealing' /\ Decided' /\ WriteBased' BY <1>1 DEF Dealing, Decided, WriteBased
<1>5. ASSUME NEW i \in Place PROVE retResults'[i] = Outcome(i) /\ result[i] # "PENDING"
    <2>1. /\ result[i] # "PENDING"
          /\ coordinator # "mix" => txns[i] = i
          /\ coordinator = "mix" /\ IsCrdt(i) => done[Rank(i)] = i
          /\ coordinator = "mix" /\ ~ IsCrdt(i) => txns[Rank(i)] = i
        BY <1>0, <1>1, PlacesBack
    <2>2. CASE coordinator # "mix" BY <1>1, <2>1, <2>2
    <2>3. CASE coordinator = "mix"
        <3>1. retResults'[i] =
                 Outcome(IF IsCrdt(i) THEN done[Rank(i)] ELSE txns[Rank(i)])
            BY <1>1, <2>3 DEF Merge
        <3> QED BY <2>1, <2>3, <3>1
    <2> QED BY <2>1, <2>2, <2>3
<1>6. ResultsAligned' BY <1>2, <1>5 DEF ResultsAligned, Outcome
<1>7. WriteBasedDeterministic'
    <2> SUFFICES ASSUME coordinator = "write_based" PROVE WriteBasedDeterministic'
        BY <1>2 DEF WriteBasedDeterministic
    <2>1. stage = "write_based" BY <1>0, <1>1 DEF Control
    <2>2. \A i : Passed(i, "exec") /\ Passed(i, "commit") /\ Passed(i, "second")
        BY <1>1 DEF Passed
    <2>3. \A i \in Place : result[i] = IF WbFails(i) THEN "ABORT_NO_RETRY"
                                       ELSE IF WbAborts(i) THEN "ABORT" ELSE "COMMIT"
        BY <1>0, <2>1, <2>2 DEF WriteBased, WbResult
    <2>4. \A k \in Key :
              /\ \A i \in WbFirst(k) :
                    db[k] = IF ~ WbAborts(i) THEN Written(request[i], tid[i], atStart, k)
                            ELSE atStart[k]
              /\ WbFirst(k) = {} => db[k] = atStart[k]
        BY <1>0, <2>1, <2>2 DEF WriteBased, WbValue
    <2>5. ASSUME NEW k \in Key
          PROVE  IF \E i \in WbFirst(k) : ~WbAborts(i)
                 THEN \E i \in WbFirst(k) : db[k] = Written(request[i], tid[i], atStart, k)
                 ELSE db[k] = atStart[k]
        BY <2>4
    <2>6. /\ \A i \in Place : (WbFails(i)' <=> WbFails(i)) /\ (WbAborts(i)' <=> WbAborts(i))
          /\ \A k \in Key : WbFirst(k)' = WbFirst(k)
        BY <1>2 DEF WbFails, Fails, Gets, WbAborts, WbFirst, Puts
    <2>7. \A k \in Key : \A i \in WbFirst(k) : i \in Place BY DEF WbFirst
    <2>8. \A k \in Key :
             IF \E i \in WbFirst(k)' : ~WbAborts(i)'
             THEN \E i \in WbFirst(k)' : db'[k] = Written(request'[i], tid'[i], atStart', k)
             ELSE db'[k] = atStart'[k]
        BY <1>2, <2>5, <2>6, <2>7
    <2> QED BY <1>2, <2>3, <2>6, <2>8 DEF WriteBasedDeterministic
<1> QED BY <1>3, <1>4, <1>6, <1>7 DEF IInv

-----------------------------------------------------------------------------
(* The workers' transactions.                                                *)

\* A result once there is never taken back, and the phase that decides a
\* transaction leaves it with a result.
LEMMA DecidedStep ==
    ASSUME Control, Decided, stage # "idle", UNCHANGED <<blockVars, stage, waiting, done>>,
           NEW n \in DOMAIN Vector, NEW p \in Working,
           \A m \in DOMAIN Vector : \A q \in Working :
               Passed(m, q)' <=> (Passed(m, q) \/ (m = n /\ q = p)),
           \A i \in Place : result[i] # "PENDING" => result'[i] # "PENDING",
           p = Deciding /\ Vector[n] \in Place => result'[Vector[n]] # "PENDING"
    PROVE  Decided'
<1>1. /\ Vector' = Vector /\ Split(TRUE)' = Split(TRUE) /\ Split(FALSE)' = Split(FALSE)
    BY SameVector
<1>2. /\ coordinator' = coordinator /\ stage' = stage /\ waiting' = waiting /\ done' = done
    BY DEF blockVars
<1>3. Deciding' = Deciding /\ Deciding \in Working BY <1>2 DEF Deciding, Working
<1>4. ASSUME NEW m \in DOMAIN Vector, Vector[m] \in Place, Passed(m, Deciding)'
      PROVE  result'[Vector[m]] # "PENDING"
    <2>1. CASE Deciding = "exec"
        <3>1. Deciding' = "exec" BY <1>3, <2>1
        <3>2. Passed(m, "exec")' BY <1>4, <3>1
        <3>3. Passed(m, "exec") \/ (m = n /\ "exec" = p) BY <3>2 DEF Working
        <3> QED BY <1>4, <2>1, <3>3 DEF Decided
    <2>2. CASE Deciding = "commit"
        <3>1. Deciding' = "commit" BY <1>3, <2>2
        <3>2. Passed(m, "commit")' BY <1>4, <3>1
        <3>3. Passed(m, "commit") \/ (m = n /\ "commit" = p) BY <3>2 DEF Working
        <3> QED BY <1>4, <2>2, <3>3 DEF Decided
    <2> QED BY <2>1, <2>2 DEF Deciding
<1>5. \A m \in DOMAIN Vector' :
          Vector'[m] \in Place /\ Passed(m, Deciding)' => result'[Vector'[m]] # "PENDING"
    BY <1>1, <1>4
<1>6. stage = "crdt" => waiting' = Split(FALSE)' BY <1>1, <1>2 DEF Decided
<1>7. stage = "det" /\ coordinator = "mix" =>
          \A m \in DOMAIN Split(TRUE)' :
              /\ done'[m] = Split(TRUE)'[m]
              /\ Split(TRUE)'[m] \in Place => result'[Split(TRUE)'[m]] # "PENDING"
    BY <1>1, <1>2 DEF Decided
<1> QED BY <1>2, <1>5, <1>6, <1>7 DEF Decided

\* A step that leaves the control alone leaves the invariant alone.
LEMMA SameControl ==
    ASSUME Control, Dealing, Decided, WriteBased,
           UNCHANGED <<blockVars, stage, phase, txns, waiting, done, list, at, finished>>,
           UNCHANGED <<table, db, result, writes>>
    PROVE  Control' /\ Dealing' /\ Decided' /\ WriteBased'
<1>1. /\ at' = at /\ phase' = phase /\ finished' = finished /\ list' = list
      /\ txns' = txns /\ stage' = stage
    OBVIOUS
<1>2. /\ Vector' = Vector /\ \A v \in Worker : ListOf(v)' = ListOf(v) BY SameVector
<1>3. Control' BY <1>1 DEF Control, blockVars
<1>4. CASE stage = "idle" BY <1>1, <1>3, <1>4 DEF Dealing, Decided, WriteBased
<1>5. CASE stage # "idle"
    <2>1. Dealing'
        <3>1. LastPhase' = LastPhase BY <1>1 DEF LastPhase
        <3>2. finished \subseteq Worker BY DEF Control
        <3>3. \A v \in Worker : Has(v)' <=> Has(v) BY <1>1 DEF Has
        <3>4. phase = "start" => \A v \in finished : list'[v] = ListOf(v)'
            BY <1>1, <1>2, <1>5, <3>2 DEF Dealing
        <3>5. phase \in Working => /\ \A v \in Worker : list'[v] = ListOf(v)'
                                   /\ \A v \in finished : ~ Has(v)'
            BY <1>1, <1>2, <1>5, <3>2, <3>3 DEF Dealing
        <3>6. /\ DOMAIN txns' = DOMAIN Vector'
              /\ phase = "start" =>
                    \A n \in DOMAIN Vector' : Owner(n)' \notin finished => txns'[n] = Vector'[n]
              /\ phase = LastPhase =>
                    \A n \in DOMAIN Vector' : Owner(n)' \in finished => txns'[n] = Vector'[n]
              /\ phase = "returned" => \A n \in DOMAIN Vector' : txns'[n] = Vector'[n]
            BY <1>1, <1>2, <1>5 DEF Dealing, Owner
        <3> QED BY <1>1, <3>1, <3>4, <3>5, <3>6 DEF Dealing
    <2>2. Decided' /\ WriteBased'
        <3>1. \A n : \A q \in Working : Passed(n, q)' <=> Passed(n, q)
            BY <1>1 DEF Passed, Nth, Owner
        <3>2. Deciding' = Deciding BY <1>1 DEF Deciding
        <3>3. \A n \in DOMAIN Vector : Passed(n, Deciding)' <=> Passed(n, Deciding)
            BY <1>1, <3>2 DEF Passed, Nth, Owner
        <3> QED BY <1>1, <1>5, <3>1, <3>3, SameData
    <2> QED BY <1>3, <2>1, <2>2
<1> QED BY <1>4, <1>5

\* DBShim's lock changes nothing the invariant is about.
LEMMA PutLockInv == ASSUME IInv, NEW w \in Worker, PutLock(w) PROVE IInv'
<1>1. /\ stage' = "crdt"
      /\ UNCHANGED <<blockVars, stage, phase, txns, waiting, done, list, at, finished>>
      /\ UNCHANGED <<table, db, result, writes>>
    BY DEF PutLock, Crdt, crdtUnchanged
<1>2. Control' /\ Dealing' /\ Decided' /\ WriteBased' BY <1>1, SameControl DEF IInv
<1> QED BY <1>1, <1>2, NotExecuted DEF IInv

\* A vote, a query or an unknown function of a CRDT transaction decides it.
LEMMA CrdtInv ==
    ASSUME IInv, NEW w \in Worker, Vote(w) \/ Get(w) \/ Unknown(w)
    PROVE  IInv'
<1>0. Control /\ Dealing /\ Decided BY DEF IInv
<1>1. /\ stage = "crdt" /\ Busy(w, "exec") /\ Has(w) /\ Step(w) /\ writes' = writes
      /\ UNCHANGED <<blockVars, stage, phase, txns, waiting, done, list, finished>>
    BY DEF Vote, Get, Unknown, Crdt, crdtUnchanged
<1>2. PICK x \in {"ABORT_NO_RETRY", "COMMIT"} : result' = [result EXCEPT ![Current(w)] = x]
    BY DEF Vote, Get, Unknown
<1>3. DOMAIN result' = DOMAIN result /\ DOMAIN result = Place
    BY <1>0, <1>1, <1>2 DEF Control
<1>4. "exec" \in Working BY DEF Working
<1>5. /\ Control' /\ Dealing' /\ Vector' = Vector
      /\ \E n \in DOMAIN Vector :
            /\ Current(w) = Vector[n] /\ ~ Passed(n, "exec")
            /\ \A m \in DOMAIN Vector : \A q \in Working :
                  Passed(m, q)' <=> (Passed(m, q) \/ (m = n /\ q = "exec"))
    BY <1>0, <1>1, <1>3, <1>4, Worked
<1>6. PICK n \in DOMAIN Vector :
            /\ Current(w) = Vector[n]
            /\ \A m \in DOMAIN Vector : \A q \in Working :
                  Passed(m, q)' <=> (Passed(m, q) \/ (m = n /\ q = "exec"))
    BY <1>5
<1>7. /\ \A i \in Place : result[i] # "PENDING" => result'[i] # "PENDING"
      /\ Vector[n] \in Place => result'[Vector[n]] # "PENDING"
    BY <1>2, <1>3, <1>6
<1>8. Decided' BY <1>0, <1>1, <1>4, <1>6, <1>7, DecidedStep
<1>9. stage' = "crdt" BY <1>1
<1>10. WriteBased' BY <1>9 DEF WriteBased
<1> QED BY <1>5, <1>8, <1>9, <1>10, NotExecuted DEF IInv

\* A request touches keys of the database only.
LEMMA RequestKeys ==
    ASSUME Control, block > 0, NEW i \in Place
    PROVE  Gets(request[i]) \subseteq Key /\ Puts(request[i]) \subseteq Key
<1>1. request[i] \in Requests BY DEF Control
<1>2. CASE request[i] \in [cc : {"kv"}, gets : SUBSET Key, puts : SUBSET Key]
    BY <1>2 DEF Gets, Puts
<1>3. CASE request[i] \in
             [cc : {"vote"}, func : {"vote", "get", "other"}, key : Key, count : Int]
    BY <1>3 DEF Gets, Puts
<1> QED BY <1>1, <1>2, <1>3, MixedAssumption

\* The identifiers are below the one that stands for no reservation.
LEMMA Identifiers ==
    ASSUME Control, block > 0
    PROVE  /\ Unreserved \in Int
           /\ \A i \in Place : tid[i] \in Int /\ tid[i] < Unreserved
           /\ \A i, j \in Place : tid[i] = tid[j] => i = j
<1>1. BlockLength \in Nat BY MixedAssumption
<1>2. tid \in [Place -> Place] /\ IsInjective(tid) BY DEF Control
<1>3. \A i \in Place : tid[i] \in Place BY <1>2
<1> QED BY <1>1, <1>2, <1>3 DEF Place, Unreserved, IsInjective

\* Once every transaction has been executed, the table holds the earliest
\* writer of each key.
LEMMA TableExact ==
    ASSUME Control, block > 0, Reserved, \A j \in Place : Passed(j, "exec"),
           NEW k \in Key, NEW i \in Place
    PROVE  /\ i \in WbFirst(k) <=> Writer(i, k) /\ table.writes[k] = tid[i]
           /\ table.writes[k] < tid[i] => \E j \in WbFirst(k) : tid[j] = table.writes[k]
           /\ \A j \in WbFirst(k) : j \in Place /\ tid[j] = table.writes[k]
<1>1. /\ Unreserved \in Int
      /\ \A j \in Place : tid[j] \in Int /\ tid[j] < Unreserved
    BY Identifiers
<1>2. /\ table.writes[k] \in Int
      /\ table.writes[k] = Unreserved \/ \E j \in Place : Writer(j, k) /\ tid[j] = table.writes[k]
      /\ \A j \in Place : Writer(j, k) => table.writes[k] <= tid[j]
    BY DEF Reserved
<1>3. \A j \in Place : j \in WbFirst(k) <=>
          Writer(j, k) /\ \A l \in Place : Writer(l, k) => tid[j] <= tid[l]
    BY DEF WbFirst, Writer
<1>4. \A j \in WbFirst(k) : j \in Place BY DEF WbFirst
<1>5. ASSUME NEW j \in Place
      PROVE  j \in WbFirst(k) <=> Writer(j, k) /\ table.writes[k] = tid[j]
    <2>1. ASSUME j \in WbFirst(k) PROVE Writer(j, k) /\ table.writes[k] = tid[j]
        <3>1. Writer(j, k) /\ table.writes[k] <= tid[j] BY <1>2, <1>3, <2>1
        <3>2. PICK l \in Place : Writer(l, k) /\ tid[l] = table.writes[k] BY <1>1, <1>2, <3>1
        <3>3. tid[j] <= tid[l] BY <1>3, <2>1, <3>2
        <3> QED BY <1>1, <3>1, <3>2, <3>3
    <2>2. ASSUME Writer(j, k), table.writes[k] = tid[j] PROVE j \in WbFirst(k)
        BY <1>2, <1>3, <2>2
    <2> QED BY <2>1, <2>2
<1>6. ASSUME table.writes[k] < tid[i] PROVE \E j \in WbFirst(k) : tid[j] = table.writes[k]
    <2>1. table.writes[k] # Unreserved BY <1>1, <1>2, <1>6
    <2>2. PICK j \in Place : Writer(j, k) /\ tid[j] = table.writes[k] BY <1>2, <2>1
    <2> QED BY <1>5, <2>2
<1> QED BY <1>4, <1>5, <1>6

\* detectRAW decides as the declarative outcome does.
LEMMA RawIsLate ==
    ASSUME Control, block > 0, Reserved, \A j \in Place : Passed(j, "exec"), NEW i \in Place
    PROVE  Puts(request[i]) # {} /\ Raw(i) <=> WbAborts(i)
<1>1. Gets(request[i]) \subseteq Key BY RequestKeys
<1>2. ASSUME NEW k \in Gets(request[i])
      PROVE  table.writes[k] < tid[i] <=> \E j \in WbFirst(k) : tid[j] < tid[i]
    <2>1. k \in Key BY <1>1
    <2> QED BY <2>1, TableExact
<1> QED BY <1>2 DEF Raw, WbAborts

\* The declarative outcome is the block's alone.
LEMMA SameBlock ==
    ASSUME UNCHANGED blockVars
    PROVE  /\ \A i \in Place : (WbFails(i)' <=> WbFails(i)) /\ (WbAborts(i)' <=> WbAborts(i))
           /\ \A k \in Key : WbFirst(k)' = WbFirst(k)
           /\ \A i \in Place, k \in Key : Writer(i, k)' <=> Writer(i, k)
           /\ request' = request /\ tid' = tid /\ atStart' = atStart
<1>1. request' = request /\ tid' = tid /\ atStart' = atStart BY DEF blockVars
<1>2. \A i \in Place : WbFails(i)' <=> WbFails(i) BY <1>1 DEF WbFails, Fails, Gets
<1>3. \A k \in Key : WbFirst(k)' = WbFirst(k)
    BY <1>1 DEF WbFails, Fails, Gets, WbFirst, Puts
<1>4. \A i \in Place : WbAborts(i)' <=> WbAborts(i)
    BY <1>1 DEF WbAborts, WbFails, Fails, Gets, WbFirst, Puts
<1>5. \A i \in Place, k \in Key : Writer(i, k)' <=> Writer(i, k) BY <1>1, <1>2 DEF Writer
<1> QED BY <1>1, <1>2, <1>3, <1>4, <1>5

\* With WBCoordinator the vector is the block.
LEMMA WholeBlock ==
    ASSUME Control, stage = "write_based"
    PROVE  Vector = [i \in Place |-> i] /\ DOMAIN Vector = Place /\ block > 0
BY DEF Vector, Control

\* OnExecuteTransaction reserves the keys of the transaction and remembers its
\* writes.
LEMMA WbExecute ==
    ASSUME Control, WriteBased, stage = "write_based", phase = "exec",
           NEW w \in Worker, Execute(w), NEW i \in Place, Current(w) = i, ~ Passed(i, "exec"),
           \A m \in Place : \A q \in Working :
               Passed(m, q)' <=> (Passed(m, q) \/ (m = i /\ q = "exec"))
    PROVE  WriteBased'
<1> DEFINE r == request[i]
           fails == WbFails(i)
<1>1. /\ UNCHANGED blockVars /\ stage' = stage /\ phase' = phase /\ db' = db /\ db = atStart
    BY DEF Execute, WriteBased
<1>2. /\ \A j \in Place : (WbFails(j)' <=> WbFails(j)) /\ (WbAborts(j)' <=> WbAborts(j))
      /\ \A k \in Key : WbFirst(k)' = WbFirst(k)
      /\ \A j \in Place, k \in Key : Writer(j, k)' <=> Writer(j, k)
      /\ request' = request /\ tid' = tid /\ atStart' = atStart
    BY <1>1, SameBlock
<1>3. \A j \in Place : /\ Passed(j, "exec")' <=> Passed(j, "exec") \/ j = i
                       /\ Passed(j, "commit")' <=> Passed(j, "commit")
                       /\ Passed(j, "second")' <=> Passed(j, "second")
    BY DEF Working
<1>4. \A j \in Place : ~ Passed(j, "commit") /\ ~ Passed(j, "second") BY DEF Passed
<1>5. Fails(r, db) <=> fails BY <1>1 DEF WbFails
<1>6. DOMAIN result = Place /\ DOMAIN writes = Place BY WholeBlock DEF Control
<1>7. /\ result' = [result EXCEPT ![i] = IF fails THEN "ABORT_NO_RETRY" ELSE result[i]]
      /\ writes' = [writes EXCEPT ![i] =
             IF fails THEN writes[i] ELSE [k \in Puts(r) |-> Written(r, tid[i], atStart, k)]]
      /\ ~ (~ fails /\ Puts(r) # {}) => table' = table
      /\ ~ fails /\ Puts(r) # {} => table'.writes = Lower(table.writes, Puts(r), tid[i])
    BY <1>1, <1>5 DEF Execute
<1>8. /\ \A j \in Place : j # i => result'[j] = result[j] /\ writes'[j] = writes[j]
      /\ result'[i] = IF fails THEN "ABORT_NO_RETRY" ELSE result[i]
      /\ ~ fails => writes'[i] = [k \in Puts(r) |-> Written(r, tid[i], atStart, k)]
    BY <1>6, <1>7
<1>9. \A k \in Key : table'.writes[k] =
          IF Writer(i, k) /\ tid[i] < table.writes[k] THEN tid[i] ELSE table.writes[k]
    BY <1>7 DEF Lower, Writer
<1>10. Reserved'
    <2>1. \A k \in Key :
            /\ table.writes[k] \in Int
            /\ \/ table.writes[k] = Unreserved
               \/ \E j \in Place : Passed(j, "exec") /\ Writer(j, k) /\ tid[j] = table.writes[k]
            /\ \A j \in Place : Passed(j, "exec") /\ Writer(j, k) => table.writes[k] <= tid[j]
        BY DEF WriteBased, Reserved
    <2>2. \A j \in Place : tid[j] \in Int BY Identifiers, WholeBlock
    <2>3. ASSUME NEW k \in Key
          PROVE  /\ table'.writes[k] \in Int
                 /\ \/ table'.writes[k] = Unreserved
                    \/ \E j \in Place : (Passed(j, "exec") \/ j = i) /\ Writer(j, k)
                                        /\ tid[j] = table'.writes[k]
                 /\ \A j \in Place : (Passed(j, "exec") \/ j = i) /\ Writer(j, k) =>
                        table'.writes[k] <= tid[j]
        <3>1. CASE Writer(i, k) /\ tid[i] < table.writes[k]
            <4>1. table'.writes[k] = tid[i] BY <1>9, <3>1
            <4> QED BY <2>1, <2>2, <3>1, <4>1
        <3>2. CASE ~ (Writer(i, k) /\ tid[i] < table.writes[k])
            <4>1. table'.writes[k] = table.writes[k] BY <1>9, <3>2
            <4> QED BY <2>1, <2>2, <3>2, <4>1
        <3> QED BY <3>1, <3>2
    <2> QED BY <1>2, <1>3, <2>3 DEF Reserved
<1>11. \A j \in Place : result'[j] = WbResult(j)'
    <2>1. \A j \in Place : result[j] = WbResult(j) BY DEF WriteBased
    <2> QED BY <1>2, <1>3, <1>4, <1>8, <2>1 DEF WbResult
<1>12. \A j \in Place : Passed(j, "exec")' /\ ~ WbFails(j)' =>
          writes'[j] = [k \in Puts(request'[j]) |-> Written(request'[j], tid'[j], atStart', k)]
    BY <1>2, <1>3, <1>8 DEF WriteBased
<1>13. \A k \in Key : /\ \A j \in WbFirst(k)' : db'[k] = WbValue(j, k)'
                      /\ WbFirst(k)' = {} => db'[k] = atStart'[k]
    <2>1. \A k \in Key : \A j \in WbFirst(k) : j \in Place BY DEF WbFirst
    <2> QED BY <1>1, <1>2, <1>3, <1>4, <2>1 DEF WbValue
<1>14. phase' = "exec" /\ db' = atStart' BY <1>1, <1>2
<1> QED BY <1>10, <1>11, <1>12, <1>13, <1>14 DEF WriteBased

\* onFirstCommit decides the transaction from the complete table.
LEMMA WbFirstCommit ==
    ASSUME Control, WriteBased, stage = "write_based", phase = "commit",
           NEW w \in Worker, FirstCommit(w), NEW i \in Place, Current(w) = i,
           \A m \in Place : \A q \in Working :
               Passed(m, q)' <=> (Passed(m, q) \/ (m = i /\ q = "commit"))
    PROVE  WriteBased'
<1>1. /\ UNCHANGED blockVars /\ stage' = stage /\ phase' = phase /\ db' = db /\ db = atStart
      /\ table' = table /\ writes' = writes
    BY DEF FirstCommit, WriteBased, commitUnchanged
<1>2. /\ \A j \in Place : (WbFails(j)' <=> WbFails(j)) /\ (WbAborts(j)' <=> WbAborts(j))
      /\ \A k \in Key : WbFirst(k)' = WbFirst(k)
      /\ \A j \in Place, k \in Key : Writer(j, k)' <=> Writer(j, k)
      /\ request' = request /\ tid' = tid /\ atStart' = atStart
    BY <1>1, SameBlock
<1>3. \A j \in Place : /\ Passed(j, "exec")' <=> Passed(j, "exec")
                       /\ Passed(j, "commit")' <=> Passed(j, "commit") \/ j = i
                       /\ Passed(j, "second")' <=> Passed(j, "second")
    BY DEF Working
<1>4. \A j \in Place : Passed(j, "exec") /\ ~ Passed(j, "second") BY DEF Passed
<1>5. DOMAIN result = Place BY WholeBlock DEF Control
<1>6. Puts(request[i]) # {} /\ Raw(i) <=> WbAborts(i)
    BY <1>4, WholeBlock, RawIsLate DEF WriteBased
<1>7. /\ \A j \in Place : j # i => result'[j] = result[j]
      /\ result'[i] = IF result[i] = "ABORT_NO_RETRY" THEN "ABORT_NO_RETRY"
                      ELSE IF WbAborts(i) THEN "ABORT" ELSE "COMMIT"
    BY <1>5, <1>6 DEF FirstCommit
<1>8. \A j \in Place : result[j] = WbResult(j) BY DEF WriteBased
<1>9. result[i] = "ABORT_NO_RETRY" <=> WbFails(i) BY <1>4, <1>8 DEF WbResult
<1>10. \A j \in Place : result'[j] = WbResult(j)'
    BY <1>2, <1>3, <1>4, <1>7, <1>8, <1>9 DEF WbResult
<1>11. Reserved'
    <2>1. Reserved BY DEF WriteBased
    <2> QED BY <1>1, <1>2, <1>3, <2>1 DEF Reserved
<1>12. \A j \in Place : Passed(j, "exec")' /\ ~ WbFails(j)' =>
          writes'[j] = [k \in Puts(request'[j]) |-> Written(request'[j], tid'[j], atStart', k)]
    BY <1>1, <1>2, <1>3 DEF WriteBased
<1>13. \A k \in Key : /\ \A j \in WbFirst(k)' : db'[k] = WbValue(j, k)'
                      /\ WbFirst(k)' = {} => db'[k] = atStart'[k]
    <2>1. \A k \in Key : \A j \in WbFirst(k) : j \in Place BY DEF WbFirst
    <2> QED BY <1>1, <1>2, <1>3, <1>4, <2>1 DEF WbValue
<1>14. phase' = "commit" /\ db' = atStart' BY <1>1, <1>2
<1> QED BY <1>10, <1>11, <1>12, <1>13, <1>14 DEF WriteBased

\* onSecondCommit writes the keys of which the transaction is the earliest
\* writer, and nobody else writes them.
LEMMA WbSecondCommit ==
    ASSUME Control, WriteBased, stage = "write_based", phase = "second",
           NEW w \in Worker, SecondCommit(w), NEW i \in Place, Current(w) = i,
           \A m \in Place : \A q \in Working :
               Passed(m, q)' <=> (Passed(m, q) \/ (m = i /\ q = "second"))
    PROVE  WriteBased'
<1>1. /\ UNCHANGED blockVars /\ stage' = stage /\ phase' = phase
      /\ table' = table /\ writes' = writes /\ result' = result
    BY DEF SecondCommit, commitUnchanged
<1>2. /\ \A j \in Place : (WbFails(j)' <=> WbFails(j)) /\ (WbAborts(j)' <=> WbAborts(j))
      /\ \A k \in Key : WbFirst(k)' = WbFirst(k)
      /\ \A j \in Place, k \in Key : Writer(j, k)' <=> Writer(j, k)
      /\ request' = request /\ tid' = tid /\ atStart' = atStart
    BY <1>1, SameBlock
<1>3. \A j \in Place : /\ Passed(j, "exec")' <=> Passed(j, "exec")
                       /\ Passed(j, "commit")' <=> Passed(j, "commit")
                       /\ Passed(j, "second")' <=> Passed(j, "second") \/ j = i
    BY DEF Working
<1>4. \A j \in Place : Passed(j, "exec") /\ Passed(j, "commit") BY DEF Passed
<1>5. result[i] = "COMMIT" <=> ~ WbFails(i) /\ ~ WbAborts(i)
    BY <1>4 DEF WriteBased, WbResult
<1>6. ASSUME NEW k \in Key
      PROVE  db'[k] = IF ~ WbAborts(i) /\ i \in WbFirst(k)
                      THEN Written(request[i], tid[i], atStart, k) ELSE db[k]
    <2>1. i \in WbFirst(k) <=> Writer(i, k) /\ table.writes[k] = tid[i]
        BY <1>4, WholeBlock, TableExact DEF WriteBased
    <2>2. k \in updateDB(i) <=> k \in Puts(request[i]) /\ table.writes[k] = tid[i]
        BY DEF updateDB
    <2>3. CASE result[i] # "COMMIT"
        <3>1. db' = db BY <2>3 DEF SecondCommit
        <3> QED BY <1>5, <2>1, <2>3, <3>1 DEF Writer
    <2>4. CASE result[i] = "COMMIT"
        <3>1. db'[k] = IF k \in updateDB(i) THEN writes[i][k] ELSE db[k]
            BY <2>4 DEF SecondCommit
        <3>2. k \in updateDB(i) <=> i \in WbFirst(k) BY <1>5, <2>1, <2>2, <2>4 DEF Writer
        <3>3. k \in updateDB(i) => writes[i][k] = Written(request[i], tid[i], atStart, k)
            <4>1. writes[i] = [x \in Puts(request[i]) |-> Written(request[i], tid[i], atStart, x)]
                BY <1>4, <1>5, <2>4 DEF WriteBased
            <4> QED BY <2>2, <4>1
        <3> QED BY <1>5, <2>4, <3>1, <3>2, <3>3
    <2> QED BY <2>3, <2>4
<1>7. ASSUME NEW k \in Key, NEW j \in WbFirst(k) PROVE db'[k] = WbValue(j, k)'
    <2>1. j \in Place /\ tid[j] = table.writes[k]
        BY <1>4, WholeBlock, TableExact DEF WriteBased
    <2>2. db[k] = WbValue(j, k) BY DEF WriteBased
    <2>3. CASE j = i BY <1>2, <1>3, <1>6, <2>1, <2>2, <2>3 DEF WbValue
    <2>4. CASE j # i
        <3>1. i \notin WbFirst(k)
            <4>1. i \in WbFirst(k) => tid[i] = table.writes[k]
                BY <1>4, WholeBlock, TableExact DEF WriteBased
            <4>2. tid[i] = tid[j] => i = j BY <2>1, WholeBlock, Identifiers
            <4> QED BY <2>1, <2>4, <4>1, <4>2
        <3> QED BY <1>2, <1>3, <1>6, <2>1, <2>2, <2>4, <3>1 DEF WbValue
    <2> QED BY <2>3, <2>4
<1>8. ASSUME NEW k \in Key, WbFirst(k) = {} PROVE db'[k] = atStart[k]
    BY <1>6, <1>8 DEF WriteBased
<1>9. \A k \in Key : /\ \A j \in WbFirst(k)' : db'[k] = WbValue(j, k)'
                     /\ WbFirst(k)' = {} => db'[k] = atStart'[k]
    BY <1>2, <1>7, <1>8
<1>10. Reserved'
    <2>1. Reserved BY DEF WriteBased
    <2> QED BY <1>1, <1>2, <1>3, <2>1 DEF Reserved
<1>11. \A j \in Place : result'[j] = WbResult(j)'
    BY <1>1, <1>2, <1>3 DEF WriteBased, WbResult
<1>12. \A j \in Place : Passed(j, "exec")' /\ ~ WbFails(j)' =>
          writes'[j] = [k \in Puts(request'[j]) |-> Written(request'[j], tid'[j], atStart', k)]
    BY <1>1, <1>2, <1>3 DEF WriteBased
<1>13. phase' \notin {"start", "exec", "commit"} BY <1>1
<1> QED BY <1>9, <1>10, <1>11, <1>12, <1>13 DEF WriteBased

\* One transaction of a worker in the deterministic and write-based phases.
LEMMA TransactionInv ==
    ASSUME IInv, NEW w \in Worker,
           Execute(w) \/ Commit(w) \/ FirstCommit(w) \/ SecondCommit(w)
    PROVE  IInv'
<1>0. Control /\ Dealing /\ Decided /\ WriteBased BY DEF IInv
<1>1. /\ stage \in {"det", "write_based"} /\ phase \in Working /\ Busy(w, phase)
      /\ Has(w) /\ Step(w)
      /\ UNCHANGED <<blockVars, stage, phase, txns, waiting, done, list, finished>>
    BY DEF Execute, Commit, FirstCommit, SecondCommit, commitUnchanged, Busy, Working
<1>2. DOMAIN result = Place /\ DOMAIN writes = Place BY <1>0, <1>1 DEF Control
<1>3. DOMAIN result' = DOMAIN result /\ DOMAIN writes' = DOMAIN writes
    <2>1. CASE Execute(w) BY <2>1 DEF Execute
    <2>2. CASE Commit(w) BY <2>2 DEF Commit, commitUnchanged
    <2>3. CASE FirstCommit(w) BY <2>3 DEF FirstCommit, commitUnchanged
    <2>4. CASE SecondCommit(w) BY <2>4 DEF SecondCommit, commitUnchanged
    <2> QED BY <2>1, <2>2, <2>3, <2>4
<1>4. /\ Control' /\ Dealing' /\ Vector' = Vector
      /\ \E n \in DOMAIN Vector :
            /\ Current(w) = Vector[n] /\ ~ Passed(n, phase)
            /\ \A m \in DOMAIN Vector : \A q \in Working :
                  Passed(m, q)' <=> (Passed(m, q) \/ (m = n /\ q = phase))
    BY <1>0, <1>1, <1>3, Worked
<1>5. PICK n \in DOMAIN Vector :
            /\ Current(w) = Vector[n] /\ ~ Passed(n, phase)
            /\ \A m \in DOMAIN Vector : \A q \in Working :
                  Passed(m, q)' <=> (Passed(m, q) \/ (m = n /\ q = phase))
    BY <1>4
<1>6. /\ \A i \in Place : result[i] # "PENDING" => result'[i] # "PENDING"
      /\ phase = "commit" /\ Vector[n] \in Place => result'[Vector[n]] # "PENDING"
    <2>1. CASE Execute(w)
        <3>1. phase # "commit" BY <2>1 DEF Execute, Busy
        <3> QED BY <1>2, <2>1, <3>1 DEF Execute
    <2>2. CASE Commit(w) BY <1>2, <1>5, <2>2 DEF Commit
    <2>3. CASE FirstCommit(w) BY <1>2, <1>5, <2>3 DEF FirstCommit
    <2>4. CASE SecondCommit(w)
        <3>1. phase # "commit" /\ result' = result BY <2>4 DEF SecondCommit, Busy, commitUnchanged
        <3> QED BY <3>1
    <2> QED BY <2>1, <2>2, <2>3, <2>4
<1>7. Decided'
    <2>1. Deciding = "commit" BY <1>1 DEF Deciding
    <2> QED BY <1>0, <1>1, <1>5, <1>6, <2>1, DecidedStep
<1>8. WriteBased'
    <2>1. CASE stage # "write_based" BY <1>1, <2>1 DEF WriteBased
    <2>2. CASE stage = "write_based"
        <3>1. n \in Place /\ Current(w) = n /\ DOMAIN Vector = Place
            BY <1>0, <1>5, <2>2, WholeBlock
        <3>2. \A m \in Place : \A q \in Working :
                  Passed(m, q)' <=> (Passed(m, q) \/ (m = n /\ q = phase))
            BY <1>5, <3>1
        <3>3. CASE Execute(w)
            <4>1. phase = "exec" BY <3>3 DEF Execute, Busy
            <4> QED BY <1>0, <1>5, <2>2, <3>1, <3>2, <3>3, <4>1, WbExecute
        <3>4. CASE FirstCommit(w)
            <4>1. phase = "commit" BY <3>4 DEF FirstCommit, Busy
            <4> QED BY <1>0, <2>2, <3>1, <3>2, <3>4, <4>1, WbFirstCommit
        <3>5. CASE SecondCommit(w)
            <4>1. phase = "second" BY <3>5 DEF SecondCommit, Busy
            <4> QED BY <1>0, <2>2, <3>1, <3>2, <3>5, <4>1, WbSecondCommit
        <3>6. ~ Commit(w) BY <2>2 DEF Commit
        <3> QED BY <3>3, <3>4, <3>5, <3>6
    <2> QED BY <2>1, <2>2
<1>9. stage' # "idle" BY <1>1
<1> QED BY <1>4, <1>7, <1>8, <1>9, NotExecuted DEF IInv

-----------------------------------------------------------------------------
\* The invariant holds in every state of every behaviour: the vectors are
\* dealt out and filled again place by place, results are never taken back,
\* and the reserve table of the write-based coordinator knows the earliest
\* executed writer of every key.
THEOREM MixedInvariance == Spec => []IInv
<1>1. Init => IInv BY InitInv
<1>2. IInv /\ [Next]_vars => IInv'
    <2> SUFFICES ASSUME IInv, [Next]_vars PROVE IInv' OBVIOUS
    <2>1. CASE Begin BY <2>1, BeginInv
    <2>2. CASE EndCrdt BY <2>2, EndCrdtInv
    <2>3. CASE EndBlock BY <2>3, EndBlockInv
    <2>4. CASE EndPhase BY <2>4, EndPhaseInv
    <2>5. ASSUME NEW w \in Worker, Work(w) PROVE IInv'
        <3>1. CASE Start(w) BY <3>1, StartInv
        <3>2. CASE Finish(w) BY <3>2, FinishInv
        <3>3. CASE PutLock(w) BY <3>3, PutLockInv
        <3>4. CASE Vote(w) \/ Get(w) \/ Unknown(w) BY <3>4, CrdtInv
        <3>5. CASE Execute(w) \/ Commit(w) \/ FirstCommit(w) \/ SecondCommit(w)
            BY <3>5, TransactionInv
        <3> QED BY <2>5, <3>1, <3>2, <3>3, <3>4, <3>5 DEF Work
    <2>6. CASE UNCHANGED vars
        <3>1. /\ coordinator' = coordinator /\ block' = block /\ request' = request /\ tid' = tid
              /\ atStart' = atStart /\ stage' = stage /\ phase' = phase /\ txns' = txns
              /\ waiting' = waiting /\ done' = done /\ list' = list /\ at' = at
              /\ finished' = finished /\ table' = table /\ db' = db /\ result' = result
              /\ writes' = writes /\ retResults' = retResults
            BY <2>6 DEF vars, blockVars, workVars
        <3>2. Control' /\ Dealing' /\ Decided' /\ WriteBased'
            <4>1. UNCHANGED blockVars BY <3>1 DEF blockVars
            <4> QED BY <3>1, <4>1, SameControl DEF IInv
        <3>3. ResultsAligned' BY <3>1 DEF IInv, ResultsAligned, Executed, Outcome
        <3>4. WriteBasedDeterministic'
            <4>1. /\ \A i \in Place : (WbFails(i)' <=> WbFails(i)) /\ (WbAborts(i)' <=> WbAborts(i))
                  /\ \A k \in Key : WbFirst(k)' = WbFirst(k)
                BY <3>1, SameBlock DEF blockVars
            <4>2. \A k \in Key : \A i \in WbFirst(k) : i \in Place BY DEF WbFirst
            <4>3. WriteBasedDeterministic BY DEF IInv
            <4> QED BY <3>1, <4>1, <4>2, <4>3 DEF WriteBasedDeterministic, Executed
        <3> QED BY <3>2, <3>3, <3>4 DEF IInv
    <2> QED BY <2>1, <2>2, <2>3, <2>4, <2>5, <2>6 DEF Next
<1> QED BY <1>1, <1>2, PTL DEF Spec

\* Every request of an executed block gets its own outcome back, and none is
\* left undecided, whichever coordinators and workers the transactions went
\* through.
THEOREM OutcomesAligned == Spec => []ResultsAligned
<1>1. IInv => ResultsAligned BY DEF IInv
<1> QED BY <1>1, MixedInvariance, PTL

\* With WBCoordinator the results and the database after a block are those the
\* block and the database before it determine, for every number of workers and
\* every interleaving of them.
THEOREM WriteBasedOutcome == Spec => []WriteBasedDeterministic
<1>1. IInv => WriteBasedDeterministic BY DEF IInv
<1> QED BY <1>1, MixedInvariance, PTL

-----------------------------------------------------------------------------
(* What the votes of a set of places add up to.                              *)

\* a set of natural numbers has a least element
LEMMA LeastNatural ==
    ASSUME NEW T, T \subseteq Nat, T # {}
    PROVE  \E n \in T : \A m \in T : n <= m
<1> DEFINE Smaller == OpToRel(<, Nat)
<1>1. IsWellFoundedOn(Smaller, Nat) BY NatLessThanWellFounded
<1>2. \A n, m \in Nat : <<n, m>> \in Smaller <=> n < m BY DEF OpToRel
<1> HIDE DEF Smaller
<1>3. PICK n \in T : \A m \in T : ~ (<<m, n>> \in Smaller) BY <1>1, WFMin
<1>4. ASSUME NEW m \in T PROVE n <= m
    <2>1. n \in Nat /\ m \in Nat /\ ~ (<<m, n>> \in Smaller) BY <1>3
    <2> QED BY <1>2, <2>1
<1> QED BY <1>4

\* t holds the counts of the places 1 to n, for all n up to last
Totals(t, last, b, places) ==
    t = [n \in 0 .. last |->
            IF n = 0 THEN 0
            ELSE IF n \in places THEN t[n - 1] + b[n].count ELSE t[n - 1]]

CountsOf(b, places) == (CHOOSE t : Totals(t, BlockLength, b, places))[BlockLength]

LEMMA CountsRead == \A places : Counts(places) = CountsOf(request, places)
BY Zenon DEF Counts, CountsOf, Totals

\* The totals of a block exist, and there is one way to have them.
LEMMA TotalsExist ==
    ASSUME NEW b, NEW places
    PROVE  \E t : Totals(t, BlockLength, b, places) /\ CountsOf(b, places) = t[BlockLength]
<1>1. BlockLength \in Nat BY MixedAssumption
<1> DEFINE Missing == {m \in Nat : ~ \E t : Totals(t, m, b, places)}
<1>2. Missing = {}
    <2> SUFFICES ASSUME Missing # {} PROVE FALSE OBVIOUS
    <2>1. PICK m \in Missing : \A l \in Missing : m <= l BY LeastNatural
    <2>2. m # 0
        <3>1. Totals([n \in 0 .. 0 |-> 0], 0, b, places) BY DEF Totals
        <3> QED BY <3>1
    <2>3. m - 1 \in Nat /\ m - 1 \notin Missing BY <2>1, <2>2
    <2>4. PICK t : Totals(t, m - 1, b, places) BY <2>3
    <2> DEFINE step == IF m \in places THEN t[m - 1] + b[m].count ELSE t[m - 1]
               u == [n \in 0 .. m |-> IF n = m THEN step ELSE t[n]]
    <2>5. Totals(u, m, b, places)
        <3>1. \A n \in 0 .. m - 1 : u[n] = t[n] BY <2>3
        <3>2. u[m] = step BY <2>3
        <3> HIDE DEF step
        <3>3. ASSUME NEW n \in 0 .. m
              PROVE  u[n] = IF n = 0 THEN 0
                            ELSE IF n \in places THEN u[n - 1] + b[n].count ELSE u[n - 1]
            <4>1. CASE n = m
                <5>1. u[m - 1] = t[m - 1] BY <2>3, <3>1
                <5> HIDE DEF u
                <5> QED BY <2>2, <3>2, <4>1, <5>1 DEF step
            <4>2. CASE n # m /\ n # 0
                <5>1. n \in 0 .. m - 1 /\ n - 1 \in 0 .. m - 1 BY <2>3, <4>2
                <5>2. t[n] = IF n \in places THEN t[n - 1] + b[n].count ELSE t[n - 1]
                    BY <2>4, <4>2, <5>1 DEF Totals
                <5>3. u[n] = t[n] /\ u[n - 1] = t[n - 1] BY <3>1, <5>1
                <5> HIDE DEF u
                <5> QED BY <4>2, <5>2, <5>3
            <4>3. CASE n = 0
                <5>1. t[0] = 0 BY <2>3, <2>4 DEF Totals
                <5> QED BY <2>2, <2>3, <3>1, <4>3, <5>1
            <4> QED BY <4>1, <4>2, <4>3
        <3>4. u = [n \in 0 .. m |-> u[n]] OBVIOUS
        <3> HIDE DEF u
        <3> QED BY <3>3, <3>4 DEF Totals
    <2> HIDE DEF u
    <2> QED BY <2>5
<1>3. \E t : Totals(t, BlockLength, b, places) BY <1>1, <1>2
<1>4. Totals(CHOOSE t : Totals(t, BlockLength, b, places), BlockLength, b, places) BY <1>3
<1> QED BY <1>4, Zenon DEF CountsOf

\* Every total is a natural number when the counts are.
LEMMA TotalsNat ==
    ASSUME NEW b, NEW places, \A n \in places : b[n].count \in Nat,
           NEW t, Totals(t, BlockLength, b, places)
    PROVE  \A n \in 0 .. BlockLength : t[n] \in Nat
<1>1. BlockLength \in Nat BY MixedAssumption
<1> DEFINE Wrong == {n \in 0 .. BlockLength : t[n] \notin Nat}
<1> SUFFICES ASSUME Wrong # {} PROVE FALSE OBVIOUS
<1>2. PICK n \in Wrong : \A m \in Wrong : n <= m
    <2>1. Wrong \subseteq Nat BY <1>1
    <2> QED BY <2>1, LeastNatural
<1>3. n # 0 BY <1>1 DEF Totals
<1>4. n - 1 \in 0 .. BlockLength /\ n - 1 \notin Wrong BY <1>1, <1>2, <1>3
<1>5. t[n - 1] \in Nat BY <1>4
<1>6. t[n] = IF n \in places THEN t[n - 1] + b[n].count ELSE t[n - 1]
    BY <1>1, <1>3 DEF Totals
<1>7. n \in places => b[n].count \in Nat OBVIOUS
<1>8. t[n] \in Nat
    <2>1. CASE n \in places
        <3>1. t[n] = t[n - 1] + b[n].count BY <1>6, <2>1
        <3> QED BY <1>5, <1>7, <2>1, <3>1
    <2>2. CASE n \notin places BY <1>5, <1>6, <2>2
    <2> QED BY <2>1, <2>2
<1> QED BY <1>8

\* No votes count nothing, and one more vote counts what it says.
LEMMA CountsNone == \A b : CountsOf(b, {}) = 0
<1> SUFFICES ASSUME NEW b PROVE CountsOf(b, {}) = 0 OBVIOUS
<1>1. BlockLength \in Nat BY MixedAssumption
<1>2. PICK t : Totals(t, BlockLength, b, {}) /\ CountsOf(b, {}) = t[BlockLength] BY TotalsExist
<1> DEFINE Wrong == {n \in 0 .. BlockLength : t[n] # 0}
<1>3. Wrong = {}
    <2> SUFFICES ASSUME Wrong # {} PROVE FALSE OBVIOUS
    <2>1. PICK n \in Wrong : \A m \in Wrong : n <= m
        <3>1. Wrong \subseteq Nat BY <1>1
        <3> QED BY <3>1, LeastNatural
    <2>2. n # 0 BY <1>1, <1>2 DEF Totals
    <2>3. n - 1 \in 0 .. BlockLength /\ n - 1 \notin Wrong BY <1>1, <2>1, <2>2
    <2>4. t[n] = t[n - 1] BY <1>1, <1>2, <2>2 DEF Totals
    <2> QED BY <2>3, <2>4
<1>4. BlockLength \in 0 .. BlockLength BY <1>1
<1> QED BY <1>2, <1>3, <1>4

LEMMA CountsMore ==
    ASSUME NEW b, NEW places \in SUBSET Place, NEW i \in Place, i \notin places,
           \A n \in places \cup {i} : b[n].count \in Nat
    PROVE  /\ CountsOf(b, places) \in Nat
           /\ CountsOf(b, places \cup {i}) = CountsOf(b, places) + b[i].count
<1>1. BlockLength \in Nat /\ i \in Nat /\ i >= 1 /\ i <= BlockLength BY MixedAssumption DEF Place
<1> DEFINE more == places \cup {i}
<1>2. PICK t : Totals(t, BlockLength, b, places) /\ CountsOf(b, places) = t[BlockLength]
    BY TotalsExist
<1>3. PICK u : Totals(u, BlockLength, b, more) /\ CountsOf(b, more) = u[BlockLength]
    BY TotalsExist
<1>4. \A n \in 0 .. BlockLength : t[n] \in Nat /\ u[n] \in Nat
    <2>1. \A n \in 0 .. BlockLength : t[n] \in Nat BY <1>2, TotalsNat
    <2>2. \A n \in 0 .. BlockLength : u[n] \in Nat BY <1>3, TotalsNat
    <2> QED BY <2>1, <2>2
<1> DEFINE c == b[i].count
           Wrong == {n \in 0 .. BlockLength : ~ (u[n] = IF n < i THEN t[n] ELSE t[n] + c)}
<1>5. c \in Nat OBVIOUS
<1>6. Wrong = {}
    <2> SUFFICES ASSUME Wrong # {} PROVE FALSE OBVIOUS
    <2>1. PICK n \in Wrong : \A m \in Wrong : n <= m
        <3>1. Wrong \subseteq Nat BY <1>1
        <3> QED BY <3>1, LeastNatural
    <2>2. n # 0
        <3>1. t[0] = 0 /\ u[0] = 0 BY <1>1, <1>2, <1>3 DEF Totals
        <3> QED BY <1>1, <3>1
    <2>3. n \in 0 .. BlockLength /\ n - 1 \in 0 .. BlockLength /\ n - 1 \notin Wrong
        BY <1>1, <2>1, <2>2
    <2>4. t[n] = IF n \in places THEN t[n - 1] + b[n].count ELSE t[n - 1]
        BY <1>2, <2>2, <2>3 DEF Totals
    <2>5. u[n] = IF n \in more THEN u[n - 1] + b[n].count ELSE u[n - 1]
        BY <1>3, <2>2, <2>3 DEF Totals
    <2>6. u[n - 1] = IF n - 1 < i THEN t[n - 1] ELSE t[n - 1] + c BY <2>3
    <2>7. ~ (u[n] = IF n < i THEN t[n] ELSE t[n] + c) BY <2>1
    <2>8. n \in Nat /\ t[n - 1] \in Nat /\ u[n - 1] \in Nat BY <1>1, <1>4, <2>3
    <2>9. n \in places => b[n].count \in Nat OBVIOUS
    <2> HIDE DEF Wrong
    <2>10. CASE n = i
        <3>1. t[n] = t[n - 1] /\ u[n] = u[n - 1] + c BY <2>4, <2>5, <2>10
        <3>2. u[n - 1] = t[n - 1] BY <1>1, <2>6, <2>10
        <3> HIDE DEF c
        <3> QED BY <1>1, <2>7, <2>10, <3>1, <3>2
    <2>11. CASE n # i
        <3>1. n \in more <=> n \in places BY <2>11
        <3>2. n - 1 < i <=> n < i BY <1>1, <2>8, <2>11
        <3> DEFINE d == b[n].count
        <3>3. CASE n \in places
            <4>1. t[n] = t[n - 1] + d /\ u[n] = u[n - 1] + d BY <2>4, <2>5, <3>1, <3>3
            <4>2. d \in Nat BY <2>9, <3>3
            <4> HIDE DEF c, d
            <4> QED BY <1>5, <2>6, <2>7, <2>8, <3>2, <4>1, <4>2
        <3>4. CASE n \notin places
            <4>1. t[n] = t[n - 1] /\ u[n] = u[n - 1] BY <2>4, <2>5, <3>1, <3>4
            <4> HIDE DEF c
            <4> QED BY <1>5, <2>6, <2>7, <2>8, <3>2, <4>1
        <3> QED BY <3>3, <3>4
    <2> QED BY <2>10, <2>11
<1>7. BlockLength \in 0 .. BlockLength /\ ~ (BlockLength < i) BY <1>1
<1>8. u[BlockLength] = t[BlockLength] + c BY <1>6, <1>7
<1> QED BY <1>2, <1>3, <1>4, <1>7, <1>8

-----------------------------------------------------------------------------
(* The voting chaincode.                                                     *)

Stored == Nat \cup {Absent}

Values ==
    /\ db \in [Key -> Stored] /\ atStart \in [Key -> Stored]
    /\ block > 0 => /\ DOMAIN value = Place
                    /\ \A i \in Place : \A k \in DOMAIN writes[i] : k \in Key /\ writes[i][k] \in Nat

\* A worker inside DBShim::put has its transaction's key to itself.
Locks ==
    /\ DOMAIN writer = Key /\ old \in [Worker -> Stored \cup {NotPutting}]
    /\ \A w \in Worker : Holds(w) =>
          /\ stage = "crdt" /\ phase = "exec" /\ Has(w) /\ w \notin finished
          /\ request[Current(w)].func = "vote" /\ writer[request[Current(w)].key] = w
          /\ old[w] = db[request[Current(w)].key]

\* the votes for k that have been run
Counted(k) == {i \in Votes(k, Place) : Passed(Rank(i), "exec")}

Counting ==
    stage = "crdt" => \A k \in Key :
        /\ db[k] = IF atStart[k] = Absent THEN Absent
                   ELSE atStart[k] + CountsOf(request, Counted(k))
        /\ \A i \in Counted(k) : (result[i] = "COMMIT") <=> (atStart[k] # Absent)

\* the votes for the candidate of i in the list that i is in
SameList(i) == {j \in Votes(request[i].key, Place) : (Rank(j) - Rank(i)) % WorkerCount = 0}

Query(i) == request[i].cc = "vote" /\ request[i].func = "get"

GotRight(i) ==
    \E seen \in SUBSET (Votes(request[i].key, Place) \ SameList(i)) :
        value[i] = atStart[request[i].key]
                     + CountsOf(request, {j \in SameList(i) : j < i} \cup seen)

GetsRight ==
    coordinator = "mix" /\ block > 0 =>
        \A i \in Place : Query(i) /\ result[i] = "COMMIT" => GotRight(i)

VoteInv == Values /\ Locks /\ Counting /\ GetsRight

\* The vector of one kind holds places of that kind only, each at its rank.
LEMMA RanksFill ==
    ASSUME NEW c \in BOOLEAN, NEW n \in DOMAIN Split(c)
    PROVE  /\ Split(c)[n] \in Place /\ (IsCrdt(Split(c)[n]) <=> c)
           /\ Rank(Split(c)[n]) = n
<1>1. BlockLength \in Nat BY MixedAssumption
<1> DEFINE Mine == {i \in Place : IsCrdt(i) <=> c}
           f == [i \in Mine |-> Rank(i)]
<1>2. IsFiniteSet(Mine) /\ Cardinality(Mine) \in Nat
    <2>1. IsFiniteSet(Place) BY <1>1, FS_Interval DEF Place
    <2> QED BY <2>1, FS_Subset, FS_CardinalityType
<1>3. DOMAIN Split(c) = 1 .. Cardinality(Mine) BY DEF Split
<1>4. \A i \in Mine : Rank(i) \in DOMAIN Split(c) /\ Split(c)[Rank(i)] = i
    <2>1. CASE c = TRUE BY <2>1, SplitRanks
    <2>2. CASE c = FALSE BY <2>2, SplitRanks
    <2> QED BY <2>1, <2>2
<1>5. f \in Injection(Mine, 1 .. Cardinality(Mine))
    <2>1. f \in [Mine -> 1 .. Cardinality(Mine)] BY <1>3, <1>4
    <2>2. ASSUME NEW i \in Mine, NEW j \in Mine, f[i] = f[j] PROVE i = j BY <1>4, <2>2
    <2>3. IsInjective(f) BY <2>2 DEF IsInjective
    <2> HIDE DEF f, Mine
    <2> QED BY <2>1, <2>3 DEF Injection
<1>6. IsFiniteSet(1 .. Cardinality(Mine)) /\ Cardinality(1 .. Cardinality(Mine)) = Cardinality(Mine)
    <2> HIDE DEF Mine
    <2>1. \A a, b \in Int : /\ IsFiniteSet(a .. b)
                            /\ Cardinality(a .. b) = IF a > b THEN 0 ELSE b - a + 1
        BY FS_Interval
    <2> QED BY <1>2, <2>1
<1>7. f \in Surjection(Mine, 1 .. Cardinality(Mine))
    <2> HIDE DEF f, Mine
    <2> QED BY <1>5, <1>6, FS_Injection
<1>8. PICK i \in Mine : f[i] = n
    <2>1. n \in 1 .. Cardinality(Mine) BY <1>3
    <2> HIDE DEF f, Mine
    <2> QED BY <1>7, <2>1 DEF Surjection
<1>9. Rank(i) = n BY <1>8
<1>10. Split(c)[n] = i BY <1>4, <1>9
<1> QED BY <1>9, <1>10

\* Ranks of one kind are in the order of the block.
LEMMA RanksOrdered ==
    ASSUME NEW i \in Place, NEW j \in Place, IsCrdt(i) <=> IsCrdt(j), i < j
    PROVE  Rank(i) \in Nat /\ Rank(j) \in Nat /\ Rank(i) < Rank(j)
<1>1. BlockLength \in Nat BY MixedAssumption
<1>2. i \in Int /\ j \in Int BY <1>1 DEF Place
<1> DEFINE Up(l) == {m \in 1 .. l : IsCrdt(m) <=> IsCrdt(l)}
<1>3. IsFiniteSet(Up(j))
    <2>1. IsFiniteSet(1 .. j) BY <1>2, FS_Interval
    <2> QED BY <2>1, FS_Subset
<1>4. Up(i) \subseteq Up(j)
    <2>1. \A m \in 1 .. i : m \in 1 .. j BY <1>2
    <2> QED BY <2>1
<1>5. j \in Up(j) /\ j \notin Up(i)
    <2>1. j \in 1 .. j BY <1>1 DEF Place
    <2>2. j \notin 1 .. i BY <1>2
    <2> QED BY <2>1, <2>2
<1>6. Rank(i) = Cardinality(Up(i)) /\ Rank(j) = Cardinality(Up(j)) BY DEF Rank
<1> HIDE DEF Up
<1>7. /\ Cardinality(Up(i)) <= Cardinality(Up(j)) /\ IsFiniteSet(Up(i))
      /\ Cardinality(Up(i)) = Cardinality(Up(j)) => Up(i) = Up(j)
    BY <1>3, <1>4, FS_Subset
<1>8. Cardinality(Up(i)) \in Nat /\ Cardinality(Up(j)) \in Nat BY <1>3, <1>7, FS_CardinalityType
<1> QED BY <1>5, <1>6, <1>7, <1>8

\* Ranks that differ by a multiple of the number of workers have one owner.
LEMMA SameOwner ==
    ASSUME NEW m \in Nat \ {0}, NEW n \in Nat \ {0}, (m - n) % WorkerCount = 0
    PROVE  Owner(m) = Owner(n)
<1>1. WorkerCount \in Nat \ {0} BY MixedAssumption
<1> DEFINE d == (m - n) \div WorkerCount
           q == (n - 1) \div WorkerCount
           r == (n - 1) % WorkerCount
<1>2. d \in Int /\ m - n = d * WorkerCount
    <2>1. \A x \in Int : x \div WorkerCount \in Int
                         /\ x = (x % WorkerCount) + (x \div WorkerCount) * WorkerCount
        BY <1>1
    <2>2. m - n \in Int OBVIOUS
    <2>3. d \in Int /\ m - n = 0 + d * WorkerCount BY <2>1, <2>2
    <2>4. \A x \in Int : x * WorkerCount \in Int BY <1>1
    <2> HIDE DEF d
    <2> QED BY <2>3, <2>4
<1>3. q \in Int /\ r \in 0 .. WorkerCount - 1 /\ n - 1 = r + q * WorkerCount
    <2>1. \A x \in Nat : /\ x \div WorkerCount \in Int /\ x % WorkerCount \in 0 .. WorkerCount - 1
                         /\ x = (x % WorkerCount) + (x \div WorkerCount) * WorkerCount
        BY <1>1
    <2>2. n - 1 \in Nat OBVIOUS
    <2> QED BY <2>1, <2>2
<1> HIDE DEF d, q, r
<1>4. m - 1 = r + (q + d) * WorkerCount
    <2>1. (q + d) * WorkerCount = q * WorkerCount + d * WorkerCount BY <1>1, <1>2, <1>3
    <2>2. q * WorkerCount \in Int /\ d * WorkerCount \in Int BY <1>1, <1>2, <1>3
    <2> DEFINE a == q * WorkerCount
               b == d * WorkerCount
    <2> HIDE DEF a, b
    <2>3. m - n = b /\ n - 1 = r + a /\ a \in Int /\ b \in Int BY <1>2, <1>3, <2>2 DEF a, b
    <2>4. m - 1 = r + (a + b) BY <1>1, <1>3, <2>3
    <2> QED BY <2>1, <2>4 DEF a, b
<1>5. \A x \in Int : (r + x * WorkerCount) % WorkerCount = r BY <1>1, <1>3
<1>6. (m - 1) % WorkerCount = r
    <2>1. q + d \in Int BY <1>2, <1>3
    <2> QED BY <1>4, <1>5, <2>1
<1> QED BY <1>6 DEF Owner, r

\* A CRDT transaction in a worker's hands.
LEMMA CurrentCrdt ==
    ASSUME Control, Dealing, stage = "crdt", NEW w \in Worker, Busy(w, "exec"), Has(w)
    PROVE  /\ Current(w) \in Place /\ IsCrdt(Current(w))
           /\ Rank(Current(w)) \in DOMAIN Vector
           /\ Owner(Rank(Current(w))) = w /\ Nth(Rank(Current(w))) = at[w]
           /\ request[Current(w)] \in [cc : {"vote"}, func : {"vote", "get", "other"},
                                       key : Key, count : Nat]
<1>1. phase = "exec" /\ block > 0 BY DEF Busy, Control
<1>2. list[w] = ListOf(w) BY <1>1 DEF Dealing, Working
<1>3. at[w] \in DOMAIN ListOf(w) BY <1>2 DEF Has
<1> DEFINE n == Turn(w, at[w])
<1>4. /\ n \in DOMAIN Vector /\ ListOf(w)[at[w]] = Vector[n]
      /\ Owner(n) = w /\ Nth(n) = at[w]
    BY <1>3, ListHolds
<1> HIDE DEF n
<1>5. Current(w) = Vector[n] BY <1>2, <1>4 DEF Current
<1>6. Vector = Split(TRUE) BY DEF Vector
<1>7. Current(w) \in Place /\ IsCrdt(Current(w)) /\ Rank(Current(w)) = n
    BY <1>4, <1>5, <1>6, RanksFill
<1>8. request[Current(w)] \in [cc : {"vote"}, func : {"vote", "get", "other"},
                               key : Key, count : Nat]
    <2>1. request[Current(w)] \in Requests BY <1>1, <1>7 DEF Control
    <2>2. request[Current(w)].cc = "vote" BY <1>7 DEF IsCrdt, isCrdtChainCode
    <2> QED BY <2>1, <2>2, MixedAssumption
<1> QED BY <1>4, <1>7, <1>8

\* What is said of votes and queries, read from the block alone.
LEMMA SameVotes ==
    ASSUME request' = request
    PROVE  /\ \A i : Rank(i)' = Rank(i)
           /\ \A k : Votes(k, Place)' = Votes(k, Place)
           /\ \A i : SameList(i)' = SameList(i) /\ (Query(i)' <=> Query(i))
<1>1. \A i : Rank(i)' = Rank(i) BY DEF Rank, IsCrdt
<1>2. \A k : Votes(k, Place)' = Votes(k, Place) BY DEF Votes
<1>3. \A i : SameList(i)' = SameList(i) BY <1>1, <1>2 DEF SameList
<1>4. \A i : Query(i)' <=> Query(i) BY DEF Query
<1> QED BY <1>1, <1>2, <1>3, <1>4

LEMMA GotRightKept ==
    ASSUME UNCHANGED <<request, atStart>>, NEW i, value'[i] = value[i], GotRight(i)
    PROVE  GotRight(i)'
<1>1. /\ SameList(i)' = SameList(i)
      /\ Votes(request[i].key, Place)' = Votes(request[i].key, Place)
    <2>1. request' = request OBVIOUS
    <2>2. \A k : Votes(k, Place)' = Votes(k, Place) BY <2>1, SameVotes
    <2>3. SameList(i)' = SameList(i) BY <2>1, SameVotes
    <2> HIDE DEF Votes
    <2> QED BY <2>1, <2>2, <2>3 DEF Votes
<1>2. PICK seen \in SUBSET (Votes(request[i].key, Place) \ SameList(i)) :
        value[i] = atStart[request[i].key]
                     + CountsOf(request, {j \in SameList(i) : j < i} \cup seen)
    BY DEF GotRight
<1>3. /\ seen \in SUBSET (Votes(request[i].key, Place) \ SameList(i))'
      /\ value'[i] = atStart'[request'[i].key]
                     + CountsOf(request', {j \in SameList(i)' : j < i} \cup seen)
    BY <1>1, <1>2
<1> QED BY <1>3, Zenon DEF GotRight

LEMMA CrdtRanks ==
    ASSUME stage = "crdt", NEW k, NEW i \in Votes(k, Place)
    PROVE  i \in Place /\ IsCrdt(i) /\ Rank(i) \in DOMAIN Vector
<1>1. i \in Place /\ IsCrdt(i) BY DEF Votes, IsCrdt, isCrdtChainCode
<1> QED BY <1>1, SplitRanks DEF Vector

\* A step that changes no data, lets no holder of a lock go and takes no
\* transaction through the phase.
LEMMA QuietVotes ==
    ASSUME VoteInv, UNCHANGED <<blockVars, db, result, writes, value, writer, old>>,
           \A w \in Worker : Holds(w) =>
               /\ stage' = stage /\ phase' = phase /\ at'[w] = at[w] /\ list'[w] = list[w]
               /\ w \notin finished',
           stage' = "crdt" =>
               /\ stage = "crdt"
               /\ \A n \in DOMAIN Vector : Passed(n, "exec")' <=> Passed(n, "exec")
    PROVE  VoteInv'
<1>1. /\ request' = request /\ atStart' = atStart /\ block' = block /\ coordinator' = coordinator
      /\ db' = db /\ result' = result /\ writes' = writes /\ value' = value
      /\ writer' = writer /\ old' = old
    BY DEF blockVars
<1>2. Values' BY <1>1 DEF VoteInv, Values
<1>3. Locks'
    <2>1. \A w \in Worker : Holds(w)' <=> Holds(w) BY <1>1 DEF Holds
    <2>2. \A w \in Worker : Holds(w) => Current(w)' = Current(w) /\ (Has(w)' <=> Has(w))
        BY DEF Current, Has
    <2> QED BY <1>1, <2>1, <2>2 DEF VoteInv, Locks
<1>4. Counting'
    <2> SUFFICES ASSUME stage' = "crdt" PROVE Counting' BY DEF Counting
    <2>1. \A k \in Key : Counted(k)' = Counted(k)
        BY <1>1, SameVotes, CrdtRanks DEF Counted
    <2>2. \A k \in Key : CountsOf(request, Counted(k))' = CountsOf(request, Counted(k))
        BY <1>1, <2>1
    <2>3. stage = "crdt" OBVIOUS
    <2> QED BY <1>1, <2>1, <2>2, <2>3 DEF VoteInv, Counting
<1>5. GetsRight'
    BY <1>1, GotRightKept, SameVotes DEF VoteInv, GetsRight
<1> QED BY <1>2, <1>3, <1>4, <1>5 DEF VoteInv

LEMMA VoteInit == Init => VoteInv
<1> SUFFICES ASSUME Init PROVE VoteInv OBVIOUS
<1>1. Values /\ Counting /\ GetsRight BY DEF Init, Values, Counting, GetsRight, Stored, Absent
<1>2. Locks BY DEF Init, Locks, Holds, EachWorker, NotPutting
<1> QED BY <1>1, <1>2 DEF VoteInv

LEMMA VoteBegin == ASSUME IInv, VoteInv, Begin PROVE VoteInv'
<1>1. /\ stage = "idle" /\ phase = "start" /\ phase' = phase /\ block' > 0
      /\ db' = db /\ atStart' = db /\ writer' = writer /\ old' = old
      /\ result' = [i \in Place |-> "PENDING"] /\ value' = [i \in Place |-> Absent]
      /\ writes' = [i \in Place |-> <<>>]
    BY DEF Begin, IInv, Control
<1>2. Values' BY <1>1 DEF VoteInv, Values
<1>3. Locks' BY <1>1 DEF VoteInv, Locks, Holds
<1>4. Counting'
    <2>1. \A k \in Key : Counted(k)' = {}
        BY <1>1 DEF Counted, Passed
    <2>2. CountsOf(request', {}) = 0 BY CountsNone
    <2>3. \A k \in Key : db'[k] \in Nat \cup {Absent} BY <1>2 DEF Values, Stored
    <2>4. \A k \in Key : CountsOf(request, Counted(k))' = 0 BY <2>1, <2>2
    <2>5. ASSUME NEW k \in Key
          PROVE  db'[k] = IF atStart'[k] = Absent THEN Absent
                          ELSE atStart'[k] + CountsOf(request, Counted(k))'
        BY <1>1, <2>3, <2>4
    <2> QED BY <2>1, <2>5 DEF Counting
<1>5. GetsRight' BY <1>1 DEF GetsRight
<1> QED BY <1>2, <1>3, <1>4, <1>5 DEF VoteInv

LEMMA VoteEnds ==
    ASSUME IInv, VoteInv, EndCrdt \/ EndBlock
    PROVE  VoteInv'
<1>1. /\ UNCHANGED <<blockVars, db, result, writes, value, writer, old>>
      /\ phase = "returned" /\ stage' # "crdt"
    BY DEF EndCrdt, EndBlock, workVars
<1>2. \A w \in Worker : ~ Holds(w) BY <1>1 DEF VoteInv, Locks
<1> QED BY <1>1, <1>2, QuietVotes

LEMMA VoteEndPhase == ASSUME IInv, VoteInv, EndPhase PROVE VoteInv'
<1>0. Control /\ Dealing BY DEF IInv
<1>1. /\ UNCHANGED <<blockVars, db, result, writes, value, writer, old>>
      /\ stage # "idle" /\ phase # "returned" /\ finished = Worker
      /\ phase' = (IF phase = LastPhase THEN "returned" ELSE FollowingPhase)
      /\ at' = EachWorker(1) /\ stage' = stage
    BY DEF EndPhase
<1>2. \A w \in Worker : ~ Holds(w) BY <1>1 DEF VoteInv, Locks
<1>3. ASSUME stage = "crdt", NEW n \in DOMAIN Vector PROVE Passed(n, "exec")' <=> Passed(n, "exec")
    <2>1. n \in Nat \ {0} BY VectorNumbered
    <2>2. Owner(n) \in Worker /\ Nth(n) \in Nat \ {0} BY <2>1, PlaceDealt
    <2>3. CASE phase = "start"
        <3>1. phase' = "exec" BY <1>0, <1>1, <1>3, <2>3, Phases
        <3>2. at'[Owner(n)] = 1 BY <1>1, <2>2 DEF EachWorker
        <3> QED BY <2>2, <2>3, <3>1, <3>2 DEF Passed, Nth, Owner
    <2>4. CASE phase = "exec"
        <3>1. phase' = "returned" BY <1>0, <1>1, <1>3, <2>4, Phases
        <3>2. ~ Has(Owner(n)) BY <1>0, <1>1, <2>2, <2>4 DEF Dealing, Working
        <3>3. Nth(n) < at[Owner(n)] BY <1>0, <1>1, <2>4, <3>2, ListDone DEF Working
        <3> QED BY <2>4, <3>1, <3>3 DEF Passed
    <2> QED BY <1>0, <1>1, <1>3, <2>3, <2>4 DEF Control
<1> QED BY <1>1, <1>2, <1>3, QuietVotes

LEMMA VoteDeals ==
    ASSUME IInv, VoteInv, NEW w \in Worker, Start(w) \/ Finish(w)
    PROVE  VoteInv'
<1>1. /\ UNCHANGED <<blockVars, db, result, writes, value, writer, old>>
      /\ stage' = stage /\ phase' = phase /\ at' = at
    BY DEF Start, Finish
<1>2. \A n : Passed(n, "exec")' <=> Passed(n, "exec") BY <1>1 DEF Passed, Nth, Owner
<1>3. ASSUME NEW v \in Worker, Holds(v) PROVE list'[v] = list[v] /\ v \notin finished'
    <2>1. phase = "exec" /\ Has(v) /\ v \notin finished BY <1>3 DEF VoteInv, Locks
    <2>2. CASE Start(w) BY <2>1, <2>2 DEF Start
    <2>3. CASE Finish(w) BY <2>1, <2>3 DEF Finish
    <2> QED BY <2>2, <2>3
<1> QED BY <1>1, <1>2, <1>3, QuietVotes

\* DBShim::put takes a free lock and reads the value under it.
LEMMA VotePutLock == ASSUME IInv, VoteInv, NEW w \in Worker, PutLock(w) PROVE VoteInv'
<1>0. Control /\ Dealing BY DEF IInv
<1>1. /\ stage = "crdt" /\ Busy(w, "exec") /\ Has(w) /\ ~ Holds(w)
      /\ UNCHANGED <<blockVars, stage, phase, list, finished, at, db, result, writes, value>>
    BY DEF PutLock, Crdt, crdtUnchanged
<1> DEFINE k == request[Current(w)].key
<1>2. k \in Key BY <1>0, <1>1, CurrentCrdt
<1>3. /\ writer[k] = Nobody /\ writer' = [writer EXCEPT ![k] = w]
      /\ old' = [old EXCEPT ![w] = db[k]]
    BY DEF PutLock
<1>4. /\ request' = request /\ atStart' = atStart /\ block' = block /\ coordinator' = coordinator
      /\ db' = db /\ result' = result /\ writes' = writes /\ value' = value
      /\ stage' = stage /\ phase' = phase /\ list' = list /\ finished' = finished /\ at' = at
    BY <1>1 DEF blockVars
<1>5. Values' BY <1>4 DEF VoteInv, Values
<1>6. Locks'
    <2>1. DOMAIN writer = Key /\ old \in [Worker -> Stored \cup {NotPutting}] BY DEF VoteInv, Locks
    <2>2. db[k] \in Stored BY <1>2 DEF VoteInv, Values
    <2>3. \A v : Current(v)' = Current(v) /\ (Has(v)' <=> Has(v)) BY <1>4 DEF Current, Has
    <2>4. DOMAIN writer' = Key /\ old' \in [Worker -> Stored \cup {NotPutting}]
        BY <1>3, <2>1, <2>2
    <2>5. ASSUME NEW v \in Worker, Holds(v)'
          PROVE  /\ stage' = "crdt" /\ phase' = "exec" /\ Has(v)' /\ v \notin finished'
                 /\ request'[Current(v)'].func = "vote" /\ writer'[request'[Current(v)'].key] = v
                 /\ old'[v] = db'[request'[Current(v)'].key]
        <3>1. CASE v = w
            <4>1. /\ writer'[k] = w /\ old'[w] = db[k] /\ request[Current(w)].func = "vote"
                BY <1>2, <1>3, <2>1 DEF PutLock, Crdt
            <4> QED BY <1>1, <1>4, <2>3, <3>1, <4>1 DEF Busy
        <3>2. CASE v # w
            <4>1. old'[v] = old[v] BY <1>3, <2>1, <3>2
            <4>2. Holds(v) BY <2>5, <4>1 DEF Holds
            <4>3. /\ phase = "exec" /\ Has(v) /\ v \notin finished
                  /\ request[Current(v)].func = "vote" /\ writer[request[Current(v)].key] = v
                  /\ old[v] = db[request[Current(v)].key]
                BY <4>2 DEF VoteInv, Locks
            <4>4. v # Nobody BY MixedAssumption DEF Worker, Nobody
            <4>5. request[Current(v)].key # k BY <1>3, <4>3, <4>4
            <4>6. request[Current(v)].key \in Key
                <5>1. Busy(v, "exec") BY <1>1, <4>3 DEF Busy
                <5> QED BY <1>0, <1>1, <4>3, <5>1, CurrentCrdt
            <4>7. writer'[request[Current(v)].key] = v
                BY <1>3, <2>1, <4>3, <4>5, <4>6
            <4> QED BY <1>1, <1>4, <2>3, <4>1, <4>3, <4>7
        <3> QED BY <3>1, <3>2
    <2> QED BY <2>4, <2>5 DEF Locks
<1>7. Counting'
    <2>1. \A n : Passed(n, "exec")' <=> Passed(n, "exec") BY <1>4 DEF Passed, Nth, Owner
    <2>2. \A c \in Key : Counted(c)' = Counted(c) BY <1>4, <2>1, SameVotes DEF Counted
    <2>3. \A c \in Key : CountsOf(request, Counted(c))' = CountsOf(request, Counted(c))
        BY <1>4, <2>2
    <2> QED BY <1>1, <1>4, <2>2, <2>3 DEF VoteInv, Counting
<1>8. GetsRight' BY <1>4, GotRightKept, SameVotes DEF VoteInv, GetsRight
<1> QED BY <1>5, <1>6, <1>7, <1>8 DEF VoteInv

\* A CRDT transaction that a worker finishes is the next one of its list, and
\* no other transaction goes through the phase with it.
LEMMA CrdtStep ==
    ASSUME IInv, VoteInv, NEW w \in Worker, Vote(w) \/ Get(w) \/ Unknown(w)
    PROVE  /\ Control /\ Dealing /\ stage = "crdt" /\ Busy(w, "exec") /\ Has(w) /\ stage' = stage
           /\ phase = "exec" /\ w \notin finished
           /\ phase' = phase /\ finished' = finished /\ list' = list /\ writes' = writes
           /\ request' = request /\ atStart' = atStart /\ block' = block
           /\ coordinator' = coordinator /\ Vector' = Vector /\ DOMAIN result = Place
           /\ Current(w) \in Place /\ IsCrdt(Current(w))
           /\ \A v \in Worker : v # w => Current(v)' = Current(v) /\ (Has(v)' <=> Has(v))
           /\ \A c : Counted(c)' =
                 IF Current(w) \in Votes(c, Place) THEN Counted(c) \cup {Current(w)} ELSE Counted(c)
           /\ \A c : Current(w) \notin Counted(c)
<1>0. Control /\ Dealing BY DEF IInv
<1>1. /\ stage = "crdt" /\ Busy(w, "exec") /\ Has(w) /\ Step(w)
      /\ UNCHANGED <<blockVars, stage, phase, txns, waiting, done, list, finished, writes>>
    BY DEF Vote, Get, Unknown, Crdt, crdtUnchanged
<1>2. /\ request' = request /\ atStart' = atStart /\ block' = block /\ coordinator' = coordinator
      /\ stage' = stage /\ phase' = phase /\ finished' = finished /\ list' = list
    BY <1>1 DEF blockVars
<1>3. phase = "exec" /\ w \notin finished BY <1>1 DEF Busy
<1> DEFINE i == Current(w)
<1>4. i \in Place /\ IsCrdt(i) /\ Rank(i) \in DOMAIN Vector BY <1>0, <1>1, CurrentCrdt
<1>5. DOMAIN result = Place BY <1>0, <1>1 DEF Control
<1>6. DOMAIN result' = DOMAIN result /\ DOMAIN writes' = DOMAIN writes
    BY <1>1 DEF Vote, Get, Unknown
<1>7. "exec" \in Working BY DEF Working
<1>8. /\ Vector' = Vector
      /\ \E n \in DOMAIN Vector :
            /\ Current(w) = Vector[n] /\ ~ Passed(n, "exec")
            /\ \A m \in DOMAIN Vector : \A q \in Working :
                  Passed(m, q)' <=> (Passed(m, q) \/ (m = n /\ q = "exec"))
    BY <1>0, <1>1, <1>6, <1>7, Worked
<1>9. PICK n \in DOMAIN Vector :
            /\ Current(w) = Vector[n] /\ ~ Passed(n, "exec")
            /\ \A m \in DOMAIN Vector : Passed(m, "exec")' <=> (Passed(m, "exec") \/ m = n)
    BY <1>7, <1>8
<1>10. Rank(i) = n
    <2>1. Vector = Split(TRUE) BY <1>1 DEF Vector
    <2> QED BY <1>9, <2>1, RanksFill
<1>11. \A v \in Worker : v # w => Current(v)' = Current(v) /\ (Has(v)' <=> Has(v))
    <2>1. at' = [at EXCEPT ![w] = at[w] + 1] BY <1>1 DEF Step
    <2>2. DOMAIN at = Worker BY <1>0 DEF Control
    <2> QED BY <1>2, <2>1, <2>2 DEF Current, Has
<1> HIDE DEF i
<1>12. ASSUME NEW c
       PROVE  /\ Counted(c)' = IF i \in Votes(c, Place) THEN Counted(c) \cup {i} ELSE Counted(c)
              /\ i \notin Counted(c)
    <2>1. Votes(c, Place)' = Votes(c, Place) BY <1>2, SameVotes
    <2>2. \A j : Rank(j)' = Rank(j) BY <1>2, SameVotes
    <2>3. \A j \in Votes(c, Place) :
             /\ Passed(Rank(j), "exec")' <=> (Passed(Rank(j), "exec") \/ Rank(j) = n)
             /\ Rank(j) = n => j = i
        <3> SUFFICES ASSUME NEW j \in Votes(c, Place)
                     PROVE  /\ Passed(Rank(j), "exec")' <=> (Passed(Rank(j), "exec") \/ Rank(j) = n)
                            /\ Rank(j) = n => j = i
            OBVIOUS
        <3>1. j \in Place /\ IsCrdt(j) /\ Rank(j) \in DOMAIN Vector BY <1>1, CrdtRanks
        <3>2. Passed(Rank(j), "exec")' <=> (Passed(Rank(j), "exec") \/ Rank(j) = n)
            <4>1. PICK r \in DOMAIN Vector : r = Rank(j) BY <3>1
            <4>2. Passed(r, "exec")' <=> (Passed(r, "exec") \/ r = n) BY <1>9
            <4>3. Rank(j)' = r BY <2>2, <4>1
            <4>4. Passed(Rank(j), "exec")' <=> Passed(r, "exec")'
                BY <4>3 DEF Passed, Nth, Owner
            <4> QED BY <4>1, <4>2, <4>4
        <3>3. Split(TRUE)[Rank(j)] = j /\ Split(TRUE)[Rank(i)] = i BY <1>4, <3>1, SplitRanks DEF i
        <3> QED BY <1>10, <3>2, <3>3
    <2>4. ~ Passed(Rank(i), "exec") BY <1>9, <1>10
    <2>5. Counted(c)' = {j \in Votes(c, Place) : Passed(Rank(j), "exec")'}
        BY <2>1 DEF Counted
    <2> QED BY <1>10, <2>3, <2>4, <2>5 DEF Counted
<1> QED BY <1>0, <1>1, <1>2, <1>3, <1>4, <1>5, <1>8, <1>11, <1>12 DEF i

\* Of two ranks of one owner the smaller comes first in its list.
LEMMA NthOrdered ==
    ASSUME NEW m \in Nat \ {0}, NEW n \in Nat \ {0}, Owner(m) = Owner(n), m < n
    PROVE  Nth(m) < Nth(n)
<1>1. /\ Owner(m) \in Worker /\ Nth(m) \in Nat \ {0} /\ Turn(Owner(m), Nth(m)) = m
      /\ Nth(n) \in Nat \ {0} /\ Turn(Owner(m), Nth(n)) = n
    BY PlaceDealt
<1>2. Nth(n) <= Nth(m) => n <= m BY <1>1, TurnMonotone
<1> QED BY <1>1, <1>2

LEMMA VoteCounts ==
    ASSUME Control, block > 0
    PROVE  \A c : \A j \in Votes(c, Place) : j \in Place /\ request[j].count \in Nat
<1> SUFFICES ASSUME NEW c, NEW j \in Votes(c, Place) PROVE j \in Place /\ request[j].count \in Nat
    OBVIOUS
<1>1. j \in Place /\ request[j].cc = "vote" BY DEF Votes
<1>2. request[j] \in Requests BY <1>1 DEF Control
<1> QED BY <1>1, <1>2, MixedAssumption

\* Locks of other workers outlive the end of a transaction.
LEMMA LocksKept ==
    ASSUME IInv, VoteInv, NEW w \in Worker, Vote(w) \/ Get(w) \/ Unknown(w),
           DOMAIN writer' = Key, old' \in [Worker -> Stored \cup {NotPutting}],
           ~ Holds(w)', \A v \in Worker : v # w => old'[v] = old[v],
           \A v \in Worker : \A k \in Key :
               v # w /\ writer[k] = v => writer'[k] = v /\ db'[k] = db[k]
    PROVE  Locks'
<1>1. /\ Control /\ Dealing /\ stage = "crdt" /\ stage' = stage /\ phase' = phase
      /\ finished' = finished /\ request' = request
      /\ \A v \in Worker : v # w => Current(v)' = Current(v) /\ (Has(v)' <=> Has(v))
    BY CrdtStep
<1>2. ASSUME NEW v \in Worker, Holds(v)'
      PROVE  /\ stage' = "crdt" /\ phase' = "exec" /\ Has(v)' /\ v \notin finished'
             /\ request'[Current(v)'].func = "vote" /\ writer'[request'[Current(v)'].key] = v
             /\ old'[v] = db'[request'[Current(v)'].key]
    <2>1. v # w /\ Holds(v) BY <1>2 DEF Holds
    <2>2. /\ phase = "exec" /\ Has(v) /\ v \notin finished
          /\ request[Current(v)].func = "vote" /\ writer[request[Current(v)].key] = v
          /\ old[v] = db[request[Current(v)].key]
        BY <2>1 DEF VoteInv, Locks
    <2>3. request[Current(v)].key \in Key
        <3>1. Busy(v, "exec") BY <1>1, <2>2 DEF Busy
        <3> QED BY <1>1, <2>2, <3>1, CurrentCrdt
    <2> QED BY <1>1, <2>1, <2>2, <2>3
<1> QED BY <1>2 DEF Locks

\* Vote's callback changes the value that its lock has kept.
LEMMA VoteVote == ASSUME IInv, VoteInv, NEW w \in Worker, Vote(w) PROVE VoteInv'
<1>a. PICK i : i = Current(w) OBVIOUS
<1>b. PICK k : k = request[i].key OBVIOUS
<1>1. /\ Control /\ Dealing /\ stage = "crdt" /\ Busy(w, "exec") /\ Has(w) /\ stage' = stage
      /\ writes' = writes /\ request' = request /\ atStart' = atStart /\ block' = block
      /\ coordinator' = coordinator /\ DOMAIN result = Place /\ i \in Place
      /\ \A c : Counted(c)' = IF i \in Votes(c, Place) THEN Counted(c) \cup {i} ELSE Counted(c)
      /\ \A c : i \notin Counted(c)
    BY <1>a, CrdtStep
<1>2. k \in Key /\ request[i].count \in Nat /\ request[i].cc = "vote"
    BY <1>a, <1>b, <1>1, CurrentCrdt
<1>3. /\ Holds(w) /\ request[i].func = "vote" /\ value' = value
      /\ db' = (IF old[w] = Absent THEN db ELSE [db EXCEPT ![k] = old[w] + request[i].count])
      /\ result' = [result EXCEPT ![i] = IF old[w] = Absent THEN "ABORT_NO_RETRY" ELSE "COMMIT"]
      /\ writer' = [writer EXCEPT ![k] = Nobody] /\ old' = [old EXCEPT ![w] = NotPutting]
    BY <1>a, <1>b DEF Vote, Crdt
<1>4. writer[k] = w /\ old[w] = db[k] BY <1>a, <1>b, <1>3 DEF VoteInv, Locks
<1>5. DOMAIN writer = Key /\ old \in [Worker -> Stored \cup {NotPutting}] BY DEF VoteInv, Locks
<1>6. db \in [Key -> Stored] /\ atStart \in [Key -> Stored] BY DEF VoteInv, Values
<1>7. block > 0 BY <1>1 DEF Control
<1>8. \A c : i \in Votes(c, Place) <=> c = k BY <1>b, <1>1, <1>2, <1>3 DEF Votes
<1>9. db[k] # Absent => db[k] \in Nat BY <1>2, <1>6 DEF Stored
<1>10. db' \in [Key -> Stored] BY <1>2, <1>3, <1>4, <1>6, <1>9 DEF Stored
<1>11. Values' BY <1>1, <1>3, <1>6, <1>10 DEF VoteInv, Values
<1>12. Locks'
    <2>1. DOMAIN writer' = Key /\ old' \in [Worker -> Stored \cup {NotPutting}] BY <1>3, <1>5
    <2>2. ~ Holds(w)' BY <1>3, <1>5 DEF Holds
    <2>3. \A v \in Worker : v # w => old'[v] = old[v] BY <1>3, <1>5
    <2>4. \A v \in Worker : \A c \in Key :
              v # w /\ writer[c] = v => writer'[c] = v /\ db'[c] = db[c]
        BY <1>2, <1>3, <1>4, <1>5, <1>6
    <2> QED BY <2>1, <2>2, <2>3, <2>4, LocksKept
<1>13. ASSUME NEW c \in Key
       PROVE  /\ db'[c] = IF atStart'[c] = Absent THEN Absent
                          ELSE atStart'[c] + CountsOf(request, Counted(c))'
              /\ \A j \in Counted(c)' : (result'[j] = "COMMIT") <=> (atStart'[c] # Absent)
    <2>0. /\ db[c] = IF atStart[c] = Absent THEN Absent
                     ELSE atStart[c] + CountsOf(request, Counted(c))
          /\ \A j \in Counted(c) : (result[j] = "COMMIT") <=> (atStart[c] # Absent)
        BY <1>1 DEF VoteInv, Counting
    <2>1. \A j \in Counted(c) : result'[j] = result[j] BY <1>1, <1>3
    <2>2. CASE c # k
        <3>1. Counted(c)' = Counted(c) BY <1>1, <1>8, <2>2
        <3>2. CountsOf(request, Counted(c))' = CountsOf(request, Counted(c)) BY <1>1, <3>1
        <3>3. db'[c] = db[c] BY <1>3, <1>6, <2>2
        <3> QED BY <1>1, <2>0, <2>1, <3>1, <3>2, <3>3
    <2>3. CASE c = k
        <3>1. Counted(c)' = Counted(c) \cup {i} BY <1>1, <1>8, <2>3
        <3>2. /\ CountsOf(request, Counted(c)) \in Nat
              /\ CountsOf(request, Counted(c))' = CountsOf(request, Counted(c)) + request[i].count
            <4>1. \A j \in Counted(c) : j \in Place /\ request[j].count \in Nat
                BY <1>1, <1>7, VoteCounts DEF Counted
            <4>2. /\ CountsOf(request, Counted(c)) \in Nat
                  /\ CountsOf(request, Counted(c) \cup {i})
                       = CountsOf(request, Counted(c)) + request[i].count
                BY <1>1, <1>2, <4>1, CountsMore
            <4> QED BY <1>1, <3>1, <4>2
        <3>3. result'[i] = IF old[w] = Absent THEN "ABORT_NO_RETRY" ELSE "COMMIT"
            BY <1>1, <1>3
        <3>4. CASE atStart[c] = Absent
            <4>1. old[w] = Absent BY <1>4, <2>0, <2>3, <3>4
            <4> QED BY <1>1, <1>3, <2>0, <2>1, <3>1, <3>3, <3>4, <4>1
        <3>5. CASE atStart[c] # Absent
            <4>1. atStart[c] \in Nat BY <1>6, <3>5 DEF Stored
            <4>2. old[w] = atStart[c] + CountsOf(request, Counted(c)) /\ old[w] # Absent
                BY <1>4, <2>0, <2>3, <3>2, <3>5, <4>1 DEF Absent
            <4>3. db'[c] = old[w] + request[i].count BY <1>3, <1>6, <2>3, <4>2
            <4>4. db'[c] = atStart[c] + CountsOf(request, Counted(c))'
                BY <1>2, <3>2, <4>1, <4>2, <4>3
            <4> QED BY <1>1, <2>0, <2>1, <3>1, <3>3, <3>5, <4>2, <4>4
        <3> QED BY <3>4, <3>5
    <2> QED BY <2>2, <2>3
<1>14. Counting' BY <1>1, <1>13 DEF Counting
<1>15. GetsRight'
    <2>1. \A j \in Place : Query(j) => j # i BY <1>3 DEF Query
    <2>2. \A j \in Place : Query(j) => result'[j] = result[j] BY <1>1, <1>3, <2>1
    <2> QED BY <1>1, <1>3, <2>2, GotRightKept, SameVotes DEF VoteInv, GetsRight
<1> QED BY <1>11, <1>12, <1>14, <1>15 DEF VoteInv

\* A transaction that leaves the candidates alone.
LEMMA CrdtReads ==
    ASSUME IInv, VoteInv, NEW w \in Worker, Get(w) \/ Unknown(w)
    PROVE  Values' /\ Locks' /\ Counting'
<1>a. PICK i : i = Current(w) OBVIOUS
<1>1. /\ Control /\ Dealing /\ stage = "crdt" /\ Busy(w, "exec") /\ Has(w) /\ stage' = stage
      /\ writes' = writes /\ request' = request /\ atStart' = atStart /\ block' = block
      /\ DOMAIN result = Place /\ i \in Place
      /\ \A c : Counted(c)' = IF i \in Votes(c, Place) THEN Counted(c) \cup {i} ELSE Counted(c)
      /\ \A c : i \notin Counted(c)
    BY <1>a, CrdtStep
<1>2. /\ request[i].func # "vote" /\ db' = db /\ writer' = writer /\ old' = old
      /\ \A j \in Place : j # i => result'[j] = result[j]
      /\ DOMAIN value' = DOMAIN value
    BY <1>a, <1>1 DEF Get, Unknown, Crdt
<1>3. Values' BY <1>1, <1>2 DEF VoteInv, Values
<1>4. Locks'
    <2>1. ~ Holds(w) BY <1>a, <1>2 DEF VoteInv, Locks
    <2> QED BY <1>2, <2>1, LocksKept DEF VoteInv, Locks, Holds
<1>5. Counting'
    <2>1. \A c \in Key : Counted(c)' = Counted(c) BY <1>1, <1>2 DEF Votes
    <2>2. \A c \in Key : CountsOf(request, Counted(c))' = CountsOf(request, Counted(c))
        BY <1>1, <2>1
    <2>3. \A c \in Key : \A j \in Counted(c) : result'[j] = result[j]
        BY <1>1, <1>2 DEF Counted, Votes
    <2> QED BY <1>1, <1>2, <2>1, <2>2, <2>3 DEF VoteInv, Counting
<1> QED BY <1>3, <1>4, <1>5

LEMMA VoteUnknown == ASSUME IInv, VoteInv, NEW w \in Worker, Unknown(w) PROVE VoteInv'
<1>a. PICK i : i = Current(w) OBVIOUS
<1>1. /\ request' = request /\ atStart' = atStart /\ block' = block /\ coordinator' = coordinator
      /\ request[i].func = "other" /\ value' = value
      /\ \A j \in Place : j # i => result'[j] = result[j]
    BY <1>a, CrdtStep DEF Unknown, Crdt
<1>2. \A j \in Place : Query(j) => result'[j] = result[j] BY <1>1 DEF Query
<1>3. GetsRight' BY <1>1, <1>2, GotRightKept, SameVotes DEF VoteInv, GetsRight
<1> QED BY <1>3, CrdtReads DEF VoteInv

\* The votes that a query finds: those before it in its list, and some of the
\* other lists.
LEMMA GetFinds ==
    ASSUME IInv, VoteInv, NEW w \in Worker, Get(w)
    PROVE  \A j \in SameList(Current(w)) : Passed(Rank(j), "exec") <=> j < Current(w)
<1>a. PICK i : i = Current(w) OBVIOUS
<1>1. /\ Control /\ Dealing /\ stage = "crdt" /\ Busy(w, "exec") /\ Has(w) /\ phase = "exec"
      /\ i \in Place /\ IsCrdt(i)
    BY <1>a, CrdtStep
<1>2. Rank(i) \in DOMAIN Vector /\ Owner(Rank(i)) = w /\ Nth(Rank(i)) = at[w]
    BY <1>a, <1>1, CurrentCrdt
<1>3. request[i].func = "get" BY <1>a DEF Get, Crdt
<1>4. ASSUME NEW j \in SameList(i) PROVE Passed(Rank(j), "exec") <=> j < i
    <2>1. j \in Votes(request[i].key, Place) /\ (Rank(j) - Rank(i)) % WorkerCount = 0
        BY DEF SameList
    <2>2. j \in Place /\ IsCrdt(j) /\ Rank(j) \in DOMAIN Vector BY <1>1, <2>1, CrdtRanks
    <2>3. Rank(i) \in Nat \ {0} /\ Rank(j) \in Nat \ {0} BY <1>2, <2>2, VectorNumbered
    <2>4. Owner(Rank(j)) = w BY <1>2, <2>1, <2>3, SameOwner
    <2>5. Passed(Rank(j), "exec") <=> Nth(Rank(j)) < Nth(Rank(i))
        BY <1>1, <1>2, <2>4 DEF Passed
    <2>6. j # i BY <1>3, <2>1 DEF Votes
    <2>7. i \in Int /\ j \in Int BY <1>1, <2>2, MixedAssumption DEF Place
    <2>8. Nth(Rank(i)) \in Nat /\ Nth(Rank(j)) \in Nat BY <2>3, PlaceDealt
    <2>9. CASE j < i
        <3>1. Rank(j) < Rank(i) BY <1>1, <2>2, <2>9, RanksOrdered
        <3>2. Nth(Rank(j)) < Nth(Rank(i)) BY <1>2, <2>3, <2>4, <3>1, NthOrdered
        <3> QED BY <2>5, <2>9, <3>2
    <2>10. CASE i < j
        <3>1. Rank(i) < Rank(j) BY <1>1, <2>2, <2>10, RanksOrdered
        <3>2. Nth(Rank(i)) < Nth(Rank(j)) BY <1>2, <2>3, <2>4, <3>1, NthOrdered
        <3> QED BY <2>5, <2>7, <2>8, <2>10, <3>2
    <2> QED BY <2>6, <2>7, <2>9, <2>10
<1> QED BY <1>a, <1>4

LEMMA VoteGet == ASSUME IInv, VoteInv, NEW w \in Worker, Get(w) PROVE VoteInv'
<1>a. PICK i : i = Current(w) OBVIOUS
<1>b. PICK k : k = request[i].key OBVIOUS
<1>1. /\ Control /\ Dealing /\ stage = "crdt" /\ Busy(w, "exec") /\ Has(w) /\ phase = "exec"
      /\ request' = request /\ atStart' = atStart /\ block' = block /\ coordinator' = coordinator
      /\ i \in Place /\ DOMAIN result = Place
    BY <1>a, CrdtStep
<1>2. k \in Key BY <1>a, <1>b, <1>1, CurrentCrdt
<1>3. /\ result' = [result EXCEPT ![i] = IF db[k] = Absent THEN "ABORT_NO_RETRY" ELSE "COMMIT"]
      /\ value' = [value EXCEPT ![i] = db[k]]
    BY <1>a, <1>b DEF Get
<1>4. DOMAIN value = Place BY <1>1 DEF VoteInv, Values, Control
<1>5. ASSUME result'[i] = "COMMIT" PROVE GotRight(i)'
    <2>1. db[k] # Absent /\ value'[i] = db[k] BY <1>1, <1>3, <1>4, <1>5
    <2>2. db[k] = atStart[k] + CountsOf(request, Counted(k))
        BY <1>1, <1>2, <2>1 DEF VoteInv, Counting
    <2>3. \A j \in SameList(i) : Passed(Rank(j), "exec") <=> j < i BY <1>a, GetFinds
    <2>4. SameList(i) \subseteq Votes(k, Place) BY <1>b DEF SameList
    <2>5. PICK seen : seen = Counted(k) \ SameList(i) OBVIOUS
    <2>6. Counted(k) = {j \in SameList(i) : j < i} \cup seen
        BY <2>3, <2>4, <2>5 DEF Counted
    <2>7. seen \in SUBSET (Votes(k, Place) \ SameList(i)) BY <2>5 DEF Counted
    <2>8. /\ SameList(i)' = SameList(i) /\ Votes(k, Place)' = Votes(k, Place)
          /\ request'[i].key = k
        BY <1>b, <1>1, SameVotes
    <2>9. seen \in SUBSET (Votes(request[i].key, Place) \ SameList(i))'
        <3>1. Votes(request[i].key, Place)' = Votes(k, Place)' BY <2>8 DEF Votes
        <3> QED BY <2>7, <2>8, <3>1
    <2>10. value'[i] = atStart'[request'[i].key]
                     + CountsOf(request', {j \in SameList(i)' : j < i} \cup seen)
        BY <1>1, <2>1, <2>2, <2>6, <2>8
    <2> QED BY <2>9, <2>10, Zenon DEF GotRight
<1>6. GetsRight'
    <2>1. ASSUME NEW j \in Place, coordinator = "mix", block > 0, Query(j)', result'[j] = "COMMIT"
          PROVE  GotRight(j)'
        <3>1. CASE j = i BY <1>5, <2>1, <3>1
        <3>2. CASE j # i
            <4>1. result'[j] = result[j] /\ value'[j] = value[j] BY <1>1, <1>3, <1>4, <2>1, <3>2
            <4>2. Query(j) BY <1>1, <2>1, SameVotes
            <4>3. GotRight(j) BY <2>1, <4>1, <4>2 DEF VoteInv, GetsRight
            <4> QED BY <1>1, <4>1, <4>3, GotRightKept
        <3> QED BY <3>1, <3>2
    <2> QED BY <1>1, <2>1 DEF GetsRight
<1> QED BY <1>6, CrdtReads DEF VoteInv

\* A transaction in the hands of a deterministic worker.
LEMMA CurrentOther ==
    ASSUME Control, Dealing, stage \in {"det", "write_based"}, phase \in Working,
           NEW w \in Worker, Has(w)
    PROVE  Current(w) \in Place /\ (coordinator = "mix" => ~ IsCrdt(Current(w)))
<1>1. list[w] = ListOf(w) BY DEF Dealing
<1>2. at[w] \in DOMAIN ListOf(w) BY <1>1 DEF Has
<1>3. PICK n \in DOMAIN Vector : Current(w) = Vector[n] BY <1>1, <1>2, ListHolds DEF Current
<1>4. CASE coordinator = "mix"
    <2>1. Vector = Split(FALSE) BY <1>4 DEF Vector
    <2> QED BY <1>3, <2>1, RanksFill
<1>5. CASE coordinator # "mix" BY <1>3, <1>5 DEF Vector
<1> QED BY <1>4, <1>5

\* Execution writes natural numbers.
LEMMA WrittenNat ==
    ASSUME Control, Values, block > 0, NEW i \in Place, ~ Fails(request[i], db),
           NEW k \in Puts(request[i])
    PROVE  k \in Key /\ Written(request[i], tid[i], db, k) \in Nat
<1>1. request[i] \in Requests /\ tid[i] \in Nat BY MixedAssumption DEF Control, Place
<1>2. k \in Key BY RequestKeys
<1>3. db[k] # Absent => db[k] \in Nat BY <1>2 DEF Values, Stored
<1>4. CASE request[i].cc = "kv" BY <1>1, <1>2, <1>4 DEF Written
<1>5. CASE request[i].cc # "kv"
    <2>1. request[i] \in [cc : {"vote"}, func : {"vote", "get", "other"}, key : Key, count : Nat]
        BY <1>1, <1>5, MixedAssumption
    <2>2. request[i].func = "vote" /\ k = request[i].key BY <1>5 DEF Puts
    <2>3. k \in Gets(request[i]) BY <1>5, <2>2 DEF Gets
    <2>4. db[k] \in Nat BY <1>3, <2>3 DEF Fails
    <2> QED BY <1>2, <1>5, <2>1, <2>4 DEF Written
<1> QED BY <1>4, <1>5

LEMMA VoteTransaction ==
    ASSUME IInv, VoteInv, NEW w \in Worker,
           Execute(w) \/ Commit(w) \/ FirstCommit(w) \/ SecondCommit(w)
    PROVE  VoteInv'
<1>a. PICK i : i = Current(w) OBVIOUS
<1>0. Control /\ Dealing /\ WriteBased BY DEF IInv
<1>1. /\ stage \in {"det", "write_based"} /\ phase \in Working /\ Has(w)
      /\ UNCHANGED <<blockVars, stage, writer, old>>
    BY DEF Execute, Commit, FirstCommit, SecondCommit, commitUnchanged, Busy, Working
<1>2. /\ request' = request /\ atStart' = atStart /\ block' = block /\ coordinator' = coordinator
      /\ stage' = stage /\ writer' = writer /\ old' = old
    BY <1>1 DEF blockVars
<1>3. i \in Place /\ (coordinator = "mix" => ~ IsCrdt(i)) BY <1>a, <1>0, <1>1, CurrentOther
<1>4. block > 0 /\ DOMAIN result = Place /\ DOMAIN writes = Place BY <1>0, <1>1 DEF Control
<1>5. Values BY DEF VoteInv
<1>6. DOMAIN value = Place BY <1>4, <1>5 DEF Values
<1>7. Locks' BY <1>1, <1>2 DEF VoteInv, Locks, Holds
<1>8. Counting' BY <1>1, <1>2 DEF Counting
<1>9. /\ \A j \in Place : j # i => result'[j] = result[j] /\ value'[j] = value[j]
      /\ DOMAIN value' = Place
    <2>1. CASE Execute(w) BY <1>a, <1>4, <1>6, <2>1 DEF Execute
    <2>2. CASE Commit(w) BY <1>a, <1>4, <1>6, <2>2 DEF Commit, commitUnchanged
    <2>3. CASE FirstCommit(w) BY <1>a, <1>4, <1>6, <2>3 DEF FirstCommit, commitUnchanged
    <2>4. CASE SecondCommit(w) BY <1>a, <1>4, <1>6, <2>4 DEF SecondCommit, commitUnchanged
    <2> QED BY <2>1, <2>2, <2>3, <2>4
<1>10. GetsRight'
    <2>1. ASSUME NEW j \in Place, coordinator = "mix", Query(j)', result'[j] = "COMMIT"
          PROVE  GotRight(j)'
        <3>1. Query(j) BY <1>2, <2>1, SameVotes
        <3>2. j # i BY <1>3, <2>1, <3>1 DEF Query, IsCrdt, isCrdtChainCode
        <3>3. result'[j] = result[j] /\ value'[j] = value[j] BY <1>9, <3>2
        <3>4. GotRight(j) BY <1>4, <2>1, <3>1, <3>3 DEF VoteInv, GetsRight
        <3> QED BY <1>2, <3>3, <3>4, GotRightKept
    <2> QED BY <1>2, <2>1 DEF GetsRight
<1>11. db' \in [Key -> Stored]
    <2>0. db \in [Key -> Stored] BY <1>5 DEF Values
    <2>1. CASE Execute(w) \/ FirstCommit(w) BY <2>0, <2>1 DEF Execute, FirstCommit
    <2>2. CASE Commit(w)
        <3>1. \/ db' = db
              \/ db' = [k \in Key |-> IF k \in DOMAIN writes[i] THEN writes[i][k] ELSE db[k]]
            BY <1>a, <2>2 DEF Commit
        <3>2. \A k \in DOMAIN writes[i] : k \in Key /\ writes[i][k] \in Stored
            BY <1>3, <1>4, <1>5 DEF Values, Stored
        <3> QED BY <2>0, <3>1, <3>2
    <2>3. CASE SecondCommit(w)
        <3>1. phase = "second" /\ stage = "write_based" BY <2>3 DEF SecondCommit, Busy
        <3>2. CASE result[i] = "COMMIT"
            <4>1. Passed(i, "exec") BY <3>1 DEF Passed
            <4>2. ~ WbFails(i) BY <1>0, <1>3, <3>1, <3>2, <4>1 DEF WriteBased, WbResult
            <4>3. DOMAIN writes[i] = Puts(request[i])
                BY <1>0, <1>3, <3>1, <4>1, <4>2 DEF WriteBased
            <4>4. \A k \in Puts(request[i]) : writes[i][k] \in Stored
                BY <1>3, <1>4, <1>5, <4>3 DEF Values, Stored
            <4>5. db' = [k \in Key |-> IF k \in updateDB(i) THEN writes[i][k] ELSE db[k]]
                BY <1>a, <2>3, <3>2 DEF SecondCommit
            <4> QED BY <2>0, <4>4, <4>5 DEF updateDB
        <3>3. CASE result[i] # "COMMIT" BY <1>a, <2>0, <2>3, <3>3 DEF SecondCommit
        <3> QED BY <3>2, <3>3
    <2> QED BY <2>1, <2>2, <2>3
<1>12. ASSUME NEW j \in Place, NEW k \in DOMAIN writes'[j]
       PROVE  k \in Key /\ writes'[j][k] \in Nat
    <2>1. CASE writes'[j] = writes[j] BY <1>4, <1>5, <1>12, <2>1 DEF Values
    <2>2. CASE writes'[j] # writes[j]
        <3>1. Execute(w) BY <2>2 DEF Commit, FirstCommit, SecondCommit, commitUnchanged
        <3>2. /\ j = i /\ ~ Fails(request[i], db)
              /\ writes'[j] = [c \in Puts(request[i]) |-> Written(request[i], tid[i], db, c)]
            BY <1>a, <1>4, <2>2, <3>1 DEF Execute
        <3>3. k \in Puts(request[i]) /\ writes'[j][k] = Written(request[i], tid[i], db, k)
            BY <1>12, <3>2
        <3> QED BY <1>0, <1>3, <1>4, <1>5, <3>2, <3>3, WrittenNat
    <2> QED BY <2>1, <2>2
<1>13. Values' BY <1>2, <1>5, <1>9, <1>11, <1>12 DEF Values
<1> QED BY <1>7, <1>8, <1>10, <1>13 DEF VoteInv

\* For any number of workers, requests and blocks, as long as votes are not
\* negative: a worker inside DBShim::put has the key to itself, a candidate's
\* count is that of before plus the votes that have been run, and a query has
\* found the votes before it in its list and some of the others.
THEOREM VotingInvariance == Spec => []VoteInv
<1>1. Init => VoteInv BY VoteInit
<1>2. IInv /\ VoteInv /\ [Next]_vars => VoteInv'
    <2> SUFFICES ASSUME IInv, VoteInv, [Next]_vars PROVE VoteInv' OBVIOUS
    <2>1. CASE Begin BY <2>1, VoteBegin
    <2>2. CASE EndCrdt \/ EndBlock BY <2>2, VoteEnds
    <2>3. CASE EndPhase BY <2>3, VoteEndPhase
    <2>4. ASSUME NEW w \in Worker, Work(w) PROVE VoteInv'
        BY <2>4, VoteDeals, VotePutLock, VoteVote, VoteGet, VoteUnknown, VoteTransaction DEF Work
    <2>5. CASE UNCHANGED vars
        <3>1. /\ UNCHANGED <<blockVars, db, result, writes, value, writer, old>>
              /\ stage' = stage /\ phase' = phase /\ at' = at /\ list' = list /\ finished' = finished
            BY <2>5 DEF vars, workVars
        <3>2. \A n : Passed(n, "exec")' <=> Passed(n, "exec") BY <3>1 DEF Passed, Nth, Owner
        <3>3. \A w \in Worker : Holds(w) => w \notin finished' BY <3>1 DEF VoteInv, Locks
        <3> QED BY <3>1, <3>2, <3>3, QuietVotes
    <2> QED BY <2>1, <2>2, <2>3, <2>4, <2>5 DEF Next
<1> QED BY <1>1, <1>2, MixedInvariance, PTL DEF Spec

\* When the CRDT part of a block has run, every candidate has its count of
\* before plus all the block's votes for it, and a vote has failed just when
\* the candidate was unknown, whatever the interleaving of DBShim's users.
THEOREM AllVotesCounted == Spec => []VotesCounted
<1>1. IInv /\ VoteInv => VotesCounted
    <2> SUFFICES ASSUME VoteInv, stage = "crdt", phase = "returned"
                 PROVE  \A k \in Key :
                          /\ db[k] = IF atStart[k] = Absent THEN Absent
                                     ELSE atStart[k] + Counts(Votes(k, Place))
                          /\ \A i \in Votes(k, Place) :
                                (result[i] = "COMMIT") <=> (atStart[k] # Absent)
        BY DEF VotesCounted
    <2>1. \A k \in Key : Counted(k) = Votes(k, Place) BY DEF Counted, Passed
    <2>2. \A k \in Key : Counts(Votes(k, Place)) = CountsOf(request, Counted(k))
        BY <2>1, CountsRead
    <2> QED BY <2>1, <2>2 DEF VoteInv, Counting
<1> QED BY <1>1, MixedInvariance, VotingInvariance, PTL

\* What a query of a candidate returns is the count of before plus the votes
\* of a set that holds those its own worker ran before it and none of those
\* its worker runs later.
THEOREM QueriesConsistent == Spec => []GetsConsistent
<1>1. IInv /\ VoteInv => GetsConsistent
    <2> SUFFICES ASSUME IInv, VoteInv, Executed, coordinator = "mix", NEW i \in Place,
                        Query(i), result[i] = "COMMIT"
                 PROVE  LET k == request[i].key
                            rank(j) == Cardinality({l \in 1 .. j : isCrdtChainCode(request[l])})
                            mine == {j \in Votes(k, Place) : (rank(j) - rank(i)) % WorkerCount = 0}
                            before == {j \in mine : j < i}
                            others == Votes(k, Place) \ mine
                        IN  \E seen \in SUBSET others :
                                value[i] = atStart[k] + Counts(before \cup seen)
        BY Zenon DEF GetsConsistent, Query
    <2> DEFINE k == request[i].key
               rank(j) == Cardinality({l \in 1 .. j : isCrdtChainCode(request[l])})
               mine == {j \in Votes(k, Place) : (rank(j) - rank(i)) % WorkerCount = 0}
    <2>1. GotRight(i) BY DEF VoteInv, GetsRight, Executed
    <2>2. ASSUME NEW j, request[j].cc = "vote" PROVE rank(j) = Rank(j)
        <3>1. {l \in 1 .. j : isCrdtChainCode(request[l])} = {l \in 1 .. j : IsCrdt(l) <=> IsCrdt(j)}
            BY <2>2 DEF IsCrdt, isCrdtChainCode
        <3> QED BY <3>1, Zenon DEF Rank
    <2> HIDE DEF rank
    <2>3. mine = SameList(i)
        <3>1. rank(i) = Rank(i) BY <2>2 DEF Query
        <3>2. \A j \in Votes(k, Place) : rank(j) = Rank(j) BY <2>2 DEF Votes
        <3> QED BY <3>1, <3>2 DEF SameList
    <2>4. PICK seen \in SUBSET (Votes(k, Place) \ SameList(i)) :
             value[i] = atStart[k] + CountsOf(request, {j \in SameList(i) : j < i} \cup seen)
        BY <2>1 DEF GotRight
    <2> HIDE DEF mine, k
    <2>5. seen \in SUBSET (Votes(k, Place) \ mine) BY <2>3, <2>4
    <2>6. value[i] = atStart[k] + Counts({j \in mine : j < i} \cup seen)
        BY <2>3, <2>4, CountsRead
    <2> QED BY <2>5, <2>6, Zenon DEF mine, k, rank
<1> QED BY <1>1, MixedInvariance, VotingInvariance, PTL
=============================================================================
