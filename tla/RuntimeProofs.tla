---------------------------- MODULE RuntimeProofs ----------------------------
(***************************************************************************)
(* The worker command protocol is a barrier for every number of workers    *)
(* and calls, provided that a wake-up never comes after the worker has run *)
(* the command it belongs to (LateWake = FALSE).                           *)
(***************************************************************************)
EXTENDS MCRuntime, FiniteSetTheorems, TLAPS

\* The worker has been given the command of the current call.
Given(w) == w < issued \/ (w = issued /\ coord = "wake")

\* The wake-up that belongs to the command is still to come.
Unwoken(w) == w = issued /\ coord = "wake"

(***************************************************************************)
(* Where a worker can be in a call: it has not been given the command, has *)
(* the command waiting in its word, has taken it out, has run the handler, *)
(* or has finished.                                                        *)
(***************************************************************************)
Untold(w) ==
    /\ ~ Given(w)
    /\ command[w] = IDLE /\ pc[w] \in {"wait", "blocked"} /\ ran[w][call] = 0

Waiting(w) ==
    /\ Given(w)
    /\ command[w] = call /\ ran[w][call] = 0
    /\ \/ pc[w] \in {"wait", "load"}
       \/ pc[w] = "exchange" /\ cEnum[w] = call
       \/ pc[w] = "blocked" /\ Unwoken(w)

Taken(w) ==
    /\ Given(w)
    /\ command[w] = IDLE /\ pc[w] = "run" /\ cEnum[w] = call /\ ran[w][call] = 0

Handled(w) ==
    /\ Given(w)
    /\ command[w] = IDLE /\ pc[w] = "callback" /\ cEnum[w] = call /\ ran[w][call] = 1

Finished(w) ==
    /\ Given(w) /\ ~ Unwoken(w)
    /\ command[w] = IDLE /\ pc[w] \in {"wait", "blocked"} /\ ran[w][call] = 1

\* The workers that have still to signal the countdown.
Busy == {w \in Worker : ran[w][call] = 0 \/ pc[w] = "callback"}

(***************************************************************************)
(* The inductive invariant.  Barrier speaks of the end of a call only; what *)
(* carries it there is that the countdown counts the busy workers.         *)
(***************************************************************************)
CoordinatorAt ==
    /\ coord \in {"store", "wake"} => issued < WorkerCount
    /\ coord \in {"join", "returned"} /\ call > 0 => issued = WorkerCount
    /\ coord # "returned" => call > 0

WorkerStates ==
    /\ call > 0 => \A w \in Worker : Untold(w) \/ Waiting(w) \/ Taken(w) \/ Handled(w) \/ Finished(w)
    /\ call = 0 => \A w \in Worker : command[w] = IDLE /\ pc[w] \in {"wait", "blocked"}

RanOnce ==
    \A w \in Worker : /\ \A c \in 1 .. (call - 1) : ran[w][c] = 1
                      /\ \A c \in (call + 1) .. Calls : ran[w][c] = 0

Counted ==
    call > 0 => /\ countdown = Cardinality(Busy)
                /\ coord = "returned" => Busy = {}

IInv == TypeOK /\ CoordinatorAt /\ WorkerStates /\ RanOnce /\ Counted

-----------------------------------------------------------------------------
LEMMA BusyFinite == IsFiniteSet(Busy) /\ Cardinality(Busy) \in 0 .. WorkerCount
<1>1. IsFiniteSet(Worker) /\ Cardinality(Worker) = WorkerCount
    BY FS_Interval, BarrierAssumption DEF Worker
<1>2. Busy \subseteq Worker BY DEF Busy
<1> QED BY <1>1, <1>2, FS_Subset, FS_CardinalityType, BarrierAssumption

LEMMA InitInv == Init => IInv
<1> SUFFICES ASSUME Init PROVE IInv OBVIOUS
<1> USE BarrierAssumption DEF Init, IDLE
<1>1. TypeOK BY DEF TypeOK, Command
<1>2. CoordinatorAt BY DEF CoordinatorAt
<1>3. WorkerStates BY DEF WorkerStates
<1>4. RanOnce BY DEF RanOnce, Command
<1>5. Counted BY DEF Counted
<1> QED BY <1>1, <1>2, <1>3, <1>4, <1>5 DEF IInv

\* A step that leaves the call, the handlers and the callbacks alone.
LEMMA QuietStep ==
    ASSUME IInv, UNCHANGED <<call, countdown, ran>>, coord' # "returned" \/ UNCHANGED coord,
           \A w \in Worker : pc'[w] = "callback" <=> pc[w] = "callback"
    PROVE  RanOnce' /\ Counted'
<1>1. RanOnce' BY DEF IInv, RanOnce
<1>2. Busy' = Busy BY DEF Busy, IInv, TypeOK
<1> QED BY <1>1, <1>2 DEF IInv, Counted

-----------------------------------------------------------------------------
(* The coordinator's steps.                                                *)

LEMMA BeginCallInv == IInv /\ BeginCall => IInv'
<1> SUFFICES ASSUME IInv, BeginCall PROVE IInv' OBVIOUS
<1> USE BarrierAssumption
<1>1. TypeOK' BY DEF IInv, TypeOK, BeginCall
<1>2. CoordinatorAt' BY DEF IInv, TypeOK, BeginCall, CoordinatorAt
<1>3. \A w \in Worker : ran[w][call + 1] = 0
    BY DEF IInv, TypeOK, RanOnce, BeginCall
<1>4. \A w \in Worker : command[w] = IDLE /\ pc[w] \in {"wait", "blocked"}
    <2>1. CASE call = 0 BY <2>1 DEF IInv, WorkerStates
    <2>2. CASE call > 0
        <3>1. Busy = {} BY <2>2 DEF IInv, Counted, BeginCall
        <3>2. \A w \in Worker : ~ Untold(w)
            BY <2>2 DEF IInv, CoordinatorAt, BeginCall, Untold, Given, Worker, TypeOK
        <3>3. ASSUME NEW w \in Worker PROVE Finished(w)
            BY <3>1, <3>2, <2>2 DEF IInv, WorkerStates, Waiting, Taken, Handled, Busy
        <3> QED BY <3>3 DEF Finished
    <2> QED BY <2>1, <2>2 DEF IInv, TypeOK
<1>5. WorkerStates'
    <2>1. ASSUME NEW w \in Worker PROVE Untold(w)'
        BY <1>3, <1>4 DEF Untold, Given, BeginCall, Worker
    <2> QED BY <2>1, <1>1 DEF WorkerStates, TypeOK, BeginCall, IInv
<1>6. RanOnce'
    <2> SUFFICES ASSUME NEW w \in Worker
                 PROVE  /\ \A c \in 1 .. call : ran[w][c] = 1
                        /\ \A c \in (call + 2) .. Calls : ran[w][c] = 0
        BY DEF RanOnce, BeginCall, IInv, TypeOK
    <2>1. ASSUME NEW c \in 1 .. call PROVE ran[w][c] = 1
        <3>1. CASE c = call
            <4>1. call > 0 BY <3>1 DEF IInv, TypeOK
            <4>2. Busy = {} BY <4>1 DEF IInv, Counted, BeginCall
            <4>3. ran[w][call] # 0 BY <4>2 DEF Busy
            <4> QED BY <3>1, <4>1, <4>3
                    DEF IInv, WorkerStates, Untold, Waiting, Taken, Handled, Finished
        <3>2. CASE c # call BY <3>2 DEF IInv, RanOnce, TypeOK
        <3> QED BY <3>1, <3>2
    <2>2. \A c \in (call + 2) .. Calls : ran[w][c] = 0
        BY DEF IInv, RanOnce, TypeOK
    <2> QED BY <2>1, <2>2
<1>7. Counted'
    <2>1. Busy' = Worker BY <1>3 DEF Busy, BeginCall
    <2>2. Cardinality(Worker) = WorkerCount BY FS_Interval DEF Worker
    <2> QED BY <2>1, <2>2 DEF Counted, BeginCall
<1> QED BY <1>1, <1>2, <1>5, <1>6, <1>7 DEF IInv

LEMMA StoreInv == IInv /\ Store => IInv'
<1> SUFFICES ASSUME IInv, Store PROVE IInv' OBVIOUS
<1> USE BarrierAssumption
<1>1. issued \in Worker /\ call > 0 /\ call \in Command
    BY DEF IInv, TypeOK, CoordinatorAt, Store, Worker, Command
<1>2. TypeOK' BY <1>1 DEF IInv, TypeOK, Store
<1>3. CoordinatorAt' BY DEF IInv, CoordinatorAt, Store
<1>4. WorkerStates'
    <2> SUFFICES ASSUME NEW w \in Worker
                 PROVE  (Untold(w) \/ Waiting(w) \/ Taken(w) \/ Handled(w) \/ Finished(w))'
        BY <1>1 DEF WorkerStates, Store
    <2>1. CASE w = issued
        <3>1. Untold(w)
            BY <1>1, <2>1 DEF IInv, WorkerStates, Waiting, Taken, Handled, Finished, Given, Store,
                                TypeOK
        <3> QED BY <1>1, <2>1, <3>1
                DEF Untold, Waiting, Given, Unwoken, Store, IInv, TypeOK
    <2>2. CASE w # issued
        <3>1. Given(w)' <=> Given(w) BY <2>2 DEF Given, Store
        <3>2. ~ Unwoken(w) /\ ~ Unwoken(w)' BY <2>2 DEF Unwoken, Store
        <3>3. command'[w] = command[w] BY <2>2, <1>1 DEF Store, IInv, TypeOK
        <3> QED BY <1>1, <3>1, <3>2, <3>3
                DEF IInv, WorkerStates, Untold, Waiting, Taken, Handled, Finished, Store
    <2> QED BY <2>1, <2>2
<1>5. RanOnce' /\ Counted' BY QuietStep DEF Store
<1> QED BY <1>2, <1>3, <1>4, <1>5 DEF IInv

LEMMA WakeInv == IInv /\ Wake => IInv'
<1> SUFFICES ASSUME IInv, Wake PROVE IInv' OBVIOUS
<1> USE BarrierAssumption
<1>1. issued \in Worker /\ call > 0
    BY DEF IInv, TypeOK, CoordinatorAt, Wake, Worker
<1>2. TypeOK' BY <1>1 DEF IInv, TypeOK, Wake, Woken, Worker
<1>3. CoordinatorAt' BY <1>1 DEF IInv, CoordinatorAt, Wake, Worker, TypeOK
<1>4. WorkerStates'
    <2> SUFFICES ASSUME NEW w \in Worker
                 PROVE  (Untold(w) \/ Waiting(w) \/ Taken(w) \/ Handled(w) \/ Finished(w))'
        BY <1>1 DEF WorkerStates, Wake
    <2>0. ~ Unwoken(w)' BY DEF Unwoken, Wake
    <2>1. CASE w = issued
        <3>1. Given(w) /\ Given(w)' /\ Unwoken(w)
            BY <2>1, <1>1 DEF Given, Unwoken, Wake, Worker
        <3>2. pc'[w] = IF pc[w] = "blocked" THEN "load" ELSE pc[w]
            BY <2>1, <1>1 DEF Wake, Woken, IInv, TypeOK
        <3>3. Waiting(w) \/ Taken(w) \/ Handled(w)
            BY <1>1, <3>1 DEF IInv, WorkerStates, Untold, Finished
        <3>4. CASE Waiting(w)
            BY <3>1, <3>2, <3>4 DEF Waiting, Wake
        <3>5. CASE Taken(w)
            BY <3>1, <3>2, <3>5 DEF Taken, Wake
        <3>6. CASE Handled(w)
            BY <3>1, <3>2, <3>6 DEF Handled, Wake
        <3> QED BY <3>3, <3>4, <3>5, <3>6
    <2>2. CASE w # issued
        <3>1. Given(w)' <=> Given(w)
            BY <2>2, <1>1 DEF Given, Wake, IInv, TypeOK, Worker
        <3>2. ~ Unwoken(w) BY <2>2 DEF Unwoken
        <3>3. pc'[w] = pc[w] BY <2>2, <1>1 DEF Wake, Woken, IInv, TypeOK
        <3> QED BY <1>1, <2>0, <3>1, <3>2, <3>3
                DEF IInv, WorkerStates, Untold, Waiting, Taken, Handled, Finished, Wake
    <2> QED BY <2>1, <2>2
<1>5. RanOnce' /\ Counted'
    <2>1. \A w \in Worker : pc'[w] = "callback" <=> pc[w] = "callback"
        BY <1>1 DEF Wake, Woken, IInv, TypeOK
    <2> QED BY <2>1, QuietStep DEF Wake
<1> QED BY <1>2, <1>3, <1>4, <1>5 DEF IInv

LEMMA ReturnInv == IInv /\ Return => IInv'
<1> SUFFICES ASSUME IInv, Return PROVE IInv' OBVIOUS
<1> USE BarrierAssumption
<1>1. call > 0 BY DEF IInv, CoordinatorAt, Return
<1>2. TypeOK' BY DEF IInv, TypeOK, Return
<1>3. CoordinatorAt' BY DEF IInv, CoordinatorAt, Return
<1>4. WorkerStates'
    <2>1. \A w \in Worker : (Given(w)' <=> Given(w)) /\ ~ Unwoken(w) /\ ~ Unwoken(w)'
        BY DEF Given, Unwoken, Return
    <2> QED BY <1>1, <2>1
            DEF IInv, WorkerStates, Untold, Waiting, Taken, Handled, Finished, Return
<1>5. RanOnce' BY DEF IInv, RanOnce, Return
<1>6. Counted'
    <2>1. Cardinality(Busy) = 0 BY <1>1 DEF IInv, Counted, TypeOK, Return
    <2>2. Busy = {} BY <2>1, BusyFinite, FS_EmptySet
    <2>3. Busy' = Busy BY DEF Busy, Return
    <2> QED BY <2>1, <2>2, <2>3 DEF Counted, Return, IInv
<1> QED BY <1>2, <1>3, <1>4, <1>5, <1>6 DEF IInv

-----------------------------------------------------------------------------
(* The workers' steps.                                                     *)

\* A step of worker w leaves every other worker where it is.
LEMMA OtherWorkers ==
    ASSUME NEW w \in Worker, NEW v \in Worker, v # w,
           IInv, Run(w)
    PROVE  /\ command'[v] = command[v] /\ pc'[v] = pc[v] /\ cEnum'[v] = cEnum[v]
           /\ ran'[v] = ran[v]
           /\ Untold(v) => Untold(v)'
           /\ Waiting(v) => Waiting(v)'
           /\ Taken(v) => Taken(v)'
           /\ Handled(v) => Handled(v)'
           /\ Finished(v) => Finished(v)'
<1>1. UNCHANGED <<call, coord, issued>>
    BY DEF Run, ButexWait, Load, Exchange, Handle, Callback
<1>2. command'[v] = command[v] /\ pc'[v] = pc[v] /\ cEnum'[v] = cEnum[v] /\ ran'[v] = ran[v]
    BY DEF Run, ButexWait, Load, Exchange, Handle, Callback, IInv, TypeOK
<1>3. (Given(v)' <=> Given(v)) /\ (Unwoken(v)' <=> Unwoken(v))
    BY <1>1 DEF Given, Unwoken
<1> QED BY <1>1, <1>2, <1>3 DEF Untold, Waiting, Taken, Handled, Finished

\* So the invariant is kept when the worker that steps is in one of the five
\* places again and the countdown still counts.
LEMMA WorkerStep ==
    ASSUME NEW w \in Worker, IInv, Run(w), TypeOK',
           call > 0 => (Untold(w) \/ Waiting(w) \/ Taken(w) \/ Handled(w) \/ Finished(w))',
           call = 0 => command'[w] = IDLE /\ pc'[w] \in {"wait", "blocked"},
           \A c \in 1 .. Calls : c # call => ran'[w][c] = ran[w][c],
           Counted'
    PROVE  IInv'
<1> USE BarrierAssumption
<1>1. UNCHANGED <<call, coord, issued>>
    BY DEF Run, ButexWait, Load, Exchange, Handle, Callback
<1>2. CoordinatorAt' BY <1>1 DEF IInv, CoordinatorAt
<1>3. WorkerStates'
    <2>1. ASSUME NEW v \in Worker, call > 0
          PROVE  (Untold(v) \/ Waiting(v) \/ Taken(v) \/ Handled(v) \/ Finished(v))'
        BY <2>1, OtherWorkers DEF IInv, WorkerStates
    <2>2. ASSUME NEW v \in Worker, call = 0
          PROVE  command'[v] = IDLE /\ pc'[v] \in {"wait", "blocked"}
        BY <2>2, OtherWorkers DEF IInv, WorkerStates
    <2> QED BY <1>1, <2>1, <2>2 DEF WorkerStates
<1>4. RanOnce'
    <2>1. ASSUME NEW v \in Worker, NEW c \in 1 .. Calls, c # call
          PROVE  ran'[v][c] = ran[v][c]
        BY <2>1, OtherWorkers
    <2>2. call \in 0 .. Calls BY DEF IInv, TypeOK
    <2>3. ASSUME NEW v \in Worker, NEW c \in 1 .. (call - 1) PROVE ran'[v][c] = 1
        BY <2>1, <2>2 DEF IInv, RanOnce
    <2>4. ASSUME NEW v \in Worker, NEW c \in (call + 1) .. Calls PROVE ran'[v][c] = 0
        BY <2>1, <2>2 DEF IInv, RanOnce
    <2> QED BY <1>1, <2>3, <2>4 DEF RanOnce
<1> QED BY <1>2, <1>3, <1>4 DEF IInv

LEMMA ButexWaitInv == ASSUME NEW w \in Worker PROVE IInv /\ ButexWait(w) => IInv'
<1> SUFFICES ASSUME IInv, ButexWait(w) PROVE IInv' OBVIOUS
<1> USE BarrierAssumption
<1>1. TypeOK' BY DEF IInv, TypeOK, ButexWait
<1>2. (Given(w)' <=> Given(w)) /\ (Unwoken(w)' <=> Unwoken(w))
    BY DEF Given, Unwoken, ButexWait
<1>3. pc'[w] = IF command[w] = IDLE THEN "blocked" ELSE "load"
    BY DEF ButexWait, IInv, TypeOK
<1>4. ASSUME call > 0
      PROVE  (Untold(w) \/ Waiting(w) \/ Taken(w) \/ Handled(w) \/ Finished(w))'
    BY <1>2, <1>3, <1>4
       DEF ButexWait, IInv, WorkerStates, Untold, Waiting, Taken, Handled, Finished, IDLE
<1>5. call = 0 => command'[w] = IDLE /\ pc'[w] \in {"wait", "blocked"}
    BY <1>3 DEF ButexWait, IInv, WorkerStates
<1>6. Counted'
    <2>1. \A v \in Worker : pc'[v] = "callback" <=> pc[v] = "callback"
        BY DEF ButexWait, IInv, TypeOK
    <2> QED BY <2>1, QuietStep DEF ButexWait
<1> QED BY <1>1, <1>4, <1>5, <1>6, WorkerStep DEF Run, ButexWait

LEMMA LoadInv == ASSUME NEW w \in Worker PROVE IInv /\ Load(w) => IInv'
<1> SUFFICES ASSUME IInv, Load(w) PROVE IInv' OBVIOUS
<1> USE BarrierAssumption
<1>1. TypeOK' BY DEF IInv, TypeOK, Load
<1>2. (Given(w)' <=> Given(w)) /\ (Unwoken(w)' <=> Unwoken(w))
    BY DEF Given, Unwoken, Load
<1>3. pc'[w] = "exchange" /\ cEnum'[w] = command[w]
    BY DEF Load, IInv, TypeOK
<1>4. call > 0 /\ Waiting(w)
    BY DEF Load, IInv, WorkerStates, Untold, Taken, Handled, Finished, TypeOK
<1>5. Waiting(w)' BY <1>2, <1>3, <1>4 DEF Waiting, Load
<1>6. Counted'
    <2>1. \A v \in Worker : pc'[v] = "callback" <=> pc[v] = "callback"
        BY DEF Load, IInv, TypeOK
    <2> QED BY <2>1, QuietStep DEF Load
<1>a. Run(w) BY DEF Run
<1>b. \A c \in 1 .. Calls : c # call => ran'[w][c] = ran[w][c] BY DEF Load
<1>c. call # 0 BY <1>4
<1> QED BY <1>1, <1>4, <1>5, <1>6, <1>a, <1>b, <1>c, WorkerStep

LEMMA ExchangeInv == ASSUME NEW w \in Worker PROVE IInv /\ Exchange(w) => IInv'
<1> SUFFICES ASSUME IInv, Exchange(w) PROVE IInv' OBVIOUS
<1> USE BarrierAssumption
<1>1. call > 0 /\ Waiting(w) /\ cEnum[w] = call /\ command[w] = call
    BY DEF Exchange, IInv, WorkerStates, Untold, Waiting, Taken, Handled, Finished, TypeOK
<1>2. /\ command' = [command EXCEPT ![w] = IDLE]
      /\ cEnum' = cEnum
      /\ pc' = [pc EXCEPT ![w] = "run"]
    <2>1. command' = [command EXCEPT ![w] = IDLE] /\ cEnum' = cEnum
        BY <1>1 DEF Exchange
    <2>2. cEnum'[w] # IDLE BY <1>1, <2>1 DEF IDLE
    <2> QED BY <2>1, <2>2 DEF Exchange
<1>3. TypeOK' BY <1>2 DEF IInv, TypeOK, Exchange
<1>4. Given(w)' <=> Given(w) BY DEF Given, Exchange
<1>5. Taken(w)' BY <1>1, <1>2, <1>4 DEF Taken, Waiting, Exchange, IInv, TypeOK
<1>6. Counted'
    <2>1. \A v \in Worker : pc'[v] = "callback" <=> pc[v] = "callback"
        BY <1>2 DEF Exchange, IInv, TypeOK
    <2> QED BY <2>1, QuietStep DEF Exchange
<1>a. Run(w) BY DEF Run
<1>b. \A c \in 1 .. Calls : c # call => ran'[w][c] = ran[w][c] BY DEF Exchange
<1>c. call # 0 BY <1>1
<1> QED BY <1>1, <1>3, <1>5, <1>6, <1>a, <1>b, <1>c, WorkerStep

\* The handler moves the worker from "not run" to "in the callback", so it
\* stays busy.
LEMMA HandleInv == ASSUME NEW w \in Worker PROVE IInv /\ Handle(w) => IInv'
<1> SUFFICES ASSUME IInv, Handle(w) PROVE IInv' OBVIOUS
<1> USE BarrierAssumption
<1>0. pc[w] = "run" BY DEF Handle
<1>1. call > 0 /\ Taken(w)
    <2>1. call > 0 BY <1>0 DEF IInv, WorkerStates, TypeOK
    <2>2. ~ Untold(w) BY <1>0 DEF Untold
    <2>3. ~ Waiting(w) BY <1>0 DEF Waiting
    <2>4. ~ Handled(w) BY <1>0 DEF Handled
    <2>5. ~ Finished(w) BY <1>0 DEF Finished
    <2> QED BY <2>1, <2>2, <2>3, <2>4, <2>5 DEF IInv, WorkerStates
<1>2. call \in Command /\ cEnum[w] = call /\ ran[w][call] = 0
    BY <1>1 DEF IInv, TypeOK, Command, Taken
<1>3. /\ ran' = [ran EXCEPT ![w][call] = 1]
      /\ ran \in [Worker -> [Command -> Nat]]
    <2>1. ran' = [ran EXCEPT ![w][call] = ran[w][call] + 1] BY <1>2 DEF Handle
    <2>2. ran[w][call] + 1 = 1 BY <1>2
    <2> QED BY <2>1, <2>2 DEF IInv, TypeOK
<1>4. TypeOK' BY <1>2, <1>3 DEF IInv, TypeOK, Handle
<1>5. Given(w)' <=> Given(w) BY DEF Given, Handle
<1>6. pc'[w] = "callback" BY DEF Handle, IInv, TypeOK
<1>7. ran'[w][call] = 1 /\ \A c \in Command : c # call => ran'[w][c] = ran[w][c]
    BY <1>2, <1>3
<1>8. Handled(w)' BY <1>1, <1>2, <1>5, <1>6, <1>7 DEF Handled, Taken, Handle
<1>9. Busy' = Busy
    <2>1. \A v \in Worker : v # w => ran'[v] = ran[v] /\ pc'[v] = pc[v]
        BY OtherWorkers DEF Run
    <2>2. w \in Busy BY <1>2 DEF Busy
    <2>3. w \in Busy' BY <1>6 DEF Busy
    <2>4. call' = call BY DEF Handle
    <2> QED BY <2>1, <2>2, <2>3, <2>4 DEF Busy
<1>10. Counted' BY <1>9 DEF IInv, Counted, Handle
<1>a. Run(w) BY DEF Run
<1>b. \A c \in 1 .. Calls : c # call => ran'[w][c] = ran[w][c] BY <1>7 DEF Command
<1>c. call # 0 BY <1>1
<1> QED BY <1>4, <1>8, <1>10, <1>a, <1>b, <1>c, WorkerStep

\* The callback signals the countdown and takes the worker out of Busy.
LEMMA CallbackInv ==
    ASSUME LateWake = FALSE, NEW w \in Worker PROVE IInv /\ Callback(w) => IInv'
<1> SUFFICES ASSUME IInv, Callback(w) PROVE IInv' OBVIOUS
<1> USE BarrierAssumption
<1>1. call > 0 /\ Handled(w)
    BY SMTT(30) DEF Callback, IInv, WorkerStates, Untold, Waiting, Taken, Finished, TypeOK
<1>2. ~ Unwoken(w) BY DEF Callback, Unwoken
<1>3. w \in Busy BY DEF Callback, Busy
<1>4. Busy' = Busy \ {w}
    <2>1. \A v \in Worker : v # w => pc'[v] = pc[v] BY OtherWorkers DEF Run
    <2>2. pc'[w] = "wait" BY DEF Callback, IInv, TypeOK
    <2>3. UNCHANGED <<call, ran>> BY DEF Callback
    <2>4. ran[w][call] = 1 BY <1>1 DEF Handled
    <2>5. ASSUME NEW v \in Worker PROVE v \in Busy' <=> v \in Busy \ {w}
        BY <2>1, <2>2, <2>3, <2>4 DEF Busy
    <2>6. Busy' \subseteq Worker /\ Busy \subseteq Worker BY DEF Busy
    <2> QED BY <2>5, <2>6
<1>5. countdown = Cardinality(Busy) /\ Busy # {} /\ coord # "returned"
    BY <1>1, <1>3 DEF IInv, Counted
<1>6. Cardinality(Busy') = countdown - 1 /\ Cardinality(Busy') \in Nat
    <2>1. IsFiniteSet(Busy) BY BusyFinite
    <2>2. Cardinality(Busy \ {w}) = Cardinality(Busy) - 1
        BY <2>1, <1>3, FS_RemoveElement
    <2>3. Cardinality(Busy \ {w}) \in Nat
        BY <2>1, FS_Subset, FS_CardinalityType
    <2> QED BY <2>2, <2>3, <1>4, <1>5
<1>7. TypeOK' BY <1>5, <1>6 DEF IInv, TypeOK, Callback
<1>8. (Given(w)' <=> Given(w)) /\ ~ Unwoken(w)'
    BY <1>2 DEF Given, Unwoken, Callback
<1>9. pc'[w] = "wait" BY DEF Callback, IInv, TypeOK
<1>10. Finished(w)' BY <1>1, <1>8, <1>9 DEF Handled, Finished, Callback
<1>11. Counted' BY <1>5, <1>6 DEF Counted, Callback
<1>a. Run(w) BY DEF Run
<1>b. \A c \in 1 .. Calls : c # call => ran'[w][c] = ran[w][c] BY DEF Callback
<1>c. call # 0 BY <1>1
<1> QED BY <1>1, <1>7, <1>10, <1>11, <1>a, <1>b, <1>c, WorkerStep

-----------------------------------------------------------------------------
LEMMA StepInv == ASSUME LateWake = FALSE PROVE IInv /\ [Next]_vars => IInv'
<1> SUFFICES ASSUME IInv, [Next]_vars PROVE IInv' OBVIOUS
<1>1. CASE Coordinator
    BY <1>1, BeginCallInv, StoreInv, WakeInv, ReturnInv DEF Coordinator
<1>2. CASE \E w \in Worker : Run(w)
    BY <1>2, ButexWaitInv, LoadInv, ExchangeInv, HandleInv, CallbackInv DEF Run
<1>3. CASE UNCHANGED vars
    BY <1>3 DEF vars, IInv, TypeOK, CoordinatorAt, WorkerStates, RanOnce, Counted, Busy,
                Untold, Waiting, Taken, Handled, Finished, Given, Unwoken
<1> QED BY <1>1, <1>2, <1>3 DEF Next

\* Without late wake-ups the invariant holds throughout, whatever the number
\* of workers and of calls of processParallel.
THEOREM Invariance == ASSUME LateWake = FALSE PROVE Spec => []IInv
<1>1. Init => IInv BY InitInv
<1>2. IInv /\ [Next]_vars => IInv' BY StepInv
<1> QED BY <1>1, <1>2, PTL DEF Spec

\* Every variable keeps its type; in particular the countdown of
\* processParallel never goes below zero: no worker signals twice.
THEOREM TypeCorrect == ASSUME LateWake = FALSE PROVE Spec => []TypeOK
<1>1. Spec => []IInv BY Invariance
<1>2. IInv => TypeOK BY DEF IInv
<1> QED BY <1>1, <1>2, PTL

\* When processParallel returns, every worker has run every command given so
\* far exactly once and is inside no handler.
THEOREM BarrierHolds == ASSUME LateWake = FALSE PROVE Spec => []Barrier
<1>1. IInv => Barrier
    <2> SUFFICES ASSUME IInv, coord = "returned", NEW w \in Worker
                 PROVE  /\ \A c \in 1 .. call : ran[w][c] = 1
                        /\ pc[w] \notin {"run", "callback"}
        BY DEF Barrier
    <2>1. CASE call = 0 BY <2>1 DEF IInv, WorkerStates
    <2>2. CASE call > 0
        <3>1. Busy = {} BY <2>2 DEF IInv, Counted
        <3>2. ran[w][call] # 0 /\ pc[w] # "callback" BY <3>1 DEF Busy
        <3>3. ran[w][call] = 1 /\ pc[w] # "run"
            BY <2>2, <3>2
               DEF IInv, WorkerStates, Untold, Waiting, Taken, Handled, Finished
        <3>4. \A c \in 1 .. (call - 1) : ran[w][c] = 1 BY DEF IInv, RanOnce
        <3>5. call \in Nat BY DEF IInv, TypeOK
        <3>6. \A c \in 1 .. call : c = call \/ c \in 1 .. (call - 1) BY <3>5
        <3> QED BY <3>2, <3>3, <3>4, <3>6
    <2> QED BY <2>1, <2>2 DEF IInv, TypeOK
<1>2. Spec => []IInv BY Invariance
<1> QED BY <1>1, <1>2, PTL

-----------------------------------------------------------------------------
(***************************************************************************)
(* The client's path.  MeasuredTruly compares counters with sets that the  *)
(* monitor never sees, so the invariant has to say where a request can be: *)
(* it is begun before it is pending, is in at most one block, and leaves   *)
(* the pending ones when it is counted.  Both pairs of counters, those     *)
(* that are shown and those that the monitor has loaded, are covered.      *)
(***************************************************************************)
Digests == Thread \X (0 .. TxnCount - 1)

ThreadsSound ==
    /\ thread \in [Thread -> [at : {"next", "send", "sent", "done"}, done : 0 .. TxnCount,
                              digest : Digests \cup {C!NoDigest}]]
    /\ \A t \in Thread : thread[t].at \in {"send", "sent"} => thread[t].done < TxnCount
    /\ \A t \in Thread : thread[t].at = "sent" =>
          thread[t].digest \in {<<t, thread[t].done>>, C!NoDigest}
    /\ sentRequests \subseteq Digests
    /\ pending \subseteq C!Begun \cup {C!NoDigest}

BlocksSound ==
    /\ blocks \in Seq(SUBSET Digests)
    /\ \A i, j \in DOMAIN blocks : i # j => blocks[i] \cap blocks[j] = {}
    /\ C!Executed \subseteq 0 .. Len(blocks) - 1
    /\ \A b \in C!Executed : filter[b] \subseteq C!Requests(b)
    /\ taskQueue \in Seq(Nat)
    /\ \A i \in DOMAIN taskQueue :
          /\ taskQueue[i] < Len(blocks) /\ taskQueue[i] \notin C!Executed
          /\ \A j \in DOMAIN taskQueue : taskQueue[i] = taskQueue[j] => i = j

ShownSound ==
    /\ inserting \in C!Executed \cup {C!None}
    /\ newest \in C!Executed \cup {-1}
    /\ cache \in Seq(C!Executed)
    /\ \A a \in answer : /\ a.block \in C!Executed /\ a.tx \in C!Requests(a.block)
                         /\ a.valid = (a.tx \in filter[a.block])

\* the requests that the blocks behind the monitor have committed
CommittedBehind == UNION {filter[b] : b \in C!Polled}

Covered(c) ==
    /\ c[1] <= Cardinality(CommittedBehind)
    /\ c[1] + c[2] <= Cardinality(C!Begun \ pending)

CountersSound ==
    /\ monitor \in [at : {"top", "poll", "wait", "count", "done"}, height : Nat, tries : Int]
    /\ monitor.at = "count" => monitor.height \in C!Executed
    /\ txCountCommit \in Nat /\ txCountAbort \in Nat /\ loaded \in Nat \X Nat
    /\ monitor.at = "top" => txCountCommit = 0 /\ txCountAbort = 0 /\ loaded = <<0, 0>>
    /\ Covered(<<txCountCommit, txCountAbort>>) /\ Covered(loaded)

ClientInv == ThreadsSound /\ BlocksSound /\ ShownSound /\ CountersSound

\* Cardinalities of sets of digests.
LEMMA Larger ==
    ASSUME NEW S, NEW T, S \subseteq T, T \subseteq Digests
    PROVE  /\ IsFiniteSet(S) /\ IsFiniteSet(T)
           /\ Cardinality(S) \in Nat /\ Cardinality(T) \in Nat
           /\ Cardinality(S) <= Cardinality(T)
<1>1. IsFiniteSet(0 .. TxnCount - 1)
    <2>1. 0 \in Int /\ TxnCount - 1 \in Int BY ClientAssumption
    <2> QED BY <2>1, FS_Interval
<1>2. IsFiniteSet(Digests) BY <1>1, ClientAssumption, FS_Product DEF Digests
<1>3. IsFiniteSet(T) BY <1>2, FS_Subset
<1> QED BY <1>3, FS_Subset, FS_CardinalityType

LEMMA BegunDigests == C!Begun \subseteq Digests /\ C!Begun' \subseteq Digests
BY DEF C!Begun, Digests

LEMMA NoDigestIsNone == C!NoDigest \notin Digests
BY ClientAssumption DEF C!NoDigest, Digests

LEMMA BehindDigests ==
    ASSUME BlocksSound'
    PROVE  CommittedBehind' \subseteq Digests
<1> SUFFICES ASSUME NEW b \in C!Polled', NEW r \in filter'[b] PROVE r \in Digests
    BY DEF CommittedBehind
<1>1. b \in C!Executed' BY DEF C!Polled
<1>2. b + 1 \in DOMAIN blocks' BY <1>1 DEF BlocksSound
<1>3. r \in blocks'[b + 1] BY <1>1 DEF BlocksSound, C!Requests
<1> QED BY <1>2, <1>3 DEF BlocksSound

\* The counters stay covered while the sets they are compared with grow.
LEMMA StillCovered ==
    ASSUME BlocksSound', NEW c \in Nat \X Nat,
           /\ c[1] <= Cardinality(CommittedBehind)
           /\ c[1] + c[2] <= Cardinality(C!Begun \ pending),
           CommittedBehind \subseteq CommittedBehind',
           (C!Begun \ pending) \subseteq (C!Begun \ pending)'
    PROVE  /\ c[1] <= Cardinality(CommittedBehind')
           /\ c[1] + c[2] <= Cardinality((C!Begun \ pending)')
<1>1. CommittedBehind' \subseteq Digests BY BehindDigests
<1>2. (C!Begun \ pending)' \subseteq Digests BY BegunDigests
<1>3. /\ Cardinality(CommittedBehind) \in Nat /\ Cardinality(CommittedBehind') \in Nat
      /\ Cardinality(CommittedBehind) <= Cardinality(CommittedBehind')
    BY <1>1, Larger
<1>4. /\ Cardinality(C!Begun \ pending) \in Nat /\ Cardinality((C!Begun \ pending)') \in Nat
      /\ Cardinality(C!Begun \ pending) <= Cardinality((C!Begun \ pending)')
    BY <1>2, Larger
<1>5. c[1] \in Nat /\ c[2] \in Nat OBVIOUS
<1> HIDE DEF C!Begun
<1> QED BY <1>3, <1>4, <1>5

LEMMA SameCounters ==
    ASSUME CountersSound, BlocksSound',
           UNCHANGED <<txCountCommit, txCountAbort, loaded>>,
           CommittedBehind \subseteq CommittedBehind',
           (C!Begun \ pending) \subseteq (C!Begun \ pending)'
    PROVE  Covered(<<txCountCommit, txCountAbort>>)' /\ Covered(loaded)'
<1>1. <<txCountCommit, txCountAbort>> \in Nat \X Nat /\ loaded \in Nat \X Nat BY DEF CountersSound
<1>2. /\ loaded[1] <= Cardinality(CommittedBehind)
      /\ loaded[1] + loaded[2] <= Cardinality(C!Begun \ pending)
      /\ txCountCommit <= Cardinality(CommittedBehind)
      /\ txCountCommit + txCountAbort <= Cardinality(C!Begun \ pending)
    BY DEF CountersSound, Covered
<1>3. /\ loaded[1] <= Cardinality(CommittedBehind')
      /\ loaded[1] + loaded[2] <= Cardinality((C!Begun \ pending)')
    BY <1>1, <1>2, StillCovered
<1> DEFINE c == <<txCountCommit, txCountAbort>>
<1>4. c \in Nat \X Nat /\ c[1] = txCountCommit /\ c[2] = txCountAbort BY <1>1
<1> HIDE DEF c
<1>5. /\ c[1] <= Cardinality(CommittedBehind')
      /\ c[1] + c[2] <= Cardinality((C!Begun \ pending)')
    BY <1>2, <1>4, StillCovered
<1> QED BY <1>3, <1>4, <1>5 DEF Covered

LEMMA ClientInit == C!Init => ClientInv
<1> SUFFICES ASSUME C!Init PROVE ClientInv OBVIOUS
<1> USE DEF C!Init
<1>1. ThreadsSound
    <2>1. 0 \in 0 .. TxnCount BY ClientAssumption
    <2>2. thread \in [Thread -> [at : {"next", "send", "sent", "done"}, done : 0 .. TxnCount,
                                digest : Digests \cup {C!NoDigest}]]
        BY <2>1
    <2> QED BY <2>2 DEF ThreadsSound
<1>2. BlocksSound BY DEF BlocksSound, C!Executed
<1>3. ShownSound BY DEF ShownSound, C!Executed, C!None
<1>4. CommittedBehind \subseteq Digests /\ C!Begun \ pending \subseteq Digests
    <2>1. CommittedBehind = {} BY DEF CommittedBehind, C!Polled, C!Executed
    <2> QED BY <2>1, BegunDigests
<1>5. Cardinality(CommittedBehind) \in Nat /\ Cardinality(C!Begun \ pending) \in Nat
    BY <1>4, Larger
<1>6. CountersSound
    <2>1. Covered(<<0, 0>>) BY <1>5 DEF Covered
    <2> QED BY <2>1 DEF CountersSound
<1> QED BY <1>1, <1>2, <1>3, <1>6 DEF ClientInv

\* A client thread: what it has sent it begins, once.
LEMMA DoWorkInv == ASSUME ClientInv, NEW t \in Thread, C!doWork(t) PROVE ClientInv'
<1> USE DEF ClientInv
<1>0. UNCHANGED <<monitor, txCountCommit, txCountAbort, loaded, blocks, taskQueue, filter,
                  inserting, cache, newest, answer>>
    BY DEF C!doWork, C!peerVars, C!queryVars
<1>1. BlocksSound' BY <1>0 DEF BlocksSound, C!Executed, C!Requests
<1>2. ShownSound' BY <1>0 DEF ShownSound, C!Executed, C!Requests, C!None
<1>3. CommittedBehind' = CommittedBehind BY <1>0 DEF CommittedBehind, C!Polled, C!Executed
<1>4. thread[t].done \in 0 .. TxnCount /\ thread[t].digest \in Digests \cup {C!NoDigest}
    BY DEF ThreadsSound
<1>5. ThreadsSound' /\ (C!Begun \ pending) \subseteq (C!Begun \ pending)'
    <2>1. CASE C!More(t)
        <3>1. /\ thread' = [thread EXCEPT ![t].at = IF C!stopRequested \/ thread[t].done = TxnCount
                                                    THEN "done" ELSE "send"]
              /\ UNCHANGED <<sentRequests, pending>>
            BY <2>1 DEF C!More
        <3>2. thread[t].done # TxnCount => thread[t].done < TxnCount BY <1>4, ClientAssumption
        <3>3. C!Begun' = C!Begun
            <4>1. \A u \in Thread : thread'[u].done = thread[u].done BY <3>1 DEF ThreadsSound
            <4> QED BY <4>1 DEF C!Begun
        <3> QED BY <3>1, <3>2, <3>3 DEF ThreadsSound
    <2>2. CASE C!sendInvokeRequest(t)
        <3>1. /\ thread[t].at = "send" /\ pending' = pending
              /\ sentRequests' \subseteq sentRequests \cup {<<t, thread[t].done>>}
              /\ \E d \in {<<t, thread[t].done>>, C!NoDigest} :
                    thread' = [thread EXCEPT ![t].at = "sent", ![t].digest = d]
            BY <2>2 DEF C!sendInvokeRequest
        <3>2. PICK d \in {<<t, thread[t].done>>, C!NoDigest} :
                    thread' = [thread EXCEPT ![t].at = "sent", ![t].digest = d]
            BY <3>1
        <3>3. thread[t].done < TxnCount BY <3>1 DEF ThreadsSound
        <3>4. <<t, thread[t].done>> \in Digests BY <1>4, <3>3, ClientAssumption DEF Digests
        <3>5. C!Begun' = C!Begun
            <4>1. \A u \in Thread : thread'[u].done = thread[u].done BY <3>2 DEF ThreadsSound
            <4> QED BY <4>1 DEF C!Begun
        <3>6. sentRequests' \subseteq Digests BY <3>1, <3>4 DEF ThreadsSound
        <3>7. thread' \in [Thread -> [at : {"next", "send", "sent", "done"}, done : 0 .. TxnCount,
                                      digest : Digests \cup {C!NoDigest}]]
            BY <3>2, <3>4 DEF ThreadsSound
        <3>8. /\ thread'[t].at = "sent" /\ thread'[t].digest = d /\ thread'[t].done = thread[t].done
              /\ \A u \in Thread : u # t => thread'[u] = thread[u]
            BY <3>2 DEF ThreadsSound
        <3> QED BY <3>1, <3>3, <3>5, <3>6, <3>7, <3>8 DEF ThreadsSound
    <2>3. CASE C!beginTransaction(t)
        <3>1. /\ thread[t].at = "sent" /\ pending' = pending \cup {thread[t].digest}
              /\ sentRequests' = sentRequests
              /\ thread' = [thread EXCEPT ![t].at = "next", ![t].done = thread[t].done + 1]
            BY <2>3 DEF C!beginTransaction
        <3>2. thread[t].done < TxnCount /\ thread[t].digest \in {<<t, thread[t].done>>, C!NoDigest}
            BY <3>1 DEF ThreadsSound
        <3>3. /\ thread'[t].at = "next" /\ thread'[t].digest = thread[t].digest
              /\ thread'[t].done = thread[t].done + 1
              /\ \A u \in Thread : u # t => thread'[u] = thread[u]
            BY <3>1 DEF ThreadsSound
        <3>4. thread[t].done + 1 \in 0 .. TxnCount BY <1>4, <3>2, ClientAssumption
        <3>5. thread' \in [Thread -> [at : {"next", "send", "sent", "done"}, done : 0 .. TxnCount,
                                      digest : Digests \cup {C!NoDigest}]]
            BY <3>1, <3>4 DEF ThreadsSound
        <3>6. <<t, thread[t].done>> \in Digests BY <1>4, <3>2, ClientAssumption DEF Digests
        <3>7. <<t, thread[t].done>> \notin C!Begun BY <1>4 DEF C!Begun
        <3>8. <<t, thread[t].done>> \in C!Begun'
            BY <1>4, <3>3, <3>6 DEF C!Begun, Digests
        <3>9. C!Begun \subseteq C!Begun'
            <4> SUFFICES ASSUME NEW r \in C!Begun PROVE r \in C!Begun' OBVIOUS
            <4>1. r \in Thread \X (0 .. TxnCount - 1) /\ r[2] < thread[r[1]].done /\ r[1] \in Thread
                  /\ r[2] \in Int
                BY DEF C!Begun
            <4>2. r[2] < thread'[r[1]].done
                BY <1>4, <3>3, <4>1
            <4> QED BY <4>1, <4>2 DEF C!Begun
        <3>10. pending' \subseteq C!Begun' \cup {C!NoDigest} BY <3>1, <3>2, <3>8, <3>9 DEF ThreadsSound
        <3>11. (C!Begun \ pending) \subseteq (C!Begun \ pending)'
            BY <3>1, <3>2, <3>7, <3>9, NoDigestIsNone, BegunDigests
        <3>12. ThreadsSound'
            <4>1. ASSUME NEW u \in Thread PROVE (thread'[u].at \in {"send", "sent"} => thread'[u].done < TxnCount)
                    /\ (thread'[u].at = "sent" => thread'[u].digest \in {<<u, thread'[u].done>>, C!NoDigest})
                BY <3>3 DEF ThreadsSound
            <4> QED BY <3>1, <3>5, <3>10, <4>1 DEF ThreadsSound
        <3> QED BY <3>11, <3>12
    <2> QED BY <2>1, <2>2, <2>3 DEF C!doWork
<1>6. CountersSound'
    <2>1. Covered(<<txCountCommit, txCountAbort>>)' /\ Covered(loaded)'
        BY <1>0, <1>1, <1>3, <1>5, SameCounters
    <2> QED BY <1>0, <2>1 DEF CountersSound, C!Executed
<1> QED BY <1>1, <1>2, <1>5, <1>6

\* A new block holds requests that no block has had.
LEMMA OrderInv == ASSUME ClientInv, C!Order PROVE ClientInv'
<1> USE DEF ClientInv
<1>0. UNCHANGED <<thread, sentRequests, pending, monitor, txCountCommit, txCountAbort, loaded,
                  filter, inserting, cache, newest, answer>>
    BY DEF C!Order, C!Deliver, C!clientVars, C!queryVars
<1>1. PICK taken \in SUBSET (sentRequests \ C!Decided) : blocks' = Append(blocks, taken)
    BY DEF C!Order, C!Deliver
<1>2. taskQueue' = Append(taskQueue, Len(blocks)) BY DEF C!Order, C!Deliver
<1>3. Len(blocks) \in Nat /\ DOMAIN blocks = 1 .. Len(blocks) BY DEF BlocksSound
<1>4. /\ blocks' \in Seq(SUBSET Digests) /\ Len(blocks') = Len(blocks) + 1
      /\ DOMAIN blocks' = 1 .. (Len(blocks) + 1)
      /\ \A i \in DOMAIN blocks : blocks'[i] = blocks[i]
      /\ blocks'[Len(blocks) + 1] = taken
    BY <1>1, <1>3 DEF BlocksSound, ThreadsSound
<1>5. \A i \in DOMAIN blocks : blocks[i] \cap taken = {}
    <2>1. \A i \in DOMAIN blocks : blocks[i] \subseteq C!Decided BY DEF C!Decided, C!ToSet
    <2> QED BY <1>1, <2>1
<1>6. \A b \in C!Executed : C!Requests(b)' = C!Requests(b)
    BY <1>3, <1>4 DEF BlocksSound, C!Requests
<1>7. /\ taskQueue' \in Seq(Nat) /\ DOMAIN taskQueue' = 1 .. (Len(taskQueue) + 1)
      /\ Len(taskQueue) \in Nat /\ DOMAIN taskQueue = 1 .. Len(taskQueue)
      /\ \A i \in DOMAIN taskQueue : taskQueue'[i] = taskQueue[i]
      /\ taskQueue'[Len(taskQueue) + 1] = Len(blocks)
    BY <1>2, <1>3 DEF BlocksSound
<1>8. Len(blocks) \notin C!Executed BY <1>3 DEF BlocksSound
<1>9. BlocksSound'
    <2>1. \A i, j \in DOMAIN blocks' : i # j => blocks'[i] \cap blocks'[j] = {}
        BY <1>3, <1>4, <1>5 DEF BlocksSound
    <2>2. \A b \in C!Executed' : b \in 0 .. Len(blocks') - 1 /\ filter'[b] \subseteq C!Requests(b)'
        BY <1>0, <1>3, <1>4, <1>6 DEF BlocksSound, C!Executed
    <2>3. ASSUME NEW i \in DOMAIN taskQueue'
          PROVE  /\ taskQueue'[i] < Len(blocks') /\ taskQueue'[i] \notin C!Executed'
                 /\ \A j \in DOMAIN taskQueue' : taskQueue'[i] = taskQueue'[j] => i = j
        <3>1. \A k \in DOMAIN taskQueue : taskQueue[k] \in Nat /\ taskQueue[k] < Len(blocks)
            BY DEF BlocksSound
        <3>2. C!Executed' = C!Executed BY <1>0 DEF C!Executed
        <3>3. \A k \in DOMAIN taskQueue : taskQueue[k] \notin C!Executed BY DEF BlocksSound
        <3>4. CASE i \in DOMAIN taskQueue
            <4>1. taskQueue'[i] = taskQueue[i] /\ taskQueue[i] # Len(blocks) BY <1>3, <1>7, <3>1, <3>4
            <4>2. \A j \in DOMAIN taskQueue : taskQueue[i] = taskQueue[j] => i = j
                BY <3>4 DEF BlocksSound
            <4>3. \A j \in DOMAIN taskQueue' : j \in DOMAIN taskQueue \/ j = Len(taskQueue) + 1 BY <1>7
            <4>4. taskQueue[i] \in Nat /\ taskQueue[i] < Len(blocks') BY <1>3, <1>4, <3>1, <3>4
            <4>5. ASSUME NEW j \in DOMAIN taskQueue', taskQueue'[i] = taskQueue'[j] PROVE i = j
                BY <1>7, <4>1, <4>2, <4>3, <4>5
            <4> QED BY <3>2, <3>3, <3>4, <4>1, <4>4, <4>5
        <3>5. CASE i = Len(taskQueue) + 1
            <4>1. \A j \in DOMAIN taskQueue : taskQueue[j] # Len(blocks) BY <1>3, <3>1
            <4>2. taskQueue'[i] = Len(blocks) BY <1>7, <3>5
            <4>3. Len(blocks) < Len(blocks') /\ Len(blocks) \notin C!Executed' BY <1>3, <1>4, <1>8, <3>2
            <4>4. ASSUME NEW j \in DOMAIN taskQueue', taskQueue'[i] = taskQueue'[j] PROVE i = j
                <5>1. j \notin DOMAIN taskQueue BY <1>7, <4>1, <4>2, <4>4
                <5> QED BY <1>7, <3>5, <5>1
            <4> QED BY <4>2, <4>3, <4>4
        <3> QED BY <1>7, <3>4, <3>5
    <2> QED BY <1>4, <1>7, <2>1, <2>2, <2>3 DEF BlocksSound
<1>10. ThreadsSound' BY <1>0 DEF ThreadsSound, C!Begun
<1>11. ShownSound' BY <1>0, <1>6 DEF ShownSound, C!Executed
<1>12. CountersSound'
    <2>1. CommittedBehind' = CommittedBehind /\ (C!Begun \ pending)' = C!Begun \ pending
        BY <1>0 DEF CommittedBehind, C!Polled, C!Executed, C!Begun
    <2>2. Covered(<<txCountCommit, txCountAbort>>)' /\ Covered(loaded)'
        BY <1>0, <1>9, <2>1, SameCounters
    <2> QED BY <1>0, <2>2 DEF CountersSound, C!Executed
<1> QED BY <1>9, <1>10, <1>11, <1>12

\* Elements of the cache.
LEMMA CacheHolds ==
    ASSUME NEW E, NEW keys \in Seq(E), NEW k \in E
    PROVE  /\ C!insert(keys, k) \in Seq(E)
           /\ C!Contains(keys, k) => C!splice(keys, k) \in Seq(E)
<1>1. ASSUME C!Contains(keys, k) PROVE C!splice(keys, k) \in Seq(E)
    <2> DEFINE i == CHOOSE j \in DOMAIN keys : keys[j] = k
    <2>1. i \in DOMAIN keys BY <1>1 DEF C!Contains
    <2> HIDE DEF i
    <2>2. SubSeq(keys, 1, i - 1) \in Seq(E) /\ SubSeq(keys, i + 1, Len(keys)) \in Seq(E)
        BY <2>1
    <2>3. <<k>> \in Seq(E) OBVIOUS
    <2> QED BY <2>2, <2>3 DEF C!splice, C!RemoveAt, i
<1>2. C!prune(<<k>> \o keys) \in Seq(E)
    <2>1. <<k>> \o keys \in Seq(E) OBVIOUS
    <2> DEFINE s == <<k>> \o keys
    <2>2. s \in Seq(E) BY <2>1
    <2> HIDE DEF s
    <2>3. CASE CacheSize = 0 \/ Len(s) < CacheSize + Elasticity
        <3>1. C!prune(s) = s BY <2>3 DEF C!prune
        <3> QED BY <2>2, <3>1 DEF s
    <2>4. CASE ~ (CacheSize = 0 \/ Len(s) < CacheSize + Elasticity)
        <3>1. Len(s) \in Nat /\ CacheSize \in Nat /\ Elasticity \in Nat BY <2>2, ClientAssumption
        <3>2. CacheSize <= Len(s) BY <2>4, <3>1
        <3>3. SubSeq(s, 1, CacheSize) \in Seq(E) BY <2>2, <3>1, <3>2
        <3>4. C!prune(s) = SubSeq(s, 1, CacheSize) BY <2>4 DEF C!prune
        <3> QED BY <3>3, <3>4 DEF s
    <2> QED BY <2>3, <2>4
<1> QED BY <1>1, <1>2 DEF C!insert

LEMMA GetCopy ==
    ASSUME NEW E, cache \in Seq(E), NEW k, C!tryGetCopy(k)
    PROVE  cache' \in Seq(E)
<1>1. CASE C!Contains(cache, k)
    <2>1. k \in E BY <1>1 DEF C!Contains
    <2> QED BY <1>1, <2>1, CacheHolds DEF C!tryGetCopy
<1> QED BY <1>1 DEF C!tryGetCopy

\* The executor decides a block that it has not decided before.
LEMMA ExecuteInv == ASSUME ClientInv, C!Execute PROVE ClientInv'
<1> USE DEF ClientInv
<1>0. UNCHANGED <<thread, sentRequests, pending, monitor, txCountCommit, txCountAbort, loaded,
                  blocks, answer>>
    BY DEF C!Execute, C!onConsensusBlockOrder, C!StoreFutex, C!clientVars, C!queryVars
<1>1. ThreadsSound' BY <1>0 DEF ThreadsSound, C!Begun
<1>2. (C!Begun \ pending)' = C!Begun \ pending BY <1>0 DEF C!Begun
<1>3. CASE C!StoreFutex
    <2>1. UNCHANGED <<taskQueue, filter, cache>> /\ newest' = inserting /\ inserting' = C!None
          /\ inserting # C!None
        BY <1>3 DEF C!StoreFutex
    <2>2. BlocksSound' BY <1>0, <2>1 DEF BlocksSound, C!Executed, C!Requests
    <2>3. ShownSound' BY <1>0, <2>1 DEF ShownSound, C!Executed, C!Requests
    <2>4. CommittedBehind' = CommittedBehind BY <1>0, <2>1 DEF CommittedBehind, C!Polled, C!Executed
    <2>5. Covered(<<txCountCommit, txCountAbort>>)' /\ Covered(loaded)'
        BY <1>0, <1>2, <2>2, <2>4, SameCounters
    <2> QED BY <1>0, <1>1, <2>1, <2>2, <2>3, <2>5 DEF CountersSound, C!Executed
<1>4. CASE C!onConsensusBlockOrder
    <2> DEFINE b == Head(taskQueue)
    <2>1. taskQueue # <<>> /\ taskQueue' = Tail(taskQueue) /\ newest' = newest
        BY <1>4 DEF C!onConsensusBlockOrder
    <2>2. /\ Len(taskQueue) \in Nat \ {0} /\ DOMAIN taskQueue = 1 .. Len(taskQueue)
          /\ b = taskQueue[1] /\ 1 \in DOMAIN taskQueue
          /\ taskQueue' \in Seq(Nat) /\ DOMAIN taskQueue' = 1 .. (Len(taskQueue) - 1)
          /\ \A i \in DOMAIN taskQueue' : i + 1 \in DOMAIN taskQueue /\ taskQueue'[i] = taskQueue[i + 1]
        BY <2>1 DEF BlocksSound
    <2>3. b \in Nat /\ b < Len(blocks) /\ b \notin C!Executed
        <3> HIDE DEF b
        <3>1. taskQueue[1] \in Nat BY <2>2 DEF BlocksSound
        <3>2. taskQueue[1] < Len(blocks) /\ taskQueue[1] \notin C!Executed BY <2>2 DEF BlocksSound
        <3> QED BY <2>2, <3>1, <3>2
    <2>4. \A i \in DOMAIN taskQueue' : taskQueue'[i] # b
        <3>1. \A i \in DOMAIN taskQueue' : i + 1 # 1 BY <2>2
        <3> QED BY <2>2, <3>1 DEF BlocksSound
    <2>5. ASSUME NEW i \in DOMAIN taskQueue'
          PROVE  /\ taskQueue'[i] < Len(blocks) /\ taskQueue'[i] \notin C!Executed
                 /\ \A j \in DOMAIN taskQueue' : taskQueue'[i] = taskQueue'[j] => i = j
        <3>1. i \in Int /\ \A j \in DOMAIN taskQueue' : j \in Int BY <2>2
        <3> QED BY <2>2, <3>1 DEF BlocksSound
    <2> HIDE DEF b
    <2>6. CASE UNCHANGED <<filter, cache, inserting>>
        <3>1. BlocksSound' BY <1>0, <2>2, <2>5, <2>6 DEF BlocksSound, C!Executed, C!Requests
        <3>2. ShownSound' BY <1>0, <2>1, <2>6 DEF ShownSound, C!Executed, C!Requests
        <3>3. CommittedBehind' = CommittedBehind BY <1>0, <2>6 DEF CommittedBehind, C!Polled, C!Executed
        <3>4. Covered(<<txCountCommit, txCountAbort>>)' /\ Covered(loaded)'
            BY <1>0, <1>2, <3>1, <3>3, SameCounters
        <3> QED BY <1>0, <1>1, <2>6, <3>1, <3>2, <3>4 DEF CountersSound, C!Executed
    <2>7. ASSUME NEW valid \in SUBSET C!Requests(b),
                 filter' = [c \in C!Executed \cup {b} |-> IF c = b THEN valid ELSE filter[c]],
                 cache' = C!insert(cache, b), inserting' = b
          PROVE  ClientInv'
        <3>1. /\ C!Executed' = C!Executed \cup {b} /\ filter'[b] = valid
              /\ \A c \in C!Executed : filter'[c] = filter[c]
            BY <2>3, <2>7 DEF C!Executed
        <3>2. \A c : C!Requests(c)' = C!Requests(c) BY <1>0 DEF C!Requests
        <3>3. BlocksSound'
            <4>1. Len(blocks) \in Nat BY DEF BlocksSound
            <4>2. C!Executed' \subseteq 0 .. Len(blocks') - 1 BY <1>0, <2>3, <3>1, <4>1 DEF BlocksSound
            <4>3. \A c \in C!Executed' : filter'[c] \subseteq C!Requests(c)'
                BY <3>1, <3>2 DEF BlocksSound
            <4>4. ASSUME NEW i \in DOMAIN taskQueue'
                  PROVE  /\ taskQueue'[i] < Len(blocks') /\ taskQueue'[i] \notin C!Executed'
                         /\ \A j \in DOMAIN taskQueue' : taskQueue'[i] = taskQueue'[j] => i = j
                BY <1>0, <2>4, <2>5, <3>1
            <4> QED BY <1>0, <2>2, <4>2, <4>3, <4>4 DEF BlocksSound
        <3>4. ShownSound'
            <4>1. cache \in Seq(C!Executed') /\ b \in C!Executed'
                BY <3>1 DEF ShownSound
            <4>2. cache' \in Seq(C!Executed') BY <2>7, <4>1, CacheHolds
            <4>3. \A a \in answer' : /\ a.block \in C!Executed' /\ a.tx \in C!Requests(a.block)'
                                     /\ a.valid = (a.tx \in filter'[a.block])
                BY <1>0, <3>1, <3>2 DEF ShownSound
            <4> QED BY <2>1, <2>7, <3>1, <4>2, <4>3 DEF ShownSound
        <3>5. CommittedBehind \subseteq CommittedBehind'
            <4>1. C!Polled \subseteq C!Polled' BY <1>0, <3>1 DEF C!Polled
            <4>2. C!Polled \subseteq C!Executed BY DEF C!Polled
            <4> QED BY <3>1, <4>1, <4>2 DEF CommittedBehind
        <3>6. Covered(<<txCountCommit, txCountAbort>>)' /\ Covered(loaded)'
            BY <1>0, <1>2, <3>3, <3>5, SameCounters
        <3>7. CountersSound' BY <1>0, <3>1, <3>6 DEF CountersSound
        <3> QED BY <1>1, <3>3, <3>4, <3>7
    <2> QED BY <1>4, <2>6, <2>7 DEF C!onConsensusBlockOrder, b
<1> QED BY <1>3, <1>4 DEF C!Execute

\* The monitor.  Counting a block takes its requests out of the pending ones and
\* puts what it has committed behind the monitor.
LEMMA CountInv == ASSUME ClientInv, C!doMonitor, C!Count PROVE ClientInv'
<1> USE DEF ClientInv
<1>0. UNCHANGED <<thread, sentRequests, blocks, taskQueue, filter, inserting, cache, newest, answer>>
    BY DEF C!doMonitor, C!Count, C!queryVars
<1> DEFINE b == monitor.height
           found == C!Requests(b) \cap pending
<1>1. PICK zero \in SUBSET found, from \in {loaded, <<txCountCommit, txCountAbort>>} :
          /\ pending' = pending \ found
          /\ txCountCommit' = from[1] + Cardinality((found \ zero) \cap filter[b])
          /\ txCountAbort' = from[2] + Cardinality((found \ zero) \ filter[b])
    <2>1. C!getTxnLatency(b) = found BY DEF C!getTxnLatency
    <2>2. \E zero \in SUBSET C!getTxnLatency(monitor.height) :
             \E from \in {loaded, <<txCountCommit, txCountAbort>>} :
                /\ pending' = pending \ C!getTxnLatency(monitor.height)
                /\ txCountCommit' = from[1] + C!Cardinality((C!getTxnLatency(monitor.height) \ zero)
                                                            \cap filter[monitor.height])
                /\ txCountAbort' = from[2] + C!Cardinality((C!getTxnLatency(monitor.height) \ zero)
                                                           \ filter[monitor.height])
        BY Zenon DEF C!Count
    <2>3. \A S : C!Cardinality(S) = Cardinality(S) BY DEF C!Cardinality, Cardinality
    <2> HIDE DEF found
    <2> QED BY <2>1, <2>2, <2>3, Zenon
<1>2. /\ b \in C!Executed /\ b \in Nat /\ loaded' = <<0, 0>>
      /\ monitor' = [monitor EXCEPT !.at = "poll", !.height = b + 1]
    BY DEF C!Count, CountersSound
<1>3. BlocksSound' BY <1>0 DEF BlocksSound, C!Executed, C!Requests
<1>4. ShownSound' BY <1>0 DEF ShownSound, C!Executed, C!Requests, C!None
<1>5. C!Begun' = C!Begun BY <1>0 DEF C!Begun
<1>6. ThreadsSound' BY <1>0, <1>1, <1>5 DEF ThreadsSound
<1>7. /\ from[1] \in Nat /\ from[2] \in Nat
      /\ from[1] <= Cardinality(CommittedBehind)
      /\ from[1] + from[2] <= Cardinality(C!Begun \ pending)
    BY <1>1 DEF CountersSound, Covered
<1>8. /\ monitor'.height = b + 1 /\ monitor'.at = "poll"
      /\ monitor' \in [at : {"top", "poll", "wait", "count", "done"}, height : Nat, tries : Int]
    <2>1. monitor \in [at : {"top", "poll", "wait", "count", "done"}, height : Nat, tries : Int]
        BY DEF CountersSound
    <2>2. b + 1 \in Nat BY <1>2
    <2> HIDE DEF b
    <2> QED BY <1>2, <2>1, <2>2
<1>9. b + 1 \in DOMAIN blocks /\ C!Requests(b) = blocks[b + 1] /\ C!Requests(b) \subseteq Digests
    BY <1>2 DEF BlocksSound, C!Requests
<1>10. found \subseteq Digests /\ found \subseteq C!Begun
    <2>1. found \subseteq Digests BY <1>9
    <2>2. found \subseteq pending OBVIOUS
    <2> QED BY <2>1, <2>2, NoDigestIsNone DEF ThreadsSound
<1>11. CommittedBehind' = CommittedBehind \cup filter[b] /\ CommittedBehind \cap filter[b] = {}
    <2>1. C!Polled' = C!Polled \cup {b}
        <3>1. C!Executed' = C!Executed /\ C!Executed \subseteq Int BY <1>0, <1>3 DEF C!Executed, BlocksSound
        <3>2. \A c \in C!Executed : c < b + 1 <=> (c < b \/ c = b) BY <1>2, <3>1
        <3> QED BY <1>2, <1>8, <3>1, <3>2 DEF C!Polled
    <2>2. CommittedBehind' = CommittedBehind \cup filter[b] BY <1>0, <2>1 DEF CommittedBehind
    <2>3. ASSUME NEW c \in C!Polled PROVE filter[c] \cap filter[b] = {}
        <3>1. c \in C!Executed /\ c # b /\ c \in Int BY <1>2 DEF C!Polled, BlocksSound
        <3>2. c + 1 \in DOMAIN blocks /\ c + 1 # b + 1 BY <1>2, <3>1 DEF BlocksSound
        <3>3. blocks[c + 1] \cap blocks[b + 1] = {} BY <1>9, <3>2 DEF BlocksSound
        <3>4. filter[c] \subseteq blocks[c + 1] /\ filter[b] \subseteq blocks[b + 1]
            BY <1>2, <3>1 DEF BlocksSound, C!Requests
        <3> QED BY <3>3, <3>4
    <2> QED BY <2>2, <2>3 DEF CommittedBehind
<1> HIDE DEF b, found
<1>12. (C!Begun \ pending)' = (C!Begun \ pending) \cup found /\ (C!Begun \ pending) \cap found = {}
    BY <1>1, <1>5, <1>10 DEF found
<1>13. filter[b] \subseteq Digests BY <1>2, <1>9 DEF BlocksSound
<1>14. CommittedBehind' \subseteq Digests BY <1>3, BehindDigests
<1> DEFINE yes == (found \ zero) \cap filter[b]
           no == (found \ zero) \ filter[b]
<1>15. /\ Cardinality(yes) \in Nat /\ Cardinality(no) \in Nat
       /\ IsFiniteSet(found) /\ IsFiniteSet(filter[b]) /\ IsFiniteSet(CommittedBehind)
       /\ IsFiniteSet(C!Begun \ pending) /\ IsFiniteSet(yes) /\ IsFiniteSet(no)
       /\ Cardinality(yes) <= Cardinality(filter[b])
    <2>1. yes \subseteq found /\ no \subseteq found /\ yes \subseteq filter[b] OBVIOUS
    <2>2. CommittedBehind \subseteq Digests BY <1>11, <1>14
    <2>3. C!Begun \ pending \subseteq Digests BY BegunDigests
    <2> HIDE DEF yes, no
    <2> QED BY <1>10, <1>13, <2>1, <2>2, <2>3, Larger
<1>16. Cardinality(yes) + Cardinality(no) <= Cardinality(found)
    <2>1. yes \cap no = {} /\ yes \cup no \subseteq found OBVIOUS
    <2> HIDE DEF yes, no
    <2>2. Cardinality(yes \cup no) = Cardinality(yes) + Cardinality(no) - Cardinality(yes \cap no)
        BY <1>15, FS_Union
    <2>3. Cardinality(yes \cap no) = 0 BY <2>1, FS_EmptySet
    <2>4. Cardinality(yes \cup no) <= Cardinality(found) BY <1>15, <2>1, FS_Subset
    <2> QED BY <1>15, <2>2, <2>3, <2>4
<1>17. Cardinality(CommittedBehind') = Cardinality(CommittedBehind) + Cardinality(filter[b])
    <2>1. Cardinality(CommittedBehind \cup filter[b])
            = Cardinality(CommittedBehind) + Cardinality(filter[b]) - Cardinality(CommittedBehind \cap filter[b])
        BY <1>15, FS_Union
    <2>2. Cardinality(CommittedBehind \cap filter[b]) = 0 BY <1>11, FS_EmptySet
    <2>3. Cardinality(CommittedBehind) \in Nat /\ Cardinality(filter[b]) \in Nat BY <1>15, FS_CardinalityType
    <2> QED BY <1>11, <2>1, <2>2, <2>3
<1>18. Cardinality((C!Begun \ pending)') = Cardinality(C!Begun \ pending) + Cardinality(found)
    <2> DEFINE B == C!Begun \ pending
    <2>1. IsFiniteSet(B) /\ B \cap found = {} /\ (C!Begun \ pending)' = B \cup found BY <1>12, <1>15
    <2> HIDE DEF B
    <2>2. Cardinality(B \cup found) = Cardinality(B) + Cardinality(found) - Cardinality(B \cap found)
        BY <1>15, <2>1, FS_Union
    <2>3. Cardinality(B \cap found) = 0 BY <2>1, FS_EmptySet
    <2>4. Cardinality(B) \in Nat /\ Cardinality(found) \in Nat BY <1>15, <2>1, FS_CardinalityType
    <2>5. Cardinality(B \cup found) = Cardinality(B) + Cardinality(found) BY <2>2, <2>3, <2>4
    <2> QED BY <2>1, <2>5 DEF B
<1>19. /\ Cardinality(CommittedBehind) \in Nat /\ Cardinality(filter[b]) \in Nat
       /\ Cardinality(found) \in Nat /\ Cardinality(C!Begun \ pending) \in Nat
    BY <1>15, FS_CardinalityType
<1> HIDE DEF yes, no
<1>20. txCountCommit' = from[1] + Cardinality(yes) /\ txCountAbort' = from[2] + Cardinality(no)
    BY <1>1 DEF yes, no
<1>21. /\ txCountCommit' \in Nat /\ txCountAbort' \in Nat
       /\ txCountCommit' <= Cardinality(CommittedBehind')
       /\ txCountCommit' + txCountAbort' <= Cardinality((C!Begun \ pending)')
    <2> DEFINE cb == Cardinality(CommittedBehind)
               bp == Cardinality(C!Begun \ pending)
               f1 == Cardinality(filter[b])
               f2 == Cardinality(found)
               y == Cardinality(yes)
               n == Cardinality(no)
    <2>1. /\ cb \in Nat /\ bp \in Nat /\ f1 \in Nat /\ f2 \in Nat /\ y \in Nat /\ n \in Nat
          /\ from[1] \in Nat /\ from[2] \in Nat /\ from[1] <= cb /\ from[1] + from[2] <= bp
          /\ y <= f1 /\ y + n <= f2
        BY <1>7, <1>15, <1>16, <1>19
    <2>2. /\ Cardinality(CommittedBehind') = cb + f1 /\ Cardinality((C!Begun \ pending)') = bp + f2
          /\ txCountCommit' = from[1] + y /\ txCountAbort' = from[2] + n
        BY <1>17, <1>18, <1>20
    <2> HIDE DEF cb, bp, f1, f2, y, n
    <2> QED BY <2>1, <2>2
<1>22. CountersSound'
    <2>1. Covered(<<txCountCommit, txCountAbort>>)' BY <1>21 DEF Covered
    <2>2. loaded' \in Nat \X Nat /\ loaded'[1] = 0 /\ loaded'[2] = 0 BY <1>2
    <2>3. Covered(loaded)'
        <3>1. Cardinality(CommittedBehind') \in Nat /\ Cardinality((C!Begun \ pending)') \in Nat
            BY <1>17, <1>18, <1>19
        <3> QED BY <2>2, <3>1 DEF Covered
    <2> QED BY <1>8, <1>21, <2>1, <2>2, <2>3 DEF CountersSound
<1> QED BY <1>3, <1>4, <1>6, <1>22

\* The other steps of the monitor, of the status thread, of the engine and of the
\* users; the blocks behind the monitor do not become fewer.
LEMMA QuietInv ==
    ASSUME ClientInv,
           UNCHANGED <<thread, sentRequests, pending, blocks, taskQueue, filter, inserting, newest>>,
           cache' \in Seq(C!Executed),
           \A a \in answer' : /\ a.block \in C!Executed /\ a.tx \in C!Requests(a.block)
                              /\ a.valid = (a.tx \in filter[a.block])
    PROVE  /\ ThreadsSound' /\ BlocksSound' /\ ShownSound'
           /\ C!Executed' = C!Executed /\ (C!Begun \ pending)' = C!Begun \ pending
<1>1. C!Executed' = C!Executed /\ \A b : C!Requests(b)' = C!Requests(b) BY DEF C!Executed, C!Requests
<1>2. C!Begun' = C!Begun BY DEF C!Begun
<1>3. ThreadsSound' BY <1>2 DEF ClientInv, ThreadsSound
<1>4. BlocksSound' BY <1>1 DEF ClientInv, BlocksSound
<1>5. ShownSound' BY <1>1 DEF ClientInv, ShownSound, C!None
<1> QED BY <1>1, <1>2, <1>3, <1>4, <1>5

LEMMA MonitorInv == ASSUME ClientInv, C!doMonitor PROVE ClientInv'
<1>0. UNCHANGED <<thread, sentRequests, blocks, taskQueue, filter, inserting, newest, answer>>
    BY DEF C!doMonitor, C!queryVars
<1>1. CASE C!Count BY <1>1, CountInv
<1>2. CASE ~ C!Count
    <2>1. C!getTop \/ C!Poll \/ C!getLightBlock \/ C!Timeout BY <1>2 DEF C!doMonitor
    <2>2. UNCHANGED <<pending, txCountCommit, txCountAbort>>
        BY <2>1 DEF C!getTop, C!Poll, C!getLightBlock, C!Timeout
    <2>3. cache \in Seq(C!Executed) BY DEF ClientInv, ShownSound
    <2>4. cache' \in Seq(C!Executed)
        <3>1. CASE C!getLightBlock BY <2>3, <3>1, GetCopy DEF C!getLightBlock
        <3>2. CASE ~ C!getLightBlock BY <2>1, <2>3, <3>2 DEF C!getTop, C!Poll, C!Timeout
        <3> QED BY <3>1, <3>2
    <2>5. /\ ThreadsSound' /\ BlocksSound' /\ ShownSound'
          /\ C!Executed' = C!Executed /\ (C!Begun \ pending)' = C!Begun \ pending
        <3>1. \A a \in answer' : /\ a.block \in C!Executed /\ a.tx \in C!Requests(a.block)
                                 /\ a.valid = (a.tx \in filter[a.block])
            BY <1>0 DEF ClientInv, ShownSound
        <3> QED BY <1>0, <2>2, <2>4, <3>1, QuietInv
    <2>6. monitor \in [at : {"top", "poll", "wait", "count", "done"}, height : Nat, tries : Int]
        BY DEF ClientInv, CountersSound
    <2>7. CASE C!getTop
        <3>1. /\ txCountCommit' = 0 /\ txCountAbort' = 0 /\ loaded' = <<0, 0>>
            BY <2>2, <2>7 DEF C!getTop, ClientInv, CountersSound
        <3>2. newest + 1 \in Nat
            BY DEF ClientInv, ShownSound, BlocksSound
        <3>3. /\ monitor' \in [at : {"top", "poll", "wait", "count", "done"}, height : Nat, tries : Int]
              /\ monitor'.at # "count"
            <4>1. CASE monitor' = [monitor EXCEPT !.at = "poll", !.height = newest + 1]
                BY <2>6, <3>2, <4>1
            <4>2. CASE monitor' = [monitor EXCEPT !.tries = monitor.tries + 1]
                BY <2>6, <2>7, <4>2 DEF C!getTop
            <4>3. CASE monitor' = [monitor EXCEPT !.at = "poll", !.height = 1]
                BY <2>6, <4>3
            <4> QED BY <2>7, <4>1, <4>2, <4>3 DEF C!getTop
        <3>4. Covered(<<0, 0>>)'
            <4>1. CommittedBehind' \subseteq Digests BY <2>5, BehindDigests
            <4>2. (C!Begun \ pending)' \subseteq Digests BY BegunDigests
            <4>3. Cardinality(CommittedBehind') \in Nat /\ Cardinality((C!Begun \ pending)') \in Nat
                BY <4>1, <4>2, Larger
            <4> QED BY <4>3 DEF Covered
        <3>5. CountersSound' BY <3>1, <3>3, <3>4 DEF CountersSound
        <3> QED BY <2>5, <3>5 DEF ClientInv
    <2>8. CASE ~ C!getTop
        <3>1. /\ monitor'.height = monitor.height /\ monitor.at # "top" /\ monitor'.at # "top"
              /\ monitor' \in [at : {"top", "poll", "wait", "count", "done"}, height : Nat, tries : Int]
              /\ monitor'.at = "count" => C!Contains(cache, monitor.height)
            BY <2>1, <2>6, <2>8 DEF C!Poll, C!getLightBlock, C!Timeout
        <3>2. CommittedBehind' = CommittedBehind
            BY <1>0, <2>5, <3>1 DEF CommittedBehind, C!Polled
        <3>3. monitor'.at = "count" => monitor'.height \in C!Executed'
            BY <2>3, <2>5, <3>1 DEF C!Contains
        <3>4. loaded' \in {loaded, <<txCountCommit, txCountAbort>>}
            BY <2>1, <2>8 DEF C!Poll, C!getLightBlock, C!Timeout
        <3>5. Covered(<<txCountCommit, txCountAbort>>) /\ Covered(loaded) BY DEF ClientInv, CountersSound
        <3>6. Covered(<<txCountCommit, txCountAbort>>)' /\ Covered(loaded)'
            BY <2>2, <2>5, <3>2, <3>4, <3>5 DEF Covered
        <3>7. txCountCommit' \in Nat /\ txCountAbort' \in Nat /\ loaded' \in Nat \X Nat
            BY <2>2, <3>4 DEF ClientInv, CountersSound
        <3>8. CountersSound' BY <3>1, <3>3, <3>6, <3>7 DEF CountersSound
        <3> QED BY <2>5, <3>8 DEF ClientInv
    <2> QED BY <2>7, <2>8
<1> QED BY <1>1, <1>2

LEMMA OthersInv ==
    ASSUME ClientInv, C!doStatus \/ C!waitUntilFinish \/ C!User \/ UNCHANGED clientVars
    PROVE  ClientInv'
<1>0. UNCHANGED <<thread, sentRequests, pending, blocks, taskQueue, filter, inserting, newest,
                  monitor, loaded>>
    BY DEF C!doStatus, C!waitUntilFinish, C!User, C!clientVars, C!peerVars, clientVars
<1>1. cache \in Seq(C!Executed) BY DEF ClientInv, ShownSound
<1>2. /\ cache' \in Seq(C!Executed)
      /\ \A a \in answer' : /\ a.block \in C!Executed /\ a.tx \in C!Requests(a.block)
                            /\ a.valid = (a.tx \in filter[a.block])
    <2>1. CASE C!User
        <3>1. CASE C!getTransaction
            BY <1>1, <3>1 DEF C!getTransaction, ClientInv, ShownSound
        <3>2. CASE C!getTxWithProof
            <4>1. PICK q \in query :
                     /\ C!tryGetCopy(q.at)
                     /\ \/ /\ C!Contains(cache, q.at) /\ q.tx \in C!Requests(q.at)
                           /\ answer' = {[tx |-> q.tx, block |-> q.at, valid |-> q.tx \in filter[q.at]]}
                        \/ answer' = answer
                BY <3>2, Zenon DEF C!getTxWithProof
            <4>2. C!Contains(cache, q.at) => q.at \in C!Executed BY <1>1 DEF C!Contains
            <4>3. cache' \in Seq(C!Executed) BY <1>1, <4>1, GetCopy
            <4> QED BY <4>1, <4>2, <4>3 DEF ClientInv, ShownSound
        <3>3. CASE C!getBlock
            <4>1. answer' = answer /\ \E b : C!tryGetCopy(b) BY <3>3 DEF C!getBlock, C!queryVars
            <4> QED BY <1>1, <4>1, GetCopy DEF ClientInv, ShownSound
        <3> QED BY <2>1, <3>1, <3>2, <3>3 DEF C!User
    <2>2. CASE ~ C!User
        <3>1. UNCHANGED <<cache, answer>>
            BY <2>2 DEF C!doStatus, C!waitUntilFinish, C!peerVars, C!queryVars, clientVars
        <3> QED BY <3>1 DEF ClientInv, ShownSound
    <2> QED BY <2>1, <2>2
<1>3. /\ ThreadsSound' /\ BlocksSound' /\ ShownSound'
      /\ C!Executed' = C!Executed /\ (C!Begun \ pending)' = C!Begun \ pending
    BY <1>0, <1>2, QuietInv
<1>4. CommittedBehind' = CommittedBehind BY <1>0, <1>3 DEF CommittedBehind, C!Polled
<1>5. <<txCountCommit, txCountAbort>>' \in {<<txCountCommit, txCountAbort>>, <<0, 0>>}
    BY DEF C!doStatus, C!waitUntilFinish, C!User, C!clientVars, clientVars
<1>6. CountersSound'
    <2>1. CASE UNCHANGED <<txCountCommit, txCountAbort>>
        <3>1. Covered(<<txCountCommit, txCountAbort>>)' /\ Covered(loaded)'
            BY <1>0, <1>3, <1>4, <2>1, SameCounters DEF ClientInv
        <3> QED BY <1>0, <1>3, <2>1, <3>1 DEF ClientInv, CountersSound
    <2>2. CASE txCountCommit' = 0 /\ txCountAbort' = 0
        <3>1. Cardinality(CommittedBehind') \in Nat /\ Cardinality((C!Begun \ pending)') \in Nat
            <4>1. CommittedBehind' \subseteq Digests BY <1>3, BehindDigests
            <4>2. (C!Begun \ pending)' \subseteq Digests BY BegunDigests
            <4> QED BY <4>1, <4>2, Larger
        <3>2. Covered(<<txCountCommit, txCountAbort>>)' BY <2>2, <3>1 DEF Covered
        <3>3. Covered(loaded)' BY <1>0, <1>3, <1>4 DEF Covered, ClientInv, CountersSound
        <3> QED BY <1>0, <1>3, <2>2, <3>2, <3>3 DEF ClientInv, CountersSound
    <2> QED BY <1>5, <2>1, <2>2
<1> QED BY <1>3, <1>6 DEF ClientInv

\* Where each request of a client is, for any number of threads, requests and
\* blocks, any size of the cache and any failures: begun, pending, in one block,
\* counted at most once.
THEOREM ClientInvariance == MCSpec => []ClientInv
<1>1. MCInit => ClientInv BY ClientInit DEF MCInit
<1>2. ClientInv /\ [MCNext]_all => ClientInv'
    <2> SUFFICES ASSUME ClientInv, [MCNext]_all PROVE ClientInv' OBVIOUS
    <2>1. CASE UNCHANGED clientVars BY <2>1, OthersInv
    <2>2. CASE C!Next
        BY <2>2, DoWorkInv, OrderInv, ExecuteInv, MonitorInv, OthersInv DEF C!Next
    <2> QED BY <2>1, <2>2 DEF MCNext, all, BarrierAlone, RaftAlone, ZmqAlone, PoolsAlone, ClientAlone
<1> QED BY <1>1, <1>2, PTL DEF MCSpec

\* MeasuredTruly: the client reports at most what happened, however sending,
\* polling, execution and the reset after the warm-up interleave, and users are
\* told the outcome that the execution gave (StatusThread, UserRPCController).
THEOREM MeasurementsAreTrue == MCSpec => []MeasuredTruly
<1>1. ASSUME ClientInv PROVE MeasuredTruly
    <2>1. /\ txCountCommit \in Nat /\ txCountAbort \in Nat
          /\ txCountCommit <= Cardinality(CommittedBehind)
          /\ txCountCommit + txCountAbort <= Cardinality(C!Begun \ pending)
        BY <1>1 DEF ClientInv, CountersSound, Covered
    <2> DEFINE P == pending \ {C!NoDigest}
               B == C!Begun \ pending
    <2>2. P \cup B = C!Begun /\ P \cap B = {}
        BY <1>1, NoDigestIsNone, BegunDigests DEF ClientInv, ThreadsSound
    <2>3. C!Begun \subseteq Digests BY BegunDigests
    <2> HIDE DEF P, B
    <2>4. /\ IsFiniteSet(P) /\ IsFiniteSet(B) /\ Cardinality(P) \in Nat /\ Cardinality(B) \in Nat
        <3>1. P \subseteq C!Begun /\ B \subseteq C!Begun BY <2>2
        <3> QED BY <2>3, <3>1, Larger
    <2>5. Cardinality(P \cup B) = Cardinality(P) + Cardinality(B) - Cardinality(P \cap B)
        BY <2>4, FS_Union
    <2>6. Cardinality(P \cap B) = 0 BY <2>2, FS_EmptySet
    <2>7. Cardinality(C!Begun) = Cardinality(P) + Cardinality(B)
        <3>1. Cardinality(P \cup B) = Cardinality(P) + Cardinality(B) BY <2>4, <2>5, <2>6
        <3> HIDE DEF C!Begun
        <3> QED BY <2>2, <3>1
    <2>8. txCountCommit + txCountAbort + Cardinality(P) <= Cardinality(C!Begun)
        <3>1. txCountCommit + txCountAbort <= Cardinality(B) BY <2>1 DEF B
        <3> QED BY <2>1, <2>4, <2>7, <3>1
    <2>9. \A S : C!Cardinality(S) = Cardinality(S) BY DEF C!Cardinality, Cardinality
    <2>10. txCountCommit <= C!Cardinality(UNION {filter[b] : b \in C!Polled})
        BY <2>1, <2>9 DEF CommittedBehind
    <2>11. txCountCommit + txCountAbort + C!Cardinality(pending \ {C!NoDigest}) <= C!Cardinality(C!Begun)
        BY <2>8, <2>9 DEF P
    <2>12. monitor.at = "count" => monitor.height \in C!Executed BY <1>1 DEF ClientInv, CountersSound
    <2>13. \A a \in answer : /\ a.block \in C!Executed /\ a.tx \in C!Requests(a.block)
                             /\ a.valid = (a.tx \in filter[a.block])
        BY <1>1 DEF ClientInv, ShownSound
    <2> QED BY <2>10, <2>11, <2>12, <2>13, Zenon DEF MeasuredTruly, C!MeasuredTruly
<1> QED BY <1>1, ClientInvariance, PTL
=============================================================================
