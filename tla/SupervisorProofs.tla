-------------------------- MODULE SupervisorProofs --------------------------
(***************************************************************************)
(* For every number of tasks, supervisors, connections and sinks: the      *)
(* types are right, at most one supervisor exists, and the close of a      *)
(* connection is reported to the app once at most.                         *)
(*                                                                         *)
(* AtMostOneSupervisor is not inductive: a supervisor is spawned by a task *)
(* that won the swap of `supervising` some steps earlier.  The invariant   *)
(* that is counts everybody between winning the swap and lowering the flag *)
(* as an owner of the flag, and says that the owner is unique and that the *)
(* flag is up exactly when there is one.                                   *)
(***************************************************************************)
EXTENDS Supervisor, TLAPS

PcOK == /\ pc \in [Procs -> TaskPCs \cup SupPCs]
        /\ \A t \in Tasks : pc[t] \in TaskPCs
        /\ \A s \in Sups : pc[s] \in SupPCs

\* Between obtaining a connection and handing it on, and while it reads one,
\* a process really holds one.
Carrier(p) ==
  pc[p] \in {"c_install", "c_unflag", "c_swap", "c_spawn", "f_install",
            "f_unflag", "f_spawn", "s_install", "start", "loop"}

HeldOK == \A p \in Procs : Carrier(p) => held[p] \in Conns

TInv == TypeOK /\ HeldOK

(* A step of one process to a place its kind may be in keeps pc well typed. *)
LEMMA StepPc ==
  ASSUME PcOK, NEW p \in Procs, NEW from, NEW to \in TaskPCs \cup SupPCs,
         p \in Tasks => to \in TaskPCs, p \in Sups => to \in SupPCs,
         Step(p, from, to)
  PROVE  PcOK'
  BY DEF PcOK, Step, Goto, Procs

LEMMA TypeInit == Init => TInv
  <1> SUFFICES ASSUME Init PROVE TInv
    OBVIOUS
  <1>1. PcOK
    BY DEF Init, PcOK, Procs, TaskPCs, SupPCs
  <1>2. HeldOK
    BY DEF Init, HeldOK, Carrier
  <1>3. QED
    BY <1>1, <1>2 DEF Init, TInv, TypeOK, PcOK, ConnStates

(* A step that leaves a connection where it was, and ends in a place where  *)
(* none is needed or one is held, preserves HeldOK.                         *)
LEMMA StepHeld ==
  ASSUME TInv, NEW p \in Procs, NEW from, NEW to, Step(p, from, to),
         held' = held,
         to \in {"c_install", "c_unflag", "c_swap", "c_spawn", "f_install",
                "f_unflag", "f_spawn", "s_install", "start", "loop"}
           => held[p] \in Conns
  PROVE  HeldOK'
  BY DEF TInv, TypeOK, HeldOK, Carrier, Step, Goto, Procs

(* The actions shared by connect, app_did_foreground and the ladder.        *)
LEMMA TypeShared ==
  ASSUME TypeOK, NEW p \in Procs, NEW from, NEW to \in TaskPCs \cup SupPCs,
         NEW err \in TaskPCs \cup SupPCs,
         p \in Tasks => to \in TaskPCs /\ err \in TaskPCs,
         p \in Sups => to \in SupPCs /\ err \in SupPCs,
         \/ EstablishBegin(p, from, to, err)
         \/ EstablishOk(p, from, to)
         \/ EstablishErr(p, from, to)
         \/ Install(p, from, to)
         \/ Unflag(p, from, to)
  PROVE  TypeOK'
  <1>1. PcOK'
    <2>1. PcOK
      BY DEF TypeOK, PcOK
    <2>2. CASE EstablishBegin(p, from, to, err)
      BY <2>1, <2>2, StepPc DEF EstablishBegin
    <2>3. CASE ~EstablishBegin(p, from, to, err)
      BY <2>1, <2>3, StepPc DEF EstablishOk, EstablishErr, Install, Unflag
    <2>4. QED
      BY <2>2, <2>3
  <1> USE <1>1 DEF TypeOK, PcOK, connVars, coreVars, flagVars
  <1>2. CASE EstablishBegin(p, from, to, err)
    BY <1>2 DEF EstablishBegin
  <1>3. CASE EstablishOk(p, from, to)
    BY <1>3 DEF EstablishOk, ConnStates
  <1>4. CASE EstablishErr(p, from, to)
    BY <1>4 DEF EstablishErr
  <1>5. CASE Install(p, from, to)
    BY <1>5 DEF Install
  <1>6. CASE Unflag(p, from, to)
    BY <1>6 DEF Unflag
  <1>7. QED
    BY <1>2, <1>3, <1>4, <1>5, <1>6

LEMMA TypeSpawn ==
  ASSUME TypeOK, NEW t \in Tasks, NEW from, Spawn(t, from)
  PROVE  TypeOK'
  <1>1. PICK s \in Sups :
          /\ pc[s] = "idle"
          /\ pc' = [pc EXCEPT ![t] = "idle", ![s] = "start"]
          /\ held' = [held EXCEPT ![t] = NoConn, ![s] = held[t]]
          /\ heldSink' = [heldSink EXCEPT ![t] = NoSink, ![s] = heldSink[t]]
    BY DEF Spawn
  <1>2. PcOK'
    BY <1>1, SupervisorAssumption DEF TypeOK, PcOK, Procs, TaskPCs, SupPCs
  <1>3. QED
    BY <1>1, <1>2 DEF Spawn, TypeOK, PcOK, Procs, connVars, coreVars, flagVars

LEMMA TypeConnect ==
  ASSUME TypeOK, NEW t \in Tasks, Connect(t)
  PROVE  TypeOK'
  <1>0. PcOK /\ t \in Procs /\ t \notin Sups
    BY SupervisorAssumption DEF TypeOK, PcOK, Procs
  <1> USE DEF TaskPCs
  <1>1. CASE \E k \in Sinks : ConnectStart(t, k)
    <2>1. PICK k \in Sinks : ConnectStart(t, k)
      BY <1>1
    <2>2. PcOK'
      BY <1>0, <2>1, StepPc DEF ConnectStart
    <2>3. QED
      BY <1>0, <2>1, <2>2 DEF ConnectStart, TypeOK, PcOK, connVars, flagVars
  <1>2. CASE \/ EstablishBegin(t, "c_begin", "c_mint", "idle")
             \/ EstablishOk(t, "c_mint", "c_install")
             \/ EstablishErr(t, "c_mint", "idle")
             \/ Install(t, "c_install", "c_unflag")
             \/ Unflag(t, "c_unflag", "c_swap")
    BY <1>0, <1>2, TypeShared
  <1>3. CASE ConnectSwap(t)
    <2>1. Step(t, "c_swap", "idle") \/ Step(t, "c_swap", "c_spawn")
      BY <1>3 DEF ConnectSwap, Return
    <2>2. PcOK'
      BY <1>0, <2>1, StepPc
    <2>3. QED
      BY <1>0, <1>3, <2>2 DEF ConnectSwap, Return, TypeOK, PcOK, connVars, coreVars
  <1>4. CASE Spawn(t, "c_spawn")
    BY <1>4, TypeSpawn
  <1>5. QED
    BY <1>1, <1>2, <1>3, <1>4 DEF Connect

LEMMA TypeForeground ==
  ASSUME TypeOK, NEW t \in Tasks, Foreground(t)
  PROVE  TypeOK'
  <1>0. PcOK /\ t \in Procs /\ t \notin Sups
    BY SupervisorAssumption DEF TypeOK, PcOK, Procs
  <1> USE DEF TaskPCs
  <1>1. CASE ForegroundStart(t)
    <2>1. PcOK'
      BY <1>0, <1>1, StepPc DEF ForegroundStart
    <2>2. QED
      BY <1>1, <2>1 DEF ForegroundStart, TypeOK, PcOK, connVars, coreVars, flagVars
  <1>2. CASE ForegroundSwap(t)
    <2>1. PcOK'
      BY <1>0, <1>2, StepPc DEF ForegroundSwap
    <2>2. QED
      BY <1>2, <2>1 DEF ForegroundSwap, TypeOK, PcOK, connVars, coreVars
  <1>3. CASE ForegroundSink(t)
    <2>1. PcOK'
      BY <1>0, <1>3, StepPc DEF ForegroundSink
    <2>2. QED
      BY <1>3, <2>1 DEF ForegroundSink, TypeOK, PcOK, connVars, coreVars, flagVars
  <1>4. CASE \/ EstablishBegin(t, "f_begin", "f_mint", "f_clear")
             \/ EstablishOk(t, "f_mint", "f_install")
             \/ EstablishErr(t, "f_mint", "f_clear")
             \/ Install(t, "f_install", "f_unflag")
             \/ Unflag(t, "f_unflag", "f_spawn")
    BY <1>0, <1>4, TypeShared
  <1>5. CASE Spawn(t, "f_spawn")
    BY <1>5, TypeSpawn
  <1>6. CASE ForegroundClear(t)
    <2>1. PcOK'
      BY <1>0, <1>6, StepPc DEF ForegroundClear, Return
    <2>2. QED
      BY <1>6, <2>1 DEF ForegroundClear, Return, TypeOK, PcOK, connVars, coreVars
  <1>7. QED
    BY <1>1, <1>2, <1>3, <1>4, <1>5, <1>6 DEF Foreground

(* disconnect and forget_gateway.                                           *)
LEMMA TypeStop ==
  ASSUME TypeOK, NEW t \in Tasks, Disconnect(t) \/ Forget(t)
  PROVE  TypeOK'
  <1>0. PcOK /\ t \in Procs /\ t \notin Sups
    BY SupervisorAssumption DEF TypeOK, PcOK, Procs
  <1> USE DEF TaskPCs
  <1>1. CASE StopFlagUp(t, "d_notify") \/ StopFlagUp(t, "g_notify")
    <2>1. PcOK'
      BY <1>0, <1>1, StepPc DEF StopFlagUp
    <2>2. QED
      BY <1>1, <2>1 DEF StopFlagUp, TypeOK, PcOK, connVars, coreVars
  <1>2. CASE NotifyWaiters(t, "d_notify", "d_take") \/ NotifyWaiters(t, "g_notify", "g_take")
    <2>1. PcOK'
      BY <1>0, <1>2, StepPc DEF NotifyWaiters
    <2>2. notified' \in [Sups -> BOOLEAN]
      BY <1>2 DEF NotifyWaiters, TypeOK
    <2>3. QED
      BY <1>2, <2>1, <2>2 DEF NotifyWaiters, TypeOK, PcOK, connVars, coreVars, flagVars
  <1>3. CASE DisconnectTake(t)
    <2>1. PcOK'
      BY <1>0, <1>3, StepPc DEF DisconnectTake
    <2>2. QED
      BY <1>0, <1>3, <2>1 DEF DisconnectTake, TypeOK, PcOK, connVars, flagVars
  <1>4. CASE DisconnectClose(t)
    <2>1. PcOK'
      BY <1>0, <1>4, StepPc DEF DisconnectClose, Return
    <2>2. conn' \in [Conns -> ConnStates]
      BY <1>4 DEF DisconnectClose, CloseLocally, TypeOK, ConnStates
    <2>3. QED
      BY <1>4, <2>1, <2>2 DEF DisconnectClose, Return, TypeOK, PcOK, coreVars, flagVars
  <1>5. CASE ForgetTake(t)
    <2>1. PcOK'
      BY <1>0, <1>5, StepPc DEF ForgetTake
    <2>2. conn' \in [Conns -> ConnStates]
      BY <1>5 DEF ForgetTake, CloseLocally, TypeOK, ConnStates
    <2>3. QED
      BY <1>5, <2>1, <2>2 DEF ForgetTake, TypeOK, PcOK, flagVars
  <1>6. CASE ForgetWipe(t)
    <2>1. PcOK'
      BY <1>0, <1>6, StepPc DEF ForgetWipe
    <2>2. QED
      BY <1>6, <2>1 DEF ForgetWipe, TypeOK, PcOK, connVars, flagVars
  <1>7. QED
    BY <1>1, <1>2, <1>3, <1>4, <1>5, <1>6 DEF Disconnect, Forget

LEMMA TypeSupervise ==
  ASSUME TInv, NEW s \in Sups, Supervise(s)
  PROVE  TypeOK'
  <1>0. TypeOK /\ PcOK /\ s \in Procs /\ s \notin Tasks
    BY SupervisorAssumption DEF TInv, TypeOK, PcOK, Procs
  <1> USE DEF SupPCs
  <1>1. CASE SupStart(s) \/ SupStateChanged(s)
    <2> DEFINE st == conn[held[s]]
    <2>1. Step(s, "start", AfterState(st)) \/ Step(s, "loop", AfterState(st))
      BY <1>1 DEF SupStart, SupStateChanged
    <2>2. held[s] \in Conns
      BY <1>0, <2>1 DEF TInv, HeldOK, Carrier, Step
    <2>3. st \in ConnStates
      BY <1>0, <2>2 DEF TypeOK
    <2>4. AfterState(st) \in SupPCs
      BY <2>3 DEF AfterState, ConnStates
    <2>5. PcOK'
      BY <1>0, <2>1, <2>4, StepPc
    <2>6. closedSent' \in [Conns -> Nat]
      BY <1>0, <1>1, <2>2 DEF SupStart, SupStateChanged, Publish, TypeOK
    <2>7. QED
      BY <1>0, <1>1, <2>3, <2>5, <2>6
      DEF SupStart, SupStateChanged, TypeOK, PcOK, coreVars, flagVars
  <1>2. CASE SupDown(s)
    <2>1. PcOK'
      BY <1>0, <1>2, StepPc DEF SupDown
    <2>2. QED
      BY <1>0, <1>2, <2>1 DEF SupDown, TypeOK, PcOK, connVars, coreVars, flagVars
  <1>3. CASE SupArm(s) \/ SupWake(s)
    <2>1. PcOK'
      BY <1>0, <1>3, StepPc DEF SupArm, SupWake
    <2>2. QED
      BY <1>0, <1>3, <2>1 DEF SupArm, SupWake, TypeOK, PcOK, connVars, coreVars, flagVars
  <1>4. CASE SupReadFlag(s) \/ SupTimer(s) \/ SupExpired(s)
    <2>1. PcOK'
      BY <1>0, <1>4, StepPc DEF SupReadFlag, SupTimer, SupExpired
    <2>2. QED
      BY <1>0, <1>4, <2>1
      DEF SupReadFlag, SupTimer, SupExpired, TypeOK, PcOK, connVars, coreVars, flagVars
  <1>5. CASE \/ EstablishBegin(s, "s_begin", "s_mint", "ladder")
             \/ EstablishOk(s, "s_mint", "s_install")
             \/ EstablishErr(s, "s_mint", "ladder")
             \/ Install(s, "s_install", "start")
    BY <1>0, <1>5, TypeShared
  <1>6. CASE SupExit(s)
    <2>1. PcOK'
      BY <1>0, <1>6, StepPc DEF SupExit, Return
    <2>2. QED
      BY <1>0, <1>6, <2>1
      DEF SupExit, Return, TypeOK, PcOK, connVars, coreVars, ConnStates
  <1>7. QED
    BY <1>1, <1>2, <1>3, <1>4, <1>5, <1>6 DEF Supervise

LEMMA TypeStep == TInv /\ [Next]_vars => TypeOK'
  <1> SUFFICES ASSUME TInv, [Next]_vars PROVE TypeOK'
    OBVIOUS
  <1>0. TypeOK
    BY DEF TInv
  <1>1. CASE \E t \in Tasks : TaskStep(t)
    BY <1>0, <1>1, TypeConnect, TypeForeground, TypeStop DEF TaskStep
  <1>2. CASE \E s \in Sups : Supervise(s)
    BY <1>2, TypeSupervise
  <1>3. CASE \E c \in Conns : Lose(c)
    BY <1>0, <1>3 DEF Lose, TypeOK, procVars, coreVars, flagVars, ConnStates
  <1>4. CASE Pair \/ Login
    BY <1>0, <1>4 DEF Pair, Login, TypeOK, procVars, connVars, flagVars
  <1>5. CASE UNCHANGED vars
    BY <1>0, <1>5 DEF TypeOK, vars, procVars, connVars, coreVars, flagVars
  <1>6. QED
    BY <1>1, <1>2, <1>3, <1>4, <1>5 DEF Next

-----------------------------------------------------------------------------
(* HeldOK is preserved.                                                     *)

LEMMA HeldShared ==
  ASSUME TInv, NEW p \in Procs, NEW from, NEW to, NEW err,
         err \in {"idle", "f_clear", "ladder"},
         \/ EstablishBegin(p, from, to, err) /\ to \in {"c_mint", "f_mint", "s_mint"}
         \/ EstablishOk(p, from, to)
         \/ EstablishErr(p, from, err)
         \/ Install(p, from, to) /\ from \in {"c_install", "f_install", "s_install"}
         \/ Unflag(p, from, to) /\ from \in {"c_unflag", "f_unflag"}
  PROVE  HeldOK'
  <1>1. CASE EstablishBegin(p, from, to, err) /\ to \in {"c_mint", "f_mint", "s_mint"}
    BY <1>1, StepHeld DEF EstablishBegin
  <1>2. CASE EstablishOk(p, from, to)
    BY <1>2 DEF EstablishOk, TInv, TypeOK, HeldOK, Carrier, Step, Goto, Procs
  <1>3. CASE EstablishErr(p, from, err)
    BY <1>3, StepHeld DEF EstablishErr
  <1>4. CASE Install(p, from, to) /\ from \in {"c_install", "f_install", "s_install"}
    BY <1>4, StepHeld DEF Install, TInv, HeldOK, Carrier, Step
  <1>5. CASE Unflag(p, from, to) /\ from \in {"c_unflag", "f_unflag"}
    BY <1>5, StepHeld DEF Unflag, TInv, HeldOK, Carrier, Step
  <1>6. QED
    BY <1>1, <1>2, <1>3, <1>4, <1>5

LEMMA HeldReturn ==
  ASSUME TInv, NEW p \in Procs, NEW from, Return(p, from)
  PROVE  HeldOK'
  BY DEF Return, TInv, TypeOK, HeldOK, Carrier, Step, Goto, Procs

LEMMA HeldSpawn ==
  ASSUME TInv, NEW t \in Tasks, NEW from \in {"c_spawn", "f_spawn"}, Spawn(t, from)
  PROVE  HeldOK'
  <1>1. held[t] \in Conns
    BY DEF Spawn, TInv, HeldOK, Carrier, Procs
  <1>2. QED
    BY <1>1 DEF Spawn, TInv, TypeOK, HeldOK, Carrier, Procs

LEMMA HeldTask ==
  ASSUME TInv, NEW t \in Tasks, TaskStep(t)
  PROVE  HeldOK'
  <1>0. t \in Procs
    BY DEF Procs
  <1>1. CASE Connect(t)
    <2>1. CASE \E k \in Sinks : ConnectStart(t, k)
      BY <1>0, <2>1, StepHeld DEF ConnectStart
    <2>2. CASE ConnectSwap(t)
      <3>1. CASE supervising
        BY <1>0, <2>2, <3>1, HeldReturn DEF ConnectSwap
      <3>2. CASE ~supervising
        BY <1>0, <2>2, <3>2, StepHeld DEF ConnectSwap, TInv, HeldOK, Carrier, Step
      <3>3. QED
        BY <3>1, <3>2
    <2>3. QED
      BY <1>0, <1>1, <2>1, <2>2, HeldShared, HeldSpawn DEF Connect
  <1>2. CASE Foreground(t)
    <2>1. CASE ForegroundStart(t) \/ ForegroundSwap(t) \/ ForegroundSink(t)
      BY <1>0, <2>1, StepHeld DEF ForegroundStart, ForegroundSwap, ForegroundSink
    <2>2. CASE ForegroundClear(t)
      BY <1>0, <2>2, HeldReturn DEF ForegroundClear
    <2>3. QED
      BY <1>0, <1>2, <2>1, <2>2, HeldShared, HeldSpawn DEF Foreground
  <1>3. CASE Disconnect(t)
    <2>1. CASE StopFlagUp(t, "d_notify") \/ NotifyWaiters(t, "d_notify", "d_take")
      BY <1>0, <2>1, StepHeld DEF StopFlagUp, NotifyWaiters
    <2>2. CASE DisconnectTake(t)
      BY <1>0, <2>2 DEF DisconnectTake, TInv, TypeOK, HeldOK, Carrier, Step, Goto, Procs
    <2>3. CASE DisconnectClose(t)
      BY <1>0, <2>3, HeldReturn DEF DisconnectClose
    <2>4. QED
      BY <1>3, <2>1, <2>2, <2>3 DEF Disconnect
  <1>4. CASE Forget(t)
    BY <1>0, <1>4, StepHeld DEF Forget, StopFlagUp, NotifyWaiters, ForgetTake, ForgetWipe
  <1>5. QED
    BY <1>1, <1>2, <1>3, <1>4 DEF TaskStep

LEMMA HeldSupervise ==
  ASSUME TInv, NEW s \in Sups, Supervise(s)
  PROVE  HeldOK'
  <1>0. s \in Procs
    BY DEF Procs
  <1>1. CASE SupStart(s) \/ SupStateChanged(s)
    <2> DEFINE to == AfterState(conn[held[s]])
    <2>1. Step(s, "start", to) \/ Step(s, "loop", to)
      BY <1>1 DEF SupStart, SupStateChanged
    <2>2. held[s] \in Conns
      BY <1>0, <2>1 DEF TInv, HeldOK, Carrier, Step
    <2>3. held' = held
      BY <1>1 DEF SupStart, SupStateChanged
    <2> HIDE DEF to
    <2>4. QED
      BY <1>0, <2>1, <2>2, <2>3, StepHeld
  <1>2. CASE SupDown(s)
    BY <1>0, <1>2 DEF SupDown, TInv, TypeOK, HeldOK, Carrier, Step, Goto, Procs
  <1>3. CASE \/ SupArm(s) \/ SupReadFlag(s) \/ SupWake(s) \/ SupTimer(s)
             \/ SupExpired(s)
    BY <1>0, <1>3, StepHeld DEF SupArm, SupReadFlag, SupWake, SupTimer, SupExpired
  <1>4. CASE SupExit(s)
    BY <1>0, <1>4, HeldReturn DEF SupExit
  <1>5. QED
    BY <1>0, <1>1, <1>2, <1>3, <1>4, HeldShared DEF Supervise

LEMMA HeldStep == TInv /\ [Next]_vars => HeldOK'
  <1> SUFFICES ASSUME TInv, [Next]_vars PROVE HeldOK'
    OBVIOUS
  <1>1. CASE \/ \E c \in Conns : Lose(c)
             \/ Pair \/ Login \/ UNCHANGED vars
    BY <1>1 DEF Lose, Pair, Login, vars, procVars, TInv, HeldOK, Carrier
  <1>2. QED
    BY <1>1, HeldTask, HeldSupervise DEF Next

(* Every step of every instance of the specification is well typed.         *)
THEOREM TypeCorrect == Spec => []TypeOK
  <1>1. TInv /\ [Next]_vars => TInv'
    BY TypeStep, HeldStep DEF TInv
  <1>2. TInv => TypeOK
    BY DEF TInv
  <1>3. QED
    BY TypeInit, <1>1, <1>2, PTL DEF Spec

-----------------------------------------------------------------------------
(* The flag has exactly one owner, or is down.                              *)

UniqueOwner == \A p, q \in Owners : p = q

OInv == TInv /\ UniqueOwner /\ FlagHasOwner

\* What it means for process p to be an owner at place v.
OwnsAt(p, v) ==
  \/ /\ p \in Tasks
     /\ v \in {"c_spawn", "f_sink", "f_begin", "f_mint", "f_install",
               "f_unflag", "f_spawn", "f_clear"}
  \/ p \in Sups /\ v # "idle"

(* The three kinds of step: the mover's ownership does not change, it takes *)
(* the flag, or it lowers it.                                               *)
LEMMA OwnerKept ==
  ASSUME OInv, NEW p \in Procs, NEW from, NEW to, Step(p, from, to),
         OwnsAt(p, from) <=> OwnsAt(p, to), supervising' = supervising
  PROVE  UniqueOwner' /\ FlagHasOwner'
  <1>1. \A q \in Procs : OwnsFlag(q)' <=> OwnsFlag(q)
    BY DEF OInv, TInv, TypeOK, OwnsFlag, OwnsAt, Alive, Step, Goto
  <1>2. Owners' = Owners
    BY <1>1 DEF Owners, Procs
  <1>3. QED
    BY <1>2 DEF OInv, UniqueOwner, FlagHasOwner

LEMMA OwnerTakes ==
  ASSUME OInv, NEW p \in Procs, NEW from, NEW to, Step(p, from, to),
         OwnsAt(p, to), ~supervising, supervising'
  PROVE  UniqueOwner' /\ FlagHasOwner'
  <1>1. Owners = {}
    BY DEF OInv, FlagHasOwner
  <1>2. Owners' = {p}
    BY <1>1 DEF OInv, TInv, TypeOK, Owners, OwnsFlag, OwnsAt, Alive, Step, Goto, Procs
  <1>3. QED
    BY <1>2 DEF UniqueOwner, FlagHasOwner

LEMMA OwnerLowers ==
  ASSUME OInv, NEW p \in Procs, NEW from, NEW to, Step(p, from, to),
         OwnsAt(p, from), ~OwnsAt(p, to), ~supervising'
  PROVE  UniqueOwner' /\ FlagHasOwner'
  <1>1. p \in Owners
    BY DEF Owners, OwnsFlag, OwnsAt, Alive, Step
  <1>2. \A q \in Procs : q # p => ~OwnsFlag(q)
    BY <1>1 DEF OInv, UniqueOwner, Owners
  <1>3. Owners' = {}
    BY <1>2 DEF OInv, TInv, TypeOK, Owners, OwnsFlag, OwnsAt, Alive, Step, Goto, Procs
  <1>4. QED
    BY <1>3 DEF UniqueOwner, FlagHasOwner

(* Spawning hands the flag from the task to the supervisor.                 *)
LEMMA OwnerSpawn ==
  ASSUME OInv, NEW t \in Tasks, NEW from \in {"c_spawn", "f_spawn"}, Spawn(t, from)
  PROVE  UniqueOwner' /\ FlagHasOwner'
  <1>1. PICK s \in Sups : pc' = [pc EXCEPT ![t] = "idle", ![s] = "start"]
    BY DEF Spawn
  <1>2. t \in Owners
    BY DEF Spawn, Owners, OwnsFlag, Procs
  <1>3. supervising /\ supervising'
    BY <1>2 DEF OInv, FlagHasOwner, Spawn, flagVars
  <1>4. \A q \in Procs : q # t => ~OwnsFlag(q)
    BY <1>2 DEF OInv, UniqueOwner, Owners
  <1>5. Owners' = {s}
    BY <1>1, <1>4, SupervisorAssumption
    DEF OInv, TInv, TypeOK, Owners, OwnsFlag, Alive, Procs
  <1>6. QED
    BY <1>3, <1>5 DEF UniqueOwner, FlagHasOwner

(* establish, install and unflag never move the flag.                       *)
LEMMA OwnerShared ==
  ASSUME OInv, NEW p \in Procs, NEW from, NEW to, NEW err,
         OwnsAt(p, from) <=> OwnsAt(p, to), OwnsAt(p, from) <=> OwnsAt(p, err),
         \/ EstablishBegin(p, from, to, err)
         \/ EstablishOk(p, from, to)
         \/ EstablishErr(p, from, err)
         \/ Install(p, from, to)
         \/ Unflag(p, from, to)
  PROVE  UniqueOwner' /\ FlagHasOwner'
  <1>1. Step(p, from, to) \/ Step(p, from, err)
    BY DEF EstablishBegin, EstablishOk, EstablishErr, Install, Unflag
  <1>2. supervising' = supervising
    BY DEF EstablishBegin, EstablishOk, EstablishErr, Install, Unflag, flagVars
  <1>3. QED
    BY <1>1, <1>2, OwnerKept

LEMMA OwnerTask ==
  ASSUME OInv, NEW t \in Tasks, TaskStep(t)
  PROVE  UniqueOwner' /\ FlagHasOwner'
  <1>0. t \in Procs /\ t \notin Sups
    BY SupervisorAssumption DEF Procs
  <1> USE DEF OwnsAt
  <1>1. CASE Connect(t)
    <2>1. CASE \E k \in Sinks : ConnectStart(t, k)
      BY <1>0, <2>1, OwnerKept DEF ConnectStart, flagVars
    <2>2. CASE ConnectSwap(t)
      <3>1. CASE supervising
        BY <1>0, <2>2, <3>1, OwnerKept DEF ConnectSwap, Return
      <3>2. CASE ~supervising
        BY <1>0, <2>2, <3>2, OwnerTakes DEF ConnectSwap
      <3>3. QED
        BY <3>1, <3>2
    <2>3. QED
      BY <1>0, <1>1, <2>1, <2>2, OwnerShared, OwnerSpawn DEF Connect
  <1>2. CASE Foreground(t)
    <2>1. CASE ForegroundStart(t)
      BY <1>0, <2>1, OwnerKept DEF ForegroundStart, flagVars
    <2>2. CASE ForegroundSwap(t)
      <3>1. CASE supervising
        BY <1>0, <2>2, <3>1, OwnerKept DEF ForegroundSwap
      <3>2. CASE ~supervising
        BY <1>0, <2>2, <3>2, OwnerTakes DEF ForegroundSwap
      <3>3. QED
        BY <3>1, <3>2
    <2>3. CASE ForegroundSink(t)
      BY <1>0, <2>3, OwnerKept DEF ForegroundSink, flagVars
    <2>4. CASE ForegroundClear(t)
      BY <1>0, <2>4, OwnerLowers DEF ForegroundClear, Return
    <2>5. QED
      BY <1>0, <1>2, <2>1, <2>2, <2>3, <2>4, OwnerShared, OwnerSpawn DEF Foreground
  <1>3. CASE Disconnect(t)
    BY <1>0, <1>3, OwnerKept
    DEF Disconnect, StopFlagUp, NotifyWaiters, DisconnectTake, DisconnectClose,
        Return, flagVars
  <1>4. CASE Forget(t)
    BY <1>0, <1>4, OwnerKept
    DEF Forget, StopFlagUp, NotifyWaiters, ForgetTake, ForgetWipe, flagVars
  <1>5. QED
    BY <1>1, <1>2, <1>3, <1>4 DEF TaskStep

LEMMA OwnerSupervise ==
  ASSUME OInv, NEW s \in Sups, Supervise(s)
  PROVE  UniqueOwner' /\ FlagHasOwner'
  <1>0. s \in Procs /\ s \notin Tasks
    BY SupervisorAssumption DEF Procs
  <1>1. CASE SupStart(s) \/ SupStateChanged(s)
    <2> DEFINE to == AfterState(conn[held[s]])
    <2>1. Step(s, "start", to) \/ Step(s, "loop", to)
      BY <1>1 DEF SupStart, SupStateChanged
    <2>2. held[s] \in Conns
      BY <1>0, <2>1 DEF OInv, TInv, HeldOK, Carrier, Step
    <2>3. conn[held[s]] \in ConnStates
      BY <2>2 DEF OInv, TInv, TypeOK
    <2>4. to # "idle"
      BY <2>3 DEF AfterState, ConnStates
    <2>5. supervising' = supervising
      BY <1>1 DEF SupStart, SupStateChanged, flagVars
    <2> HIDE DEF to
    <2>6. QED
      BY <1>0, <2>1, <2>4, <2>5, OwnerKept DEF OwnsAt
  <1> USE DEF OwnsAt
  <1>2. CASE \/ SupDown(s) \/ SupArm(s) \/ SupReadFlag(s) \/ SupWake(s)
             \/ SupTimer(s) \/ SupExpired(s)
    BY <1>0, <1>2, OwnerKept
    DEF SupDown, SupArm, SupReadFlag, SupWake, SupTimer, SupExpired, flagVars
  <1>3. CASE SupExit(s)
    BY <1>0, <1>3, OwnerLowers DEF SupExit, Return
  <1>4. QED
    BY <1>0, <1>1, <1>2, <1>3, OwnerShared DEF Supervise

LEMMA OwnerStep == OInv /\ [Next]_vars => OInv'
  <1> SUFFICES ASSUME OInv, [Next]_vars PROVE OInv'
    OBVIOUS
  <1>1. TInv'
    BY TypeStep, HeldStep DEF OInv, TInv
  <1>2. CASE \/ \E c \in Conns : Lose(c)
             \/ Pair \/ Login \/ UNCHANGED vars
    <2>1. pc' = pc /\ supervising' = supervising
      BY <1>2 DEF Lose, Pair, Login, vars, procVars, flagVars
    <2>2. Owners' = Owners
      BY <2>1 DEF Owners, OwnsFlag, Alive
    <2>3. QED
      BY <1>1, <2>1, <2>2 DEF OInv, UniqueOwner, FlagHasOwner
  <1>3. QED
    BY <1>1, <1>2, OwnerTask, OwnerSupervise DEF Next, OInv

LEMMA OwnerInit == Init => OInv
  <1> SUFFICES ASSUME Init PROVE OInv
    OBVIOUS
  <1>1. Owners = {}
    BY SupervisorAssumption DEF Init, Owners, OwnsFlag, Alive, Procs
  <1>2. QED
    BY <1>1, TypeInit DEF Init, OInv, UniqueOwner, FlagHasOwner

(* `supervising` is up exactly while one process is bound to lower it: the  *)
(* core is never left with a raised flag and nobody running.                *)
THEOREM FlagNeverSticks == Spec => []FlagHasOwner
  <1>1. OInv => FlagHasOwner
    BY DEF OInv
  <1>2. QED
    BY OwnerInit, OwnerStep, <1>1, PTL DEF Spec

(* However connects, foregrounds, disconnects and the ladder interleave, at *)
(* most one supervisor task exists.                                         *)
THEOREM OneSupervisor == Spec => []AtMostOneSupervisor
  <1>1. OInv => AtMostOneSupervisor
    BY DEF OInv, UniqueOwner, AtMostOneSupervisor, Owners, OwnsFlag, Procs
  <1>2. QED
    BY OwnerInit, OwnerStep, <1>1, PTL DEF Spec

-----------------------------------------------------------------------------
(* One close is reported once.                                              *)

(* A close is reported by whoever carries the connection, which stops       *)
(* carrying it by that.  So: a connection has one carrier, nothing has been *)
(* reported of a connection that is carried, and the event loop is entered  *)
(* with an open connection only.                                            *)
OneCarrier ==
  \A p, q \in Procs : Carrier(p) /\ Carrier(q) /\ held[p] = held[q] => p = q

NotYetReported == \A p \in Procs : Carrier(p) => closedSent[held[p]] = 0

LoopSawOpen == \A s \in Sups : pc[s] = "loop" => seen[s] = "open"

RInv == TInv /\ OneCarrier /\ NotYetReported /\ LoopSawOpen /\ ClosedReportedOnce

(* A process moves, takes up no connection and reports nothing.             *)
LEMMA ReportKept ==
  ASSUME RInv, TInv', NEW p \in Procs, NEW from, NEW to, Step(p, from, to), to # "loop",
         closedSent' = closedSent,
         \A q \in Procs \ {p} : held'[q] = held[q],
         \A s \in Sups \ {p} : seen'[s] = seen[s],
         Carrier(p)' => Carrier(p) /\ held'[p] = held[p]
  PROVE  RInv'
  <1>1. pc'[p] = to /\ \A q \in Procs \ {p} : pc'[q] = pc[q]
    BY DEF RInv, TInv, TypeOK, Step, Goto
  <1>2. \A q \in Procs : Carrier(q)' => Carrier(q) /\ held'[q] = held[q]
    BY <1>1 DEF Carrier
  <1>3. OneCarrier' /\ NotYetReported' /\ ClosedReportedOnce'
    BY <1>2 DEF RInv, OneCarrier, NotYetReported, ClosedReportedOnce
  <1>4. LoopSawOpen'
    BY <1>1 DEF RInv, LoopSawOpen, Procs
  <1>5. QED
    BY <1>3, <1>4 DEF RInv

(* A new connection is one that nobody refers to.                           *)
LEMMA ReportEstablish ==
  ASSUME RInv, TInv', NEW p \in Procs, NEW from, NEW to, EstablishOk(p, from, to), to # "loop"
  PROVE  RInv'
  <1>1. PICK c \in Conns :
          /\ Unused(c)
          /\ closedSent' = [closedSent EXCEPT ![c] = 0]
          /\ held' = [held EXCEPT ![p] = c]
    BY DEF EstablishOk
  <1>2. /\ pc'[p] = to /\ held'[p] = c /\ closedSent'[c] = 0
        /\ \A q \in Procs \ {p} : pc'[q] = pc[q] /\ held'[q] = held[q] /\ held[q] # c
        /\ \A d \in Conns \ {c} : closedSent'[d] = closedSent[d]
    BY <1>1 DEF EstablishOk, RInv, TInv, TypeOK, Step, Goto, Unused
  <1>3. \A q \in Procs \ {p} : Carrier(q)' => Carrier(q)
    BY <1>2 DEF Carrier
  <1>4. OneCarrier'
    BY <1>2, <1>3 DEF RInv, OneCarrier
  <1>5. NotYetReported'
    BY <1>2, <1>3 DEF RInv, TInv, HeldOK, NotYetReported
  <1>6. LoopSawOpen' /\ ClosedReportedOnce'
    BY <1>2 DEF EstablishOk, RInv, LoopSawOpen, ClosedReportedOnce, Procs
  <1>7. QED
    BY <1>4, <1>5, <1>6 DEF RInv

(* Spawning hands the connection from the task to the supervisor.           *)
LEMMA ReportSpawn ==
  ASSUME RInv, TInv', NEW t \in Tasks, NEW from \in {"c_spawn", "f_spawn"}, Spawn(t, from)
  PROVE  RInv'
  <1>1. PICK s \in Sups :
          /\ pc[s] = "idle"
          /\ pc' = [pc EXCEPT ![t] = "idle", ![s] = "start"]
          /\ held' = [held EXCEPT ![t] = NoConn, ![s] = held[t]]
    BY DEF Spawn
  <1>2. t \in Procs /\ s \in Procs /\ t # s /\ Carrier(t) /\ ~Carrier(s)
    BY <1>1, SupervisorAssumption DEF Spawn, Carrier, Procs
  <1>3. /\ pc'[t] = "idle" /\ pc'[s] = "start" /\ held'[s] = held[t]
        /\ \A q \in Procs \ {t, s} : pc'[q] = pc[q] /\ held'[q] = held[q]
        /\ closedSent' = closedSent /\ seen' = seen
    BY <1>1, <1>2 DEF Spawn, RInv, TInv, TypeOK, connVars
  <1>4. ~Carrier(t)' /\ \A q \in Procs \ {t, s} : Carrier(q)' <=> Carrier(q)
    BY <1>3 DEF Carrier
  <1>5. OneCarrier' /\ NotYetReported'
    BY <1>2, <1>3, <1>4 DEF RInv, OneCarrier, NotYetReported
  <1>6. LoopSawOpen' /\ ClosedReportedOnce'
    BY <1>2, <1>3 DEF RInv, LoopSawOpen, ClosedReportedOnce, Procs
  <1>7. QED
    BY <1>5, <1>6 DEF RInv

(* The supervisor looks at the watch: it goes on with an open connection,   *)
(* or reports the close and lets go of the connection.                      *)
LEMMA ReportPublish ==
  ASSUME RInv, TInv', NEW s \in Sups, SupStart(s) \/ SupStateChanged(s)
  PROVE  RInv'
  <1> DEFINE c == held[s]
  <1>1. s \in Procs /\ Carrier(s) /\ c \in Conns /\ conn[c] \in ConnStates
    BY DEF SupStart, SupStateChanged, Step, Carrier, Procs, RInv, TInv, HeldOK, TypeOK
  <1>2. /\ pc'[s] = AfterState(conn[c]) /\ seen'[s] = conn[c] /\ held' = held
        /\ \A q \in Procs \ {s} : pc'[q] = pc[q]
        /\ \A z \in Sups \ {s} : seen'[z] = seen[z]
    BY <1>1 DEF SupStart, SupStateChanged, RInv, TInv, TypeOK, Step, Goto
  <1>3. \A q \in Procs \ {s} : Carrier(q)' => Carrier(q) /\ held[q] # c
    BY <1>1, <1>2 DEF Carrier, RInv, OneCarrier
  <1>4. CASE conn[c] = "open"
    <2>1. pc'[s] = "loop" /\ closedSent' = closedSent
      BY <1>2, <1>4 DEF AfterState, SupStart, SupStateChanged, Publish
    <2>2. \A q \in Procs : Carrier(q)' => Carrier(q)
      BY <1>1, <1>3
    <2>3. OneCarrier' /\ NotYetReported' /\ ClosedReportedOnce'
      BY <1>2, <2>1, <2>2 DEF RInv, OneCarrier, NotYetReported, ClosedReportedOnce
    <2>4. LoopSawOpen'
      BY <1>2, <1>4 DEF RInv, LoopSawOpen, Procs
    <2>5. QED
      BY <2>3, <2>4 DEF RInv
  <1>5. CASE conn[c] # "open"
    <2>1. pc'[s] \in {"exit", "down"}
      BY <1>1, <1>2, <1>5 DEF AfterState, ConnStates
    <2>2. closedSent'[c] = 1 /\ \A d \in Conns \ {c} : closedSent'[d] = closedSent[d]
      BY <1>1, <1>5 DEF SupStart, SupStateChanged, Publish, RInv, TInv, TypeOK, NotYetReported
    <2>3. ~Carrier(s)'
      BY <2>1 DEF Carrier
    <2>4. OneCarrier' /\ NotYetReported'
      BY <1>2, <1>3, <2>2, <2>3 DEF RInv, TInv, HeldOK, OneCarrier, NotYetReported
    <2>5. LoopSawOpen' /\ ClosedReportedOnce'
      BY <1>2, <2>1, <2>2 DEF RInv, LoopSawOpen, ClosedReportedOnce, Procs
    <2>6. QED
      BY <2>4, <2>5 DEF RInv
  <1>6. QED
    BY <1>4, <1>5

LEMMA ReportShared ==
  ASSUME RInv, TInv', NEW p \in Procs, NEW from, NEW to, NEW err,
         to # "loop", err \in {"idle", "f_clear", "ladder"},
         \/ EstablishBegin(p, from, to, err) /\ to \in {"c_mint", "f_mint", "s_mint"}
         \/ EstablishOk(p, from, to)
         \/ EstablishErr(p, from, err)
         \/ Install(p, from, to) /\ from \in {"c_install", "f_install", "s_install"}
         \/ Unflag(p, from, to) /\ from \in {"c_unflag", "f_unflag"}
  PROVE  RInv'
  <1>1. CASE EstablishOk(p, from, to)
    BY <1>1, ReportEstablish
  <1>2. CASE EstablishBegin(p, from, to, err) /\ to \in {"c_mint", "f_mint", "s_mint"}
    <2>1. \E w \in {to, err} : Step(p, from, w) /\ w # "loop" /\ ~Carrier(p)'
      BY <1>2 DEF EstablishBegin, Step, Goto, Carrier, RInv, TInv, TypeOK
    <2>2. QED
      BY <1>2, <2>1, ReportKept DEF EstablishBegin, connVars
  <1>3. CASE EstablishErr(p, from, err)
    <2>1. ~Carrier(p)'
      BY <1>3 DEF EstablishErr, Step, Goto, Carrier, RInv, TInv, TypeOK
    <2>2. QED
      BY <1>3, <2>1, ReportKept DEF EstablishErr, connVars
  <1>4. CASE \/ Install(p, from, to) /\ from \in {"c_install", "f_install", "s_install"}
             \/ Unflag(p, from, to) /\ from \in {"c_unflag", "f_unflag"}
    <2>1. Carrier(p) /\ Step(p, from, to)
      BY <1>4 DEF Install, Unflag, Step, Carrier
    <2>2. QED
      BY <1>4, <2>1, ReportKept DEF Install, Unflag, connVars
  <1>5. QED
    BY <1>1, <1>2, <1>3, <1>4

LEMMA ReportTask ==
  ASSUME RInv, TInv', NEW t \in Tasks, TaskStep(t)
  PROVE  RInv'
  <1>0. t \in Procs /\ t \notin Sups
    BY SupervisorAssumption DEF Procs
  <1>1. ASSUME NEW from, NEW to, Step(t, from, to), to # "loop", closedSent' = closedSent,
               \A q \in Procs \ {t} : held'[q] = held[q], seen' = seen,
               \/ to \notin {"c_install", "c_unflag", "c_swap", "c_spawn", "f_install",
                            "f_unflag", "f_spawn", "s_install", "start"}
               \/ from = "c_swap" /\ held' = held
        PROVE  RInv'
    <2>1. Carrier(t)' => Carrier(t) /\ held'[t] = held[t]
      BY <1>0, <1>1 DEF Step, Goto, Carrier, RInv, TInv, TypeOK
    <2>2. QED
      BY <1>0, <1>1, <2>1, ReportKept
  <1>2. CASE Connect(t)
    <2>1. CASE \E k \in Sinks : ConnectStart(t, k)
      BY <1>1, <2>1 DEF ConnectStart, connVars
    <2>2. CASE ConnectSwap(t)
      <3>1. CASE supervising
        BY <1>0, <1>1, <2>2, <3>1 DEF ConnectSwap, Return, connVars, RInv, TInv, TypeOK
      <3>2. CASE ~supervising
        BY <1>1, <2>2, <3>2 DEF ConnectSwap, connVars
      <3>3. QED
        BY <3>1, <3>2
    <2>3. QED
      BY <1>0, <1>2, <2>1, <2>2, ReportShared, ReportSpawn DEF Connect
  <1>3. CASE Foreground(t)
    <2>1. CASE ForegroundStart(t) \/ ForegroundSwap(t) \/ ForegroundSink(t)
      BY <1>1, <2>1 DEF ForegroundStart, ForegroundSwap, ForegroundSink, connVars
    <2>2. CASE ForegroundClear(t)
      BY <1>0, <1>1, <2>2 DEF ForegroundClear, Return, connVars, RInv, TInv, TypeOK
    <2>3. QED
      BY <1>0, <1>3, <2>1, <2>2, ReportShared, ReportSpawn DEF Foreground
  <1>4. CASE Disconnect(t)
    <2>1. CASE StopFlagUp(t, "d_notify") \/ NotifyWaiters(t, "d_notify", "d_take")
      BY <1>1, <2>1 DEF StopFlagUp, NotifyWaiters, connVars
    <2>2. CASE DisconnectTake(t)
      BY <1>0, <1>1, <2>2 DEF DisconnectTake, connVars, RInv, TInv, TypeOK
    <2>3. CASE DisconnectClose(t)
      BY <1>0, <1>1, <2>3 DEF DisconnectClose, Return, RInv, TInv, TypeOK
    <2>4. QED
      BY <1>4, <2>1, <2>2, <2>3 DEF Disconnect
  <1>5. CASE Forget(t)
    BY <1>1, <1>5 DEF Forget, StopFlagUp, NotifyWaiters, ForgetTake, ForgetWipe, connVars
  <1>6. QED
    BY <1>2, <1>3, <1>4, <1>5 DEF TaskStep

LEMMA ReportSupervise ==
  ASSUME RInv, TInv', NEW s \in Sups, Supervise(s)
  PROVE  RInv'
  <1>0. s \in Procs
    BY DEF Procs
  <1>1. ASSUME NEW from, NEW to \in {"idle", "ladder", "armed", "sleep", "s_begin", "exit"},
               Step(s, from, to), closedSent' = closedSent,
               \A q \in Procs \ {s} : held'[q] = held[q],
               \A z \in Sups \ {s} : seen'[z] = seen[z]
        PROVE  RInv'
    <2>1. ~Carrier(s)'
      BY <1>0, <1>1 DEF Step, Goto, Carrier, RInv, TInv, TypeOK
    <2>2. QED
      BY <1>0, <1>1, <2>1, ReportKept
  <1>2. CASE SupDown(s)
    BY <1>0, <1>1, <1>2 DEF SupDown, connVars, RInv, TInv, TypeOK
  <1>3. CASE \/ SupArm(s) \/ SupReadFlag(s) \/ SupWake(s) \/ SupTimer(s) \/ SupExpired(s)
    BY <1>1, <1>3 DEF SupArm, SupReadFlag, SupWake, SupTimer, SupExpired, connVars
  <1>4. CASE SupExit(s)
    BY <1>0, <1>1, <1>4 DEF SupExit, Return, connVars, RInv, TInv, TypeOK
  <1>5. QED
    BY <1>0, <1>2, <1>3, <1>4, ReportPublish, ReportShared DEF Supervise

LEMMA ReportStep == RInv /\ [Next]_vars => RInv'
  <1> SUFFICES ASSUME RInv, [Next]_vars PROVE RInv'
    OBVIOUS
  <1>1. TInv'
    BY TypeStep, HeldStep DEF RInv, TInv
  <1>2. CASE \/ \E c \in Conns : Lose(c)
             \/ Pair \/ Login \/ UNCHANGED vars
    <2>1. UNCHANGED <<pc, held, seen, closedSent>>
      BY <1>2 DEF Lose, Pair, Login, vars, procVars, connVars
    <2>2. QED
      BY <1>1, <2>1
      DEF RInv, OneCarrier, NotYetReported, LoopSawOpen, ClosedReportedOnce, Carrier
  <1>3. QED
    BY <1>1, <1>2, ReportTask, ReportSupervise DEF Next

LEMMA ReportInit == Init => RInv
  BY TypeInit DEF Init, RInv, OneCarrier, NotYetReported, LoopSawOpen, ClosedReportedOnce,
                  Carrier, Procs

(* However disconnect, forget_gateway, the peer and the ladder close and    *)
(* replace connections, the app is told of each close once at most.         *)
THEOREM OneCloseOneReport == Spec => []ClosedReportedOnce
  <1>1. RInv => ClosedReportedOnce
    BY DEF RInv
  <1>2. QED
    BY ReportInit, ReportStep, <1>1, PTL DEF Spec

=============================================================================
