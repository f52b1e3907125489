------------------------------ MODULE Cognition ------------------------------
(***************************************************************************)
(* Starting and stopping the cognition thread (core/engine/mod.rs,         *)
(* start_cognition and stop_cognition; core/cognition/loop.rs).  A start   *)
(* looks under the lock, spawns with no lock and installs under the lock   *)
(* again, where dropping the loop it displaces joins that loop's thread.   *)
(* What a cycle derives is left out; it only delays the thread.            *)
(***************************************************************************)
EXTENDS Integers

CONSTANTS
    CogCallers,    \* threads that start and stop the loop
    MaxLoops,      \* bound on the starts that find no loop running
    MaxStopCalls   \* bound on the calls of stop_cognition

ASSUME CognitionAssumption == MaxLoops \in Nat /\ MaxStopCalls \in Nat

Loops == 1..MaxLoops

VARIABLES
    loop,        \* WarmCore.cognition_loop: the loop installed, 0 for none
    loopLock,    \* whether its mutex is held across a join
    alive,       \* threads that have not ended
    stopping,    \* CognitionState.stop of each loop
    running,     \* CognitionState.running of each loop
    call,        \* each caller: where it stands and with which loop
    started, stopCalls

cogVars == <<loop, loopLock, alive, stopping, running, call, started, stopCalls>>

NoCall == <<"idle", 0>>

CogInit ==
    /\ loop = 0
    /\ loopLock = FALSE
    /\ alive = {} /\ stopping = {} /\ running = {}
    /\ call = [c \in CogCallers |-> NoCall]
    /\ started = 0 /\ stopCalls = 0

\* start_cognition: a loop that runs is not started again.
StartLoop(c) ==
    /\ call[c] = NoCall /\ ~loopLock
    /\ loop \notin running
    /\ started < MaxLoops
    /\ started' = started + 1
    /\ call' = [call EXCEPT ![c] = <<"spawn", started'>>]
    /\ UNCHANGED <<loop, loopLock, alive, stopping, running, stopCalls>>

\* CognitionLoop::start.
SpawnLoop(c) ==
    /\ call[c][1] = "spawn"
    /\ alive' = alive \cup {call[c][2]}
    /\ running' = running \cup {call[c][2]}
    /\ call' = [call EXCEPT ![c][1] = "install"]
    /\ UNCHANGED <<loop, loopLock, stopping, started, stopCalls>>

\* Defect: the loop displaced is forgotten, not stopped.
BugInstallLoop(c) ==
    /\ call[c][1] = "install" /\ ~loopLock
    /\ loop' = call[c][2]
    /\ call' = [call EXCEPT ![c] = NoCall]
    /\ UNCHANGED <<loopLock, alive, stopping, running, started, stopCalls>>

\* The loop is installed; Drop stops the one it displaces, under the lock.
InstallLoop(c) ==
    /\ call[c][1] = "install" /\ ~loopLock
    /\ loop' = call[c][2]
    /\ stopping' = stopping \cup ({loop} \ {0})
    /\ loopLock' = (loop # 0)
    /\ call' = [call EXCEPT ![c] = IF loop = 0 THEN NoCall ELSE <<"join", loop>>]
    /\ UNCHANGED <<alive, running, started, stopCalls>>

\* stop_cognition.
StopLoop(c) ==
    /\ call[c] = NoCall /\ ~loopLock
    /\ loop # 0
    /\ stopCalls < MaxStopCalls
    /\ stopCalls' = stopCalls + 1
    /\ stopping' = stopping \cup {loop}
    /\ loopLock' = TRUE
    /\ call' = [call EXCEPT ![c] = <<"join", loop>>]
    /\ UNCHANGED <<loop, alive, running, started>>

\* The join returns; the lock goes with the guard.
JoinLoop(c) ==
    /\ call[c][1] = "join"
    /\ call[c][2] \notin alive
    /\ running' = running \ {call[c][2]}
    /\ loopLock' = FALSE
    /\ call' = [call EXCEPT ![c] = NoCall]
    /\ UNCHANGED <<loop, alive, stopping, started, stopCalls>>

\* cognition_thread sees the flag, at the latest after a cycle and a tick.
EndLoop(l) ==
    /\ l \in alive \cap stopping
    /\ running' = running \ {l}
    /\ alive' = alive \ {l}
    /\ UNCHANGED <<loop, loopLock, stopping, call, started, stopCalls>>

CogProgress ==
    \/ \E c \in CogCallers : SpawnLoop(c) \/ InstallLoop(c) \/ JoinLoop(c)
    \/ \E l \in Loops : EndLoop(l)

CogNext == CogProgress \/ \E c \in CogCallers : StartLoop(c) \/ StopLoop(c)

CogSpec == CogInit /\ [][CogNext]_cogVars
CogFairness == WF_cogVars(CogProgress)
CogFairSpec == CogSpec /\ CogFairness

-----------------------------------------------------------------------------
(* Whatever starts and stops race, every call returns (nobody joins under  *)
(* the lock a thread that does not end) and no thread stays behind that    *)
(* the engine could not stop any more.                                     *)
EveryLoopAccounted ==
    []<>(alive \subseteq {loop} /\ \A c \in CogCallers : call[c] = NoCall)
=============================================================================
