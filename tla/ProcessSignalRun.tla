-------------------------- MODULE ProcessSignalRun --------------------------
(***************************************************************************)
(* LinuxProccessParallelRunner<LinuxSignalSystemInterrupter>: run() forks  *)
(* one child per added callable, the last one first, and waits for them;   *)
(* the child that succeeds ignores SIGINT and sends it to the whole        *)
(* process group, the parent included.  A signal is pending from the call  *)
(* of killpg until the kernel delivers it: in between its target may go    *)
(* on, save that a fork or a wait is ended by it.                          *)
(***************************************************************************)
EXTENDS Callable, FiniteSets

CONSTANTS
  Limit,        \* run() forks no child when more than this many are added
  ForkFailures  \* whether fork can fail: a subset of BOOLEAN

Parent == N     \* the process that called run(), beside its children

ASSUME SignalAssumption == Limit \in Nat /\ ForkFailures \subseteq BOOLEAN

VARIABLES
  size,       \* number of callables given to add()
  parent,     \* where the parent is
  toFork,     \* number of children forker has still to create
  waits,      \* number of wait() calls run() has still to make
  reaped,     \* children a wait() has returned
  ignoring,   \* processes whose disposition of SIGINT is SIG_IGN
  pending,    \* processes with a pending SIGINT
  signalled   \* has killpg been called?

runVars == <<size, parent, toFork, waits, reaped>>
sigVars == <<ignoring, pending, signalled>>
vars == <<callVars, runVars, sigVars>>

Born == { u \in Unit : pc[u] # "unborn" }

Ended == { u \in Unit : pc[u] \in {"exited", "killed"} }

Alive == (Born \ Ended) \cup (IF parent = "killed" THEN {} ELSE {Parent})

Init ==
  /\ CallInit
  /\ size \in 0 .. N
  /\ parent = "start"
  /\ toFork = size
  /\ waits = size
  /\ reaped = {}
  /\ ignoring = {}
  /\ pending = {}
  /\ signalled = FALSE

-----------------------------------------------------------------------------
SpawnAllowedWhenEmpty == size <= Limit

SpawnAllowed == size \in 1 .. Limit

Start ==
  /\ parent = "start"
  /\ parent' = IF SpawnAllowed THEN "fork" ELSE "done"
  /\ UNCHANGED <<callVars, size, toFork, waits, reaped, sigVars>>

(* fork() in forker, which calls itself for the child before; the kernel   *)
(* creates no child of a process that has a signal to handle.              *)
Fork ==
  /\ parent = "fork"
  /\ Parent \notin pending
  /\ Goto(toFork - 1, "loop")
  /\ toFork' = toFork - 1
  /\ parent' = IF toFork' = 0 THEN "wait" ELSE parent
  /\ UNCHANGED <<expected, endless, pos, hasResult, result, tested, left, printed>>
  /\ UNCHANGED <<size, waits, reaped, sigVars>>

(* fork() fails: forker says so and returns, with fewer children.          *)
ForkFails ==
  /\ parent = "fork"
  /\ Parent \notin pending
  /\ TRUE \in ForkFailures
  /\ parent' = "wait"
  /\ UNCHANGED <<callVars, size, toFork, waits, reaped, sigVars>>

LastWaitSkipped == waits <= 2

LastWait == waits = 1

(* wait() returns a child that has ended, or -1 when there is no child.    *)
Wait ==
  /\ parent = "wait"
  /\ Parent \notin pending
  /\ \/ \E u \in Ended \ reaped : reaped' = reaped \cup {u}
     \/ Born = reaped /\ UNCHANGED reaped
  /\ waits' = waits - 1
  /\ parent' = IF LastWait THEN "done" ELSE parent
  /\ UNCHANGED <<callVars, size, toFork, sigVars>>

-----------------------------------------------------------------------------
(* signal(SIGINT, SIG_IGN), which also discards a pending SIGINT.          *)
Ignore(u) ==
  /\ pc[u] = "announce"
  /\ u \notin ignoring
  /\ ignoring' = ignoring \cup {u}
  /\ pending' = pending \ {u}
  /\ UNCHANGED <<callVars, runVars, signalled>>

SignalledChildren == (Alive \ {Parent}) \ ignoring

(* The members of the process group that take the signal.                  *)
Signalled == Alive \ ignoring

ReadyToSignalAtOnce(u) == pc[u] = "announce"

ReadyToSignal(u) == pc[u] = "announce" /\ u \in ignoring

(* killpg(getpgid(getpid()), SIGINT), the end of handle_success            *)
KillGroup(u) ==
  /\ ReadyToSignal(u)
  /\ pending' = pending \cup Signalled
  /\ signalled' = TRUE
  /\ SuccessHandled(u)
  /\ UNCHANGED <<runVars, ignoring>>

(* LinuxSignalSystemInterrupter always answers that the work can go on.    *)
CheckNextSyncCall(u) == Checked(u, TRUE) /\ UNCHANGED <<runVars, sigVars>>

(* The default action of SIGINT.                                           *)
Deliver(u) ==
  /\ u \in pending \cap Alive
  /\ \/ u = Parent /\ parent' = "killed" /\ UNCHANGED pc
     \/ u # Parent /\ Goto(u, "killed") /\ UNCHANGED parent
  /\ pending' = pending \ {u}
  /\ UNCHANGED <<expected, endless, pos, hasResult, result, tested, left, printed>>
  /\ UNCHANGED <<size, toFork, waits, reaped, ignoring, signalled>>

ChildStep(u) ==
  \/ LoopStep(u) /\ UNCHANGED <<runVars, sigVars>>
  \/ CheckNextSyncCall(u)
  \/ Ignore(u)
  \/ KillGroup(u)
  \/ Report(u) /\ UNCHANGED <<runVars, sigVars>>
  \/ Deliver(u)

ParentStep == Start \/ Fork \/ ForkFails \/ Wait \/ Deliver(Parent)

Next == ParentStep \/ \E u \in Unit : ChildStep(u)

Spec == Init /\ [][Next]_vars

(* The kernel schedules every process and delivers every signal. *)
FairSpec ==
  /\ Spec
  /\ WF_vars(ParentStep)
  /\ WF_vars(Deliver(Parent))
  /\ \A u \in Unit : WF_vars(ChildStep(u)) /\ WF_vars(Deliver(u))

-----------------------------------------------------------------------------
(* Type invariant of the parent, its children and the pending signals. *)
TypeOK ==
  /\ CallTypeOK
  /\ pc \in [Unit -> {"unborn", "loop", "check", "call", "announce", "report",
                      "exited", "killed"}]
  /\ size \in 0 .. N
  /\ parent \in {"start", "fork", "wait", "done", "killed"}
  /\ toFork \in 0 .. size
  /\ waits \in 0 .. size
  /\ reaped \subseteq Ended
  /\ ignoring \subseteq Unit
  /\ pending \subseteq Unit \cup {Parent}
  /\ signalled \in BOOLEAN

(* No process escapes a killpg, even one forked while it is under way:     *)
(* from the first killpg on, every live process of the group either has    *)
(* SIGINT pending or is itself an announcer, which ignores it.             *)
NobodyEscapes == signalled => Alive \subseteq pending \cup ignoring

(* Processes that succeed together do not kill each other off: when all    *)
(* have ended and some had found a key, a result has been printed (a       *)
(* process ignores SIGINT before it sends it, never after).                *)
ResultSurvives ==
  Alive \subseteq {Parent} /\ (\E u \in Unit : hasResult[u]) =>
    \E u \in Unit : printed[u] # NoKey

(* What is printed as a result is one: a MultipleCallable that goes on     *)
(* with its list after a success does not lose it to a later failure.      *)
PrintedAccepted == \A u \in Unit : printed[u] \in expected \cup {NoKey}

(* run() returns to main only when nobody has found a key, and then every  *)
(* child that could be forked has ended and has applied its function to    *)
(* all its arguments, save those behind an exception: after a success the  *)
(* parent dies of the signal.                                              *)
ReturnsOnlyEmptyHanded ==
  parent = "done" =>
    /\ Born \subseteq Ended
    /\ \A u \in Born : /\ ~hasResult[u]
                       /\ left[u] = "threw" \/ KeysOf(u) \subseteq tested[u]

(* Once a process has a result, all processes end, the endless ones and    *)
(* those not forked yet included.                                          *)
StopSpreads == (\E u \in Unit : hasResult[u]) ~> Alive = {}
=============================================================================
