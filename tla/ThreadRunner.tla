---------------------------- MODULE ThreadRunner ----------------------------
(***************************************************************************)
(* LinuxThreadParallelRunner::run, whatever its interrupter is: the thread *)
(* that calls it creates one thread per added callable, and joins them in  *)
(* the order of their creation.                                            *)
(***************************************************************************)
EXTENDS Callable

CONSTANT Limit   \* run() starts no thread when more than this many are added

ASSUME LimitAssumption == Limit \in Nat

VARIABLES
  size,       \* number of callables given to add()
  main,       \* where the thread that called run() is
  started,    \* threads created so far
  joined      \* threads joined so far

runVars == <<size, main, started, joined>>

RunInit ==
  /\ size \in 0 .. N
  /\ main = "spawn"
  /\ started = 0
  /\ joined = 0

(* _proccesses.size() - 1 is unsigned, so an empty runner is refused too.  *)
SpawnAllowed == size \in 1 .. Limit

Refuse ==
  /\ main = "spawn"
  /\ ~SpawnAllowed
  /\ main' = "done"
  /\ UNCHANGED <<callVars, size, started, joined>>

MoreThanAdded(i) == i <= size

(* i < _proccesses.size()                                                  *)
MoreToCreate(i) == i < size

(* pthread_create; the new thread begins at first.  If there is none to be *)
(* had, the error code is not looked at, and nothing becomes of the unit.  *)
Spawn(first) ==
  /\ main = "spawn"
  /\ SpawnAllowed
  /\ MoreToCreate(started)
  /\ Goto(started, first) \/ UNCHANGED pc
  /\ started' = started + 1
  /\ main' = IF MoreToCreate(started + 1) THEN main ELSE "join"
  /\ UNCHANGED <<expected, endless, pos, hasResult, result, tested, left, printed>>
  /\ UNCHANGED <<size, joined>>

(* pthread_join, which waits for a thread in one of the places ends.  The  *)
(* id of a thread that has not been created is nobody's: an error, which   *)
(* is not looked at either, or an access that goes wrong (the program is   *)
(* over, or the call never returns).                                       *)
JoinNext(ends) ==
  /\ main = "join"
  /\ \/ /\ pc[joined] \in ends \cup {"unborn"}
        /\ joined' = joined + 1
        /\ main' = IF joined' = size THEN "done" ELSE main
     \/ /\ pc[joined] = "unborn"
        /\ main' = "broken"
        /\ UNCHANGED joined
  /\ UNCHANGED <<callVars, size, started>>

RunTypeOK ==
  /\ CallTypeOK
  /\ size \in 0 .. N
  /\ main \in {"spawn", "join", "done", "broken"}
  /\ started \in 0 .. size
  /\ joined \in 0 .. size

(* What the runner owes its caller when run() returns: every argument of   *)
(* every callable has been tried, save those behind an exception and those *)
(* of a thread that could not be created.                                  *)
AllTried ==
  \A u \in 0 .. size - 1 :
    left[u] = "threw" \/ pc[u] = "unborn" \/ KeysOf(u) \subseteq tested[u]
=============================================================================
