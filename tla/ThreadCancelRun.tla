-------------------------- MODULE ThreadCancelRun --------------------------
(***************************************************************************)
(* LinuxThreadParallelRunner<LinuxSignalSystemInterrupter>: run() creates  *)
(* one asynchronously cancellable thread per added callable and joins them *)
(* in order; the thread that succeeds walks over the others and calls      *)
(* pthread_cancel for those whose running flag it reads as true.  A        *)
(* cancelled thread either unwinds or, where the unwinding is not allowed  *)
(* to pass, calls terminate_handler, which ends the program with exit(0).  *)
(* It may be cut off anywhere, with a lock of malloc or stdio taken that   *)
(* nobody will release.                                                    *)
(***************************************************************************)
EXTENDS ThreadRunner, FiniteSets

VARIABLES
  program,     \* "running", or how the whole program has ended
  running,     \* threads whose field running is true
  cancelling,  \* threads with a cancellation request to act upon
  victim,      \* victim[u]: the index i of u's kill_except
  aimed,       \* threads that have read running as true and cancel next
  lockLost,    \* has a cancelled thread left a lock taken?
  blocked      \* threads that wait for such a lock

lockVars == <<lockLost, blocked>>
killVars == <<program, cancelling, victim, aimed, lockVars>>
vars == <<callVars, runVars, killVars, running>>

(* pthread_join returns for a thread that has returned or unwound.         *)
Joinable == {"exited", "cancelled"}

Ended(u) == pc[u] \in {"exited", "cancelled"}

IsJoined(u) == u < joined

Init ==
  /\ CallInit
  /\ RunInit
  /\ program = "running"
  /\ running = {}
  /\ cancelling = {}
  /\ victim = [u \in Unit |-> 0]
  /\ aimed = {}
  /\ lockLost = FALSE
  /\ blocked = {}

-----------------------------------------------------------------------------
(* run_single up to the call of executable->run() *)
SetRunning(u) ==
  /\ pc[u] = "starting"
  /\ running' = running \cup {u}
  /\ Goto(u, "loop")
  /\ UNCHANGED <<expected, endless, pos, hasResult, result, tested, left, printed>>
  /\ UNCHANGED <<runVars, killVars>>

(* LinuxSignalSystemInterrupter always answers that the work can go on.    *)
CheckNextSyncCall(u) ==
  Checked(u, TRUE) /\ UNCHANGED <<runVars, killVars, running>>

KillsSelfToo(u) == victim[u] \in running

KillsAll(u) == victim[u] # u

(* i != inner_process_id && thread.get_running()                           *)
ToBeKilled(u) == victim[u] # u /\ victim[u] \in running

(* kill_except looks at the running flag of the i-th unit.                 *)
LookAtVictim(u) ==
  /\ pc[u] = "announce"
  /\ victim[u] < size
  /\ u \notin aimed
  /\ \/ /\ ToBeKilled(u)
        /\ aimed' = aimed \cup {u}
        /\ UNCHANGED victim
     \/ /\ ~ToBeKilled(u)
        /\ victim' = [victim EXCEPT ![u] = @ + 1]
        /\ UNCHANGED aimed
  /\ UNCHANGED <<callVars, runVars, program, cancelling, running, lockVars>>

PastVictimOnceDown(u) == IF victim[u] \in running THEN victim[u] ELSE victim[u] + 1

(* ++i: set_running(false) was for a local copy of the unit, and the flag  *)
(* is not looked at again.                                                 *)
PastVictim(u) == victim[u] + 1

(* pthread_cancel.  An ended thread takes no notice; the id of one that    *)
(* has been joined too is no longer valid, and the call finds nobody or    *)
(* breaks the program.                                                     *)
Cancel(u) ==
  /\ pc[u] = "announce"
  /\ u \in aimed
  /\ \/ /\ ~Ended(victim[u])
        /\ cancelling' = cancelling \cup {victim[u]}
        /\ UNCHANGED program
     \/ /\ Ended(victim[u])
        /\ UNCHANGED <<program, cancelling>>
     \/ /\ IsJoined(victim[u])
        /\ program' = "crashed"
        /\ UNCHANGED cancelling
  /\ aimed' = aimed \ {u}
  /\ victim' = [victim EXCEPT ![u] = PastVictim(u)]
  /\ UNCHANGED <<callVars, runVars, running, lockVars>>

(* kill_except and handle_success return.                                  *)
HandleSuccess(u) ==
  /\ victim[u] = size
  /\ SuccessHandled(u)
  /\ victim' = [victim EXCEPT ![u] = 0]
  /\ UNCHANGED <<runVars, program, cancelling, aimed, running, lockVars>>

(* The places where a thread uses malloc or stdio, and has their locks.    *)
Locking == {"loop", "call", "announce", "report"}

(* The request is acted upon, wherever the thread is: it unwinds, with its *)
(* lock left taken if it has one; it calls terminate_handler, or is cut    *)
(* off inside code that does not survive an asynchronous cancellation; or  *)
(* it needs, to unwind or to exit, a lock that is left taken.              *)
Cancelled(u) ==
  /\ u \in cancelling
  /\ ~Ended(u)
  /\ \/ /\ Goto(u, "cancelled")
        /\ UNCHANGED lockLost \/ (pc[u] \in Locking /\ lockLost' = TRUE)
        /\ UNCHANGED <<program, blocked>>
     \/ /\ program' \in {"exit(0)", "crashed"}
        /\ UNCHANGED <<pc, lockVars>>
     \/ /\ lockLost
        /\ blocked' = blocked \cup {u}
        /\ UNCHANGED <<pc, program, lockLost>>
  /\ cancelling' = cancelling \ {u}
  /\ UNCHANGED <<expected, endless, pos, hasResult, result, tested, left, printed>>
  /\ UNCHANGED <<runVars, running, victim, aimed>>

(* A thread that needs the lock left taken waits for ever.                 *)
Blocks(u) ==
  /\ lockLost
  /\ pc[u] \in Locking
  /\ blocked' = blocked \cup {u}
  /\ UNCHANGED <<callVars, runVars, running, program, cancelling, victim, aimed, lockLost>>

(* So does the one in run(): pthread_create allocates.                     *)
MainBlocks ==
  /\ lockLost
  /\ main = "spawn"
  /\ main' = "broken"
  /\ UNCHANGED <<callVars, size, started, joined>>

(* The rest of run_single: the result is printed and the flag is cleared.  *)
Finish(u) ==
  /\ Report(u)
  /\ running' = running \ {u}
  /\ UNCHANGED <<runVars, killVars>>

ThreadStep(u) ==
  \/ SetRunning(u)
  \/ LoopStep(u) /\ UNCHANGED <<runVars, killVars, running>>
  \/ CheckNextSyncCall(u)
  \/ LookAtVictim(u)
  \/ Cancel(u)
  \/ HandleSuccess(u)
  \/ Finish(u)

Main ==
  /\ program = "running"
  /\ \/ Refuse
     \/ Spawn("starting")
     \/ JoinNext(Joinable)
     \/ MainBlocks
  /\ UNCHANGED <<killVars, running>>

UnitStep(u) ==
  /\ program = "running"
  /\ \/ u \notin blocked /\ (ThreadStep(u) \/ Blocks(u))
     \/ Cancelled(u)

Next == Main \/ \E u \in Unit : UnitStep(u)

Spec == Init /\ [][Next]_vars

(* The operating system schedules every thread, and a request is acted     *)
(* upon before long: asynchronous cancellation waits for nothing.          *)
FairSpec ==
  /\ Spec
  /\ WF_vars(Main)
  /\ \A u \in Unit : /\ WF_vars(UnitStep(u))
                     /\ WF_vars(program = "running" /\ Cancelled(u))

-----------------------------------------------------------------------------
(* Type invariant of the runner, its threads and their cancellation. *)
TypeOK ==
  /\ RunTypeOK
  /\ pc \in [Unit -> {"unborn", "starting", "loop", "check", "call", "announce",
                      "report", "exited", "cancelled"}]
  /\ program \in {"running", "exit(0)", "crashed"}
  /\ running \subseteq Unit
  /\ cancelling \subseteq Unit
  /\ victim \in [Unit -> 0 .. N]
  /\ aimed \subseteq Unit
  /\ lockLost \in BOOLEAN
  /\ blocked \subseteq Unit

Winners == { u \in Unit : hasResult[u] }

(* No thread is cancelled before it has been created, or if it could not   *)
(* be: its pid is not set.  (The flag of a thread is set by that thread,   *)
(* which is what makes the look at it safe.)                               *)
NeverCancelsUnborn ==
  \A u \in aimed : victim[u] < started /\ pc[victim[u]] # "unborn"

(* The search as a whole misses nothing, and kill_except spares its        *)
(* caller: when run() returns and no thread has found a key, every thread  *)
(* created has applied its function to all its arguments, save those after *)
(* an exception; if one thread alone has found a key, it has printed it.  (Of *)
(* several winners each may cancel the others.)                            *)
SearchComplete ==
  main = "done" /\ program = "running" /\ SpawnAllowed =>
    /\ Winners = {} => AllTried
    /\ Cardinality(Winners) = 1 => \A u \in Winners : printed[u] \in expected

(* The program comes to its end when no generator is endless: kill_except  *)
(* gets past every victim, however slow, and no thread waits for one that  *)
(* has been cancelled.  (Unless one has been cut off with a lock taken, or *)
(* run() breaks on the id of a thread that was not created: then there is  *)
(* no end to promise.)                                                     *)
Terminates ==
  <>(main \in {"done", "broken"} \/ program # "running" \/ lockLost)

(* README.md line 20: "Result of each Callable/MultipleCallable is written *)
(* to stdout", so once the program is over, a result that was found has    *)
(* been printed.                                                           *)
ResultPrinted ==
  (main = "done" \/ program = "exit(0)") /\ Winners # {} =>
    \E u \in Winners : printed[u] # NoKey
=============================================================================
