----------------------- MODULE ThreadCancelRunProofs -----------------------
(***************************************************************************)
(* Proofs about ThreadCancelRun, for any number of threads and any         *)
(* arguments: its type invariant, NeverCancelsUnborn and SearchComplete.   *)
(***************************************************************************)
EXTENDS ThreadCancelRun, ThreadRunnerProofs, FiniteSetTheorems

(* Who is cancelled has been created, and somebody else has a result; only *)
(* a thread with a result aims, at another one that has set its flag.      *)
CancelInv ==
  /\ \A u \in running : pc[u] # "unborn"
  /\ \A u \in aimed : hasResult[u] /\ victim[u] # u /\ victim[u] \in Unit
  /\ \A u \in cancelling : pc[u] # "unborn" /\ \E v \in Unit : v # u /\ hasResult[v]
  /\ \A u \in Unit : pc[u] = "cancelled" => \E v \in Unit : v # u /\ hasResult[v]
  /\ \A u \in Unit : left[u] # "stopped"

Inv ==
  /\ TypeOK
  /\ RunInv
  /\ \A u \in Unit : UnitInv(u)
  /\ CancelInv
  /\ NeverCancelsUnborn

CancelPlaces == {"unborn", "starting", "loop", "check", "call", "announce", "report",
                 "exited", "cancelled"}

-----------------------------------------------------------------------------
(* What the lemmas about the runner and about a single unit ask for.       *)
LEMMA TypeRun == TypeOK => RunOK /\ CallOK /\ pc \in [Unit -> CancelPlaces]
<1>1. TypeOK => RunOK /\ pc \in [Unit -> CancelPlaces]
  BY DEF TypeOK, RunOK, Places, CancelPlaces
<1> QED BY <1>1, RunCall

(* A step of run() of a thread; it cannot be the answer to stop.           *)
WorkStep(u) ==
  /\ UnitAction(u)
  /\ \A v \in Unit : left'[v] = "stopped" => left[v] = "stopped"
  /\ UNCHANGED runVars
  /\ UNCHANGED <<program, cancelling, aimed>>
  /\ UNCHANGED <<lockLost, blocked>>
  /\ running' \subseteq running
  /\ victim' = victim \/ (victim' = [victim EXCEPT ![u] = 0] /\ u \notin aimed)

(* What a thread does besides cancelling others is one of these steps, as  *)
(* far as the invariant is concerned.                                      *)
LEMMA WorkCases ==
  ASSUME TypeOK, NeverCancelsUnborn, NEW u \in Unit,
         \/ LoopStep(u) /\ UNCHANGED <<runVars, killVars, running>>
         \/ CheckNextSyncCall(u)
         \/ HandleSuccess(u)
         \/ Finish(u)
  PROVE  WorkStep(u)
<1>1. CASE \/ LoopStep(u) /\ UNCHANGED <<runVars, killVars, running>>
           \/ HandleSuccess(u)
           \/ Finish(u)
  <2>1. UnitAction(u) /\ pc[u] # "check"
    BY <1>1 DEF LoopStep, FetchNext, Call, CallThrows, HandleSuccess, SuccessHandled, Finish,
                Report, UnitAction
  <2>2. \A v \in Unit : left'[v] = "stopped" => left[v] = "stopped"
    BY <2>1, TypeRun, StopKept DEF Checked
  <2>3. HandleSuccess(u) => u \notin aimed
    <3>1. size \in Nat /\ started \in 0 .. size
      BY UnitIsNat DEF TypeOK, RunTypeOK
    <3> QED BY <3>1, UnitIsNat DEF HandleSuccess, NeverCancelsUnborn
  <2> QED BY <1>1, <2>1, <2>2, <2>3 DEF HandleSuccess, Finish, WorkStep, killVars, lockVars
<1>2. CASE CheckNextSyncCall(u)
  <2>1. UnitAction(u) /\ UNCHANGED left /\ UNCHANGED <<runVars, killVars, running>>
    BY <1>2, CheckedAction DEF CheckNextSyncCall, Checked
  <2> QED BY <2>1 DEF WorkStep, killVars, lockVars
<1> QED BY <1>1, <1>2

(* Steps of run() preserve the inductive invariant.                        *)
LEMMA WorkInv ==
  ASSUME Inv, NEW u \in Unit, WorkStep(u)
  PROVE  Inv'
<1>1. RunOK /\ CallOK /\ MovesUnit(u) /\ UNCHANGED runVars /\ UnitAction(u) /\ size \in 0 .. N
  BY TypeRun, ActionMoves DEF Inv, WorkStep, TypeOK, RunTypeOK
<1>2. RunOK' /\ RunInv'
  BY <1>1, ActionRun DEF Inv
<1>3. \A v \in Unit : UnitInv(v)'
  BY <1>1, ActionUnit DEF Inv
<1>4. \A v \in Unit : /\ pc'[v] = "unborn" <=> pc[v] = "unborn"
                      /\ pc'[v] = "cancelled" => pc[v] = "cancelled"
  BY <1>1 DEF MovesUnit, Inv, TypeOK
<1>5. \A v \in Unit : hasResult[v] => hasResult'[v]
  BY <1>1, ResultKept
<1>6. TypeOK'
  <2>1. pc' \in [Unit -> CancelPlaces]
    BY <1>1, TypeRun DEF Inv, MovesUnit, CancelPlaces
  <2>2. victim' \in [Unit -> 0 .. N]
    BY UnitIsNat DEF WorkStep, Inv, TypeOK
  <2>3. /\ program' \in {"running", "exit(0)", "crashed"} /\ running' \subseteq Unit
        /\ cancelling' \subseteq Unit /\ aimed' \subseteq Unit
        /\ lockLost' \in BOOLEAN /\ blocked' \subseteq Unit
    BY DEF WorkStep, Inv, TypeOK
  <2> QED BY <1>2, <2>1, <2>2, <2>3 DEF RunOK, TypeOK, CancelPlaces
<1>7. \A v \in aimed : victim'[v] = victim[v]
  BY DEF WorkStep, Inv, TypeOK
<1>8. CancelInv'
  BY <1>4, <1>5, <1>7 DEF WorkStep, Inv, CancelInv, TypeOK, runVars
<1>9. NeverCancelsUnborn'
  BY <1>4, <1>7 DEF WorkStep, Inv, CancelInv, NeverCancelsUnborn, runVars
<1> QED BY <1>2, <1>3, <1>6, <1>8, <1>9 DEF Inv

(* A thread sets its own flag, so a thread whose flag is set exists.       *)
LEMMA SetRunningInv ==
  ASSUME Inv, NEW u \in Unit, SetRunning(u)
  PROVE  Inv'
<1>1. /\ pc[u] = "starting" /\ pc' = [pc EXCEPT ![u] = "loop"] /\ running' = running \cup {u}
      /\ UNCHANGED <<expected, endless, pos, hasResult, result, tested, left, printed>>
      /\ UNCHANGED runVars /\ UNCHANGED <<size, main, started, joined>>
      /\ UNCHANGED <<program, cancelling, victim, aimed>> /\ UNCHANGED <<lockLost, blocked>>
  BY DEF SetRunning, Goto, runVars, killVars, lockVars
<1>2. RunOK /\ CallOK /\ pc \in [Unit -> CancelPlaces]
  BY TypeRun DEF Inv
<1>3. CallOK' /\ \A v \in Unit : UnitInv(v)'
  BY <1>1, <1>2, RunnerUnit DEF Inv
<1>4. \A v \in Unit : pc'[v] = IF v = u THEN "loop" ELSE pc[v]
  BY <1>1, <1>2
<1>5. RunInv'
  BY <1>1, <1>4, RunKept DEF Inv, Through
<1>6. TypeOK'
  BY <1>1, <1>2, <1>3 DEF Inv, TypeOK, RunTypeOK, CallOK
<1>7. CancelInv' /\ NeverCancelsUnborn'
  BY <1>1, <1>4 DEF Inv, CancelInv, NeverCancelsUnborn, TypeOK
<1> QED BY <1>3, <1>5, <1>6, <1>7 DEF Inv

(* kill_except aims at another thread that has set its flag, or passes on. *)
LEMMA LookAtVictimInv ==
  ASSUME Inv, NEW u \in Unit, LookAtVictim(u)
  PROVE  Inv'
<1>1. /\ pc[u] = "announce" /\ victim[u] < size /\ u \notin aimed
      /\ UNCHANGED callVars /\ UNCHANGED <<size, main, started, joined>>
      /\ UNCHANGED <<program, cancelling, running>> /\ UNCHANGED <<lockLost, blocked>>
      /\ UNCHANGED <<pc, hasResult, left>>
  BY DEF LookAtVictim, callVars, runVars, lockVars
<1>2. RunOK /\ CallOK /\ size \in 0 .. N /\ hasResult[u] /\ victim[u] \in Nat
  BY <1>1, TypeRun, UnitIsNat DEF Inv, UnitInv, TypeOK, RunTypeOK
<1>3. \A v \in Unit : UnitInv(v)'
  BY <1>1, StutterUnit DEF Inv
<1>4. RunInv'
  BY <1>1, RunKept DEF Inv, runVars
<1>5. CASE ToBeKilled(u) /\ aimed' = aimed \cup {u} /\ UNCHANGED victim
  <2>1. TypeOK'
    BY <1>1, <1>5 DEF Inv, TypeOK, RunTypeOK, CallTypeOK, callVars
  <2>2. victim[u] # u /\ victim[u] \in Unit /\ pc[victim[u]] # "unborn"
    BY <1>5 DEF ToBeKilled, Inv, TypeOK, CancelInv
  <2>3. victim[u] < started
    BY <1>2, <2>2, UnitIsNat DEF Inv, RunInv, RunOK, RunTypeOK
  <2> QED
    BY <1>1, <1>2, <1>3, <1>4, <1>5, <2>1, <2>2, <2>3 DEF Inv, CancelInv, NeverCancelsUnborn
<1>6. CASE victim' = [victim EXCEPT ![u] = @ + 1] /\ UNCHANGED aimed
  <2>1. victim[u] + 1 \in 0 .. N
    BY <1>1, <1>2, UnitIsNat
  <2>2. TypeOK'
    BY <1>1, <1>6, <2>1 DEF Inv, TypeOK, RunTypeOK, CallTypeOK, callVars
  <2>3. \A v \in aimed : victim'[v] = victim[v]
    BY <1>1, <1>6 DEF Inv, TypeOK
  <2> QED
    BY <1>1, <1>3, <1>4, <1>6, <2>2, <2>3 DEF Inv, CancelInv, NeverCancelsUnborn
<1> QED BY <1>5, <1>6 DEF LookAtVictim

(* pthread_cancel: the caller has a result and is not its own target.      *)
LEMMA CancelCallInv ==
  ASSUME Inv, NEW u \in Unit, Cancel(u)
  PROVE  Inv'
<1>1. /\ u \in aimed /\ aimed' = aimed \ {u} /\ victim' = [victim EXCEPT ![u] = @ + 1]
      /\ cancelling' \subseteq cancelling \cup {victim[u]}
      /\ program' \in {program, "crashed"}
      /\ UNCHANGED callVars /\ UNCHANGED <<size, main, started, joined>> /\ UNCHANGED running
      /\ UNCHANGED <<pc, hasResult, left>> /\ UNCHANGED <<lockLost, blocked>>
  BY DEF Cancel, PastVictim, callVars, runVars, lockVars
<1>2. /\ hasResult[u] /\ victim[u] # u /\ victim[u] \in Unit
      /\ victim[u] < started /\ pc[victim[u]] # "unborn"
  BY <1>1 DEF Inv, CancelInv, NeverCancelsUnborn
<1>3. \A v \in Unit : UnitInv(v)'
  BY <1>1, StutterUnit, TypeRun DEF Inv
<1>4. RunInv'
  BY <1>1, RunKept DEF Inv, runVars
<1>5. victim[u] + 1 \in 0 .. N
  BY <1>2, UnitIsNat DEF Unit
<1>6. TypeOK'
  BY <1>1, <1>2, <1>5 DEF Inv, TypeOK, RunTypeOK, CallTypeOK, callVars
<1>7. \A v \in aimed' : v \in aimed /\ victim'[v] = victim[v]
  BY <1>1 DEF Inv, TypeOK
<1>8. CancelInv' /\ NeverCancelsUnborn'
  BY <1>1, <1>2, <1>7 DEF Inv, CancelInv, NeverCancelsUnborn
<1> QED BY <1>3, <1>4, <1>6, <1>8 DEF Inv

(* Whoever a request ends has been created, and another has a result.      *)
LEMMA CancelledInv ==
  ASSUME Inv, NEW u \in Unit, Cancelled(u)
  PROVE  Inv'
<1>1. /\ u \in cancelling /\ pc[u] \notin {"exited", "cancelled"}
      /\ cancelling' = cancelling \ {u}
      /\ pc' = [pc EXCEPT ![u] = "cancelled"] \/ UNCHANGED pc
      /\ program' \in {program, "exit(0)", "crashed"}
      /\ lockLost' \in {lockLost, TRUE} /\ blocked' \subseteq blocked \cup {u}
      /\ UNCHANGED <<expected, endless, pos, hasResult, result, tested, left, printed>>
      /\ UNCHANGED runVars /\ UNCHANGED <<size, main, started, joined>>
      /\ UNCHANGED <<running, victim, aimed>>
  BY DEF Cancelled, Ended, Goto, runVars, lockVars
<1>2. RunOK /\ CallOK /\ pc \in [Unit -> CancelPlaces]
  BY TypeRun DEF Inv
<1>3. CallOK' /\ \A v \in Unit : UnitInv(v)'
  <2>1. CASE pc' = [pc EXCEPT ![u] = "cancelled"]
    BY <1>1, <1>2, <2>1, RunnerUnit DEF Inv
  <2>2. CASE UNCHANGED pc
    <3>1. UNCHANGED callVars
      BY <1>1, <2>2 DEF callVars
    <3> QED BY <1>2, <3>1, StutterUnit DEF Inv
  <2> QED BY <1>1, <2>1, <2>2
<1>4. \A v \in Unit : pc'[v] = pc[v] \/ (v = u /\ pc'[v] = "cancelled")
  BY <1>1, <1>2
<1>5. \E v \in Unit : v # u /\ hasResult[v]
  BY <1>1 DEF Inv, CancelInv
<1>6. pc[u] # "unborn"
  BY <1>1 DEF Inv, CancelInv
<1>7. RunInv'
  BY <1>1, <1>4, <1>6, RunKept DEF Inv, Through
<1>8. TypeOK'
  BY <1>1, <1>2, <1>3 DEF Inv, TypeOK, RunTypeOK, CallOK
<1>9. CancelInv' /\ NeverCancelsUnborn'
  BY <1>1, <1>4, <1>5, <1>6 DEF Inv, CancelInv, NeverCancelsUnborn, TypeOK
<1> QED BY <1>3, <1>7, <1>8, <1>9 DEF Inv

(* A thread that blocks is where it was.                                   *)
LEMMA BlocksInv ==
  ASSUME Inv, NEW u \in Unit, Blocks(u)
  PROVE  Inv'
<1>1. /\ UNCHANGED callVars /\ UNCHANGED runVars /\ UNCHANGED <<running, program>>
      /\ UNCHANGED <<cancelling, victim, aimed>> /\ UNCHANGED lockLost
      /\ blocked' = blocked \cup {u}
  BY DEF Blocks
<1>2. \A v \in Unit : UnitInv(v)'
  BY <1>1, StutterUnit, TypeRun DEF Inv
<1>3. TypeOK'
  BY <1>1 DEF Inv, TypeOK, RunTypeOK, CallTypeOK, callVars, runVars
<1>4. RunInv' /\ CancelInv' /\ NeverCancelsUnborn'
  BY <1>1 DEF Inv, RunInv, SpawnAllowed, CancelInv, NeverCancelsUnborn, callVars, runVars
<1> QED BY <1>2, <1>3, <1>4 DEF Inv

(* Nor does the thread that called run() move anything when it blocks.     *)
LEMMA MainBlocksInv ==
  ASSUME Inv, MainBlocks, UNCHANGED <<killVars, running>>
  PROVE  Inv'
<1>1. /\ UNCHANGED callVars /\ main' = "broken" /\ UNCHANGED <<size, started, joined>>
      /\ UNCHANGED <<running, program>> /\ UNCHANGED <<cancelling, victim, aimed>>
      /\ UNCHANGED <<lockLost, blocked>>
  BY DEF MainBlocks, killVars, lockVars
<1>2. \A v \in Unit : UnitInv(v)'
  BY <1>1, StutterUnit, TypeRun DEF Inv
<1>3. TypeOK'
  BY <1>1 DEF Inv, TypeOK, RunTypeOK, CallTypeOK, callVars
<1>4. RunInv' /\ CancelInv' /\ NeverCancelsUnborn'
  BY <1>1 DEF Inv, RunInv, SpawnAllowed, CancelInv, NeverCancelsUnborn, callVars
<1> QED BY <1>2, <1>3, <1>4 DEF Inv

(* The thread that called run() otherwise takes a step of the runner.     *)
LEMMA MainInv ==
  ASSUME Inv, Main, ~MainBlocks
  PROVE  Inv'
<1>1. /\ RunOK /\ RunInv /\ Joinable \in SUBSET Through
      /\ Refuse \/ Spawn("starting") \/ JoinNext(Joinable)
      /\ UNCHANGED <<program, cancelling, victim, aimed>> /\ UNCHANGED running
      /\ UNCHANGED <<lockLost, blocked>>
  BY TypeRun DEF Inv, Main, Joinable, Through, killVars, lockVars
<1>2. RunOK' /\ RunInv'
  BY <1>1, RunnerRun
<1>3. \A v \in Unit : UnitInv(v)'
  BY <1>1, RunnerUnits DEF Inv
<1>4. /\ UNCHANGED <<hasResult, left>>
      /\ started' \in {started, started + 1}
      /\ \/ UNCHANGED pc
         \/ started \in Unit /\ pc' = [pc EXCEPT ![started] = "starting"]
  BY <1>1, RunnerMoves
<1>5. /\ pc' \in [Unit -> CancelPlaces]
      /\ \A v \in Unit : /\ pc'[v] = "unborn" => pc[v] = "unborn"
                         /\ pc'[v] = "cancelled" => pc[v] = "cancelled"
  BY <1>4, TypeRun DEF Inv, CancelPlaces
<1>6. \A v \in Unit : v < started => v < started'
  <2>1. started \in Nat
    BY <1>1, UnitIsNat DEF RunOK, RunTypeOK
  <2> QED BY <1>4, <2>1, UnitIsNat
<1>7. TypeOK'
  BY <1>1, <1>2, <1>5 DEF Inv, TypeOK, RunOK, CancelPlaces
<1>8. CancelInv' /\ NeverCancelsUnborn'
  BY <1>1, <1>4, <1>5, <1>6 DEF Inv, CancelInv, NeverCancelsUnborn, TypeOK
<1> QED BY <1>2, <1>3, <1>7, <1>8 DEF Inv

-----------------------------------------------------------------------------
(* The inductive invariant holds initially.                                *)
LEMMA InitInv == Init => Inv
<1> SUFFICES ASSUME Init PROVE Inv
  OBVIOUS
<1>1. RunOK /\ RunInv /\ \A u \in Unit : UnitInv(u)
  BY InitRun DEF Init
<1>2. pc \in [Unit -> CancelPlaces] /\ victim \in [Unit -> 0 .. N]
  <2>1. 0 \in 0 .. N
    BY UnitIsNat
  <2> QED BY <2>1 DEF Init, CallInit, CancelPlaces
<1>3. TypeOK
  <2>1. /\ program = "running" /\ running \subseteq Unit /\ cancelling \subseteq Unit
        /\ aimed \subseteq Unit /\ lockLost \in BOOLEAN /\ blocked \subseteq Unit
    BY DEF Init
  <2> QED BY <1>1, <1>2, <2>1 DEF RunOK, TypeOK, CancelPlaces
<1>4. CancelInv /\ NeverCancelsUnborn
  BY DEF Init, CallInit, CancelInv, NeverCancelsUnborn
<1> QED BY <1>1, <1>3, <1>4 DEF Inv

(* The inductive invariant is preserved by every step.                     *)
LEMMA NextInv == Inv /\ [Next]_vars => Inv'
<1> SUFFICES ASSUME Inv, [Next]_vars PROVE Inv'
  OBVIOUS
<1>1. CASE Main
  BY <1>1, MainInv, MainBlocksInv DEF Main
<1>2. ASSUME NEW u \in Unit, UnitStep(u)
      PROVE  Inv'
  <2>1. WorkStep(u) \/ SetRunning(u) \/ LookAtVictim(u) \/ Cancel(u) \/ Cancelled(u)
          \/ Blocks(u)
    BY <1>2, WorkCases DEF Inv, UnitStep, ThreadStep
  <2> QED
    BY <2>1, WorkInv, SetRunningInv, LookAtVictimInv, CancelCallInv, CancelledInv, BlocksInv
<1>3. CASE UNCHANGED vars
  BY <1>3, StutterUnit
  DEF vars, callVars, runVars, killVars, lockVars, Inv, TypeOK, RunTypeOK, CallTypeOK, RunInv,
      SpawnAllowed, CancelInv, NeverCancelsUnborn
<1> QED BY <1>1, <1>2, <1>3 DEF Next

(* The inductive invariant holds. *)
THEOREM Invariant == Spec => []Inv
  BY InitInv, NextInv, PTL DEF Spec

(* Every variable keeps its type. *)
THEOREM TypeCorrect == Spec => []TypeOK
  BY Invariant, PTL DEF Inv

(* No thread is cancelled before it has been created, or without having    *)
(* been.                                                                   *)
THEOREM NeverCancelsUnbornHolds == Spec => []NeverCancelsUnborn
  BY Invariant, PTL DEF Inv

(* One winner alone is the winner every cancellation presupposes.          *)
LEMMA SoleWinner ==
  ASSUME Cardinality(Winners) = 1, NEW u \in Winners, NEW v \in Winners
  PROVE  u = v
<1>1. 0 \in Int /\ N - 1 \in Int
  BY UnitIsNat
<1>2. IsFiniteSet(Unit)
  BY <1>1, FS_Interval DEF Unit
<1>3. IsFiniteSet(Winners)
  BY <1>2, FS_Subset DEF Winners
<1>4. PICK w : Winners = {w}
  BY <1>3, FS_Singleton
<1> QED BY <1>4

(* The inductive invariant implies that the search is complete.            *)
LEMMA InvCompletes == Inv => SearchComplete
<1> SUFFICES ASSUME Inv, main = "done", SpawnAllowed
             PROVE  /\ Winners = {} => AllTried
                    /\ Cardinality(Winners) = 1 => \A u \in Winners : printed[u] \in expected
  BY DEF SearchComplete
<1>1. /\ 0 .. size - 1 \subseteq Unit
      /\ \A u \in Unit : pc[u] \in Through \cup {"unborn"}
  BY TypeRun, DoneThrough DEF Inv
<1>2. ASSUME Winners = {}, NEW u \in 0 .. size - 1, pc[u] # "unborn"
      PROVE  left[u] = "threw" \/ KeysOf(u) \subseteq tested[u]
  <2>1. u \in Unit /\ \A v \in Unit : ~hasResult[v]
    BY <1>1, <1>2 DEF Winners
  <2>2. pc[u] = "exited"
    BY <1>1, <1>2, <2>1 DEF Through, Inv, CancelInv
  <2>3. left[u] \in {"exhausted", "threw"}
    BY <2>1, <2>2 DEF Inv, UnitInv, CancelInv, TypeOK, RunTypeOK, CallTypeOK
  <2> QED BY <2>1, <2>3 DEF Inv, UnitInv
<1>3. ASSUME Cardinality(Winners) = 1, NEW u \in Winners
      PROVE  printed[u] \in expected
  <2>1. u \in Unit /\ hasResult[u] /\ \A v \in Unit : hasResult[v] => v = u
    BY <1>3, SoleWinner DEF Winners
  <2>2. pc[u] # "unborn" /\ pc[u] # "cancelled"
    BY <2>1 DEF Inv, UnitInv, CancelInv
  <2>3. pc[u] = "exited"
    BY <1>1, <2>1, <2>2 DEF Through
  <2> QED BY <2>1, <2>3 DEF Inv, UnitInv
<1> QED BY <1>2, <1>3 DEF AllTried

(* When run() returns without a winner everything has been tried that a    *)
(* thread was created for, and a winner without rivals has printed its     *)
(* result.                                                                 *)
THEOREM SearchCompletes == Spec => []SearchComplete
  BY Invariant, InvCompletes, PTL
=============================================================================
