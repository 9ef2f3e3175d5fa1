------------------------- MODULE ThreadRunnerProofs -------------------------
(***************************************************************************)
(* Proofs about ThreadRunner, whatever the interrupter is: where the       *)
(* thread that called run() is, against where the threads it creates and   *)
(* joins are.  The proofs about the modules that extend ThreadRunner rest  *)
(* on these lemmas and on those of CallableProofs.                         *)
(***************************************************************************)
EXTENDS ThreadRunner, CallableProofs

(* The places pthread_join can find a thread in. *)
Through == {"exited", "cancelled"}

RunOK == RunTypeOK /\ pc \in [Unit -> Places]

(* The threads are created and joined in order, all of them once; one that *)
(* could not be created has none of its own to be joined.                  *)
RunInv ==
  /\ main = "spawn" => joined = 0 /\ (SpawnAllowed => started < size)
  /\ main = "join" => SpawnAllowed /\ started = size /\ joined < size
  /\ main = "done" /\ SpawnAllowed => joined = size
  /\ \A u \in Unit : u >= started => pc[u] = "unborn"
  /\ \A u \in Unit : u < joined => pc[u] \in Through \cup {"unborn"}

-----------------------------------------------------------------------------
(* What CallableProofs asks of the types of a callable is part of RunOK.   *)
LEMMA RunCall == RunOK => CallOK
  BY DEF RunOK, RunTypeOK, CallOK

(* Units are numbered from 0.                                              *)
LEMMA UnitIsNat == Unit \subseteq Nat /\ N \in Nat
  BY CallableAssumption DEF Unit

(* Before run() there is no thread.                                        *)
LEMMA InitRun ==
  ASSUME CallInit, RunInit
  PROVE  RunOK /\ RunInv /\ \A v \in Unit : UnitInv(v)
<1>1. CallOK /\ \A v \in Unit : UnitInv(v)
  BY InitUnit
<1>2. size \in 0 .. N /\ started = 0 /\ joined = 0 /\ size \in Nat
  BY UnitIsNat DEF RunInit
<1>3. RunOK
  BY <1>1, <1>2 DEF RunInit, RunOK, RunTypeOK, CallOK
<1>4. RunInv
  BY <1>2, UnitIsNat DEF CallInit, RunInit, RunInv, SpawnAllowed
<1> QED BY <1>1, <1>3, <1>4

(* What the runner leaves alone, and which thread it moves.                *)
LEMMA RunnerMoves ==
  ASSUME RunOK, RunInv, NEW first, NEW ends, Refuse \/ Spawn(first) \/ JoinNext(ends)
  PROVE  /\ UNCHANGED <<expected, endless, pos, hasResult, result, tested, left, printed>>
         /\ UNCHANGED size
         /\ started' \in {started, started + 1}
         /\ \/ UNCHANGED pc
            \/ /\ started \in Unit /\ pc[started] = "unborn"
               /\ pc' = [pc EXCEPT ![started] = first]
<1>1. CASE Refuse \/ JoinNext(ends)
  BY <1>1 DEF Refuse, JoinNext, callVars
<1>2. CASE Spawn(first)
  <2>1. started \in Unit
    BY <1>2, CallableAssumption DEF Spawn, MoreToCreate, RunOK, RunTypeOK, Unit
  <2>2. pc[started] = "unborn"
    BY <2>1, UnitIsNat DEF RunInv
  <2> QED BY <1>2, <2>1, <2>2 DEF Spawn, Goto
<1> QED BY <1>1, <1>2

(* So the threads keep what is known of them.                              *)
LEMMA RunnerUnits ==
  ASSUME RunOK, RunInv, NEW first \in {"starting", "loop"}, NEW ends,
         Refuse \/ Spawn(first) \/ JoinNext(ends)
  PROVE  CallOK' /\ \A v \in Unit : UnitInv(v) => UnitInv(v)'
<1>1. CallOK
  BY RunCall
<1>2. CASE UNCHANGED pc
  <2>1. UNCHANGED callVars
    BY <1>2, RunnerMoves DEF callVars
  <2> QED BY <1>1, <2>1, StutterUnit
<1>3. CASE /\ started \in Unit /\ pc[started] = "unborn"
           /\ pc' = [pc EXCEPT ![started] = first]
  <2>1. UNCHANGED <<expected, endless, pos, hasResult, result, tested, left, printed>>
    BY RunnerMoves
  <2> QED BY <1>1, <1>3, <2>1, RunnerUnit
<1> QED BY <1>2, <1>3, RunnerMoves

(* A step of the runner keeps count of the threads.                        *)
LEMMA RunnerRun ==
  ASSUME RunOK, RunInv, NEW first \in {"starting", "loop"}, NEW ends \in SUBSET Through,
         Refuse \/ Spawn(first) \/ JoinNext(ends)
  PROVE  RunOK' /\ RunInv'
<1>1. CallOK' /\ UNCHANGED size
  BY RunnerUnits, RunnerMoves
<1>2. size \in Nat /\ started \in 0 .. size /\ joined \in 0 .. size
  BY UnitIsNat DEF RunOK, RunTypeOK
<1>3. CASE Refuse
  <2>1. /\ UNCHANGED <<pc, size, started, joined>> /\ UNCHANGED pc
        /\ ~SpawnAllowed /\ main' = "done"
    BY <1>3 DEF Refuse, callVars
  <2>2. ~SpawnAllowed'
    BY <2>1 DEF SpawnAllowed
  <2> QED BY <1>1, <2>1, <2>2 DEF RunInv, RunOK, RunTypeOK, CallOK
<1>4. CASE Spawn(first)
  <2>1. \A v \in Unit : pc'[v] = pc[v] \/ v = started
    BY <1>4 DEF Spawn, Goto, RunOK
  <2>2. /\ started' = started + 1 /\ joined = 0 /\ started < size
        /\ main' = IF started + 1 < size THEN "spawn" ELSE "join"
        /\ UNCHANGED <<size, joined>> /\ SpawnAllowed /\ size > 0
    BY <1>2, <1>4 DEF Spawn, MoreToCreate, RunInv, SpawnAllowed
  <2>3. SpawnAllowed'
    BY <2>2 DEF SpawnAllowed
  <2>4. \A v \in Unit : v >= started => pc[v] = "unborn"
    BY DEF RunInv
  <2>5. \A v \in Unit : v >= started' => pc'[v] = "unborn"
    BY <1>2, <2>1, <2>2, <2>4, UnitIsNat
  <2>6. started' \in 0 .. size /\ (~(started + 1 < size) => started' = size)
    BY <1>2, <2>2
  <2>7. /\ main' = "spawn" => joined' = 0 /\ (SpawnAllowed' => started' < size')
        /\ main' = "join" => SpawnAllowed' /\ started' = size' /\ joined' < size'
        /\ main' # "done"
    BY <1>2, <2>2, <2>3, <2>6
  <2>8. \A v \in Unit : v < joined' => pc'[v] \in Through \cup {"unborn"}
    BY <1>2, <2>2, UnitIsNat
  <2>9. RunInv'
    BY <2>5, <2>7, <2>8 DEF RunInv
  <2>10. main' \in {"spawn", "join", "done", "broken"}
    BY <2>2
  <2> QED BY <1>1, <1>2, <2>2, <2>6, <2>9, <2>10 DEF RunOK, RunTypeOK, CallOK
<1>5. CASE JoinNext(ends)
  <2>1. /\ pc[joined] \in Through \cup {"unborn"} /\ UNCHANGED <<pc, size, started>>
        /\ UNCHANGED pc /\ main = "join"
        /\ \/ /\ joined' = joined + 1
              /\ main' = IF joined' = size THEN "done" ELSE "join"
           \/ UNCHANGED joined /\ main' = "broken"
    BY <1>5 DEF JoinNext, callVars
  <2>2. SpawnAllowed' /\ started = size /\ joined < size
    BY <2>1 DEF RunInv, SpawnAllowed
  <2>3. /\ joined' \in 0 .. size /\ (joined' # size => joined' < size)
        /\ main' \in {"join", "done", "broken"}
    BY <1>2, <2>1, <2>2
  <2>4. \A v \in Unit : v < joined' => v < joined \/ v = joined
    BY <1>2, <2>1, UnitIsNat
  <2>5. /\ main' # "spawn"
        /\ main' = "join" => SpawnAllowed' /\ started' = size' /\ joined' < size'
        /\ main' = "done" /\ SpawnAllowed' => joined' = size'
    BY <1>2, <2>1, <2>2, <2>3
  <2>6. /\ \A v \in Unit : v >= started' => pc'[v] = "unborn"
        /\ \A v \in Unit : v < joined' => pc'[v] \in Through \cup {"unborn"}
    BY <2>1, <2>4 DEF RunInv
  <2>7. RunInv'
    BY <2>5, <2>6 DEF RunInv
  <2> QED BY <1>1, <2>1, <2>3, <2>7 DEF RunOK, RunTypeOK, CallOK
<1> QED BY <1>3, <1>4, <1>5

(* Threads that neither come to life nor come back leave it as it is.      *)
LEMMA RunKept ==
  ASSUME RunInv, UNCHANGED runVars,
         \A v \in Unit : /\ pc[v] = "unborn" <=> pc'[v] = "unborn"
                         /\ pc[v] \in Through => pc'[v] \in Through
  PROVE  RunInv'
  BY DEF RunInv, SpawnAllowed, runVars

(* The steps of run() are of that kind.                                    *)
LEMMA ActionRun ==
  ASSUME RunOK, RunInv, NEW u \in Unit, UnitAction(u) \/ UNCHANGED callVars,
         UNCHANGED runVars
  PROVE  RunOK' /\ RunInv'
<1>1. CallOK'
  BY RunCall, ActionType, StutterUnit
<1>2. \A v \in Unit : /\ pc[v] = "unborn" <=> pc'[v] = "unborn"
                      /\ pc[v] \in Through => pc'[v] \in Through
  <2>1. CASE UnitAction(u)
    BY <2>1, ActionMoves DEF MovesUnit, RunOK, Through
  <2>2. CASE UNCHANGED callVars
    BY <2>2 DEF callVars
  <2> QED BY <2>1, <2>2
<1> QED BY <1>1, <1>2, RunKept DEF RunOK, RunTypeOK, CallOK, runVars

(* When run() returns after creating threads, all of them are through, but *)
(* those that could not be created.                                        *)
LEMMA DoneThrough ==
  ASSUME RunOK, RunInv, main = "done", SpawnAllowed
  PROVE  /\ joined = size
         /\ 0 .. size - 1 \subseteq Unit
         /\ \A u \in Unit : pc[u] \in Through \cup {"unborn"}
<1>1. joined = size /\ started \in 0 .. size /\ size \in 0 .. N /\ size \in Nat
  BY UnitIsNat DEF RunInv, RunOK, RunTypeOK
<1>2. ASSUME NEW u \in Unit
      PROVE  pc[u] \in Through \cup {"unborn"}
  BY <1>1, UnitIsNat DEF RunInv
<1> QED BY <1>1, <1>2, UnitIsNat DEF Unit
=============================================================================
