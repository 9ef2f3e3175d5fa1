----------------------- MODULE ProcessSignalRunProofs -----------------------
(***************************************************************************)
(* Proofs about ProcessSignalRun, for any number of children, any          *)
(* arguments, and forks that may fail: all its invariants.                 *)
(***************************************************************************)
EXTENDS ProcessSignalRun, CallableProofs, FiniteSetTheorems

(* The parent's bookkeeping: which children exist, and how many it has     *)
(* waited for.  When there are fewer children than waits, the last waits   *)
(* return at once, but only after all children have been reaped.           *)
ForkInv ==
  /\ \A u \in Unit : u < toFork \/ u >= size => pc[u] = "unborn"
  /\ parent \in {"start", "fork"} => reaped = {} /\ waits = size
  /\ parent = "start" => toFork = size
  /\ parent = "fork" => SpawnAllowed /\ toFork > 0
  /\ parent = "wait" => /\ waits > 0
                        /\ Born = reaped \/ size <= Cardinality(reaped) + waits

(* Who announces has a result, ignores SIGINT before it sends it, and is   *)
(* never killed; who has a result and is through with handle_success has   *)
(* sent it.                                                                *)
AnnounceInv ==
  /\ \A u \in Unit : u \in ignoring => hasResult[u] /\ pc[u] # "killed" /\ u \notin pending
  /\ \A u \in Unit : hasResult[u] => pc[u] = "announce" \/ signalled
  /\ signalled => \E u \in Unit : u \in ignoring

(* Nobody dies of a signal that nobody has sent.                           *)
VictimInv ==
  /\ pending # {} => signalled
  /\ parent = "killed" => signalled
  /\ \A u \in Unit : pc[u] = "killed" => signalled
  /\ \A u \in Unit : left[u] # "stopped"

(* After the return of run() nothing happens any more.                     *)
DoneInv == parent = "done" => Born \subseteq Ended /\ ~signalled

Inv ==
  /\ TypeOK
  /\ \A u \in Unit : UnitInv(u)
  /\ ForkInv
  /\ AnnounceInv
  /\ VictimInv
  /\ NobodyEscapes
  /\ DoneInv

-----------------------------------------------------------------------------
(* What CallableProofs asks of the types of a callable is part of TypeOK.  *)
LEMMA TypeCall == TypeOK => CallOK
  BY DEF TypeOK, CallOK, Places

(* The process that calls run() is none of its children.                   *)
LEMMA ParentIsNoUnit == Parent \notin Unit /\ Unit \subseteq Nat /\ N \in Nat
  BY CallableAssumption DEF Parent, Unit

(* A step of run() that is no announcement.                                *)
WorkStep(u) ==
  /\ UnitAction(u)
  /\ pc[u] # "announce"
  /\ \A v \in Unit : left'[v] = "stopped" => left[v] = "stopped"
  /\ UNCHANGED <<runVars, sigVars>>

(* A child takes a step of its callable that announces nothing, or one of  *)
(* the two halves of kill_except, or dies of a signal.                     *)
LEMMA ChildCases ==
  ASSUME TypeOK, NEW u \in Unit, ChildStep(u)
  PROVE  WorkStep(u) \/ Ignore(u) \/ KillGroup(u) \/ Deliver(u)
<1>1. CASE (LoopStep(u) \/ Report(u)) /\ UNCHANGED <<runVars, sigVars>>
  <2>1. UnitAction(u) /\ pc[u] \notin {"check", "announce"}
    BY <1>1 DEF LoopStep, FetchNext, Call, CallThrows, Report, UnitAction
  <2>2. ~Checked(u, FALSE)
    BY <2>1 DEF Checked
  <2> QED BY <1>1, <2>1, <2>2, TypeCall, StopKept DEF WorkStep
<1>2. CASE CheckNextSyncCall(u)
  <2>1. UnitAction(u) /\ pc[u] = "check" /\ UNCHANGED <<runVars, sigVars>>
    BY <1>2, CheckedAction DEF CheckNextSyncCall, Checked
  <2>2. UNCHANGED left
    BY <1>2 DEF CheckNextSyncCall, Checked
  <2> QED BY <2>1, <2>2 DEF WorkStep
<1> QED BY <1>1, <1>2 DEF ChildStep

(* What a step of run() means for the sets of processes.                   *)
LEMMA MoveSets ==
  ASSUME TypeOK, NEW u \in Unit, MovesUnit(u), UNCHANGED parent
  PROVE  /\ Born' = Born
         /\ Ended \subseteq Ended'
         /\ Alive' \subseteq Alive
         /\ u \in Born /\ u \notin Ended
         /\ \A v \in Unit : pc'[v] = "killed" <=> pc[v] = "killed"
         /\ \A v \in Unit : pc'[v] = "unborn" <=> pc[v] = "unborn"
  BY DEF MovesUnit, Born, Ended, Alive, TypeOK

(* There are finitely many children.                                       *)
LEMMA FinitePlaces ==
  ASSUME NEW n \in Nat, NEW S \in SUBSET (0 .. n - 1)
  PROVE  /\ IsFiniteSet(S) /\ Cardinality(S) \in Nat /\ Cardinality(S) <= n
         /\ n <= Cardinality(S) => S = 0 .. n - 1
<1>1. 0 \in Int /\ n - 1 \in Int /\ (n - 1) - 0 + 1 = n /\ (0 > n - 1 <=> n = 0)
  OBVIOUS
<1>2. IsFiniteSet(0 .. n - 1)
  BY <1>1, FS_Interval
<1>3. Cardinality(0 .. n - 1) = n
  <2>1. Cardinality(0 .. n - 1) = IF 0 > n - 1 THEN 0 ELSE n - 1 - 0 + 1
    BY <1>1, FS_Interval
  <2> QED BY <1>1, <2>1
<1>4. /\ IsFiniteSet(S) /\ Cardinality(S) <= Cardinality(0 .. n - 1)
      /\ Cardinality(0 .. n - 1) = Cardinality(S) => 0 .. n - 1 = S
  BY <1>2, FS_Subset
<1>5. Cardinality(S) \in Nat
  BY <1>4, FS_CardinalityType
<1> QED BY <1>3, <1>4, <1>5

(* Who has been forked has a place below the size.                         *)
LEMMA BornPlaces ==
  ASSUME TypeOK, ForkInv
  PROVE  Born \subseteq 0 .. size - 1 /\ reaped \subseteq Born /\ Ended \subseteq Born
  BY ParentIsNoUnit DEF TypeOK, ForkInv, Born, Ended, Unit

-----------------------------------------------------------------------------
(* The inductive invariant holds initially.                                *)
LEMMA InitInv == Init => Inv
<1> SUFFICES ASSUME Init PROVE Inv
  OBVIOUS
<1>1. CallOK /\ \A u \in Unit : UnitInv(u)
  BY InitUnit DEF Init
<1>2. pc = [u \in Unit |-> "unborn"] /\ hasResult = [u \in Unit |-> FALSE]
      /\ left = [u \in Unit |-> "no"]
  BY DEF Init, CallInit
<1>3. TypeOK
  <2>1. pc \in [Unit -> {"unborn", "loop", "check", "call", "announce", "report",
                         "exited", "killed"}]
    BY <1>2
  <2>2. size \in 0 .. N /\ toFork \in 0 .. size /\ waits \in 0 .. size
    BY ParentIsNoUnit DEF Init
  <2> QED BY <1>1, <2>1, <2>2 DEF Init, TypeOK, CallOK
<1>4. ForkInv /\ AnnounceInv /\ VictimInv /\ NobodyEscapes /\ DoneInv
  BY <1>2 DEF Init, ForkInv, AnnounceInv, VictimInv, NobodyEscapes, DoneInv
<1> QED BY <1>1, <1>3, <1>4 DEF Inv

(* A run() that refuses to fork returns with no child.                     *)
LEMMA StartInv ==
  ASSUME Inv, Start
  PROVE  Inv'
<1>1. /\ parent = "start" /\ parent' = IF SpawnAllowed THEN "fork" ELSE "done"
      /\ UNCHANGED <<callVars, size, toFork, waits, reaped, sigVars>>
      /\ UNCHANGED pc /\ UNCHANGED hasResult /\ UNCHANGED left
      /\ UNCHANGED <<ignoring, pending, signalled>>
  BY DEF Start, callVars, sigVars
<1>2. TypeOK'
  BY <1>1 DEF Inv, TypeOK, CallTypeOK, callVars, sigVars, Ended
<1>3. \A u \in Unit : UnitInv(u)'
  BY <1>1, StutterUnit DEF Inv
<1>4. Born = {} /\ ~signalled
  <2>1. \A u \in Unit : pc[u] = "unborn"
    BY <1>1, ParentIsNoUnit DEF Inv, ForkInv, TypeOK
  <2> QED BY <2>1 DEF Inv, AnnounceInv, UnitInv, Born, TypeOK
<1>5. Born' = Born
  BY <1>1 DEF Born
<1>6. ForkInv' /\ DoneInv'
  BY <1>1, <1>4, <1>5 DEF Inv, ForkInv, DoneInv, SpawnAllowed, TypeOK
<1>7. AnnounceInv' /\ VictimInv' /\ NobodyEscapes'
  BY <1>1, <1>4 DEF Inv, AnnounceInv, VictimInv, NobodyEscapes
<1> QED BY <1>2, <1>3, <1>6, <1>7 DEF Inv

(* A parent that can fork or wait has no signal pending: none was sent.    *)
LEMMA QuietParent ==
  ASSUME Inv, parent \in {"fork", "wait"}, Parent \notin pending
  PROVE  ~signalled
  BY ParentIsNoUnit DEF Inv, NobodyEscapes, Alive, TypeOK

(* A fork happens before any killpg, since the parent has no SIGINT pending. *)
LEMMA ForkKeepsInv ==
  ASSUME Inv, Fork
  PROVE  Inv'
<1> DEFINE c == toFork - 1
<1>1. /\ parent = "fork" /\ pc' = [pc EXCEPT ![c] = "loop"] /\ toFork' = c
      /\ parent' = IF c = 0 THEN "wait" ELSE "fork"
      /\ UNCHANGED <<expected, endless, pos, hasResult, result, tested, left, printed>>
      /\ UNCHANGED <<size, waits, reaped, ignoring, pending, signalled>>
  BY DEF Fork, Goto, sigVars
<1>2. ~signalled
  BY <1>1, QuietParent DEF Fork
<1>3. c \in Unit /\ c \in Nat /\ c < size /\ pc[c] = "unborn" /\ toFork \in Nat /\ size \in Nat
  BY <1>1, ParentIsNoUnit DEF Inv, ForkInv, TypeOK, Unit
<1> HIDE DEF c
<1>4. \A v \in Unit : pc'[v] = IF v = c THEN "loop" ELSE pc[v]
  BY <1>1 DEF Inv, TypeOK
<1>5. Ended' = Ended
  BY <1>3, <1>4 DEF Ended
<1>6. CallOK' /\ \A v \in Unit : UnitInv(v)'
  BY <1>1, <1>3, TypeCall, RunnerUnit DEF Inv
<1>7. TypeOK'
  <2>1. pc' \in [Unit -> {"unborn", "loop", "check", "call", "announce", "report",
                          "exited", "killed"}]
    BY <1>1, <1>3 DEF Inv, TypeOK
  <2>2. toFork' \in 0 .. size
    BY <1>1, <1>3
  <2> QED BY <1>1, <1>5, <1>6, <2>1, <2>2 DEF Inv, TypeOK, CallOK
<1>8. ForkInv'
  <2>1. \A v \in Unit : v < c \/ v >= size => pc'[v] = "unborn"
    BY <1>1, <1>3, <1>4, ParentIsNoUnit DEF Inv, ForkInv, c
  <2>2. Cardinality(reaped) = 0 /\ waits = size /\ reaped = {}
    BY <1>1, FS_EmptySet DEF Inv, ForkInv
  <2>3. SpawnAllowed' /\ size > 0
    BY <1>1 DEF Inv, ForkInv, SpawnAllowed
  <2>4. c # 0 => c > 0
    BY <1>3
  <2>5. size <= 0 + waits
    BY <1>3, <2>2
  <2> QED BY <1>1, <2>1, <2>2, <2>3, <2>4, <2>5 DEF ForkInv
<1>9. AnnounceInv' /\ VictimInv' /\ NobodyEscapes' /\ DoneInv'
  BY <1>1, <1>2, <1>3, <1>4 DEF Inv, AnnounceInv, VictimInv, NobodyEscapes, DoneInv, TypeOK
<1> QED BY <1>6, <1>7, <1>8, <1>9 DEF Inv

(* A fork that fails leaves a parent that waits as often as for all.       *)
LEMMA ForkFailsInv ==
  ASSUME Inv, ForkFails
  PROVE  Inv'
<1>1. /\ parent = "fork" /\ parent' = "wait"
      /\ UNCHANGED <<callVars, size, toFork, waits, reaped, ignoring, pending, signalled>>
      /\ UNCHANGED pc /\ UNCHANGED hasResult /\ UNCHANGED left
  BY DEF ForkFails, callVars, sigVars
<1>2. TypeOK'
  BY <1>1 DEF Inv, TypeOK, CallTypeOK, callVars, Ended
<1>3. \A u \in Unit : UnitInv(u)'
  BY <1>1, StutterUnit DEF Inv
<1>4. ForkInv'
  <2>1. Cardinality(reaped) = 0 /\ waits = size /\ size > 0
    BY <1>1, FS_EmptySet DEF Inv, ForkInv, SpawnAllowed
  <2> QED BY <1>1, <2>1 DEF Inv, ForkInv, TypeOK
<1>5. ~signalled
  BY <1>1, QuietParent DEF ForkFails
<1>6. AnnounceInv' /\ VictimInv' /\ NobodyEscapes' /\ DoneInv'
  BY <1>1, <1>5 DEF Inv, AnnounceInv, VictimInv, NobodyEscapes, DoneInv
<1> QED BY <1>2, <1>3, <1>4, <1>6 DEF Inv

(* A wait returns a child, or -1 when all have been reaped.                *)
LEMMA WaitInv ==
  ASSUME Inv, Wait
  PROVE  Inv'
<1>1. /\ parent = "wait" /\ waits' = waits - 1
      /\ parent' = IF waits = 1 THEN "done" ELSE "wait"
      /\ UNCHANGED <<callVars, size, toFork, ignoring, pending, signalled>>
      /\ UNCHANGED pc /\ UNCHANGED hasResult /\ UNCHANGED left
  BY DEF Wait, LastWait, callVars, sigVars
<1>2. ~signalled
  BY <1>1, QuietParent DEF Wait
<1>3. Born' = Born /\ Ended' = Ended
  BY <1>1 DEF Born, Ended
<1>4. waits \in Nat /\ waits > 0 /\ size \in Nat /\ toFork \in 0 .. size /\ waits <= size
      /\ (Born = reaped \/ size <= Cardinality(reaped) + waits)
  BY <1>1, ParentIsNoUnit DEF Inv, TypeOK, ForkInv
<1>5. Born \subseteq 0 .. size - 1 /\ reaped \subseteq Ended /\ Ended \subseteq Born
      /\ IsFiniteSet(reaped) /\ Cardinality(reaped) \in Nat
  <2>1. Born \subseteq 0 .. size - 1 /\ reaped \subseteq Ended /\ Ended \subseteq Born
    BY BornPlaces DEF Inv, TypeOK
  <2> QED BY <1>4, <2>1, FinitePlaces
<1>6. reaped' \subseteq Ended /\ (Born = reaped' \/ size <= Cardinality(reaped') + waits')
  <2>1. CASE Born = reaped /\ UNCHANGED reaped
    BY <1>5, <2>1
  <2>2. ASSUME NEW u \in Ended \ reaped, reaped' = reaped \cup {u}
        PROVE  reaped' \subseteq Ended /\ size <= Cardinality(reaped') + waits'
    <3>1. Cardinality(reaped') = Cardinality(reaped) + 1
      BY <1>5, <2>2, FS_AddElement
    <3>2. Born # reaped
      BY <1>5
    <3> QED BY <1>1, <1>4, <1>5, <2>2, <3>1, <3>2
  <2> QED BY <2>1, <2>2 DEF Wait
<1>7. TypeOK'
  BY <1>1, <1>3, <1>4, <1>6 DEF Inv, TypeOK, CallTypeOK, callVars
<1>8. \A u \in Unit : UnitInv(u)'
  BY <1>1, StutterUnit DEF Inv
<1>9. ForkInv'
  BY <1>1, <1>3, <1>4, <1>6 DEF Inv, ForkInv
<1>10. DoneInv'
  <2>1. waits = 1 => Born \subseteq reaped'
    <3> SUFFICES ASSUME waits = 1, Born # reaped' PROVE Born \subseteq reaped'
      OBVIOUS
    <3>1. waits' = 0 /\ size <= Cardinality(reaped') + 0
      BY <1>1, <1>6
    <3>2. reaped' \subseteq 0 .. size - 1
      BY <1>5, <1>6
    <3>3. reaped' = 0 .. size - 1
      BY <1>4, <3>1, <3>2, FinitePlaces
    <3> QED BY <1>5, <3>3
  <2> QED BY <1>1, <1>2, <1>3, <1>6, <2>1 DEF DoneInv
<1>11. AnnounceInv' /\ VictimInv' /\ NobodyEscapes'
  BY <1>1, <1>2 DEF Inv, AnnounceInv, VictimInv, NobodyEscapes
<1> QED BY <1>7, <1>8, <1>9, <1>10, <1>11 DEF Inv

-----------------------------------------------------------------------------
(* After run() has returned no child takes a step.                         *)
LEMMA DoneQuiet ==
  ASSUME Inv, parent = "done", NEW u \in Unit, pc[u] \notin {"unborn", "exited", "killed"}
  PROVE  FALSE
  BY DEF Inv, DoneInv, Born, Ended

(* A step of run() of a child that does not announce.                      *)
LEMMA WorkInv ==
  ASSUME Inv, NEW u \in Unit, WorkStep(u)
  PROVE  Inv'
<1>1. /\ MovesUnit(u) /\ CallOK /\ CallOK' /\ UNCHANGED <<runVars, sigVars>>
      /\ UNCHANGED <<size, parent, toFork, waits, reaped, ignoring, pending, signalled>>
      /\ pc[u] # "announce"
  BY TypeCall, ActionMoves, ActionType DEF Inv, WorkStep, runVars, sigVars
<1>2. /\ Born' = Born /\ Ended \subseteq Ended' /\ Alive' \subseteq Alive
      /\ \A v \in Unit : pc'[v] = "killed" <=> pc[v] = "killed"
      /\ \A v \in Unit : pc'[v] = "unborn" <=> pc[v] = "unborn"
  BY <1>1, MoveSets DEF Inv
<1>3. TypeOK'
  BY <1>1, <1>2 DEF Inv, TypeOK, CallOK, MovesUnit
<1>4. \A v \in Unit : UnitInv(v)'
  BY <1>1, ActionUnit DEF Inv, WorkStep
<1>5. ForkInv'
  BY <1>1, <1>2 DEF Inv, ForkInv, SpawnAllowed
<1>6. AnnounceInv'
  <2>1. \A v \in Unit : hasResult[v] => hasResult'[v]
    BY <1>1, ResultKept DEF WorkStep
  <2>2. ASSUME NEW v \in Unit, hasResult'[v]
        PROVE  pc'[v] = "announce" \/ signalled
    <3>1. CASE hasResult[v] /\ v # u
      BY <1>1, <3>1 DEF Inv, AnnounceInv, MovesUnit, TypeOK
    <3>2. CASE hasResult[v] /\ v = u
      BY <1>1, <3>2 DEF Inv, AnnounceInv
    <3>3. CASE ~hasResult[v]
      <4>1. v = u /\ pc[u] = "call"
        BY <1>1, <2>2, <3>3, ResultKept DEF WorkStep
      <4>2. Call(u)
        BY <2>2, <3>3, <4>1
        DEF WorkStep, UnitAction, FetchNext, CallThrows, SuccessHandled, Report, Checked
      <4> QED BY <2>2, <3>3, <4>1, <4>2 DEF Call, Goto, Inv, TypeOK, CallTypeOK
    <3> QED BY <3>1, <3>2, <3>3
  <2> QED BY <1>1, <1>2, <2>1, <2>2 DEF Inv, AnnounceInv
<1>7. VictimInv'
  BY <1>1, <1>2 DEF Inv, VictimInv, WorkStep
<1>8. NobodyEscapes'
  BY <1>1, <1>2 DEF Inv, NobodyEscapes
<1>9. DoneInv'
  BY <1>1, <1>2 DEF Inv, DoneInv
<1> QED BY <1>3, <1>4, <1>5, <1>6, <1>7, <1>8, <1>9 DEF Inv

(* Who announces first sees to it that its own signal will not kill it.    *)
LEMMA IgnoreInv ==
  ASSUME Inv, NEW u \in Unit, Ignore(u)
  PROVE  Inv'
<1>1. /\ pc[u] = "announce" /\ ignoring' = ignoring \cup {u} /\ pending' = pending \ {u}
      /\ UNCHANGED <<callVars, size, parent, toFork, waits, reaped, signalled>>
      /\ UNCHANGED pc /\ UNCHANGED hasResult /\ UNCHANGED left
  BY DEF Ignore, callVars, runVars
<1>2. hasResult[u]
  BY <1>1 DEF Inv, UnitInv
<1>3. Born' = Born /\ Ended' = Ended /\ Alive' = Alive
  BY <1>1 DEF Born, Ended, Alive
<1>4. TypeOK'
  BY <1>1, <1>3 DEF Inv, TypeOK, CallTypeOK, callVars
<1>5. \A v \in Unit : UnitInv(v)'
  BY <1>1, StutterUnit DEF Inv
<1>6. ForkInv'
  BY <1>1, <1>3 DEF Inv, ForkInv, SpawnAllowed
<1>7. AnnounceInv' /\ VictimInv' /\ NobodyEscapes' /\ DoneInv'
  BY <1>1, <1>2, <1>3 DEF Inv, AnnounceInv, VictimInv, NobodyEscapes, DoneInv
<1> QED BY <1>4, <1>5, <1>6, <1>7 DEF Inv

(* killpg reaches every live process that does not ignore it.              *)
LEMMA KillGroupInv ==
  ASSUME Inv, NEW u \in Unit, KillGroup(u)
  PROVE  Inv'
<1>1. /\ UnitAction(u) /\ MovesUnit(u) /\ CallOK /\ CallOK'
      /\ pc[u] = "announce" /\ u \in ignoring
      /\ pending' = pending \cup Signalled /\ signalled' = TRUE
      /\ UNCHANGED <<size, parent, toFork, waits, reaped, ignoring, hasResult>>
  BY TypeCall, ActionMoves, ActionType
  DEF Inv, KillGroup, ReadyToSignal, UnitAction, runVars, SuccessHandled
<1>2. /\ Born' = Born /\ Ended \subseteq Ended' /\ Alive' \subseteq Alive
      /\ \A v \in Unit : pc'[v] = "killed" <=> pc[v] = "killed"
      /\ \A v \in Unit : pc'[v] = "unborn" <=> pc[v] = "unborn"
  BY <1>1, MoveSets DEF Inv
<1>3. TypeOK'
  BY <1>1, <1>2 DEF Inv, TypeOK, CallOK, MovesUnit, Signalled, Alive, Born
<1>4. \A v \in Unit : UnitInv(v)'
  BY <1>1, ActionUnit DEF Inv
<1>5. ForkInv'
  BY <1>1, <1>2 DEF Inv, ForkInv, SpawnAllowed
<1>6. AnnounceInv' /\ NobodyEscapes'
  BY <1>1, <1>2 DEF Inv, AnnounceInv, NobodyEscapes, Signalled
<1>7. VictimInv'
  <2>1. \A v \in Unit : left'[v] # "stopped"
    BY DEF Inv, VictimInv, KillGroup, SuccessHandled, Leave, TypeOK, CallTypeOK
  <2> QED BY <1>1, <2>1 DEF Inv, VictimInv
<1>8. DoneInv'
  BY <1>1, DoneQuiet DEF DoneInv
<1> QED BY <1>3, <1>4, <1>5, <1>6, <1>7, <1>8 DEF Inv

(* A signal ends its target, which ignores none.                           *)
LEMMA DeliverChildInv ==
  ASSUME Inv, NEW u \in Unit, Deliver(u)
  PROVE  Inv'
<1>1. /\ u \in pending /\ u \in Alive /\ u # Parent
      /\ pc' = [pc EXCEPT ![u] = "killed"] /\ pending' = pending \ {u}
      /\ UNCHANGED <<expected, endless, pos, hasResult, result, tested, left, printed>>
      /\ UNCHANGED <<size, parent, toFork, waits, reaped, ignoring, signalled>>
  BY ParentIsNoUnit DEF Deliver, Goto
<1>2. u \in Born /\ u \notin Ended /\ signalled
  BY <1>1 DEF Alive, Inv, VictimInv
<1>3. \A v \in Unit : pc'[v] = IF v = u THEN "killed" ELSE pc[v]
  BY <1>1 DEF Inv, TypeOK
<1>4. Born' = Born /\ Ended' = Ended \cup {u} /\ Alive' = Alive \ {u}
  BY <1>1, <1>2, <1>3 DEF Born, Ended, Alive
<1>5. CallOK' /\ \A v \in Unit : UnitInv(v)'
  BY <1>1, <1>2, TypeCall, RunnerUnit DEF Inv, Ended
<1>6. TypeOK'
  BY <1>1, <1>4, <1>5 DEF Inv, TypeOK, CallOK
<1>7. ForkInv'
  BY <1>1, <1>2, <1>3, <1>4 DEF Inv, ForkInv, SpawnAllowed, Born
<1>8. AnnounceInv' /\ VictimInv' /\ NobodyEscapes' /\ DoneInv'
  BY <1>1, <1>2, <1>3, <1>4 DEF Inv, AnnounceInv, VictimInv, NobodyEscapes, DoneInv
<1> QED BY <1>5, <1>6, <1>7, <1>8 DEF Inv

(* The parent takes no precaution: the signal ends it too.                 *)
LEMMA DeliverParentInv ==
  ASSUME Inv, Deliver(Parent)
  PROVE  Inv'
<1>1. /\ Parent \in pending /\ parent' = "killed" /\ pending' = pending \ {Parent}
      /\ UNCHANGED callVars /\ UNCHANGED pc /\ UNCHANGED hasResult /\ UNCHANGED left
      /\ UNCHANGED <<size, toFork, waits, reaped, ignoring, signalled>>
  BY DEF Deliver, callVars
<1>2. signalled
  BY <1>1 DEF Inv, VictimInv
<1>3. Born' = Born /\ Ended' = Ended /\ Alive' = Alive \ {Parent}
  BY <1>1, ParentIsNoUnit DEF Born, Ended, Alive
<1>4. TypeOK'
  BY <1>1, <1>3 DEF Inv, TypeOK, CallTypeOK, callVars
<1>5. \A v \in Unit : UnitInv(v)'
  BY <1>1, StutterUnit DEF Inv
<1>6. ForkInv' /\ DoneInv'
  BY <1>1 DEF Inv, ForkInv, DoneInv
<1>7. AnnounceInv' /\ VictimInv' /\ NobodyEscapes'
  BY <1>1, <1>2, <1>3, ParentIsNoUnit DEF Inv, AnnounceInv, VictimInv, NobodyEscapes
<1> QED BY <1>4, <1>5, <1>6, <1>7 DEF Inv

(* The inductive invariant is preserved by every step.                     *)
LEMMA NextInv == Inv /\ [Next]_vars => Inv'
<1> SUFFICES ASSUME Inv, [Next]_vars PROVE Inv'
  OBVIOUS
<1>1. CASE ParentStep
  BY <1>1, StartInv, ForkKeepsInv, ForkFailsInv, WaitInv, DeliverParentInv DEF ParentStep
<1>2. ASSUME NEW u \in Unit, ChildStep(u)
      PROVE  Inv'
  <2>1. TypeOK
    BY DEF Inv
  <2> QED
    BY <1>2, <2>1, ChildCases, WorkInv, IgnoreInv, KillGroupInv, DeliverChildInv
<1>3. CASE UNCHANGED vars
  BY <1>3, StutterUnit
  DEF vars, callVars, runVars, sigVars, Inv, TypeOK, CallTypeOK, ForkInv, AnnounceInv,
      VictimInv, NobodyEscapes, DoneInv, SpawnAllowed, Born, Ended, Alive
<1> QED BY <1>1, <1>2, <1>3 DEF Next

(* The inductive invariant holds. *)
THEOREM Invariant == Spec => []Inv
  BY InitInv, NextInv, PTL DEF Spec

(* Every variable keeps its type. *)
THEOREM TypeCorrect == Spec => []TypeOK
  BY Invariant, PTL DEF Inv

(* No process escapes a killpg, not even one forked while it is under way. *)
THEOREM NobodyEscapesHolds == Spec => []NobodyEscapes
  BY Invariant, PTL DEF Inv

(* What is printed has been accepted.                                      *)
LEMMA InvPrintedAccepted == Inv => PrintedAccepted
  BY DEF Inv, UnitInv, PrintedAccepted

(* MultipleCallable does not lose a result to a later failure.             *)
THEOREM PrintedAcceptedHolds == Spec => []PrintedAccepted
  BY Invariant, InvPrintedAccepted, PTL

(* An announcer survives its own killpg and everybody else's.              *)
LEMMA InvResultSurvives == Inv => ResultSurvives
<1> SUFFICES ASSUME Inv, Alive \subseteq {Parent}, NEW u \in Unit, hasResult[u]
             PROVE  \E w \in Unit : printed[w] # NoKey
  BY DEF ResultSurvives
<1>1. \A w \in Unit : pc[w] \in {"unborn", "exited", "killed"}
  BY ParentIsNoUnit DEF Alive, Born, Ended
<1>2. signalled
  BY <1>1 DEF Inv, AnnounceInv
<1>3. PICK w \in Unit : w \in ignoring
  BY <1>2 DEF Inv, AnnounceInv
<1>4. hasResult[w] /\ pc[w] # "killed"
  BY <1>3 DEF Inv, AnnounceInv
<1>5. pc[w] = "exited"
  BY <1>1, <1>4 DEF Inv, UnitInv
<1>6. printed[w] = result[w] /\ result[w] \in expected
  BY <1>4, <1>5 DEF Inv, UnitInv
<1> QED BY <1>6, CallableAssumption DEF Inv, TypeOK, CallTypeOK

(* Processes that succeed together do not kill each other off. *)
THEOREM ResultSurvivesHolds == Spec => []ResultSurvives
  BY Invariant, InvResultSurvives, PTL

(* Before run() returns nobody has sent a signal, so nobody has a result.  *)
LEMMA InvReturns == Inv => ReturnsOnlyEmptyHanded
<1> SUFFICES ASSUME Inv, parent = "done"
             PROVE  /\ Born \subseteq Ended
                    /\ \A u \in Born : /\ ~hasResult[u]
                                       /\ left[u] = "threw" \/ KeysOf(u) \subseteq tested[u]
  BY DEF ReturnsOnlyEmptyHanded
<1>1. Born \subseteq Ended /\ ~signalled
  BY DEF Inv, DoneInv
<1>2. ASSUME NEW u \in Born
      PROVE  ~hasResult[u] /\ (left[u] = "threw" \/ KeysOf(u) \subseteq tested[u])
  <2>1. u \in Unit /\ pc[u] = "exited"
    BY <1>1 DEF Born, Ended, Inv, VictimInv
  <2>2. ~hasResult[u]
    BY <1>1, <2>1 DEF Inv, AnnounceInv
  <2>3. left[u] \in {"exhausted", "threw"}
    BY <2>1, <2>2 DEF Inv, UnitInv, VictimInv, TypeOK, CallTypeOK
  <2> QED BY <2>1, <2>2, <2>3 DEF Inv, UnitInv
<1> QED BY <1>1, <1>2

(* run() returns to main only when nobody has found a key. *)
THEOREM ReturnsOnlyEmptyHandedHolds == Spec => []ReturnsOnlyEmptyHanded
  BY Invariant, InvReturns, PTL
=============================================================================
