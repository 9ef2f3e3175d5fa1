----------------------- MODULE SharedMemoryRunProofs -----------------------
(***************************************************************************)
(* Proofs about SharedMemoryRun, for any number of threads, any arguments  *)
(* and any length of the message: its type invariant, NoFalseStop and      *)
(* SearchComplete, and that it implements AbstractSystemInterrupter.       *)
(***************************************************************************)
EXTENDS SharedMemoryRun, ThreadRunnerProofs

(* What is in the page has been written by a thread with a result; what a  *)
(* thread has read, and what it has written, is in the page.               *)
ShmInv ==
  /\ shm # {} => \E v \in Unit : hasResult[v]
  /\ \A u \in Unit : 0 .. scanned[u] - 1 \subseteq shm
  /\ \A u \in Unit : Copied \ unwritten[u] \subseteq shm

Inv ==
  /\ TypeOK
  /\ \A u \in Unit : UnitInv(u)
  /\ RunInv
  /\ ShmInv
  /\ NoFalseStop

-----------------------------------------------------------------------------
(* What the lemmas about the runner and about a single unit ask for.       *)
LEMMA TypeRun == TypeOK => RunOK /\ CallOK
<1>1. TypeOK => RunOK
  BY DEF TypeOK, RunOK, Places
<1> QED BY <1>1, RunCall

(* The steps of run() are steps of a unit in the sense of CallableProofs. *)
LEMMA ThreadStepAction ==
  ASSUME NEW u \in Unit, ThreadStep(u)
  PROVE  /\ UNCHANGED runVars
         /\ UnitAction(u) \/ UNCHANGED callVars
<1>1. ASSUME CheckNextSyncCall(u) PROVE UnitAction(u)
  BY <1>1, CheckedAction DEF CheckNextSyncCall
<1> QED
  BY <1>1 DEF ThreadStep, LoopStep, ScanByte, CheckNextSyncCall, HandleSuccess, UnitAction

(* Type correctness of each action: the steps of run() first.              *)
LEMMA ActionTypes ==
  ASSUME TypeOK, RunInv, NEW u \in Unit, ThreadStep(u)
  PROVE  /\ RunTypeOK' /\ RunInv'
         /\ pc' \in [Unit -> {"unborn", "loop", "check", "call", "announce", "report", "exited"}]
<1>1. UNCHANGED runVars /\ (UnitAction(u) \/ UNCHANGED callVars) /\ RunOK
  BY ThreadStepAction, TypeRun
<1>2. RunOK' /\ RunInv'
  BY <1>1, ActionRun
<1>3. pc' \in [Unit -> {"unborn", "loop", "check", "call", "announce", "report", "exited"}]
  BY <1>1, ActionMoves DEF MovesUnit, TypeOK, callVars
<1> QED BY <1>2, <1>3 DEF RunOK

(* Reading the page keeps the types.                                       *)
LEMMA CheckType ==
  ASSUME TypeOK, NEW u \in Unit, ScanByte(u) \/ CheckNextSyncCall(u)
  PROVE  shm' \subseteq Message /\ scanned' \in [Unit -> 0 .. MsgLen]
         /\ unwritten' \in [Unit -> SUBSET Copied]
<1>1. CASE ScanByte(u)
  <2>1. scanned[u] \in 0 .. MsgLen /\ scanned[u] # MsgLen /\ MsgLen \in Nat
    BY <1>1, ShmAssumption DEF ScanByte, ReadsSuccess, TypeOK
  <2> QED
    BY <1>1, <2>1 DEF ScanByte, TypeOK
<1>2. CASE CheckNextSyncCall(u)
  <2>1. 0 \in 0 .. MsgLen
    BY ShmAssumption
  <2> QED
    BY <1>2, <2>1 DEF CheckNextSyncCall, TypeOK
<1> QED BY <1>1, <1>2

(* Writing the page keeps the types.                                       *)
LEMMA HandleSuccessType ==
  ASSUME TypeOK, NEW u \in Unit, HandleSuccess(u)
  PROVE  shm' \subseteq Message /\ scanned' \in [Unit -> 0 .. MsgLen]
         /\ unwritten' \in [Unit -> SUBSET Copied]
<1>1. PICK bytes \in SUBSET unwritten[u] :
        /\ shm' = shm \cup bytes
        /\ \/ unwritten' = [unwritten EXCEPT ![u] = Copied]
           \/ unwritten' = [unwritten EXCEPT ![u] = @ \ bytes]
  BY DEF HandleSuccess
<1>2. bytes \subseteq Message
  BY <1>1 DEF TypeOK, Copied
<1> QED
  BY <1>1, <1>2 DEF TypeOK, HandleSuccess

(* The thread that called run() takes a step of the runner.                *)
LEMMA MainSteps ==
  ASSUME TypeOK, RunInv, Main
  PROVE  /\ RunOK' /\ RunInv'
         /\ \A v \in Unit : UnitInv(v) => UnitInv(v)'
         /\ UNCHANGED <<hasResult, left>> /\ UNCHANGED shmVars
         /\ \A v \in Unit : pc'[v] = pc[v] \/ (pc[v] = "unborn" /\ pc'[v] = "loop")
         /\ pc' \in [Unit -> {"unborn", "loop", "check", "call", "announce", "report", "exited"}]
<1>1. RunOK /\ (Refuse \/ Spawn("loop") \/ JoinNext({"exited"})) /\ {"exited"} \subseteq Through
  BY TypeRun DEF Main, Through
<1>2. RunOK' /\ RunInv'
  BY <1>1, RunnerRun
<1>3. \A v \in Unit : UnitInv(v) => UnitInv(v)'
  BY <1>1, RunnerUnits
<1>4. /\ UNCHANGED <<hasResult, left>>
      /\ \/ UNCHANGED pc
         \/ started \in Unit /\ pc[started] = "unborn" /\ pc' = [pc EXCEPT ![started] = "loop"]
  BY <1>1, RunnerMoves
<1> QED BY <1>2, <1>3, <1>4 DEF TypeOK, Main

(* The type invariant is preserved, and where the runner is. *)
LEMMA NextType ==
  ASSUME TypeOK, RunInv, [Next]_vars
  PROVE  TypeOK' /\ RunInv'
<1>1. CASE Main
  BY <1>1, MainSteps DEF TypeOK, RunOK, shmVars
<1>2. ASSUME NEW u \in Unit, ThreadStep(u)
      PROVE  TypeOK' /\ RunInv'
  <2>1. /\ RunTypeOK' /\ RunInv'
        /\ pc' \in [Unit -> {"unborn", "loop", "check", "call", "announce", "report", "exited"}]
    BY <1>2, ActionTypes
  <2>2. shm' \subseteq Message /\ scanned' \in [Unit -> 0 .. MsgLen]
        /\ unwritten' \in [Unit -> SUBSET Copied]
    BY <1>2, CheckType, HandleSuccessType DEF ThreadStep, TypeOK, shmVars
  <2> QED BY <2>1, <2>2 DEF TypeOK
<1>3. CASE UNCHANGED vars
  BY <1>3
  DEF vars, callVars, runVars, shmVars, TypeOK, RunTypeOK, CallTypeOK, RunInv, SpawnAllowed
<1> QED BY <1>1, <1>2, <1>3 DEF Next

(* UnitInv of every unit is preserved. *)
LEMMA NextUnit ==
  ASSUME TypeOK, RunInv, [Next]_vars, \A v \in Unit : UnitInv(v)
  PROVE  \A v \in Unit : UnitInv(v)'
<1> TAKE v \in Unit
<1>1. CASE Main
  BY <1>1, MainSteps
<1>2. ASSUME UNCHANGED callVars
      PROVE  UnitInv(v)'
  BY <1>2, StutterUnit
<1>3. ASSUME NEW u \in Unit, ThreadStep(u)
      PROVE  UnitInv(v)'
  BY <1>2, <1>3, TypeRun, ThreadStepAction, ActionUnit
<1> QED BY <1>1, <1>2, <1>3 DEF Next, vars

-----------------------------------------------------------------------------
(* Nobody loses a result. *)
LEMMA ResultStays ==
  ASSUME TypeOK, [Next]_vars, NEW v \in Unit, hasResult[v]
  PROVE  hasResult'[v]
<1>1. ASSUME NEW u \in Unit, ThreadStep(u)
      PROVE  hasResult'[v]
  BY <1>1, TypeRun, ThreadStepAction, ResultKept DEF callVars
<1>2. CASE UNCHANGED hasResult
  BY <1>2
<1> QED
  BY <1>1, <1>2 DEF Next, vars, callVars, Main, Refuse, Spawn, JoinNext

(* The page, and what is known about it, are preserved. *)
LEMMA NextShm ==
  ASSUME TypeOK, ShmInv, [Next]_vars, \A v \in Unit : UnitInv(v)
  PROVE  ShmInv'
<1>1. \A v \in Unit : hasResult[v] => hasResult'[v]
  BY ResultStays
<1>2. CASE UNCHANGED shmVars
  BY <1>1, <1>2 DEF ShmInv, shmVars
<1>3. ASSUME NEW u \in Unit, ScanByte(u)
      PROVE  ShmInv'
  <2>1. /\ scanned[u] \in shm /\ scanned[u] \in Nat /\ UNCHANGED <<shm, unwritten>>
        /\ \A v \in Unit : scanned'[v] = IF v = u THEN scanned[u] + 1 ELSE scanned[v]
    BY <1>3 DEF ScanByte, TypeOK
  <2>2. ASSUME NEW v \in Unit
        PROVE  0 .. scanned'[v] - 1 \subseteq shm'
    <3>1. 0 .. scanned[v] - 1 \subseteq shm
      BY DEF ShmInv
    <3>2. CASE v = u
      BY <2>1, <3>1, <3>2
    <3>3. CASE v # u
      BY <2>1, <3>1, <3>3
    <3> QED BY <3>2, <3>3
  <2> QED BY <1>1, <2>1, <2>2 DEF ShmInv
<1>4. ASSUME NEW u \in Unit, CheckNextSyncCall(u)
      PROVE  ShmInv'
  <2>1. /\ UNCHANGED <<shm, unwritten>>
        /\ \A v \in Unit : scanned'[v] = IF v = u THEN 0 ELSE scanned[v]
    BY <1>4 DEF CheckNextSyncCall, TypeOK
  <2>2. 0 .. 0 - 1 = {}
    OBVIOUS
  <2> QED BY <1>1, <2>1, <2>2 DEF ShmInv
<1>5. ASSUME NEW u \in Unit, HandleSuccess(u)
      PROVE  ShmInv'
  <2>1. PICK bytes \in SUBSET unwritten[u] :
          /\ shm' = shm \cup bytes
          /\ \/ bytes = unwritten[u] /\ unwritten' = [unwritten EXCEPT ![u] = Copied]
             \/ unwritten' = [unwritten EXCEPT ![u] = @ \ bytes]
    BY <1>5 DEF HandleSuccess
  <2>2. hasResult'[u] /\ UNCHANGED scanned
    BY <1>1, <1>5 DEF HandleSuccess, UnitInv
  <2>3. ASSUME NEW v \in Unit
        PROVE  Copied \ unwritten'[v] \subseteq shm'
    <3>1. Copied \ unwritten[v] \subseteq shm
      BY DEF ShmInv
    <3> QED BY <2>1, <3>1 DEF TypeOK
  <2> QED BY <2>1, <2>2, <2>3 DEF ShmInv
<1> QED
  BY <1>2, <1>3, <1>4, <1>5 DEF Next, vars, Main, ThreadStep

(* A unit that stops has read a message, and some unit had a result then.  *)
LEMMA NextFalseStop ==
  ASSUME TypeOK, ShmInv, NoFalseStop, [Next]_vars
  PROVE  NoFalseStop'
<1>1. \A v \in Unit : hasResult[v] => hasResult'[v]
  BY ResultStays
<1>2. CASE \A v \in Unit : left'[v] = "stopped" => left[v] = "stopped"
  BY <1>1, <1>2 DEF NoFalseStop
<1>3. ASSUME NEW u \in Unit, CheckNextSyncCall(u)
      PROVE  NoFalseStop'
  <2>1. CASE ReadsSuccess(u)
    <3>1. 0 \in 0 .. scanned[u] - 1
      BY <2>1, ShmAssumption DEF ReadsSuccess
    <3>2. \E v \in Unit : hasResult[v]
      BY <3>1 DEF ShmInv
    <3> QED BY <1>1, <3>2 DEF NoFalseStop
  <2>2. CASE ~ReadsSuccess(u)
    <3>1. UNCHANGED left
      BY <1>3, <2>2 DEF CheckNextSyncCall, Checked
    <3> QED BY <1>2, <3>1
  <2> QED BY <2>1, <2>2
<1>4. ASSUME UNCHANGED left
      PROVE  NoFalseStop'
  BY <1>2, <1>4
<1>5. ASSUME NEW u \in Unit, ThreadStep(u)
      PROVE  NoFalseStop'
  <2>1. CASE Checked(u, FALSE)
    <3>1. pc[u] = "check"
      BY <2>1 DEF Checked
    <3>2. CheckNextSyncCall(u) \/ ScanByte(u)
      BY <1>5, <3>1
      DEF ThreadStep, LoopStep, HandleSuccess, FetchNext, Call, CallThrows, Report
    <3>3. ScanByte(u) => UNCHANGED left
      BY DEF ScanByte, callVars
    <3> QED BY <1>3, <1>4, <3>2, <3>3
  <2>2. CASE ~Checked(u, FALSE)
    BY <1>2, <1>4, <1>5, <2>2, TypeRun, ThreadStepAction, StopKept DEF callVars
  <2> QED BY <2>1, <2>2
<1> QED
  BY <1>4, <1>5 DEF Next, vars, callVars, Main, Refuse, Spawn, JoinNext

(* The inductive invariant holds initially.                                *)
LEMMA InitInv == Init => Inv
<1> SUFFICES ASSUME Init PROVE Inv
  OBVIOUS
<1>1. RunOK /\ RunInv /\ \A u \in Unit : UnitInv(u)
  BY InitRun DEF Init
<1>2. shm \subseteq Message /\ scanned \in [Unit -> 0 .. MsgLen]
  BY ShmAssumption DEF Init, FreshPage
<1>3. TypeOK
  BY <1>1, <1>2 DEF Init, CallInit, TypeOK, RunOK
<1>4. ShmInv
  BY DEF Init, ShmInv, FreshPage
<1>5. NoFalseStop
  BY DEF Init, CallInit, NoFalseStop
<1> QED BY <1>1, <1>3, <1>4, <1>5 DEF Inv

(* The inductive invariant is preserved by every step.                     *)
LEMMA NextInv == Inv /\ [Next]_vars => Inv'
<1> SUFFICES ASSUME Inv, [Next]_vars PROVE Inv'
  OBVIOUS
<1> USE DEF Inv
<1>1. TypeOK' /\ RunInv'
  BY NextType
<1>2. (\A u \in Unit : UnitInv(u))'
  BY NextUnit
<1>3. ShmInv' /\ NoFalseStop'
  BY NextShm, NextFalseStop
<1> QED BY <1>1, <1>2, <1>3

(* The inductive invariant holds. *)
THEOREM Invariant == Spec => []Inv
  BY InitInv, NextInv, PTL DEF Spec

(* Every variable keeps its type. *)
THEOREM TypeCorrect == Spec => []TypeOK
  BY Invariant, PTL DEF Inv

(* A thread that check_next_sync_call stops is stopped after a success,    *)
(* whatever half written message it may have read before.                  *)
THEOREM NoFalseStopHolds == Spec => []NoFalseStop
  BY Invariant, PTL DEF Inv

(* The inductive invariant implies that the search is complete.            *)
LEMMA InvCompletes == Inv => SearchComplete
<1> SUFFICES ASSUME Inv, main = "done", SpawnAllowed,
                    ~ \E u \in Unit : printed[u] \in expected
             PROVE  AllTried
  BY DEF SearchComplete
<1> USE DEF Inv
<1>1. /\ 0 .. size - 1 \subseteq Unit
      /\ \A u \in Unit : pc[u] \in Through \cup {"unborn"}
  BY TypeRun, DoneThrough
<1>2. \A u \in Unit : pc[u] \in {"exited", "unborn"}
  BY <1>1 DEF Through, TypeOK
<1>3. \A u \in Unit : ~hasResult[u]
  BY <1>2 DEF UnitInv
<1>4. ASSUME NEW u \in 0 .. size - 1, pc[u] # "unborn"
      PROVE  left[u] = "threw" \/ KeysOf(u) \subseteq tested[u]
  <2>1. u \in Unit /\ pc[u] = "exited"
    BY <1>1, <1>2, <1>4
  <2>2. left[u] \in {"exhausted", "threw"}
    BY <1>3, <2>1 DEF UnitInv, NoFalseStop, TypeOK, RunTypeOK, CallTypeOK
  <2> QED BY <2>1, <2>2 DEF UnitInv
<1> QED BY <1>4 DEF AllTried

(* run() returns only when an accepted key has been printed or every       *)
(* argument has been tried, save those behind an exception and those of a  *)
(* thread that could not be created.                                       *)
THEOREM SearchCompletes == Spec => []SearchComplete
  BY Invariant, InvCompletes, PTL
-----------------------------------------------------------------------------
(* The contract is kept by callables that ask before each call, if sizeof  *)
(* a pointer covers the message.                                           *)
Asking == \A u \in Unit : Kind[u] # "single"

WholeMessageCopied == MsgLen <= PtrSize

(* The abstract phases, as the instance of the contract sees them. *)
Phases == [u \in Unit |-> Phase(u)]

(* A step in which one unit's place in run() changes moves that unit.      *)
LEMMA PhaseMove ==
  ASSUME TypeOK, NEW u \in Unit, NEW from, NEW to,
         \A v \in Unit : v # u => pc'[v] = pc[v] /\ left'[v] = left[v],
         Phase(u) = from, Phase(u)' = to
  PROVE  Contract!Move(u, from, to)
<1>1. \A v \in Unit : v # u => Phase(v)' = Phase(v)
  BY DEF Phase
<1>2. Phases' = [Phases EXCEPT ![u] = to]
  BY <1>1 DEF Phases
<1> QED BY <1>2 DEF Contract!Move, Phases

(* A step in which no unit changes its phase leaves the phases alone.      *)
LEMMA PhaseKeep ==
  ASSUME \A v \in Unit : Phase(v)' = Phase(v)
  PROVE  UNCHANGED Phases
  BY DEF Phases

(* The initial states are initial states of the contract.                  *)
LEMMA InitContract == Init => Contract!Init
<1> SUFFICES ASSUME Init PROVE Contract!Init
  OBVIOUS
<1>1. ~FlagSet
  BY ShmAssumption DEF Init, FreshPage, FlagSet, Message
<1>2. \A u \in Unit : Phase(u) = "idle"
  BY DEF Init, CallInit, Phase
<1> QED BY <1>1, <1>2 DEF Contract!Init

(* The runner's own steps are stutters of the contract.                    *)
LEMMA MainContract ==
  ASSUME Inv, Main
  PROVE  UNCHANGED <<FlagSet, Phases>>
<1>1. UNCHANGED FlagSet
  BY DEF Main, shmVars, FlagSet
<1>2. /\ UNCHANGED left
      /\ \A v \in Unit : pc'[v] = pc[v] \/ (pc[v] = "unborn" /\ pc'[v] = "loop")
  BY MainSteps DEF Inv
<1>3. ASSUME NEW v \in Unit
      PROVE  Phase(v)' = Phase(v)
  BY <1>2 DEF Phase
<1> QED BY <1>1, <1>3, PhaseKeep

(* Taking an argument shows nothing; having none left is Exhaust.          *)
LEMMA FetchNextContract ==
  ASSUME Inv, Asking, NEW u \in Unit, FetchNext(u), UNCHANGED shmVars
  PROVE  Contract!Exhaust(u) \/ UNCHANGED <<FlagSet, Phases>>
<1>1. TypeOK /\ UNCHANGED FlagSet
  BY DEF Inv, shmVars, FlagSet
<1>2. CASE HasNextArg(u)
  <2>1. pc[u] = "loop" /\ pc' = [pc EXCEPT ![u] = "check"] /\ UNCHANGED left
    BY <1>2 DEF FetchNext, Goto, FirstStop, Asking
  <2>2. \A v \in Unit : Phase(v)' = Phase(v)
    BY <1>1, <2>1 DEF Phase, TypeOK
  <2> QED BY <1>1, <2>2, PhaseKeep
<1>3. CASE ~HasNextArg(u)
  <2>1. /\ pc[u] = "loop"
        /\ pc' = [pc EXCEPT ![u] = "report"]
        /\ left' = [left EXCEPT ![u] = "exhausted"]
    BY <1>3 DEF FetchNext, Leave, Goto
  <2>2. Phase(u) = "idle" /\ Phase(u)' = "ended"
    BY <1>1, <2>1 DEF Phase, TypeOK, RunTypeOK, CallTypeOK
  <2>3. Contract!Move(u, "idle", "ended")
    BY <1>1, <2>1, <2>2, PhaseMove DEF TypeOK, RunTypeOK, CallTypeOK
  <2> QED BY <1>1, <2>3 DEF Contract!Exhaust
<1> QED BY <1>2, <1>3

(* A call, or an exception of the function, is Work.                       *)
LEMMA CallContract ==
  ASSUME Inv, NEW u \in Unit, Call(u) \/ CallThrows(u), UNCHANGED shmVars
  PROVE  Contract!Work(u)
<1>1. TypeOK /\ UNCHANGED FlagSet
  BY DEF Inv, shmVars, FlagSet
<1>2. pc[u] = "call" /\ Phase(u) = "working"
  BY DEF Call, CallThrows, Phase
<1>3. CASE Call(u)
  <2>1. /\ pc' = [pc EXCEPT ![u] = "announce"] \/ pc' = [pc EXCEPT ![u] = "loop"]
        /\ UNCHANGED left
    BY <1>3 DEF Call, Goto
  <2>2. Phase(u)' \in {"announcing", "idle"}
    BY <1>1, <2>1 DEF Phase, TypeOK
  <2>3. Contract!Move(u, "working", Phase(u)')
    BY <1>1, <1>2, <2>1, PhaseMove DEF TypeOK
  <2> QED BY <1>1, <2>2, <2>3 DEF Contract!Work
<1>4. CASE CallThrows(u)
  <2>1. /\ pc' = [pc EXCEPT ![u] = "report"]
        /\ left' = [left EXCEPT ![u] = "threw"]
    BY <1>4 DEF CallThrows, Leave, Goto
  <2>2. Phase(u)' = "ended"
    BY <1>1, <2>1 DEF Phase, TypeOK, RunTypeOK, CallTypeOK
  <2>3. Contract!Move(u, "working", "ended")
    BY <1>1, <1>2, <2>1, <2>2, PhaseMove DEF TypeOK, RunTypeOK, CallTypeOK
  <2> QED BY <1>1, <2>3 DEF Contract!Work
<1> QED BY <1>3, <1>4

(* A whole message that has been read is in the page, and a byte that was  *)
(* found missing is missing.                                               *)
LEMMA CheckContract ==
  ASSUME Inv, NEW u \in Unit, CheckNextSyncCall(u)
  PROVE  Contract!GoOn(u) \/ Contract!Stop(u)
<1>1. TypeOK /\ UNCHANGED FlagSet /\ pc[u] = "check" /\ Phase(u) = "idle"
  BY DEF Inv, FlagSet, CheckNextSyncCall, Checked, Phase
<1>2. CASE ReadsSuccess(u)
  <2>1. FlagSet
    BY <1>2 DEF Inv, ShmInv, ReadsSuccess, FlagSet, Message
  <2>2. /\ pc' = [pc EXCEPT ![u] = "report"]
        /\ left' = [left EXCEPT ![u] = "stopped"]
    BY <1>2 DEF CheckNextSyncCall, Checked, Leave, Goto
  <2>3. Phase(u)' = "stopped"
    BY <1>1, <2>2 DEF Phase, TypeOK, RunTypeOK, CallTypeOK
  <2>4. Contract!Move(u, "idle", "stopped")
    BY <1>1, <2>2, <2>3, PhaseMove DEF TypeOK, RunTypeOK, CallTypeOK
  <2> QED BY <1>1, <2>1, <2>4 DEF Contract!Stop
<1>3. CASE ~ReadsSuccess(u)
  <2>1. scanned[u] \in Message /\ scanned[u] \notin shm
    BY <1>1, <1>3, ShmAssumption
    DEF CheckNextSyncCall, ReadsSuccess, Message, TypeOK
  <2>2. ~FlagSet
    BY <2>1 DEF FlagSet
  <2>3. pc' = [pc EXCEPT ![u] = "call"] /\ UNCHANGED left
    BY <1>3 DEF CheckNextSyncCall, Checked, Goto
  <2>4. Phase(u)' = "working"
    BY <1>1, <2>3 DEF Phase, TypeOK
  <2>5. Contract!Move(u, "idle", "working")
    BY <1>1, <2>3, <2>4, PhaseMove DEF TypeOK
  <2> QED BY <1>1, <2>2, <2>5 DEF Contract!GoOn
<1> QED BY <1>2, <1>3

(* The bytes stored before handle_success returns are the whole message;   *)
(* a store in between either completes the message or shows nothing.       *)
LEMMA HandleSuccessContract ==
  ASSUME Inv, WholeMessageCopied, NEW u \in Unit, HandleSuccess(u)
  PROVE  Contract!Announce(u) \/ Contract!Return(u) \/ UNCHANGED <<FlagSet, Phases>>
<1>1. TypeOK /\ pc[u] = "announce" /\ Phase(u) = "announcing"
  BY DEF Inv, HandleSuccess, Phase
<1>2. PICK bytes \in SUBSET unwritten[u] :
        /\ shm' = shm \cup bytes
        /\ \/ bytes = unwritten[u] /\ SuccessHandled(u)
           \/ UNCHANGED callVars
  BY DEF HandleSuccess
<1>3. CASE bytes = unwritten[u] /\ SuccessHandled(u)
  <2>1. Copied = Message
    BY ShmAssumption DEF WholeMessageCopied, Copied, Message
  <2>2. FlagSet' = TRUE
    BY <1>2, <1>3, <2>1 DEF Inv, ShmInv, FlagSet
  <2>3. \/ pc' = [pc EXCEPT ![u] = "loop"] /\ UNCHANGED left
        \/ /\ pc' = [pc EXCEPT ![u] = "report"]
           /\ left' = [left EXCEPT ![u] = "success"]
    BY <1>3 DEF SuccessHandled, Leave, Goto
  <2>4. Phase(u)' \in {"idle", "ended"}
    BY <1>1, <2>3 DEF Phase, TypeOK, RunTypeOK, CallTypeOK
  <2>5. Contract!Move(u, "announcing", Phase(u)')
    BY <1>1, <2>3, PhaseMove DEF TypeOK, RunTypeOK, CallTypeOK
  <2> QED BY <2>2, <2>4, <2>5 DEF Contract!Return
<1>4. CASE UNCHANGED callVars
  <2>1. UNCHANGED Phases
    BY <1>4 DEF callVars, Phase, Phases
  <2>2. FlagSet => FlagSet'
    BY <1>2 DEF FlagSet
  <2>3. CASE FlagSet'
    BY <1>1, <2>1, <2>2, <2>3 DEF Contract!Announce, Phases
  <2>4. CASE ~FlagSet'
    <3>1. UNCHANGED FlagSet
      BY <2>2, <2>4 DEF FlagSet
    <3> QED BY <2>1, <3>1
  <2> QED BY <2>3, <2>4
<1> QED BY <1>2, <1>3, <1>4

(* Printing the result shows nothing.                                      *)
LEMMA ReportContract ==
  ASSUME Inv, NEW u \in Unit, Report(u), UNCHANGED shmVars
  PROVE  UNCHANGED <<FlagSet, Phases>>
<1>1. UNCHANGED FlagSet
  BY DEF shmVars, FlagSet
<1>2. \A v \in Unit : Phase(v)' = Phase(v)
  BY DEF Inv, Report, Goto, Phase, TypeOK
<1> QED BY <1>1, <1>2, PhaseKeep

(* Every step maps to a step of the contract or to a stutter.              *)
LEMMA NextContract ==
  ASSUME Asking, WholeMessageCopied
  PROVE  Inv /\ [Next]_vars => [Contract!Next]_Contract!vars
<1> SUFFICES ASSUME Inv, [Next]_vars
             PROVE  Contract!Next \/ UNCHANGED <<FlagSet, Phases>>
  BY DEF Contract!vars, Phases
<1>1. CASE Main
  BY <1>1, MainContract
<1>2. CASE UNCHANGED vars
  BY <1>2 DEF vars, callVars, shmVars, FlagSet, Phases, Phase
<1>3. ASSUME NEW u \in Unit, ThreadStep(u)
      PROVE  Contract!Next \/ UNCHANGED <<FlagSet, Phases>>
  <2>1. CASE FetchNext(u) /\ UNCHANGED shmVars
    BY <2>1, FetchNextContract DEF Contract!Next
  <2>2. CASE (Call(u) \/ CallThrows(u)) /\ UNCHANGED shmVars
    BY <2>2, CallContract DEF Contract!Next
  <2>3. CASE ScanByte(u)
    BY <2>3 DEF ScanByte, callVars, FlagSet, Phases, Phase
  <2>4. CASE CheckNextSyncCall(u)
    BY <2>4, CheckContract DEF Contract!Next
  <2>5. CASE HandleSuccess(u)
    BY <2>5, HandleSuccessContract DEF Contract!Next
  <2>6. CASE Report(u) /\ UNCHANGED shmVars
    BY <2>6, ReportContract
  <2> QED BY <1>3, <2>1, <2>2, <2>3, <2>4, <2>5, <2>6 DEF ThreadStep, LoopStep
<1> QED BY <1>1, <1>2, <1>3 DEF Next

(* The shared page, read and written without synchronisation, implements   *)
(* the contract of AbstractSystemInterrupter for callables that ask.       *)
THEOREM Implements ==
  ASSUME Asking, WholeMessageCopied
  PROVE  Spec => KeepsContract
<1>1. Init => Contract!Init
  BY InitContract
<1>2. Inv /\ [Next]_vars => [Contract!Next]_Contract!vars
  BY NextContract
<1> QED
  BY <1>1, <1>2, Invariant, PTL DEF Spec, KeepsContract, Contract!Spec
=============================================================================
