--------------------------- MODULE CallableProofs ---------------------------
(***************************************************************************)
(* Proofs about the run() methods of Callable, whatever the interrupter    *)
(* and the runner are: what each of their steps does to the types, and the *)
(* invariant of a single unit.  The proofs about the modules that extend   *)
(* Callable rest on these lemmas.                                          *)
(***************************************************************************)
EXTENDS Callable, TLAPS

(* The places a runner brings its units to, with those it ends them in.    *)
Places == {"unborn", "starting", "loop", "check", "call", "announce", "report",
           "exited", "killed", "cancelled"}

CallOK == CallTypeOK /\ pc \in [Unit -> Places]

(* The steps of run(), of the unit that prints its result, and those that  *)
(* the interrupter allows.                                                 *)
UnitAction(u) ==
  \/ FetchNext(u)
  \/ Call(u)
  \/ CallThrows(u)
  \/ SuccessHandled(u)
  \/ Report(u)
  \/ \E goOn \in BOOLEAN : Checked(u, goOn)

(* A unit that is at work moves, and it alone.                             *)
MovesUnit(u) ==
  /\ pc[u] \in {"loop", "check", "call", "announce", "report"}
  /\ \E to \in {"loop", "check", "call", "announce", "report", "exited"} :
       pc' = [pc EXCEPT ![u] = to]

Tried(u, n) == \A i \in 1 .. n : Args[u][i] \in tested[u]

(* What the position of a unit in run() says about its result and about    *)
(* the arguments it has tried.                                             *)
UnitInv(u) ==
  /\ pc[u] \in {"unborn", "starting", "loop", "check", "call", "announce"} => left[u] = "no"
  /\ pc[u] \in {"report", "exited"} => left[u] # "no"
  /\ pc[u] = "announce" => hasResult[u]
  /\ hasResult[u] => result[u] \in expected
  /\ hasResult[u] => pc[u] \notin {"unborn", "starting"}
  /\ hasResult[u] /\ Kind[u] # "multiple" => pc[u] \notin {"loop", "check", "call"}
  /\ left[u] = "success" => hasResult[u]
  /\ printed[u] = IF pc[u] = "exited" /\ hasResult[u] THEN result[u] ELSE NoKey
  /\ u \notin endless /\ pc[u] \in {"unborn", "starting", "loop", "announce"} => Tried(u, pos[u])
  /\ u \notin endless /\ pc[u] \in {"check", "call"} => Tried(u, pos[u] - 1)
  /\ left[u] = "exhausted" => KeysOf(u) \subseteq tested[u]

-----------------------------------------------------------------------------
(* A boolean answer of check_next_sync_call is one of the two.             *)
LEMMA CheckedAction ==
  ASSUME NEW u \in Unit, NEW goOn, Checked(u, goOn)
  PROVE  UnitAction(u)
<1>1. CASE goOn
  BY <1>1 DEF UnitAction, Checked
<1>2. CASE ~goOn
  BY <1>2 DEF UnitAction, Checked
<1> QED BY <1>1, <1>2

(* An argument that is taken is one of the keys.                           *)
LEMMA CurrentArgIsKey ==
  ASSUME CallOK, NEW u \in Unit, pc[u] \in {"check", "call", "announce"}
  PROVE  CurrentArg(u) \in Key /\ pos[u] \in 1 .. Len(Args[u])
  BY CallableAssumption DEF CallOK, CallTypeOK, CurrentArg

(* A step of run() moves its unit. *)
LEMMA ActionMoves ==
  ASSUME NEW u \in Unit, UnitAction(u)
  PROVE  MovesUnit(u)
  BY DEF UnitAction, MovesUnit, FetchNext, Call, CallThrows, SuccessHandled, Report, Checked,
         Leave, Goto, FirstStop

(* Taking an argument keeps the types.                                     *)
LEMMA FetchNextType ==
  ASSUME CallOK, NEW u \in Unit, FetchNext(u)
  PROVE  CallTypeOK'
<1>0. Len(Args[u]) \in Nat /\ (HasNextArg(u) => Len(Args[u]) > 0)
  BY CallableAssumption DEF HasNextArg, CallOK, CallTypeOK
<1>1. CASE HasNextArg(u)
  <2>1. /\ pos' = [pos EXCEPT ![u] = IF @ = Len(Args[u]) THEN 1 ELSE @ + 1]
        /\ pc' = [pc EXCEPT ![u] = FirstStop(u)]
        /\ UNCHANGED <<expected, endless, hasResult, result, tested, left, printed>>
    BY <1>1 DEF FetchNext, Goto
  <2>2. pos \in [Unit -> Nat] /\ (\A v \in Unit : pos[v] <= Len(Args[v]))
    BY DEF CallOK, CallTypeOK
  <2>3. pos' \in [Unit -> Nat] /\ (\A v \in Unit : pos'[v] <= Len(Args[v])) /\ pos'[u] > 0
    BY <1>0, <1>1, <2>1, <2>2
  <2>4. \A v \in Unit : pc'[v] \in {"check", "call", "announce"} => pos'[v] > 0
    BY <2>1, <2>3 DEF CallOK, CallTypeOK
  <2> QED
    BY <2>1, <2>3, <2>4 DEF CallOK, CallTypeOK
<1>2. CASE ~HasNextArg(u)
  BY <1>2 DEF FetchNext, CallOK, CallTypeOK, Goto, Leave
<1> QED BY <1>1, <1>2

(* Every step of run() keeps the types.                                    *)
LEMMA ActionType ==
  ASSUME CallOK, NEW u \in Unit, UnitAction(u)
  PROVE  CallOK'
<1>1. pc' \in [Unit -> Places]
  BY ActionMoves DEF MovesUnit, CallOK, Places
<1>2. CallTypeOK'
  <2>1. CASE FetchNext(u)
    BY <2>1, FetchNextType
  <2>2. CASE Call(u)
    <3>1. CurrentArg(u) \in Key
      BY <2>2, CurrentArgIsKey DEF Call
    <3> QED BY <2>2, <3>1 DEF Call, CallOK, CallTypeOK, Goto
  <2>3. CASE CallThrows(u)
    BY <2>3 DEF CallThrows, CallOK, CallTypeOK, Leave, Goto
  <2>4. CASE SuccessHandled(u)
    BY <2>4 DEF SuccessHandled, CallOK, CallTypeOK, Leave, Goto
  <2>5. CASE Report(u)
    BY <2>5 DEF Report, CallOK, CallTypeOK, Goto
  <2>6. ASSUME NEW goOn \in BOOLEAN, Checked(u, goOn)
        PROVE  CallTypeOK'
    BY <2>6 DEF Checked, CallOK, CallTypeOK, Leave, Goto
  <2> QED BY <2>1, <2>2, <2>3, <2>4, <2>5, <2>6 DEF UnitAction
<1> QED BY <1>1, <1>2 DEF CallOK

(* Nobody loses a result, and only a call can give one.                    *)
LEMMA ResultKept ==
  ASSUME CallOK, NEW u \in Unit, UnitAction(u), NEW v \in Unit
  PROVE  /\ hasResult[v] => hasResult'[v]
         /\ hasResult'[v] => hasResult[v] \/ (v = u /\ pc[u] = "call")
         /\ pc[u] # "call" => UNCHANGED hasResult
<1>1. CASE Call(u)
  BY <1>1 DEF Call, CallOK, CallTypeOK
<1>2. CASE UNCHANGED hasResult
  BY <1>2
<1> QED
  BY <1>1, <1>2 DEF UnitAction, FetchNext, CallThrows, SuccessHandled, Report, Checked

(* A unit leaves its loop because it is stopped only when it is told so.   *)
LEMMA StopKept ==
  ASSUME CallOK, NEW u \in Unit, UnitAction(u), ~Checked(u, FALSE), NEW v \in Unit,
         left'[v] = "stopped"
  PROVE  left[v] = "stopped"
  BY DEF UnitAction, FetchNext, Call, CallThrows, SuccessHandled, Report, Checked, Leave,
         CallOK, CallTypeOK

-----------------------------------------------------------------------------
(* UnitInv of every unit, across each action of one of them. *)
LEMMA FetchNextUnit ==
  ASSUME CallOK, NEW u \in Unit, FetchNext(u), NEW v \in Unit, UnitInv(v)
  PROVE  UnitInv(v)'
<1>1. UNCHANGED <<expected, endless, hasResult, result, tested, printed>>
  BY DEF FetchNext
<1>2. CASE v # u
  <2>1. pc'[v] = pc[v] /\ pos'[v] = pos[v] /\ left'[v] = left[v]
    BY <1>2 DEF FetchNext, Goto, Leave, CallOK, CallTypeOK
  <2> QED BY <1>1, <2>1 DEF UnitInv, Tried, KeysOf
<1>3. CASE v = u /\ HasNextArg(u)
  <2>1. /\ pc[v] = "loop" /\ pc'[v] \in {"check", "call"}
        /\ left'[v] = left[v]
        /\ pos'[v] = IF pos[v] = Len(Args[v]) THEN 1 ELSE pos[v] + 1
        /\ pc'[v] = "call" => Kind[v] = "single"
    BY <1>3 DEF FetchNext, Goto, FirstStop, CallOK, CallTypeOK
  <2>2. v \notin endless => pos'[v] - 1 = pos[v]
    BY <1>3, <2>1, CallableAssumption DEF HasNextArg, CallOK, CallTypeOK
  <2> QED BY <1>1, <2>1, <2>2 DEF UnitInv, Tried, KeysOf
<1>4. CASE v = u /\ ~HasNextArg(u)
  <2>1. /\ pc[v] = "loop" /\ pc'[v] = "report"
        /\ left'[v] = "exhausted" /\ pos'[v] = pos[v]
    BY <1>4 DEF FetchNext, Leave, Goto, CallOK, CallTypeOK
  <2>2. v \notin endless /\ pos[v] = Len(Args[v])
    BY <1>4, CallableAssumption DEF HasNextArg, CallOK, CallTypeOK
  <2>3. KeysOf(v) \subseteq tested'[v]
    BY <1>1, <2>1, <2>2 DEF UnitInv, Tried, KeysOf
  <2> QED BY <1>1, <2>1, <2>2, <2>3 DEF UnitInv, Tried, KeysOf
<1> QED BY <1>2, <1>3, <1>4

(* The answer of check_next_sync_call keeps UnitInv.                       *)
LEMMA CheckedUnit ==
  ASSUME CallOK, NEW u \in Unit, NEW goOn \in BOOLEAN, Checked(u, goOn),
         NEW v \in Unit, UnitInv(v)
  PROVE  UnitInv(v)'
<1>1. UNCHANGED <<expected, endless, pos, hasResult, result, tested, printed>>
  BY DEF Checked
<1>2. CASE v # u
  <2>1. pc'[v] = pc[v] /\ left'[v] = left[v]
    BY <1>2 DEF Checked, Goto, Leave, CallOK, CallTypeOK
  <2> QED BY <1>1, <2>1 DEF UnitInv, Tried, KeysOf
<1>3. CASE v = u
  <2>1. /\ pc[v] = "check"
        /\ \/ pc'[v] = "call" /\ left'[v] = left[v]
           \/ pc'[v] = "report" /\ left'[v] = "stopped"
    BY <1>3 DEF Checked, Goto, Leave, CallOK, CallTypeOK
  <2> QED BY <1>1, <2>1 DEF UnitInv, Tried, KeysOf
<1> QED BY <1>2, <1>3

(* A call, or an exception of the function, keeps UnitInv.                 *)
LEMMA CallUnit ==
  ASSUME CallOK, NEW u \in Unit, Call(u) \/ CallThrows(u), NEW v \in Unit, UnitInv(v)
  PROVE  UnitInv(v)'
<1>1. UNCHANGED <<expected, endless, pos, printed>>
  BY DEF Call, CallThrows
<1>2. CASE v # u
  <2>1. /\ pc'[v] = pc[v] /\ left'[v] = left[v]
        /\ hasResult'[v] = hasResult[v] /\ result'[v] = result[v]
        /\ tested'[v] = tested[v]
    BY <1>2 DEF Call, CallThrows, Goto, Leave, CallOK, CallTypeOK
  <2> QED BY <1>1, <2>1 DEF UnitInv, Tried, KeysOf
<1>3. CASE v = u /\ CallThrows(u)
  <2>1. /\ pc[v] = "call" /\ pc'[v] = "report" /\ left'[v] = "threw"
        /\ UNCHANGED <<hasResult, result, tested>>
    BY <1>3 DEF CallThrows, Goto, Leave, CallOK, CallTypeOK
  <2> QED BY <1>1, <2>1 DEF UnitInv, Tried, KeysOf
<1>4. CASE v = u /\ Call(u)
  <2>1. /\ pc[v] = "call" /\ left'[v] = left[v]
        /\ tested'[v] = tested[v] \cup {Args[v][pos[v]]}
        /\ result'[v] = IF TakesResult(v) THEN CurrentArg(v) ELSE result[v]
        /\ \/ CurrentArg(v) \in expected /\ hasResult'[v] = TRUE /\ pc'[v] = "announce"
           \/ CurrentArg(v) \notin expected /\ hasResult'[v] = hasResult[v] /\ pc'[v] = "loop"
    BY <1>4 DEF Call, Goto, CallOK, CallTypeOK, CurrentArg
  <2>2. v \notin endless => Tried(v, pos[v])'
    <3> SUFFICES ASSUME v \notin endless, NEW i \in 1 .. pos[v]
                 PROVE  Args[v][i] \in tested'[v]
      BY <1>1 DEF Tried
    <3>1. CASE i = pos[v]
      BY <2>1, <3>1
    <3>2. CASE i \in 1 .. pos[v] - 1
      BY <2>1, <3>2 DEF UnitInv, Tried
    <3> QED BY <3>1, <3>2 DEF CallOK, CallTypeOK
  <2>3. hasResult'[v] => result'[v] \in expected
    BY <2>1 DEF UnitInv, TakesResult
  <2>4. hasResult'[v] /\ Kind[v] # "multiple" => pc'[v] = "announce"
    BY <2>1 DEF UnitInv
  <2>5. left'[v] = "no" /\ printed[v] = NoKey
    BY <2>1 DEF UnitInv
  <2> QED BY <1>1, <2>1, <2>2, <2>3, <2>4, <2>5 DEF UnitInv
<1> QED BY <1>2, <1>3, <1>4

(* The return of handle_success keeps UnitInv.                             *)
LEMMA SuccessHandledUnit ==
  ASSUME CallOK, NEW u \in Unit, SuccessHandled(u), NEW v \in Unit, UnitInv(v)
  PROVE  UnitInv(v)'
<1>1. UNCHANGED <<expected, endless, pos, hasResult, result, tested, printed>>
  BY DEF SuccessHandled
<1>2. CASE v # u
  <2>1. pc'[v] = pc[v] /\ left'[v] = left[v]
    BY <1>2 DEF SuccessHandled, Goto, Leave, CallOK, CallTypeOK
  <2> QED BY <1>1, <2>1 DEF UnitInv, Tried, KeysOf
<1>3. CASE v = u
  <2>1. /\ pc[v] = "announce"
        /\ \/ Kind[v] = "multiple" /\ pc'[v] = "loop" /\ left'[v] = left[v]
           \/ Kind[v] # "multiple" /\ pc'[v] = "report" /\ left'[v] = "success"
    BY <1>3 DEF SuccessHandled, Goto, Leave, CallOK, CallTypeOK
  <2> QED BY <1>1, <2>1 DEF UnitInv, Tried, KeysOf
<1> QED BY <1>2, <1>3

(* Printing the result keeps UnitInv.                                      *)
LEMMA ReportUnit ==
  ASSUME CallOK, NEW u \in Unit, Report(u), NEW v \in Unit, UnitInv(v)
  PROVE  UnitInv(v)'
<1>1. UNCHANGED <<expected, endless, pos, hasResult, result, tested, left>>
  BY DEF Report
<1>2. CASE v # u
  <2>1. pc'[v] = pc[v] /\ printed'[v] = printed[v]
    BY <1>2 DEF Report, Goto, CallOK, CallTypeOK
  <2> QED BY <1>1, <2>1 DEF UnitInv, Tried, KeysOf
<1>3. CASE v = u
  <2>1. /\ pc[v] = "report" /\ pc'[v] = "exited"
        /\ printed'[v] = IF hasResult[v] THEN result[v] ELSE printed[v]
    BY <1>3 DEF Report, Goto, CallOK, CallTypeOK
  <2> QED BY <1>1, <2>1 DEF UnitInv, Tried, KeysOf
<1> QED BY <1>2, <1>3

(* Every step of run() keeps UnitInv of every unit.                        *)
LEMMA ActionUnit ==
  ASSUME CallOK, NEW u \in Unit, UnitAction(u), NEW v \in Unit, UnitInv(v)
  PROVE  UnitInv(v)'
  BY FetchNextUnit, CallUnit, SuccessHandledUnit, ReportUnit, CheckedUnit DEF UnitAction

(* So does a runner that starts a unit or ends one before it is through.   *)
LEMMA RunnerUnit ==
  ASSUME CallOK, NEW u \in Unit, NEW to,
         \/ pc[u] \in {"unborn", "starting"} /\ to \in {"starting", "loop"}
         \/ pc[u] # "exited" /\ to \in {"killed", "cancelled"},
         pc' = [pc EXCEPT ![u] = to],
         UNCHANGED <<expected, endless, pos, hasResult, result, tested, left, printed>>
  PROVE  CallOK' /\ \A v \in Unit : UnitInv(v) => UnitInv(v)'
<1>1. CallOK'
  BY DEF CallOK, CallTypeOK, Places
<1>2. ASSUME NEW v \in Unit, UnitInv(v)
      PROVE  UnitInv(v)'
  <2>1. pc'[v] = IF v = u THEN to ELSE pc[v]
    BY DEF CallOK
  <2> QED BY <1>2, <2>1 DEF UnitInv, Tried, KeysOf
<1> QED BY <1>1, <1>2

(* And a step that has nothing to do with the units.                       *)
LEMMA StutterUnit ==
  ASSUME UNCHANGED callVars
  PROVE  (CallOK => CallOK') /\ \A v \in Unit : UnitInv(v) => UnitInv(v)'
  BY DEF callVars, CallOK, CallTypeOK, UnitInv, Tried, KeysOf

(* Initially no unit has begun.                                            *)
LEMMA InitUnit ==
  ASSUME CallInit
  PROVE  CallOK /\ \A v \in Unit : UnitInv(v)
<1>1. \A u \in Unit : 0 <= Len(Args[u])
  BY CallableAssumption
<1>2. CallOK
  BY <1>1, CallableAssumption DEF CallInit, CallTypeOK, CallOK, Places
<1>3. \A v \in Unit : UnitInv(v)
  BY DEF CallInit, UnitInv, Tried
<1> QED BY <1>2, <1>3
=============================================================================
