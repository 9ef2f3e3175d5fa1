------------------------------ MODULE Callable ------------------------------
(***************************************************************************)
(* The run() methods of Callable.h, one callable per parallel unit:        *)
(*   "map"       MapCallable, a function mapped over a generator;          *)
(*   "multiple"  MultipleCallable, a list of Callables run one by one;     *)
(*   "single"    Callable, one function call.                              *)
(* check_next_sync_call and handle_success belong to the interrupter: a    *)
(* module that extends this one says when pc[u] = "check" is left, through *)
(* Checked, and when pc[u] = "announce" is left, through SuccessHandled.   *)
(***************************************************************************)
EXTENDS Naturals, Sequences

CONSTANTS
  N,             \* number of units
  Key,           \* the arguments a callable's function can be applied to
  NoKey,         \* "no result yet"
  Args,          \* Args[u]: the arguments of unit u, in order
  Kind,          \* Kind[u]: which class unit u's callable is
  Faulty,        \* keys on which the function throws a std::exception
  EndlessSets,   \* candidates for the set of units with an endless generator
  ExpectedSets   \* candidates for the set of keys result_checker accepts

Unit == 0 .. N - 1

ASSUME CallableAssumption ==
  /\ N \in Nat
  /\ NoKey \notin Key
  /\ Args \in [Unit -> Seq(Key)]
  /\ Kind \in [Unit -> {"map", "multiple", "single"}]
  /\ EndlessSets \subseteq SUBSET { u \in Unit : Kind[u] = "map" /\ Args[u] # <<>> }
  /\ Faulty \subseteq Key
  /\ ExpectedSets \subseteq SUBSET Key

(* Only MapCallable and MultipleCallable catch what the function throws.   *)
ASSUME SingleAssumption ==
  \A u \in Unit : Kind[u] = "single" => Len(Args[u]) = 1 /\ Args[u][1] \notin Faulty

VARIABLES
  expected,   \* the keys whose result the result_checker accepts
  endless,    \* units whose generator starts over for ever
  pc,         \* where each unit is in run()
  pos,        \* number of arguments taken, the last one being Args[u][pos[u]]
  hasResult,  \* _finished /\ _has_result
  result,     \* the key _result or _result_string was computed from
  tested,     \* keys the function returned a value for
  left,       \* why the loop of run() was left
  printed     \* the key in the "Result: ..." line, NoKey if none is printed

callVars == <<expected, endless, pc, pos, hasResult, result, tested, left, printed>>

CallInit ==
  /\ expected \in ExpectedSets
  /\ endless \in EndlessSets
  /\ pc = [u \in Unit |-> "unborn"]
  /\ pos = [u \in Unit |-> 0]
  /\ hasResult = [u \in Unit |-> FALSE]
  /\ result = [u \in Unit |-> NoKey]
  /\ tested = [u \in Unit |-> {}]
  /\ left = [u \in Unit |-> "no"]
  /\ printed = [u \in Unit |-> NoKey]

Goto(u, label) == pc' = [pc EXCEPT ![u] = label]

(* Leave the loop of run(); run() returns and the runner looks for a result. *)
Leave(u, why) ==
  /\ left' = [left EXCEPT ![u] = why]
  /\ Goto(u, "report")

HasNextArgOneShort(u) == u \in endless \/ pos[u] + 1 < Len(Args[u])

HasNextArg(u) == u \in endless \/ pos[u] < Len(Args[u])

CurrentArg(u) == Args[u][pos[u]]

(* Callable.run has no loop and asks nobody before the call.               *)
FirstStop(u) == IF Kind[u] = "single" THEN "call" ELSE "check"

(* has_next() and next(), or the step of the range-for: the argument is    *)
(* consumed before check_next_sync_call is asked.                          *)
FetchNext(u) ==
  /\ pc[u] = "loop"
  /\ \/ /\ HasNextArg(u)
        /\ pos' = [pos EXCEPT ![u] = IF @ = Len(Args[u]) THEN 1 ELSE @ + 1]
        /\ Goto(u, FirstStop(u))
        /\ UNCHANGED left
     \/ /\ ~HasNextArg(u)
        /\ Leave(u, "exhausted")
        /\ UNCHANGED pos
  /\ UNCHANGED <<expected, endless, hasResult, result, tested, printed>>

(* What run() does with the answer of check_next_sync_call.                *)
Checked(u, goOn) ==
  /\ pc[u] = "check"
  /\ \/ /\ goOn
        /\ Goto(u, "call")
        /\ UNCHANGED left
     \/ /\ ~goOn
        /\ Leave(u, "stopped")
  /\ UNCHANGED <<expected, endless, pos, hasResult, result, tested, printed>>

TakesEveryResult(u) == CurrentArg(u) = CurrentArg(u)

(* MapCallable and Callable overwrite _result with every value computed,   *)
(* MultipleCallable takes _result_string from successful callables only.   *)
TakesResult(u) == CurrentArg(u) \in expected \/ Kind[u] # "multiple"

Call(u) ==
  /\ pc[u] = "call"
  /\ CurrentArg(u) \notin Faulty
  /\ tested' = [tested EXCEPT ![u] = @ \cup {CurrentArg(u)}]
  /\ result' = [result EXCEPT ![u] = IF TakesResult(u) THEN CurrentArg(u) ELSE @]
  /\ \/ /\ CurrentArg(u) \in expected
        /\ hasResult' = [hasResult EXCEPT ![u] = TRUE]
        /\ Goto(u, "announce")
     \/ /\ CurrentArg(u) \notin expected
        /\ Goto(u, "loop")
        /\ UNCHANGED hasResult
  /\ UNCHANGED <<expected, endless, pos, left, printed>>

(* The catch (std::exception &) around the loop: it logs and run() returns. *)
CallThrows(u) ==
  /\ pc[u] = "call"
  /\ CurrentArg(u) \in Faulty
  /\ Leave(u, "threw")
  /\ UNCHANGED <<expected, endless, pos, hasResult, result, tested, printed>>

(* handle_success returned: MapCallable breaks, Callable is done, and      *)
(* MultipleCallable goes on with its next callable.                        *)
SuccessHandled(u) ==
  /\ pc[u] = "announce"
  /\ \/ /\ Kind[u] = "multiple"
        /\ Goto(u, "loop")
        /\ UNCHANGED left
     \/ /\ Kind[u] # "multiple"
        /\ Leave(u, "success")
  /\ UNCHANGED <<expected, endless, pos, hasResult, result, tested, printed>>

(* The runner prints the result, if there is one, and the unit ends.       *)
Report(u) ==
  /\ pc[u] = "report"
  /\ printed' = [printed EXCEPT ![u] = IF hasResult[u] THEN result[u] ELSE @]
  /\ Goto(u, "exited")
  /\ UNCHANGED <<expected, endless, pos, hasResult, result, tested, left>>

LoopStep(u) == FetchNext(u) \/ Call(u) \/ CallThrows(u)

-----------------------------------------------------------------------------
CallTypeOK ==
  /\ expected \in SUBSET Key
  /\ endless \in EndlessSets
  /\ pos \in [Unit -> Nat]
  /\ \A u \in Unit : pos[u] <= Len(Args[u])
  /\ \A u \in Unit : pc[u] \in {"check", "call", "announce"} => pos[u] > 0
  /\ hasResult \in [Unit -> BOOLEAN]
  /\ result \in [Unit -> Key \cup {NoKey}]
  /\ tested \in [Unit -> SUBSET Key]
  /\ left \in [Unit -> {"no", "exhausted", "stopped", "threw", "success"}]
  /\ printed \in [Unit -> Key \cup {NoKey}]

KeysOf(u) == { Args[u][i] : i \in 1 .. Len(Args[u]) }
=============================================================================
