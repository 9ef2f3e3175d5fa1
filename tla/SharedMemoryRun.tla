-------------------------- MODULE SharedMemoryRun --------------------------
(***************************************************************************)
(* LinuxThreadParallelRunner<SharedMemorySystemInterrupter>, the runner    *)
(* main.cpp selects: run() creates one thread per added callable and joins *)
(* them in order; the threads share one page, zero when it is mapped, in   *)
(* which a success is announced by copying "finished" and looked for by    *)
(* reading a C string.  The page is accessed without synchronisation:      *)
(* strlen walks it byte by byte, and the copy may store its bytes one by   *)
(* one, all at once, or in any grouping in between.                        *)
(***************************************************************************)
EXTENDS ThreadRunner

CONSTANTS
  MsgLen,    \* length of "finished", 8 in the code
  PtrSize    \* sizeof(c_str), the number of bytes write_msg copies

ASSUME ShmAssumption == MsgLen \in Nat \ {0} /\ PtrSize \in Nat

VARIABLES
  shm,        \* offsets of the shared page that hold their byte of "finished"
  scanned,    \* scanned[u]: bytes strlen of u's read_msg has gone over
  unwritten   \* unwritten[u]: offsets u's write_msg has still to store

shmVars == <<shm, scanned, unwritten>>
vars == <<callVars, runVars, shmVars>>

Message == 0 .. MsgLen - 1

CopiedByShortPointer == { b \in Message : b < PtrSize \div 2 }

(* memcpy copies sizeof(c_str) bytes, of which the first MsgLen matter.    *)
Copied == { b \in Message : b < PtrSize }

FlagSet == Message \subseteq shm

PageOfEarlierRun == Message

(* An anonymous mapping is zero filled. *)
FreshPage == {}

Init ==
  /\ CallInit
  /\ RunInit
  /\ shm = FreshPage
  /\ scanned = [u \in Unit |-> 0]
  /\ unwritten = [u \in Unit |-> Copied]

-----------------------------------------------------------------------------
ReadsFirstByteOnly(u) == scanned[u] > 0

(* The string read is "finished": nothing but zeroes follows the message.  *)
ReadsSuccess(u) == scanned[u] = MsgLen

(* strlen goes over one byte that is not zero. *)
ScanByte(u) ==
  /\ pc[u] = "check"
  /\ ~ReadsSuccess(u)
  /\ scanned[u] \in shm
  /\ scanned' = [scanned EXCEPT ![u] = @ + 1]
  /\ UNCHANGED <<callVars, runVars, shm, unwritten>>

(* strlen stops at a zero byte or after the message; the strings are       *)
(* compared.                                                               *)
CheckNextSyncCall(u) ==
  /\ ReadsSuccess(u) \/ scanned[u] \notin shm
  /\ Checked(u, ~ReadsSuccess(u))
  /\ scanned' = [scanned EXCEPT ![u] = 0]
  /\ UNCHANGED <<runVars, shm, unwritten>>

(* write_msg stores some bytes it has not stored yet; handle_success       *)
(* returns with the last of them.                                          *)
HandleSuccess(u) ==
  /\ pc[u] = "announce"
  /\ \E bytes \in SUBSET unwritten[u] :
       /\ bytes # {} \/ unwritten[u] = {}
       /\ shm' = shm \cup bytes
       /\ \/ /\ bytes = unwritten[u]
             /\ SuccessHandled(u)
             /\ unwritten' = [unwritten EXCEPT ![u] = Copied]
          \/ /\ bytes # unwritten[u]
             /\ unwritten' = [unwritten EXCEPT ![u] = @ \ bytes]
             /\ UNCHANGED callVars
  /\ UNCHANGED <<runVars, scanned>>

ThreadStep(u) ==
  \/ LoopStep(u) /\ UNCHANGED <<runVars, shmVars>>
  \/ ScanByte(u)
  \/ CheckNextSyncCall(u)
  \/ HandleSuccess(u)
  \/ Report(u) /\ UNCHANGED <<runVars, shmVars>>

Main ==
  /\ \/ Refuse
     \/ Spawn("loop")
     \/ JoinNext({"exited"})
  /\ UNCHANGED shmVars

Next == Main \/ \E u \in Unit : ThreadStep(u)

Spec == Init /\ [][Next]_vars

(* The operating system schedules every runnable thread. *)
FairSpec == Spec /\ WF_vars(Main) /\ \A u \in Unit : WF_vars(ThreadStep(u))

-----------------------------------------------------------------------------
(* Type invariant of the runner, its threads and the shared page. *)
TypeOK ==
  /\ RunTypeOK
  /\ pc \in [Unit -> {"unborn", "loop", "check", "call", "announce", "report", "exited"}]
  /\ shm \subseteq Message
  /\ scanned \in [Unit -> 0 .. MsgLen]
  /\ unwritten \in [Unit -> SUBSET Copied]

(* No thread gives up because of a half written page: one that left its    *)
(* loop because check_next_sync_call answered false did so after another   *)
(* thread had found a key.                                                 *)
NoFalseStop == \A u \in Unit : left[u] = "stopped" => \E v \in Unit : hasResult[v]

(* The search as a whole misses nothing: when run() returns, either an     *)
(* accepted key is in a printed result, or every thread that was created   *)
(* applied its function to all its arguments, save those behind an         *)
(* exception.                                                              *)
SearchComplete ==
  main = "done" /\ SpawnAllowed =>
    AllTried \/ \E u \in Unit : printed[u] \in expected

(* The contract the two ends of the page keep together, in spite of the    *)
(* data race: finished is the state of the whole message.                  *)
Phase(u) ==
  CASE pc[u] \in {"unborn", "loop", "check"} -> "idle"
    [] pc[u] = "call"                        -> "working"
    [] pc[u] = "announce"                    -> "announcing"
    [] pc[u] \in {"report", "exited"}        ->
         IF left[u] = "stopped" THEN "stopped" ELSE "ended"

Contract == INSTANCE AbstractSystemInterrupter
              WITH finished <- FlagSet, phase <- [u \in Unit |-> Phase(u)]

(* AbstractSystemInterrupter.h lines 8-11 and 16-31: a unit starts a call  *)
(* only if it has asked and nobody has announced a success, it is stopped  *)
(* only if somebody has, and handle_success tells everybody before it      *)
(* returns.                                                                *)
KeepsContract == Contract!Spec

(* Once any thread has a result, run() returns, even if the generators of  *)
(* other threads never end: the stop reaches all of them.  (Excepted is a  *)
(* run() that breaks on the id of a thread that was not created.)          *)
StopSpreads ==
  (\E u \in Unit : hasResult[u]) ~> main \in {"done", "broken"}
=============================================================================
