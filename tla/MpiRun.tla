------------------------------- MODULE MpiRun -------------------------------
(***************************************************************************)
(* MPIParallelRunner with its two interrupters, and OpenMpParallelRunner   *)
(* as the case in which nobody is ever stopped.  Every rank runs some of   *)
(* the callables, one after the other; each callable has an interrupter,   *)
(* and so a pending receive, of its own.                                   *)
(*                                                                         *)
(* Boost.MPI is the version CMakeLists.txt asks for, 1.65: a string is     *)
(* sent as two messages, its size and its body; irecv posts a receive for  *)
(* a size, and test(), having found one, posts the receive for its body;   *)
(* broadcast of a string is a send of the root to every other rank and a   *)
(* blocking receive in the others.  MPI gives a message to the receive     *)
(* that was posted first among those that accept it, whoever posted it.    *)
(***************************************************************************)
EXTENDS Callable, FiniteSets

CONSTANTS
  Backends,   \* candidates for the runner and its interrupter
  Sizes,      \* candidates for the number of ranks
  Any         \* boost::mpi::any_source

Rank == 0 .. N - 1

Root == 0

ASSUME MpiAssumption ==
  /\ Backends \subseteq {"mpip2p", "mpibroadcast", "openmp"}
  /\ Sizes \subseteq 1 .. N
  /\ Any \notin Rank

(* Nobody catches what handle_success throws under a plain Callable.       *)
ASSUME NoSingleAssumption == \A u \in Unit : Kind[u] # "single"

VARIABLES
  backend,    \* the runner and interrupter get_runner was asked for
  count,      \* number of callables given to add()
  size,       \* number of ranks, or of OpenMP threads
  counter,    \* counter[r]: the callable rank r is at
  net,        \* net[s][r]: messages from rank s that rank r has not received
  posted,     \* posted[r]: receives of rank r that wait for a message, in order
  resp,       \* resp[u]: the request of u's interrupter
  bcast       \* bcast[u]: the receive in u's call of broadcast

rankVars == <<backend, count, size, counter>>
mpiVars == <<net, posted, resp, bcast>>
vars == <<callVars, rankVars, mpiVars>>

(* What a request is for and whether it has been matched: it waits for a   *)
(* size, has one, waits for the body, has it, or has taken a body for a    *)
(* size, which makes the size nonsense.                                    *)
RequestState == {"unused", "size?", "size", "body?", "body", "wrong"}

IdleRequest == [state |-> "unused", from |-> Any]

Init ==
  /\ CallInit
  /\ backend \in Backends
  /\ count \in 0 .. N
  /\ size \in Sizes
  /\ backend = "openmp" => size = count
  /\ counter = [r \in Rank |-> r]
  /\ net = [s \in Rank |-> [r \in Rank |-> <<>>]]
  /\ posted = [r \in Rank |-> <<>>]
  /\ resp = [u \in Unit |-> IdleRequest]
  /\ bcast = [u \in Unit |-> IdleRequest]

RankOf(u) == u % size

-----------------------------------------------------------------------------
(* Receives and messages.                                                  *)

(* Rank r posts a receive for the request of unit u.                       *)
Post(u, request, from) ==
  posted' = [posted EXCEPT ![RankOf(u)] =
               Append(@, [unit |-> u, request |-> request, from |-> from])]

Accepting(r, s) == { i \in 1 .. Len(posted[r]) : posted[r][i].from \in {Any, s} }

Without(seq, i) == SubSeq(seq, 1, i - 1) \o SubSeq(seq, i + 1, Len(seq))

(* The request after its receive has been given a message.                 *)
Matched(request, s, part) ==
  [ state |-> IF request.state = "size?" /\ part = "body" THEN "wrong" ELSE part,
    from |-> s ]

(* The oldest message from s meets the oldest receive of r that accepts    *)
(* it, be it that of a callable that has ended long ago.                   *)
Match(s, r) ==
  /\ net[s][r] # <<>>
  /\ \E i \in Accepting(r, s) :
       /\ \A j \in Accepting(r, s) : i <= j
       /\ posted' = [posted EXCEPT ![r] = Without(@, i)]
       /\ LET receive == posted[r][i]
              u == receive.unit
              part == Head(net[s][r])
          IN \/ /\ receive.request = "resp"
                /\ resp' = [resp EXCEPT ![u] = Matched(@, s, part)]
                /\ UNCHANGED bcast
             \/ /\ receive.request = "bcast"
                /\ bcast' = [bcast EXCEPT ![u] = Matched(@, s, part)]
                /\ UNCHANGED resp
  /\ net' = [net EXCEPT ![s][r] = Tail(@)]
  /\ UNCHANGED <<callVars, rankVars>>

(* A string is sent to each of the ranks; a message this short is buffered *)
(* and nobody waits for its receiver.                                      *)
SendTo(s, ranks) ==
  net' = [net EXCEPT ![s] = [r \in Rank |->
            IF r \in ranks THEN @[r] \o <<"size", "body">> ELSE @[r]]]

-----------------------------------------------------------------------------
(* check_next_sync_call, with the test() of its request.                   *)

RespondingNever(u) == FALSE

Responding(u) == resp[u].state # "unused"

(* irecv, once in the life of an interrupter.                              *)
Irecv(u) ==
  /\ pc[u] = "check"
  /\ backend # "openmp"
  /\ ~Responding(u)
  /\ resp' = [resp EXCEPT ![u].state = "size?"]
  /\ Post(u, "resp", Any)
  /\ UNCHANGED <<callVars, rankVars, net, bcast>>

(* test() asks for the body from where the size came, and tests that.      *)
TestSize(u) ==
  /\ pc[u] = "check"
  /\ resp[u].state = "size"
  /\ resp' = [resp EXCEPT ![u].state = "body?"]
  /\ Post(u, "resp", resp[u].from)
  /\ UNCHANGED <<callVars, rankVars, net, bcast>>

MessageRead(u) == resp[u].state = "body"

AnswerMissed(u) == TRUE

AnswerInverted(u) == backend = "openmp" \/ MessageRead(u)

(* The body is written to msg of this very call, whose address is that of  *)
(* msg in the call that posted the receive.                                *)
Answer(u) == ~MessageRead(u)

Test(u) ==
  /\ backend = "openmp" \/ resp[u].state \in {"size?", "body?", "body"}
  /\ Checked(u, Answer(u))
  /\ UNCHANGED <<rankVars, mpiVars>>

(* Room for a body of a nonsensical size: the exception ends the loop.     *)
TestThrows(u) ==
  /\ pc[u] = "check"
  /\ resp[u].state = "wrong"
  /\ Leave(u, "threw")
  /\ UNCHANGED <<expected, endless, pos, hasResult, result, tested, printed>>
  /\ UNCHANGED <<rankVars, mpiVars>>

CheckNextSyncCall(u) ==
  Irecv(u) \/ TestSize(u) \/ Test(u) \/ TestThrows(u)

-----------------------------------------------------------------------------
(* handle_success                                                          *)

Ranks == 0 .. size - 1

HandleSuccessOpenMp(u) ==
  /\ backend = "openmp"
  /\ SuccessHandled(u)
  /\ UNCHANGED <<rankVars, mpiVars>>

(* "stop" goes to every rank, the sender's own included.                   *)
HandleSuccessPointToPoint(u) ==
  /\ backend = "mpip2p"
  /\ SuccessHandled(u)
  /\ SendTo(RankOf(u), Ranks)
  /\ UNCHANGED <<rankVars, posted, resp, bcast>>

(* broadcast in rank 0                                                     *)
BroadcastSend(u) ==
  /\ backend = "mpibroadcast"
  /\ RankOf(u) = Root
  /\ SuccessHandled(u)
  /\ SendTo(Root, Ranks \ {Root})
  /\ UNCHANGED <<rankVars, posted, resp, bcast>>

(* broadcast in another rank: two blocking receives, one for each part.    *)
BroadcastReceive(u) ==
  /\ backend = "mpibroadcast"
  /\ pc[u] = "announce"
  /\ RankOf(u) # Root
  /\ \/ bcast[u].state = "unused" /\ bcast' = [bcast EXCEPT ![u].state = "size?"]
     \/ bcast[u].state = "size" /\ bcast' = [bcast EXCEPT ![u].state = "body?"]
  /\ Post(u, "bcast", Root)
  /\ UNCHANGED <<callVars, rankVars, net, resp>>

BroadcastReceived(u) ==
  /\ bcast[u].state = "body"
  /\ SuccessHandled(u)
  /\ bcast' = [bcast EXCEPT ![u] = IdleRequest]
  /\ UNCHANGED <<rankVars, net, posted, resp>>

(* A body has been received for a size: run() catches the exception.       *)
BroadcastThrows(u) ==
  /\ pc[u] = "announce"
  /\ bcast[u].state = "wrong"
  /\ Leave(u, "threw")
  /\ UNCHANGED <<expected, endless, pos, hasResult, result, tested, printed>>
  /\ UNCHANGED <<rankVars, mpiVars>>

HandleSuccess(u) ==
  \/ HandleSuccessOpenMp(u)
  \/ HandleSuccessPointToPoint(u)
  \/ BroadcastSend(u)
  \/ BroadcastReceive(u)
  \/ BroadcastReceived(u)
  \/ BroadcastThrows(u)

-----------------------------------------------------------------------------
(* run(), executed by every rank.                                          *)

Begin(r) ==
  /\ r < size
  /\ counter[r] < count
  /\ pc[counter[r]] = "unborn"
  /\ Goto(counter[r], "loop")
  /\ UNCHANGED <<expected, endless, pos, hasResult, result, tested, left, printed>>
  /\ UNCHANGED <<rankVars, mpiVars>>

NextCallableSame(c) == c

NextCallableButOne(c) == c + size + 1

NextCallable(c) == c + size

(* The result is printed, and the rank goes on to its next callable.       *)
End(u) ==
  /\ Report(u)
  /\ counter' = [counter EXCEPT ![RankOf(u)] = NextCallable(@)]
  /\ UNCHANGED <<backend, count, size, mpiVars>>

UnitStep(u) ==
  \/ LoopStep(u) /\ UNCHANGED <<rankVars, mpiVars>>
  \/ CheckNextSyncCall(u)
  \/ HandleSuccess(u)
  \/ End(u)

Returned(r) == counter[r] >= count

AllReturned == \A r \in Ranks : Returned(r)

Next ==
  \/ \E r \in Rank : Begin(r)
  \/ \E u \in Unit : UnitStep(u)
  \/ \E s, r \in Rank : Match(s, r)

Spec == Init /\ [][Next]_vars

(* Every rank runs, and every message arrives. *)
FairSpec ==
  /\ Spec
  /\ \A r \in Rank : WF_vars(Begin(r))
  /\ \A u \in Unit : WF_vars(UnitStep(u))
  /\ \A s, r \in Rank : WF_vars(Match(s, r))

-----------------------------------------------------------------------------
Request == [state : RequestState, from : Rank \cup {Any}]

Receive == [unit : Unit, request : {"resp", "bcast"}, from : Rank \cup {Any}]

Waits(request) == request.state \in {"size?", "body?"}

(* A rank has one receive for each request of its callables that waits.    *)
PostedOnce(r) ==
  /\ \A i \in DOMAIN posted[r] : RankOf(posted[r][i].unit) = r
  /\ \A u \in Unit : RankOf(u) = r /\ Waits(resp[u]) <=>
       \E i \in DOMAIN posted[r] : posted[r][i].unit = u /\ posted[r][i].request = "resp"
  /\ \A i, j \in DOMAIN posted[r] :
       posted[r][i].unit = posted[r][j].unit /\ posted[r][i].request = posted[r][j].request
         => i = j

(* Type invariant of the ranks, the messages and the receives. *)
TypeOK ==
  /\ CallTypeOK
  /\ pc \in [Unit -> {"unborn", "loop", "check", "call", "announce", "report", "exited"}]
  /\ backend \in Backends
  /\ count \in 0 .. N
  /\ size \in Sizes
  /\ counter \in [Rank -> Nat]
  /\ net \in [Rank -> [Rank -> Seq({"size", "body"})]]
  /\ posted \in [Rank -> Seq(Receive)]
  /\ \A r \in Rank : PostedOnce(r)
  /\ resp \in [Unit -> Request]
  /\ bcast \in [Unit -> Request]

(* Whatever receive a message ends up in, nobody stops without cause: a    *)
(* callable told to stop, or ended by an exception that its function has   *)
(* not thrown, ends after some callable has had a result.                  *)
NoFalseStop ==
  \A u \in Unit :
    \/ left[u] = "stopped"
    \/ left[u] = "threw" /\ CurrentArg(u) \notin Faulty
    => \E v \in Unit : hasResult[v]

(* The ranks share out the callables without losing one: when all ranks    *)
(* have returned from run(), an accepted key has been printed, or every    *)
(* argument of every callable has been tried, save those behind an         *)
(* exception.                                                              *)
SearchComplete ==
  AllReturned =>
    \/ \E u \in Unit : printed[u] \in expected
    \/ \A u \in 0 .. count - 1 : left[u] = "threw" \/ KeysOf(u) \subseteq tested[u]

InBroadcast(r) ==
  /\ backend = "mpibroadcast"
  /\ r # Root
  /\ \E u \in Unit : pc[u] = "announce" /\ RankOf(u) = r

(* Messages that go to the wrong receive keep nobody waiting: if no        *)
(* generator is endless, every rank returns from run(), or has found a key *)
(* and waits for a broadcast, which only rank 0 could begin.               *)
Terminates == endless = {} ~> \A r \in Ranks : Returned(r) \/ InBroadcast(r)

(* With no more callables than ranks, "stop" reaches the callable of every *)
(* rank, endless or not.                                                   *)
StopSpreads ==
  backend = "mpip2p" /\ count <= size /\ (\E u \in Unit : left[u] = "success")
    ~> AllReturned

(* README.md line 20, "Result of each Callable/MultipleCallable is written *)
(* to stdout": once a key has been found, a result is printed.             *)
ResultPrinted ==
  (\E u \in Unit : hasResult[u]) ~> \E u \in Unit : printed[u] # NoKey
=============================================================================
