------------------------------ MODULE SocketRun ------------------------------
(***************************************************************************)
(* LinuxThreadParallelRunner<SocketServerSystemInterrupter> with the TCP   *)
(* server of tcp_server.h, a process of its own with a single thread, from *)
(* the first add() to the destructor of the runner.  Every unit has one    *)
(* connection.  On each connection bytes keep their order and are not      *)
(* lost, but one read may take several messages, and a message sent may    *)
(* take its time to arrive.  The port may be another program's: a second   *)
(* instance, or one ended by a signal that its server, in a session of its *)
(* own, has survived.  Then the server started here cannot listen, and the *)
(* units connect to the other one.  One such server comes, and goes, at    *)
(* most once.                                                              *)
(***************************************************************************)
EXTENDS ThreadRunner

VARIABLES
  c2s,       \* c2s[u]: requests of unit u that the server has not read
  s2c,       \* s2c[u]: eight byte answers that unit u has not read
  waiting,   \* units that have sent a request and wait for an answer
  made,      \* interrupters that have been constructed, one per add()
  closed,    \* units whose interrupter has closed its socket
  server,    \* the process of the server; "unforked" when fork has failed
  foreign,   \* another program's server on the port: "no", "up" or "gone"
  lost,      \* units whose connection was to the server that is "gone"
  told,      \* has a unit of the other program sent "set" to its server?
  status,    \* server::status, of whichever server has the port
  accepted,  \* connections the server has accepted
  reads,     \* reads[u]: async_read_some operations waiting for data
  data,      \* data[u]: the first request in data_ of u's session, whose
             \* initial value, uninitialised in the code, is never looked at
  ready,     \* completion handlers in the queue of the io_service
  answers,   \* answers the running handle_read has still to write
  deleted    \* units whose session has deleted itself

netVars == <<c2s, s2c>>
serverVars == <<status, accepted, reads, data, ready, answers, deleted>>
otherVars == <<foreign, lost, told>>
lifeVars == <<made, closed, server, otherVars>>
vars == <<callVars, runVars, netVars, serverVars, lifeVars, waiting>>

Request == {"get", "set"}

Answer == {"finished", "continue", "ok", "none"}

(* "error" is either handler, called with an error.                        *)
Handler == {"handle_read", "handle_write", "error"} \X Unit

Init ==
  /\ CallInit
  /\ RunInit
  /\ c2s = [u \in Unit |-> <<>>]
  /\ s2c = [u \in Unit |-> <<>>]
  /\ waiting = {}
  /\ status = 0
  /\ accepted = {}
  /\ reads = [u \in Unit |-> 0]
  /\ data = [u \in Unit |-> "get"]
  /\ ready = <<>>
  /\ answers = <<>>
  /\ deleted = {}
  /\ made = 0
  /\ closed = {}
  /\ server = "none"
  /\ foreign = "no"
  /\ lost = {}
  /\ told = FALSE

-----------------------------------------------------------------------------
(* The interrupters' constructors and destructors.                         *)

(* The first constructor forks the server; without one the program ends.   *)
ForkServer ==
  /\ made < size
  /\ server = "none"
  /\ server' \in {"starting", "unforked"}
  /\ UNCHANGED <<callVars, runVars, netVars, serverVars, made, closed, otherVars, waiting>>

(* The process begins to listen, or ends because it cannot have the port.  *)
Listen ==
  /\ server = "starting"
  /\ \/ foreign # "up" /\ server' = "up"
     \/ server' = "failed"
  /\ UNCHANGED <<callVars, runVars, netVars, serverVars, made, closed, otherVars, waiting>>

(* Somebody answers on 127.0.0.1:10100.                                    *)
SomebodyListens == server = "up" \/ foreign = "up"

(* The constructor tries to connect until it succeeds, whoever it is.      *)
Connect ==
  /\ made < size
  /\ server \notin {"none", "unforked"}
  /\ SomebodyListens
  /\ made' = made + 1
  /\ UNCHANGED <<callVars, runVars, netVars, serverVars, closed, server, otherVars, waiting>>

MayCloseEarly(u) == made = size /\ pc[u] = "exited"

(* The interrupters live as long as the runner, whose destructor deletes   *)
(* the callables, the last one first.                                      *)
MayClose(u) == main = "done" /\ closed = (u + 1) .. (size - 1)

Close(u) ==
  /\ u \in 0 .. size - 1
  /\ u \notin closed
  /\ MayClose(u)
  /\ closed' = closed \cup {u}
  /\ UNCHANGED <<callVars, runVars, netVars, serverVars, made, server, otherVars, waiting>>

(* The last destructor, that of the first interrupter, has the pid of the  *)
(* server it forked, to the end of which it makes no difference if that    *)
(* failed to listen; the others signal their own process group, which      *)
(* ignores it.                                                             *)
KillServer ==
  /\ size > 0
  /\ closed = 0 .. size - 1
  /\ server \in {"starting", "up", "broken"}
  /\ server' = "killed"
  /\ UNCHANGED <<callVars, runVars, netVars, serverVars, made, closed, otherVars, waiting>>

-----------------------------------------------------------------------------
(* The other program, which nothing here waits for.                        *)

(* It takes the port before the server forked here, or after that failed.  *)
ForeignStarts ==
  /\ foreign = "no"
  /\ server \in {"none", "starting", "failed"}
  /\ foreign' = "up"
  /\ UNCHANGED <<callVars, runVars, netVars, serverVars, made, closed, server, lost, told, waiting>>

(* One of the other program's own units sends "set" (which is of interest  *)
(* only if it is the first to do so).                                      *)
ForeignSucceeds ==
  /\ foreign = "up"
  /\ status = 0
  /\ status' = 1
  /\ told' = TRUE
  /\ UNCHANGED <<callVars, runVars, netVars, made, closed, server, foreign, lost, waiting>>
  /\ UNCHANGED <<accepted, reads, data, ready, answers, deleted>>

(* It is killed, or breaks.  Its sessions are gone, and the connections to *)
(* it are cut, with what has arrived still to be read.                     *)
ForeignEnds ==
  /\ foreign = "up"
  /\ foreign' = "gone"
  /\ lost' = 0 .. made - 1
  /\ c2s' = [u \in Unit |-> <<>>]
  /\ status' = 0
  /\ accepted' = {}
  /\ reads' = [u \in Unit |-> 0]
  /\ ready' = <<>>
  /\ answers' = <<>>
  /\ deleted' = {}
  /\ data' = [u \in Unit |-> "get"]
  /\ UNCHANGED <<callVars, runVars, s2c, made, closed, server, told, waiting>>

-----------------------------------------------------------------------------
(* The clients, one in each unit.                                          *)

Sent(u, request) == IF u \in lost THEN <<>> ELSE <<request>>

(* The first half of check_next_sync_call and of handle_success; what is   *)
(* sent on a connection that has been cut goes nowhere.                    *)
Send(u) ==
  /\ u \notin waiting
  /\ \/ pc[u] = "check" /\ c2s' = [c2s EXCEPT ![u] = @ \o Sent(u, "get")]
     \/ pc[u] = "announce" /\ c2s' = [c2s EXCEPT ![u] = @ \o Sent(u, "set")]
  /\ waiting' = waiting \cup {u}
  /\ UNCHANGED <<callVars, runVars, s2c, serverVars, lifeVars>>

SaysNothing(line) == line # <<"continue">>

(* The line is compared whole: "finished" followed by "none" is not it.    *)
SaysFinished(line) == line = <<"finished">>

(* The second half: read() returns what has arrived, one answer or more;   *)
(* on a connection that has been cut it may fail, with nothing read, and   *)
(* nobody looks at the error.                                              *)
Receive(u) ==
  /\ u \in waiting
  /\ \E n \in 0 .. Len(s2c[u]) :
       /\ n = 0 => u \in lost
       /\ s2c' = [s2c EXCEPT ![u] = SubSeq(@, n + 1, Len(@))]
       /\ \/ Checked(u, ~SaysFinished(SubSeq(s2c[u], 1, n)))
          \/ SuccessHandled(u)
  /\ waiting' = waiting \ {u}
  /\ UNCHANGED <<runVars, c2s, serverVars, lifeVars>>

-----------------------------------------------------------------------------
(* The server.  Its thread runs one completion handler at a time, and      *)
(* polls the sockets in between.                                           *)

Idle == SomebodyListens /\ answers = <<>>

(* handle_accept calls start, which starts the first read.                 *)
Accept(u) ==
  /\ Idle
  /\ u < made
  /\ u \notin accepted \cup lost
  /\ accepted' = accepted \cup {u}
  /\ reads' = [reads EXCEPT ![u] = @ + 1]
  /\ UNCHANGED <<callVars, runVars, netVars, lifeVars, waiting>>
  /\ UNCHANGED <<status, data, ready, answers, deleted>>

(* A read operation completes with what has arrived; a later one writes    *)
(* over data_ even if the handler of an earlier one has still to run.      *)
CompleteRead(u) ==
  /\ Idle
  /\ reads[u] > 0
  /\ \E n \in 1 .. Len(c2s[u]) :
       /\ data' = [data EXCEPT ![u] = c2s[u][1]]
       /\ c2s' = [c2s EXCEPT ![u] = SubSeq(@, n + 1, Len(@))]
  /\ reads' = [reads EXCEPT ![u] = @ - 1]
  /\ ready' = Append(ready, <<"handle_read", u>>)
  /\ UNCHANGED <<callVars, runVars, s2c, lifeVars, waiting>>
  /\ UNCHANGED <<status, accepted, answers, deleted>>

(* A read of a connection that the client has closed.                      *)
ReadFails(u) ==
  /\ Idle
  /\ reads[u] > 0
  /\ u \in closed
  /\ c2s[u] = <<>>
  /\ reads' = [reads EXCEPT ![u] = @ - 1]
  /\ ready' = Append(ready, <<"error", u>>)
  /\ UNCHANGED <<callVars, runVars, netVars, lifeVars, waiting>>
  /\ UNCHANGED <<status, accepted, data, answers, deleted>>

(* The handler at the head of the queue, if its session still exists.      *)
Runs(handler, u) ==
  /\ Idle
  /\ ready # <<>>
  /\ Head(ready) = <<handler, u>>
  /\ u \notin deleted

AnswersToGet(request) ==
  IF request = "set" THEN <<>>
                     ELSE << IF status = 1 THEN "finished" ELSE "continue", "none" >>

(* Every request is answered twice, the second time by "none    ".         *)
AnswersTo(request) ==
  << IF request = "set" THEN "ok"
     ELSE IF status = 1 THEN "finished" ELSE "continue", "none" >>

(* handle_read looks at the beginning of data_ only.                       *)
HandleRead(u) ==
  /\ Runs("handle_read", u)
  /\ status' = IF data[u] = "set" THEN 1 ELSE status
  /\ answers' = [i \in 1 .. Len(AnswersTo(data[u])) |-> <<u, AnswersTo(data[u])[i]>>]
  /\ ready' = Tail(ready)
  /\ UNCHANGED <<callVars, runVars, netVars, lifeVars, waiting>>
  /\ UNCHANGED <<accepted, reads, data, deleted>>

(* One async_write of the running handle_read: eight bytes find room in    *)
(* the socket at once, and its handler joins the queue; a write to a       *)
(* closed connection may fail.                                             *)
WriteAnswer(u) ==
  /\ SomebodyListens
  /\ answers # <<>>
  /\ Head(answers)[1] = u
  /\ s2c' = [s2c EXCEPT ![u] = Append(@, Head(answers)[2])]
  /\ \/ ready' = Append(ready, <<"handle_write", u>>)
     \/ u \in closed /\ ready' = Append(ready, <<"error", u>>)
  /\ answers' = Tail(answers)
  /\ UNCHANGED <<callVars, runVars, c2s, lifeVars, waiting>>
  /\ UNCHANGED <<status, accepted, reads, data, deleted>>

NoReadAgain(u) == 0

ReadAgain(u) == 1

(* handle_write starts another read, once for each of the two answers.     *)
HandleWrite(u) ==
  /\ Runs("handle_write", u)
  /\ reads' = [reads EXCEPT ![u] = @ + ReadAgain(u)]
  /\ ready' = Tail(ready)
  /\ UNCHANGED <<callVars, runVars, netVars, lifeVars, waiting>>
  /\ UNCHANGED <<status, accepted, data, answers, deleted>>

(* delete this closes the socket, so the reads still waiting fail as well. *)
HandleError(u) ==
  /\ Runs("error", u)
  /\ deleted' = deleted \cup {u}
  /\ reads' = [reads EXCEPT ![u] = 0]
  /\ ready' = Tail(ready) \o [i \in 1 .. reads[u] |-> <<"error", u>>]
  /\ UNCHANGED <<callVars, runVars, netVars, lifeVars, waiting>>
  /\ UNCHANGED <<status, accepted, data, answers>>

(* A handler of a session that does not exist any more, deleting it again  *)
(* for one: undefined, so that the server may break or go on.  (The other  *)
(* program's breaks in ForeignEnds.)                                       *)
UseDeleted(u) ==
  /\ Idle
  /\ ready # <<>>
  /\ Head(ready)[2] = u
  /\ u \in deleted
  /\ UNCHANGED server \/ (server = "up" /\ server' = "broken")
  /\ ready' = Tail(ready)
  /\ UNCHANGED <<callVars, runVars, netVars, made, closed, otherVars, waiting>>
  /\ UNCHANGED <<status, accepted, reads, data, answers, deleted>>

-----------------------------------------------------------------------------
Main ==
  \/ /\ \/ made = size /\ Refuse
        \/ made = size /\ Spawn("loop")
        \/ JoinNext({"exited"})
     /\ UNCHANGED <<netVars, serverVars, lifeVars, waiting>>
  \/ ForkServer
  \/ Connect
  \/ \E u \in Unit : Close(u)
  \/ KillServer

UnitStep(u) ==
  \/ /\ LoopStep(u) \/ Report(u)
     /\ UNCHANGED <<runVars, netVars, serverVars, lifeVars, waiting>>
  \/ Send(u)
  \/ Receive(u)

Server ==
  \E u \in Unit :
    \/ Accept(u)
    \/ CompleteRead(u)
    \/ ReadFails(u)
    \/ HandleRead(u)
    \/ WriteAnswer(u)
    \/ HandleWrite(u)
    \/ HandleError(u)
    \/ UseDeleted(u)

Foreign == ForeignStarts \/ ForeignSucceeds \/ ForeignEnds

Next == Main \/ Listen \/ Server \/ Foreign \/ \E u \in Unit : UnitStep(u)

Spec == Init /\ [][Next]_vars

(* Every thread is scheduled, the only one of the server that listens      *)
(* included.  Nothing is promised of what another program starts or ends.  *)
FairSpec ==
  /\ Spec
  /\ WF_vars(Main)
  /\ WF_vars(Listen)
  /\ WF_vars(Server)
  /\ \A u \in Unit : WF_vars(UnitStep(u))

-----------------------------------------------------------------------------
(* Type invariant of the connections, the server and its clients. *)
TypeOK ==
  /\ RunTypeOK
  /\ pc \in [Unit -> {"unborn", "loop", "check", "call", "announce", "report", "exited"}]
  /\ c2s \in [Unit -> Seq(Request)]
  /\ s2c \in [Unit -> Seq(Answer)]
  /\ waiting \subseteq Unit
  /\ status \in {0, 1}
  /\ accepted \subseteq Unit
  /\ reads \in [Unit -> Nat]
  /\ data \in [Unit -> Request]
  /\ ready \in Seq(Handler)
  /\ answers \in Seq(Unit \X Answer)
  /\ deleted \subseteq accepted \cap closed
  /\ made \in 0 .. size
  /\ closed \subseteq 0 .. made - 1
  /\ server \in {"none", "starting", "up", "unforked", "failed", "broken", "killed"}
  /\ foreign \in {"no", "up", "gone"}
  /\ lost \subseteq 0 .. made - 1
  /\ told \in BOOLEAN

(* A unit that leaves its loop because check_next_sync_call answered false *)
(* does so after some unit had found a key, in spite of the answers being  *)
(* read out of step with the requests, and of a server that may be another *)
(* program's and go away, unless a unit of that program has found one.     *)
NoFalseStop ==
  \A u \in Unit : left[u] = "stopped" => told \/ \E v \in Unit : hasResult[v]

(* Nobody waits for an answer that will not come: while a unit waits, an   *)
(* answer, its request, or the handler that answers it is under way, or    *)
(* its connection has been cut, and the read fails.                        *)
AnswerUnderWay ==
  \A u \in waiting \ lost :
    \/ s2c[u] # <<>>
    \/ c2s[u] # <<>>
    \/ \E i \in DOMAIN ready : ready[i] = <<"handle_read", u>>
    \/ \E i \in DOMAIN answers : answers[i][1] = u

(* The server never turns deaf to a connection: unless it has deleted the  *)
(* session, there is a read operation, or a handler that will start one or *)
(* delete the session.                                                     *)
NeverDeaf ==
  \A u \in accepted \ deleted :
    \/ reads[u] > 0
    \/ \E i \in DOMAIN ready : ready[i][2] = u
    \/ \E i \in DOMAIN answers : answers[i][1] = u

(* A session whose client is gone is deleted once for every operation it   *)
(* has outstanding, but that comes too late to do harm: the server does    *)
(* not break while a unit may ask it, for no socket is closed before all   *)
(* units have ended.                                                       *)
ServerHoldsOut == main # "done" => server \notin {"broken", "killed"}

(* The search as a whole misses nothing, though announcements may get      *)
(* lost: when run() returns, either an accepted key is in a printed        *)
(* result, or every thread that was created has applied its function to    *)
(* all its arguments, unless another program on the port has found a key.  *)
SearchComplete ==
  main = "done" /\ SpawnAllowed /\ ~told =>
    AllTried \/ \E u \in Unit : printed[u] \in expected

(* Requests and answers out of step, and a server that goes away, never    *)
(* stop the exchange: if no generator is endless, run() returns and the    *)
(* destructors leave no server behind.  (Excepted are a fork that fails, a *)
(* run() that breaks on the id of a thread that was not created, and add() *)
(* if there is, from some moment on, no server to connect to.)             *)
Terminates ==
  \/ <>[](server = "failed" /\ made < size /\ ~SomebodyListens)
  \/ <>(\/ server = "unforked"
        \/ main = "broken"
        \/ main = "done" /\ (size > 0 => server \in {"killed", "failed"}))

(* AbstractSystemInterrupter.h lines 16-21: handle_success stops the other *)
(* units by setting what check_next_sync_call looks at, so when a unit has *)
(* ended with a result the status of the server is set, or its "set" is    *)
(* still on its way.  (This is about a program that has the port to        *)
(* itself.)                                                                *)
AnnouncementArrives ==
  \A u \in Unit : foreign = "no" /\ hasResult[u] /\ pc[u] = "exited" =>
    \/ status = 1
    \/ \E i \in DOMAIN c2s[u] : c2s[u][i] = "set"
    \/ data[u] = "set" /\ \E i \in DOMAIN ready : ready[i] = <<"handle_read", u>>
=============================================================================
