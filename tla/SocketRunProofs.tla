--------------------------- MODULE SocketRunProofs ---------------------------
(***************************************************************************)
(* Proofs about SocketRun, for any number of units and any arguments: all  *)
(* its invariants.                                                         *)
(***************************************************************************)
EXTENDS SocketRun, ThreadRunnerProofs, SequenceTheorems

(* Two queues one after the other have the members of both.                *)
LEMMA RangeJoin ==
  ASSUME NEW S, NEW s \in Seq(S), NEW t \in Seq(S)
  PROVE  Range(s \o t) = Range(s) \cup Range(t)
  BY RangeConcatenation

(* What the operators on queues do to the set of a queue's members.        *)
LEMMA RangeAppend ==
  ASSUME NEW S, NEW s \in Seq(S), NEW x \in S
  PROVE  /\ Append(s, x) \in Seq(S) /\ Append(s, x) # <<>>
         /\ Range(Append(s, x)) = Range(s) \cup {x}
<1>1. <<x>> \in Seq(S) /\ Range(<<x>>) = {x}
  BY DEF Range
<1>2. Append(s, x) = s \o <<x>>
  BY AppendIsConcat
<1>3. Range(s \o <<x>>) = Range(s) \cup Range(<<x>>)
  <2> DEFINE t == <<x>>
  <2>1. t \in Seq(S)
    BY <1>1
  <2> HIDE DEF t
  <2>2. Range(s \o t) = Range(s) \cup Range(t)
    BY <2>1, RangeJoin
  <2> QED BY <2>2 DEF t
<1> QED BY <1>1, <1>2, <1>3, AppendProperties

(* Taking the head off a queue takes no other element from it.             *)
LEMMA RangeTail ==
  ASSUME NEW S, NEW s \in Seq(S), s # <<>>
  PROVE  /\ Tail(s) \in Seq(S) /\ Head(s) \in S /\ Head(s) \in Range(s)
         /\ Range(s) = Range(Tail(s)) \cup {Head(s)}
<1>1. /\ Head(s) \in S /\ Tail(s) \in Seq(S)
      /\ s = <<Head(s)>> \o Tail(s)
  <2>1. Len(s) \in Nat \ {0}
    BY EmptySeq
  <2>2. 1 \in 1 .. Len(s) /\ Len(s) \in 1 .. Len(s)
    BY <2>1
  <2>3. SubSeq(s, 1, Len(s)) = <<s[1]>> \o SubSeq(s, 1 + 1, Len(s))
    BY <2>2, SubSeqRecursiveFirst
  <2>4. SubSeq(s, 1, Len(s)) = s /\ Tail(s) = SubSeq(s, 2, Len(s)) /\ s[1] = Head(s)
    BY SubSeqFull, TailIsSubSeq
  <2> QED BY <2>3, <2>4, HeadTailProperties
<1>2. <<Head(s)>> \in Seq(S) /\ Range(<<Head(s)>>) = {Head(s)}
  BY <1>1 DEF Range
<1>3. Range(<<Head(s)>> \o Tail(s)) = Range(<<Head(s)>>) \cup Range(Tail(s))
  <2> DEFINE h == <<Head(s)>>
             t == Tail(s)
  <2>1. h \in Seq(S) /\ t \in Seq(S)
    BY <1>1, <1>2
  <2> HIDE DEF h, t
  <2>2. Range(h \o t) = Range(h) \cup Range(t)
    BY <2>1, RangeJoin
  <2> QED BY <2>2 DEF h, t
<1> QED BY <1>1, <1>2, <1>3

(* What is left after a read of n messages was there before it.            *)
LEMMA RangeRest ==
  ASSUME NEW S, NEW s \in Seq(S), NEW n \in 1 .. Len(s)
  PROVE  /\ SubSeq(s, n + 1, Len(s)) \in Seq(S)
         /\ Range(SubSeq(s, n + 1, Len(s))) \subseteq Range(s)
         /\ s[1] \in Range(s) /\ s[1] \in S
<1>1. Len(s) \in Nat /\ n + 1 \in Int /\ 1 \in 1 .. Len(s) /\ \A i \in 1 .. Len(s) : s[i] \in S
  BY ElementOfSeq, LenProperties
<1>2. s[1] \in Range(s)
  BY <1>1, RangeEquality
<1>3. SubSeq(s, n + 1, Len(s)) \in Seq(Range(s))
  <2>1. \A i \in n + 1 .. Len(s) : s[i] \in Range(s)
    BY <1>1, RangeEquality
  <2> QED BY <1>1, <2>1, SubSeqProperties
<1>4. SubSeq(s, n + 1, Len(s)) \in Seq(S)
  <2>1. \A i \in n + 1 .. Len(s) : s[i] \in S
    BY <1>1
  <2> QED BY <1>1, <2>1, SubSeqProperties
<1> QED BY <1>1, <1>2, <1>3, <1>4, RangeOfSeq

(* A sequence of copies of x holds nothing else.                           *)
LEMMA RangeCopies ==
  ASSUME NEW S, NEW x \in S, NEW n \in Nat
  PROVE  [i \in 1 .. n |-> x] \in Seq(S) /\ Range([i \in 1 .. n |-> x]) \subseteq {x}
  BY DEF Range

(* The answers of one handler, written on one connection.                  *)
LEMMA RangePair ==
  ASSUME NEW S, NEW x \in S, NEW y \in S
  PROVE  <<x, y>> \in Seq(S) /\ Range(<<x, y>>) = {x, y}
  BY DEF Range

-----------------------------------------------------------------------------
Somebody == \E v \in Unit : hasResult[v]

SocketPlaces == {"unborn", "loop", "check", "call", "announce", "report", "exited"}

Handlers == {"handle_read", "handle_write", "error"}

(* Threads are created by a runner whose interrupters are all connected,   *)
(* and no socket is closed before they are through.                        *)
LifeInv ==
  /\ made \in 0 .. size
  /\ closed \subseteq 0 .. made - 1
  /\ main # "spawn" \/ started > 0 => made = size
  /\ started > 0 => SpawnAllowed
  /\ closed # {} => main = "done"

WaitInv == \A u \in waiting : pc[u] \in {"check", "announce"}

(* What concerns the runner and its units.                                 *)
CallPart ==
  /\ RunTypeOK
  /\ pc \in [Unit -> SocketPlaces]
  /\ RunInv
  /\ \A u \in Unit : UnitInv(u)
  /\ LifeInv
  /\ WaitInv
  /\ NoFalseStop

NetOK ==
  /\ c2s \in [Unit -> Seq(Request)]
  /\ s2c \in [Unit -> Seq(Answer)]
  /\ waiting \subseteq Unit
  /\ status \in {0, 1}
  /\ accepted \subseteq Unit
  /\ reads \in [Unit -> Nat]
  /\ data \in [Unit -> Request]
  /\ ready \in Seq(Handler)
  /\ answers \in Seq(Unit \X Answer)
  /\ server \in {"none", "starting", "up", "unforked", "failed", "broken", "killed"}
  /\ foreign \in {"no", "up", "gone"}
  /\ lost \subseteq 0 .. made - 1
  /\ told \in BOOLEAN

(* The server works for connections it has accepted, and an error is that  *)
(* of a connection the client has closed.                                  *)
LinkInv ==
  /\ deleted \subseteq accepted \cap closed
  /\ \A u \in Unit : reads[u] > 0 => u \in accepted
  /\ \A u \in Unit : \A h \in Handlers :
       <<h, u>> \in Range(ready) => u \in accepted /\ (h = "error" => u \in closed)
  /\ \A u \in Unit : \A a \in Answer : <<u, a>> \in Range(answers) => u \in accepted

(* Nothing speaks of a success before there is one, here or elsewhere.     *)
FlagInv ==
  \/ Somebody
  \/ told
  \/ /\ status = 0
     /\ \A u \in Unit : /\ data[u] # "set"
                        /\ "set" \notin Range(c2s[u])
                        /\ "finished" \notin Range(s2c[u])
                        /\ <<u, "finished">> \notin Range(answers)

AnswerFor(u) == \E a \in Answer : <<u, a>> \in Range(answers)

HandlerOf(u) == \E h \in Handlers : <<h, u>> \in Range(ready)

UnderWay ==
  \A u \in waiting \ lost :
    s2c[u] # <<>> \/ c2s[u] # <<>> \/ <<"handle_read", u>> \in Range(ready) \/ AnswerFor(u)

Heard == \A u \in accepted \ deleted : reads[u] > 0 \/ HandlerOf(u) \/ AnswerFor(u)

(* What concerns the server and the connections.                           *)
ServerPart ==
  /\ NetOK
  /\ LinkInv
  /\ FlagInv
  /\ UnderWay
  /\ Heard
  /\ ServerHoldsOut

Inv == CallPart /\ ServerPart

-----------------------------------------------------------------------------
(* What the lemmas about the runner and the callables ask for is part of   *)
(* the invariant.                                                          *)
LEMMA CallPartRun == CallPart => RunOK /\ CallOK
<1>1. CallPart => RunOK
  BY DEF CallPart, RunOK, Places, SocketPlaces
<1> QED BY <1>1, RunCall

(* A completion is the name of its handler and the unit of its session.    *)
LEMMA HandlerPair == Handler = Handlers \X Unit
  BY DEF Handler, Handlers

(* When a socket is closed its unit does not wait for an answer any more.  *)
LEMMA ClosedIdle ==
  ASSUME Inv, NEW u \in closed
  PROVE  main = "done" /\ u \notin waiting
<1>1. main = "done"
  BY DEF Inv, CallPart, LifeInv
<1>2. CASE u \in Unit /\ SpawnAllowed
  <2>1. pc[u] \notin {"check", "announce"}
    BY <1>1, <1>2, CallPartRun, DoneThrough DEF Inv, CallPart, Through
  <2> QED BY <1>1, <2>1 DEF Inv, CallPart, WaitInv
<1>3. CASE u \in Unit /\ ~SpawnAllowed
  <2>1. started = 0
    BY <1>3, UnitIsNat DEF Inv, CallPart, LifeInv, RunTypeOK
  <2>2. pc[u] = "unborn"
    BY <1>3, <2>1, UnitIsNat DEF Inv, CallPart, RunInv
  <2> QED BY <1>1, <2>2 DEF Inv, CallPart, WaitInv
<1> QED BY <1>1, <1>2, <1>3 DEF Inv, ServerPart, NetOK

(* Only a unit whose interrupter is connected waits for an answer.         *)
LEMMA WaitingMade ==
  ASSUME Inv
  PROVE  waiting \subseteq 0 .. made - 1
<1> SUFFICES ASSUME NEW u \in waiting PROVE u \in 0 .. made - 1
  OBVIOUS
<1>1. u \in Unit /\ pc[u] # "unborn"
  BY DEF Inv, CallPart, WaitInv, ServerPart, NetOK
<1>2. u < started /\ started \in 0 .. size /\ size \in Nat
  BY <1>1, UnitIsNat DEF Inv, CallPart, RunInv, RunTypeOK
<1>3. made = size
  BY <1>1, <1>2, UnitIsNat DEF Inv, CallPart, LifeInv
<1> QED BY <1>1, <1>2, <1>3, UnitIsNat

(* The servers do not touch what concerns the runner.                      *)
LEMMA ServerCallPart ==
  ASSUME CallPart, UNCHANGED <<callVars, runVars, made, closed, waiting>>,
         told => told'
  PROVE  CallPart' /\ (Somebody' <=> Somebody)
<1>1. /\ UNCHANGED <<expected, endless, pc, pos, hasResult, result, tested, left, printed>>
      /\ UNCHANGED <<size, main, started, joined>> /\ UNCHANGED callVars /\ UNCHANGED runVars
      /\ UNCHANGED <<made, closed, waiting>>
  BY DEF callVars, runVars
<1>2. \A v \in Unit : UnitInv(v)'
  BY <1>1, StutterUnit DEF CallPart
<1>3. RunInv'
  BY <1>1, RunKept DEF CallPart
<1>4. RunTypeOK' /\ LifeInv' /\ WaitInv' /\ NoFalseStop' /\ (Somebody' <=> Somebody)
  BY <1>1
  DEF CallPart, RunTypeOK, CallTypeOK, LifeInv, WaitInv, NoFalseStop, Somebody, SpawnAllowed
<1> QED BY <1>1, <1>2, <1>3, <1>4 DEF CallPart

-----------------------------------------------------------------------------
(* The steps of the server. *)
LEMMA ListenInv ==
  ASSUME Inv, Listen
  PROVE  Inv'
<1>1. /\ server' \in {"up", "failed"} /\ UNCHANGED <<callVars, runVars, made, closed, waiting>>
      /\ UNCHANGED <<c2s, s2c, status, accepted, reads, data, ready, answers, deleted>>
      /\ UNCHANGED hasResult /\ UNCHANGED <<foreign, lost, told>>
  BY DEF Listen, netVars, serverVars, callVars, otherVars
<1>2. ServerPart'
  BY <1>1
  DEF Inv, ServerPart, NetOK, LinkInv, FlagInv, UnderWay, Heard, ServerHoldsOut, Somebody,
      AnswerFor, HandlerOf
<1> QED BY <1>1, <1>2, ServerCallPart DEF Inv

(* Accept starts the first read of a session, so the session is not deaf.  *)
LEMMA AcceptPart ==
  ASSUME Inv, NEW u \in Unit, Accept(u)
  PROVE  ServerPart'
<1>1. /\ accepted' = accepted \cup {u} /\ reads' = [reads EXCEPT ![u] = @ + 1]
      /\ UNCHANGED <<c2s, s2c, status, data, ready, answers, deleted>>
      /\ UNCHANGED <<made, closed, server, waiting, main, hasResult>>
      /\ UNCHANGED <<foreign, lost, told>>
  BY DEF Accept, netVars, callVars, runVars, lifeVars, otherVars
<1>2. reads \in [Unit -> Nat]
  BY DEF Inv, ServerPart, NetOK
<1>3. reads' \in [Unit -> Nat] /\ reads'[u] > 0
      /\ \A v \in Unit : v # u => reads'[v] = reads[v]
  BY <1>1, <1>2
<1>4. NetOK' /\ LinkInv' /\ FlagInv' /\ UnderWay' /\ ServerHoldsOut'
  BY <1>1, <1>3
  DEF Inv, ServerPart, NetOK, LinkInv, FlagInv, UnderWay, ServerHoldsOut, Somebody, AnswerFor
<1>5. Heard'
  BY <1>1, <1>3 DEF Inv, ServerPart, NetOK, Heard, HandlerOf, AnswerFor
<1> QED BY <1>4, <1>5 DEF ServerPart

(* A read takes a prefix of what has been sent; the request it takes first *)
(* is now in data_, and its handler is ready.                              *)
LEMMA CompleteReadPart ==
  ASSUME Inv, NEW u \in Unit, CompleteRead(u)
  PROVE  ServerPart'
<1>1. PICK n \in 1 .. Len(c2s[u]) :
        /\ data' = [data EXCEPT ![u] = c2s[u][1]]
        /\ c2s' = [c2s EXCEPT ![u] = SubSeq(@, n + 1, Len(@))]
  BY DEF CompleteRead
<1>2. /\ reads[u] > 0 /\ reads' = [reads EXCEPT ![u] = @ - 1]
      /\ ready' = Append(ready, <<"handle_read", u>>)
      /\ UNCHANGED <<s2c, status, accepted, answers, deleted>>
      /\ UNCHANGED <<made, closed, server, waiting, main, hasResult>>
      /\ UNCHANGED <<foreign, lost, told>>
  BY DEF CompleteRead, callVars, runVars, lifeVars, otherVars
<1>3. /\ c2s \in [Unit -> Seq(Request)] /\ data \in [Unit -> Request]
      /\ reads \in [Unit -> Nat] /\ ready \in Seq(Handler)
  BY DEF Inv, ServerPart, NetOK
<1>4. <<"handle_read", u>> \in Handler /\ "handle_read" \in Handlers
  BY DEF Handler, Handlers
<1>5. ready' \in Seq(Handler) /\ Range(ready') = Range(ready) \cup {<<"handle_read", u>>}
  <2>1. /\ Append(ready, <<"handle_read", u>>) \in Seq(Handler)
        /\ Range(Append(ready, <<"handle_read", u>>)) = Range(ready) \cup {<<"handle_read", u>>}
    <3>1. ready \in Seq(Handler)
      BY <1>3
    <3> QED BY <3>1, <1>4, RangeAppend
  <2> QED BY <1>2, <2>1
<1>6. /\ c2s' \in [Unit -> Seq(Request)] /\ data' \in [Unit -> Request]
      /\ \A v \in Unit : Range(c2s'[v]) \subseteq Range(c2s[v])
      /\ \A v \in Unit : data'[v] = data[v] \/ data'[v] \in Range(c2s[v])
      /\ \A v \in Unit : v # u => c2s'[v] = c2s[v]
  <2>1. c2s[u] \in Seq(Request)
    BY <1>3
  <2>2. /\ SubSeq(c2s[u], n + 1, Len(c2s[u])) \in Seq(Request)
        /\ Range(SubSeq(c2s[u], n + 1, Len(c2s[u]))) \subseteq Range(c2s[u])
        /\ c2s[u][1] \in Range(c2s[u]) /\ c2s[u][1] \in Request
    BY <2>1, RangeRest
  <2> QED BY <1>1, <1>3, <2>2
<1>7. /\ reads' \in [Unit -> Nat] /\ u \in accepted
      /\ \A v \in Unit : v # u => reads'[v] = reads[v]
      /\ \A v \in Unit : reads'[v] > 0 => reads[v] > 0
  BY <1>2, <1>3 DEF Inv, ServerPart, LinkInv
<1>8. NetOK' /\ ServerHoldsOut'
  BY <1>2, <1>5, <1>6, <1>7 DEF Inv, ServerPart, NetOK, ServerHoldsOut
<1>9. LinkInv'
  BY <1>2, <1>5, <1>7 DEF Inv, ServerPart, LinkInv
<1>10. FlagInv'
  BY <1>2, <1>6 DEF Inv, ServerPart, FlagInv, Somebody
<1>11. UnderWay' /\ Heard'
  BY <1>2, <1>4, <1>5, <1>6, <1>7
  DEF Inv, ServerPart, NetOK, UnderWay, Heard, HandlerOf, AnswerFor
<1> QED BY <1>8, <1>9, <1>10, <1>11 DEF ServerPart

(* A read fails only where the client has closed, and no such client       *)
(* waits.                                                                  *)
LEMMA ReadFailsPart ==
  ASSUME Inv, NEW u \in Unit, ReadFails(u)
  PROVE  ServerPart'
<1>1. /\ u \in closed
      /\ reads[u] > 0 /\ reads' = [reads EXCEPT ![u] = @ - 1]
      /\ ready' = Append(ready, <<"error", u>>)
      /\ UNCHANGED <<c2s, s2c, status, accepted, data, answers, deleted>>
      /\ UNCHANGED <<made, closed, server, waiting, main, hasResult>>
      /\ UNCHANGED <<foreign, lost, told>>
  BY DEF ReadFails, callVars, runVars, lifeVars, otherVars, netVars
<1>2. reads \in [Unit -> Nat] /\ ready \in Seq(Handler)
  BY DEF Inv, ServerPart, NetOK
<1>3. <<"error", u>> \in Handler /\ "error" \in Handlers
  BY DEF Handler, Handlers
<1>4. ready' \in Seq(Handler) /\ Range(ready') = Range(ready) \cup {<<"error", u>>}
  <2> DEFINE e == <<"error", u>>
  <2>1. e \in Handler /\ ready' = Append(ready, e)
    BY <1>1, <1>3
  <2> HIDE DEF e
  <2>2. Append(ready, e) \in Seq(Handler) /\ Range(Append(ready, e)) = Range(ready) \cup {e}
    BY <1>2, <2>1, RangeAppend
  <2> QED BY <2>1, <2>2 DEF e
<1>5. /\ reads' \in [Unit -> Nat] /\ u \in accepted
      /\ \A v \in Unit : v # u => reads'[v] = reads[v]
      /\ \A v \in Unit : reads'[v] > 0 => reads[v] > 0
  BY <1>1, <1>2 DEF Inv, ServerPart, LinkInv
<1>6. NetOK' /\ ServerHoldsOut' /\ FlagInv'
  BY <1>1, <1>4, <1>5 DEF Inv, ServerPart, NetOK, ServerHoldsOut, FlagInv, Somebody
<1>7. LinkInv'
  BY <1>1, <1>4, <1>5 DEF Inv, ServerPart, LinkInv
<1>8. UnderWay' /\ Heard'
  BY <1>1, <1>3, <1>4, <1>5
  DEF Inv, ServerPart, NetOK, UnderWay, Heard, HandlerOf, AnswerFor
<1> QED BY <1>6, <1>7, <1>8 DEF ServerPart

(* The handler that runs leaves the queue, the others stay.                *)
LEMMA RunsTail ==
  ASSUME Inv, NEW u \in Unit, NEW h \in Handlers, ready # <<>>, Head(ready) = <<h, u>>
  PROVE  /\ ready \in Seq(Handler) /\ Tail(ready) \in Seq(Handler)
         /\ Range(ready) = Range(Tail(ready)) \cup {<<h, u>>}
         /\ <<h, u>> \in Range(ready) /\ u \in accepted /\ (h = "error" => u \in closed)
<1>1. ready \in Seq(Handler)
  BY DEF Inv, ServerPart, NetOK
<1>2. Tail(ready) \in Seq(Handler) /\ Range(ready) = Range(Tail(ready)) \cup {<<h, u>>}
  BY <1>1, RangeTail
<1> QED BY <1>1, <1>2 DEF Inv, ServerPart, LinkInv

(* handle_read turns the request in data_ into answers; it says "finished" *)
(* only if status is 1, and status becomes 1 only by a "set".              *)
LEMMA HandleReadPart ==
  ASSUME Inv, NEW u \in Unit, HandleRead(u)
  PROVE  ServerPart'
<1> DEFINE first == IF data[u] = "set" THEN "ok"
                    ELSE IF status = 1 THEN "finished" ELSE "continue"
<1>1. /\ ready # <<>> /\ Head(ready) = <<"handle_read", u>> /\ ready' = Tail(ready)
      /\ status' = IF data[u] = "set" THEN 1 ELSE status
      /\ UNCHANGED <<c2s, s2c, accepted, reads, data, deleted>>
      /\ UNCHANGED <<made, closed, server, waiting, main, hasResult>>
      /\ UNCHANGED <<foreign, lost, told>>
      /\ answers = <<>>
  BY DEF HandleRead, Runs, Idle, callVars, runVars, lifeVars, otherVars, netVars
<1>2. answers' = [i \in 1 .. Len(<<first, "none">>) |-> <<u, <<first, "none">>[i]>>]
  BY DEF HandleRead, AnswersTo
<1>3. first \in Answer /\ (first = "finished" => status = 1) /\ "none" \in Answer
  BY DEF Answer
<1> HIDE DEF first
<1>4. answers' \in Seq(Unit \X Answer) /\ Range(answers') = {<<u, first>>, <<u, "none">>}
  <2>1. <<u, first>> \in Unit \X Answer /\ <<u, "none">> \in Unit \X Answer
    BY <1>3
  <2>2. answers' = <<<<u, first>>, <<u, "none">>>>
    BY <1>2
  <2> QED BY <2>1, <2>2, RangePair
<1>5. "handle_read" \in Handlers
  BY DEF Handlers
<1>6. /\ Tail(ready) \in Seq(Handler) /\ u \in accepted
      /\ Range(ready) = Range(Tail(ready)) \cup {<<"handle_read", u>>}
  BY <1>1, <1>5, RunsTail
<1>7. NetOK' /\ ServerHoldsOut'
  BY <1>1, <1>4, <1>6 DEF Inv, ServerPart, NetOK, ServerHoldsOut
<1>8. LinkInv'
  BY <1>1, <1>4, <1>6 DEF Inv, ServerPart, LinkInv
<1>9. FlagInv'
  <2>1. CASE Somebody \/ told
    BY <1>1, <2>1 DEF FlagInv, Somebody
  <2>2. CASE ~(Somebody \/ told)
    <3>1. /\ status = 0 /\ data[u] # "set"
          /\ \A v \in Unit : /\ data[v] # "set" /\ "set" \notin Range(c2s[v])
                            /\ "finished" \notin Range(s2c[v])
      BY <2>2 DEF Inv, ServerPart, FlagInv
    <3>2. first # "finished"
      BY <1>3, <3>1
    <3>3. UNCHANGED <<c2s, s2c, data>>
      BY <1>1
    <3>4. \A v \in Unit : <<v, "finished">> \notin Range(answers')
      BY <1>4, <3>2
    <3>5. status' = 0
      BY <1>1, <3>1
    <3> QED BY <3>1, <3>3, <3>4, <3>5 DEF FlagInv
  <2> QED BY <2>1, <2>2
<1>10. UnderWay' /\ Heard'
  <2>1. Range(answers) = {}
    BY <1>1 DEF Range
  <2> QED
    BY <1>1, <1>3, <1>4, <1>6, <2>1
    DEF Inv, ServerPart, UnderWay, Heard, HandlerOf, AnswerFor
<1> QED BY <1>7, <1>8, <1>9, <1>10 DEF ServerPart

(* An answer goes from the server to the socket, and handle_write will     *)
(* read again.                                                             *)
LEMMA WriteAnswerPart ==
  ASSUME Inv, NEW u \in Unit, WriteAnswer(u)
  PROVE  ServerPart'
<1>1. /\ answers # <<>> /\ Head(answers)[1] = u /\ answers' = Tail(answers)
      /\ s2c' = [s2c EXCEPT ![u] = Append(@, Head(answers)[2])]
      /\ UNCHANGED <<c2s, status, accepted, reads, data, deleted>>
      /\ UNCHANGED <<made, closed, server, waiting, main, hasResult>>
      /\ UNCHANGED <<foreign, lost, told>>
  BY DEF WriteAnswer, callVars, runVars, lifeVars, otherVars
<1>2. PICK h \in Handlers : /\ ready' = Append(ready, <<h, u>>)
                            /\ h = "error" => u \in closed
  BY DEF WriteAnswer, Handlers
<1>3. /\ s2c \in [Unit -> Seq(Answer)] /\ ready \in Seq(Handler)
      /\ answers \in Seq(Unit \X Answer)
  BY DEF Inv, ServerPart, NetOK
<1>4. PICK a \in Answer : Head(answers) = <<u, a>>
  BY <1>1, <1>3, RangeTail
<1>5. /\ answers' \in Seq(Unit \X Answer) /\ <<u, a>> \in Range(answers)
      /\ Range(answers) = Range(answers') \cup {<<u, a>>}
  BY <1>1, <1>3, <1>4, RangeTail
<1>6. ready' \in Seq(Handler) /\ Range(ready') = Range(ready) \cup {<<h, u>>}
  <2> DEFINE e == <<h, u>>
  <2>1. e \in Handler /\ ready' = Append(ready, e)
    BY <1>2, HandlerPair
  <2> HIDE DEF e
  <2>2. Append(ready, e) \in Seq(Handler) /\ Range(Append(ready, e)) = Range(ready) \cup {e}
    BY <1>3, <2>1, RangeAppend
  <2> QED BY <2>1, <2>2 DEF e
<1>7. /\ s2c' \in [Unit -> Seq(Answer)] /\ s2c'[u] # <<>>
      /\ Range(s2c'[u]) = Range(s2c[u]) \cup {a}
      /\ \A v \in Unit : v # u => s2c'[v] = s2c[v]
  <2>1. s2c[u] \in Seq(Answer) /\ s2c' = [s2c EXCEPT ![u] = Append(s2c[u], a)]
    <3>1. Head(answers)[2] = a
      BY <1>4
    <3>2. s2c' = [s2c EXCEPT ![u] = Append(@, a)]
      BY <1>1, <3>1
    <3> QED BY <1>3, <3>2
  <2>2. /\ Append(s2c[u], a) \in Seq(Answer) /\ Append(s2c[u], a) # <<>>
        /\ Range(Append(s2c[u], a)) = Range(s2c[u]) \cup {a}
    BY <2>1, RangeAppend
  <2> QED BY <1>3, <2>1, <2>2
<1>8. u \in accepted
  BY <1>5 DEF Inv, ServerPart, LinkInv
<1>9. NetOK' /\ ServerHoldsOut'
  BY <1>1, <1>5, <1>6, <1>7 DEF Inv, ServerPart, NetOK, ServerHoldsOut
<1>10. LinkInv'
  BY <1>1, <1>2, <1>5, <1>6, <1>8 DEF Inv, ServerPart, LinkInv
<1>11. FlagInv'
  BY <1>1, <1>5, <1>7 DEF Inv, ServerPart, FlagInv, Somebody
<1>12. UnderWay' /\ Heard'
  BY <1>1, <1>5, <1>6, <1>7
  DEF Inv, ServerPart, NetOK, UnderWay, Heard, HandlerOf, AnswerFor
<1> QED BY <1>9, <1>10, <1>11, <1>12 DEF ServerPart

(* handle_write starts a read: a session that had an answer under way is   *)
(* not deaf after it.                                                      *)
LEMMA HandleWritePart ==
  ASSUME Inv, NEW u \in Unit, HandleWrite(u)
  PROVE  ServerPart'
<1>1. /\ ready # <<>> /\ Head(ready) = <<"handle_write", u>> /\ ready' = Tail(ready)
      /\ reads' = [reads EXCEPT ![u] = @ + 1]
      /\ UNCHANGED <<c2s, s2c, status, accepted, data, answers, deleted>>
      /\ UNCHANGED <<made, closed, server, waiting, main, hasResult>>
      /\ UNCHANGED <<foreign, lost, told>>
  BY DEF HandleWrite, Runs, ReadAgain, callVars, runVars, lifeVars, otherVars, netVars
<1>2. "handle_write" \in Handlers
  BY DEF Handlers
<1>3. /\ Tail(ready) \in Seq(Handler) /\ u \in accepted
      /\ Range(ready) = Range(Tail(ready)) \cup {<<"handle_write", u>>}
  BY <1>1, <1>2, RunsTail
<1>4. reads' \in [Unit -> Nat] /\ reads'[u] > 0
      /\ \A v \in Unit : v # u => reads'[v] = reads[v]
  BY <1>1 DEF Inv, ServerPart, NetOK
<1>5. NetOK' /\ ServerHoldsOut' /\ FlagInv'
  BY <1>1, <1>3, <1>4 DEF Inv, ServerPart, NetOK, ServerHoldsOut, FlagInv, Somebody
<1>6. LinkInv'
  BY <1>1, <1>3, <1>4 DEF Inv, ServerPart, LinkInv
<1>7. UnderWay' /\ Heard'
  BY <1>1, <1>3, <1>4
  DEF Inv, ServerPart, NetOK, UnderWay, Heard, HandlerOf, AnswerFor
<1> QED BY <1>5, <1>6, <1>7 DEF ServerPart

(* An error deletes a session and completes its other reads with an error: *)
(* its client has closed.                                                  *)
LEMMA HandleErrorPart ==
  ASSUME Inv, NEW u \in Unit, HandleError(u)
  PROVE  ServerPart'
<1>1. /\ ready # <<>> /\ Head(ready) = <<"error", u>>
      /\ ready' = Tail(ready) \o [i \in 1 .. reads[u] |-> <<"error", u>>]
      /\ reads' = [reads EXCEPT ![u] = 0] /\ deleted' = deleted \cup {u}
      /\ UNCHANGED <<c2s, s2c, status, accepted, data, answers>>
      /\ UNCHANGED <<made, closed, server, waiting, main, hasResult>>
      /\ UNCHANGED <<foreign, lost, told>>
  BY DEF HandleError, Runs, callVars, runVars, lifeVars, otherVars, netVars
<1>2. "error" \in Handlers /\ <<"error", u>> \in Handler
  BY DEF Handler, Handlers
<1>3. /\ Tail(ready) \in Seq(Handler) /\ u \in accepted /\ u \in closed
      /\ Range(ready) = Range(Tail(ready)) \cup {<<"error", u>>}
  BY <1>1, <1>2, RunsTail
<1>4. /\ reads[u] \in Nat /\ reads' \in [Unit -> Nat]
      /\ \A v \in Unit : v # u => reads'[v] = reads[v]
      /\ \A v \in Unit : reads'[v] > 0 => reads[v] > 0
  BY <1>1 DEF Inv, ServerPart, NetOK
<1>5. /\ ready' \in Seq(Handler)
      /\ Range(ready') \subseteq Range(ready)
      /\ Range(ready) \subseteq Range(ready') \cup {<<"error", u>>}
  <2> DEFINE errors == [i \in 1 .. reads[u] |-> <<"error", u>>]
  <2>1. errors \in Seq(Handler) /\ Range(errors) \subseteq {<<"error", u>>}
    BY <1>2, <1>4, RangeCopies
  <2>2. ready' = Tail(ready) \o errors
    BY <1>1
  <2> HIDE DEF errors
  <2>3. Tail(ready) \o errors \in Seq(Handler)
    BY <1>3, <2>1, ConcatProperties
  <2>4. Range(Tail(ready) \o errors) = Range(Tail(ready)) \cup Range(errors)
    <3> DEFINE t == Tail(ready)
    <3>1. t \in Seq(Handler) /\ errors \in Seq(Handler)
      BY <1>3, <2>1
    <3> HIDE DEF t
    <3>2. Range(t \o errors) = Range(t) \cup Range(errors)
      BY <3>1, RangeJoin
    <3> QED BY <3>2 DEF t
  <2> QED BY <1>3, <2>1, <2>2, <2>3, <2>4
<1>6. NetOK' /\ ServerHoldsOut' /\ FlagInv'
  BY <1>1, <1>4, <1>5 DEF Inv, ServerPart, NetOK, ServerHoldsOut, FlagInv, Somebody
<1>7. LinkInv'
  BY <1>1, <1>3, <1>4, <1>5 DEF Inv, ServerPart, LinkInv
<1>8. UnderWay'
  <2>1. \A v \in Unit : <<"handle_read", v>> \in Range(ready)
                        => <<"handle_read", v>> \in Range(ready')
    BY <1>5
  <2> QED BY <1>1, <2>1 DEF Inv, ServerPart, NetOK, UnderWay, AnswerFor
<1>9. Heard'
  <2>1. \A v \in Unit : v # u /\ HandlerOf(v) => HandlerOf(v)'
    BY <1>5 DEF HandlerOf
  <2>2. accepted' = accepted /\ accepted \subseteq Unit /\ deleted' = deleted \cup {u}
    BY <1>1 DEF Inv, ServerPart, NetOK
  <2>3. ASSUME NEW v \in accepted \ deleted, v # u
        PROVE  (reads[v] > 0 \/ HandlerOf(v) \/ AnswerFor(v))'
    <3>1. v \in Unit /\ reads'[v] = reads[v] /\ (AnswerFor(v) <=> AnswerFor(v)')
      BY <1>1, <1>4, <2>2, <2>3 DEF AnswerFor
    <3> QED BY <2>1, <2>3, <3>1 DEF Inv, ServerPart, Heard
  <2> QED BY <2>2, <2>3 DEF Heard
<1> QED BY <1>6, <1>7, <1>8, <1>9 DEF ServerPart

(* Deleting a session twice may break the server, but nobody waits for it. *)
LEMMA UseDeletedPart ==
  ASSUME Inv, NEW u \in Unit, UseDeleted(u)
  PROVE  ServerPart'
<1>1. /\ ready # <<>> /\ Head(ready)[2] = u /\ u \in deleted /\ ready' = Tail(ready)
      /\ server' \in {server, "broken"}
      /\ UNCHANGED <<c2s, s2c, status, accepted, reads, data, answers, deleted>>
      /\ UNCHANGED <<made, closed, waiting, main, hasResult>> /\ UNCHANGED <<foreign, lost, told>>
  BY DEF UseDeleted, callVars, runVars, netVars, otherVars
<1>2. main = "done" /\ u \notin waiting
  BY <1>1, ClosedIdle DEF Inv, ServerPart, LinkInv
<1>3. ready \in Seq(Handlers \X Unit)
  BY HandlerPair DEF Inv, ServerPart, NetOK
<1>4. PICK h \in Handlers : Head(ready) = <<h, u>>
  BY <1>1, <1>3, RangeTail
<1>5. /\ Tail(ready) \in Seq(Handler)
      /\ Range(ready) = Range(Tail(ready)) \cup {<<h, u>>}
  BY <1>1, <1>4, RunsTail
<1>6. NetOK' /\ ServerHoldsOut' /\ FlagInv'
  BY <1>1, <1>2, <1>5 DEF Inv, ServerPart, NetOK, ServerHoldsOut, FlagInv, Somebody
<1>7. LinkInv'
  BY <1>1, <1>5 DEF Inv, ServerPart, LinkInv
<1>8. UnderWay' /\ Heard'
  BY <1>1, <1>2, <1>5
  DEF Inv, ServerPart, NetOK, UnderWay, Heard, HandlerOf, AnswerFor
<1> QED BY <1>6, <1>7, <1>8 DEF ServerPart

(* A step of the server keeps the invariant.                               *)
LEMMA ServerInv ==
  ASSUME Inv, Server
  PROVE  Inv'
<1>1. ServerPart'
  BY AcceptPart, CompleteReadPart, ReadFailsPart, HandleReadPart,
     WriteAnswerPart, HandleWritePart, HandleErrorPart, UseDeletedPart DEF Server
<1>2. UNCHANGED <<callVars, runVars, made, closed, waiting>> /\ UNCHANGED told
  BY DEF Server, Accept, CompleteRead, ReadFails, HandleRead, WriteAnswer,
         HandleWrite, HandleError, UseDeleted, lifeVars, otherVars
<1> QED BY <1>1, <1>2, ServerCallPart DEF Inv

-----------------------------------------------------------------------------
(* The other program's server.  It is no excuse for a stop before one of   *)
(* that program's units has found a key.                                   *)
LEMMA ForeignStartsInv ==
  ASSUME Inv, ForeignStarts
  PROVE  Inv'
<1>1. /\ foreign' = "up" /\ UNCHANGED <<callVars, runVars, made, closed, waiting>>
      /\ UNCHANGED <<c2s, s2c, status, accepted, reads, data, ready, answers, deleted>>
      /\ UNCHANGED <<main, hasResult, server, lost, told>>
  BY DEF ForeignStarts, netVars, serverVars, callVars, runVars
<1>2. NetOK' /\ LinkInv' /\ ServerHoldsOut'
  BY <1>1 DEF Inv, ServerPart, NetOK, LinkInv, ServerHoldsOut
<1>4. FlagInv'
  BY <1>1 DEF Inv, ServerPart, FlagInv, Somebody
<1>3. UnderWay' /\ Heard'
  BY <1>1 DEF Inv, ServerPart, UnderWay, Heard, AnswerFor, HandlerOf
<1> QED BY <1>1, <1>2, <1>3, <1>4, ServerCallPart DEF Inv, ServerPart

(* A success of the other program is not of this one.                      *)
LEMMA ForeignSucceedsInv ==
  ASSUME Inv, ForeignSucceeds
  PROVE  Inv'
<1>1. /\ status' = 1 /\ told' = TRUE
      /\ UNCHANGED <<callVars, runVars, made, closed, waiting>>
      /\ UNCHANGED <<c2s, s2c, accepted, reads, data, ready, answers, deleted>>
      /\ UNCHANGED <<main, hasResult, server, foreign, lost>>
  BY DEF ForeignSucceeds, netVars, lifeVars, otherVars, callVars, runVars
<1>2. NetOK' /\ LinkInv' /\ FlagInv' /\ ServerHoldsOut'
  BY <1>1 DEF Inv, ServerPart, NetOK, LinkInv, FlagInv, ServerHoldsOut
<1>3. UnderWay' /\ Heard'
  BY <1>1 DEF Inv, ServerPart, UnderWay, Heard, AnswerFor, HandlerOf
<1> QED BY <1>1, <1>2, <1>3, ServerCallPart DEF Inv, ServerPart

(* With its sessions all that is under way to them goes; those whose       *)
(* connection is cut do not wait for it.                                   *)
LEMMA ForeignEndsInv ==
  ASSUME Inv, ForeignEnds
  PROVE  Inv'
<1>1. /\ foreign' = "gone" /\ lost' = 0 .. made - 1
      /\ c2s' = [u \in Unit |-> <<>>] /\ data' = [u \in Unit |-> "get"]
      /\ reads' = [u \in Unit |-> 0] /\ status' = 0 /\ accepted' = {} /\ deleted' = {}
      /\ ready' = <<>> /\ answers' = <<>>
      /\ UNCHANGED <<callVars, runVars, made, closed, waiting>>
      /\ UNCHANGED <<s2c, main, server, hasResult, told>>
  BY DEF ForeignEnds, runVars, callVars
<1>2. Range(<<>>) = {} /\ <<>> \in Seq(Request) /\ <<>> \in Seq(Handler)
      /\ <<>> \in Seq(Unit \X Answer) /\ "get" \in Request
  BY DEF Range, Request
<1>3. NetOK' /\ ServerHoldsOut'
  BY <1>1, <1>2 DEF Inv, ServerPart, NetOK, ServerHoldsOut
<1>6. FlagInv'
  BY <1>1, <1>2 DEF Inv, ServerPart, FlagInv, Somebody
<1>4. LinkInv' /\ Heard'
  BY <1>1, <1>2 DEF LinkInv, Heard
<1>5. UnderWay'
  <2>1. waiting \subseteq lost'
    BY <1>1, WaitingMade
  <2> QED BY <1>1, <2>1 DEF UnderWay
<1> QED BY <1>1, <1>3, <1>4, <1>5, <1>6, ServerCallPart DEF Inv, ServerPart

-----------------------------------------------------------------------------
(* The steps of the units. *)
LEMMA UnitCallPart ==
  ASSUME CallPart, NEW u \in Unit, UnitAction(u) \/ UNCHANGED callVars,
         UNCHANGED <<runVars, made, closed>>
  PROVE  /\ RunTypeOK' /\ pc' \in [Unit -> SocketPlaces] /\ RunInv'
         /\ \A v \in Unit : UnitInv(v)'
         /\ LifeInv' /\ (Somebody => Somebody')
         /\ \A v \in Unit : v # u => pc'[v] = pc[v]
<1>1. RunOK /\ CallOK /\ UNCHANGED runVars /\ UNCHANGED <<size, main, started, joined>>
      /\ UNCHANGED <<made, closed>>
  BY CallPartRun DEF runVars
<1>2. RunOK' /\ RunInv'
  BY <1>1, ActionRun DEF CallPart
<1>3. \A v \in Unit : UnitInv(v)'
  BY <1>1, ActionUnit, StutterUnit DEF CallPart
<1>4. MovesUnit(u) \/ UNCHANGED pc
  BY ActionMoves DEF callVars
<1>5. pc' \in [Unit -> SocketPlaces] /\ \A v \in Unit : v # u => pc'[v] = pc[v]
  BY <1>4 DEF CallPart, MovesUnit, SocketPlaces
<1>6. LifeInv'
  BY <1>1 DEF CallPart, LifeInv, SpawnAllowed
<1>7. Somebody => Somebody'
  <2>1. \A v \in Unit : hasResult[v] => hasResult'[v]
    BY <1>1, ResultKept DEF callVars
  <2> QED BY <2>1 DEF Somebody
<1> QED BY <1>2, <1>3, <1>5, <1>6, <1>7 DEF RunOK

(* So does a step of a callable that has nothing to do with its            *)
(* interrupter.                                                            *)
LEMMA QuietInv ==
  ASSUME Inv, NEW u \in Unit, LoopStep(u) \/ Report(u),
         UNCHANGED <<runVars, netVars, serverVars, lifeVars, waiting>>
  PROVE  Inv'
<1>1. UnitAction(u) /\ pc[u] \notin {"check", "announce"}
  BY DEF LoopStep, FetchNext, Call, CallThrows, Report, UnitAction
<1>2. /\ UNCHANGED runVars /\ UNCHANGED <<main, made, closed, server, waiting>>
      /\ UNCHANGED <<c2s, s2c, status, accepted, reads, data, ready, answers, deleted>>
      /\ UNCHANGED <<foreign, lost, told>>
  BY DEF runVars, netVars, serverVars, lifeVars, otherVars
<1>3. /\ RunTypeOK' /\ pc' \in [Unit -> SocketPlaces] /\ RunInv'
      /\ \A v \in Unit : UnitInv(v)'
      /\ LifeInv' /\ (Somebody => Somebody')
      /\ \A v \in Unit : v # u => pc'[v] = pc[v]
  BY <1>1, <1>2, UnitCallPart DEF Inv
<1>4. WaitInv'
  BY <1>1, <1>2, <1>3 DEF Inv, CallPart, WaitInv, ServerPart, NetOK
<1>5. NoFalseStop'
  <2>1. \A v \in Unit : left'[v] = "stopped" => left[v] = "stopped"
    BY <1>1, CallPartRun, StopKept DEF Inv, Checked
  <2> QED BY <1>2, <1>3, <2>1 DEF Inv, CallPart, NoFalseStop, Somebody
<1>6. ServerPart'
  BY <1>2, <1>3
  DEF Inv, ServerPart, NetOK, LinkInv, FlagInv, UnderWay, Heard, ServerHoldsOut, AnswerFor,
      HandlerOf
<1> QED BY <1>3, <1>4, <1>5, <1>6 DEF Inv, CallPart

(* A unit says "set" only when it has a result.                            *)
LEMMA SendInv ==
  ASSUME Inv, NEW u \in Unit, Send(u)
  PROVE  Inv'
<1>1. /\ pc[u] \in {"check", "announce"} /\ waiting' = waiting \cup {u}
      /\ UNCHANGED callVars /\ UNCHANGED runVars /\ UNCHANGED <<main, made, closed, server>>
      /\ UNCHANGED <<s2c, status, accepted, reads, data, ready, answers, deleted>>
      /\ UNCHANGED <<pc, left, hasResult>> /\ UNCHANGED <<foreign, lost, told>>
  BY DEF Send, callVars, runVars, serverVars, lifeVars, otherVars
<1>2. PICK request \in Request :
        /\ c2s' = [c2s EXCEPT ![u] = @ \o Sent(u, request)]
        /\ request = "set" => pc[u] = "announce"
  BY DEF Send, Request
<1>3. c2s \in [Unit -> Seq(Request)] /\ c2s[u] \in Seq(Request)
  BY DEF Inv, ServerPart, NetOK
<1>4. /\ c2s[u] \o Sent(u, request) \in Seq(Request)
      /\ Range(c2s[u] \o Sent(u, request)) \subseteq Range(c2s[u]) \cup {request}
      /\ u \notin lost => c2s[u] \o Sent(u, request) # <<>>
  <2>1. CASE u \in lost
    <3>1. Sent(u, request) = <<>>
      BY <2>1 DEF Sent
    <3> QED BY <1>3, <2>1, <3>1, ConcatEmptySeq
  <2>2. CASE u \notin lost
    <3>1. c2s[u] \o Sent(u, request) = Append(c2s[u], request)
      BY <1>3, <2>2, AppendIsConcat DEF Sent
    <3> QED BY <1>3, <3>1, RangeAppend
  <2> QED BY <2>1, <2>2
<1>5. /\ c2s' \in [Unit -> Seq(Request)] /\ (u \notin lost => c2s'[u] # <<>>)
      /\ Range(c2s'[u]) \subseteq Range(c2s[u]) \cup {request}
      /\ \A v \in Unit : v # u => c2s'[v] = c2s[v]
  BY <1>2, <1>3, <1>4
<1>6. /\ RunTypeOK' /\ pc' \in [Unit -> SocketPlaces] /\ RunInv'
      /\ \A v \in Unit : UnitInv(v)'
      /\ LifeInv' /\ (Somebody => Somebody')
  BY <1>1, UnitCallPart DEF Inv
<1>7. WaitInv' /\ NoFalseStop'
  BY <1>1 DEF Inv, CallPart, WaitInv, NoFalseStop
<1>8. request = "set" => Somebody
  BY <1>2 DEF Inv, CallPart, UnitInv, Somebody
<1>9. FlagInv'
  BY <1>1, <1>5, <1>6, <1>8 DEF Inv, ServerPart, FlagInv
<1>10. NetOK' /\ LinkInv' /\ ServerHoldsOut' /\ Heard'
  BY <1>1, <1>5
  DEF Inv, ServerPart, NetOK, LinkInv, ServerHoldsOut, Heard, HandlerOf, AnswerFor
<1>11. UnderWay'
  BY <1>1, <1>5 DEF Inv, ServerPart, UnderWay, AnswerFor, NetOK
<1> QED BY <1>6, <1>7, <1>9, <1>10, <1>11 DEF Inv, CallPart, ServerPart

(* What is read is what has been sent; "finished" is not said too early.   *)
LEMMA ReceiveInv ==
  ASSUME Inv, NEW u \in Unit, Receive(u)
  PROVE  Inv'
<1>1. /\ u \in waiting /\ waiting' = waiting \ {u} /\ UNCHANGED runVars
      /\ UNCHANGED <<main, made, closed, server>> /\ UNCHANGED <<foreign, lost, told>>
      /\ UNCHANGED <<c2s, status, accepted, reads, data, ready, answers, deleted>>
  BY DEF Receive, runVars, serverVars, lifeVars, otherVars
<1>2. PICK n \in 0 .. Len(s2c[u]) :
        /\ s2c' = [s2c EXCEPT ![u] = SubSeq(@, n + 1, Len(@))]
        /\ \/ Checked(u, ~SaysFinished(SubSeq(s2c[u], 1, n)))
           \/ SuccessHandled(u)
  BY DEF Receive
<1>3. s2c \in [Unit -> Seq(Answer)] /\ s2c[u] \in Seq(Answer)
  BY DEF Inv, ServerPart, NetOK
<1>4. /\ SubSeq(s2c[u], n + 1, Len(s2c[u])) \in Seq(Answer)
      /\ Range(SubSeq(s2c[u], n + 1, Len(s2c[u]))) \subseteq Range(s2c[u])
      /\ n # 0 => s2c[u][1] \in Range(s2c[u])
  <2>1. CASE n = 0
    <3>1. SubSeq(s2c[u], 1, Len(s2c[u])) = s2c[u]
      BY <1>3, SubSeqFull
    <3>2. n + 1 = 1
      BY <2>1
    <3>3. SubSeq(s2c[u], n + 1, Len(s2c[u])) = s2c[u]
      BY <3>1, <3>2
    <3> QED BY <1>3, <2>1, <3>3
  <2>2. CASE n # 0
    <3>1. n \in 1 .. Len(s2c[u])
      BY <1>3, <2>2, LenProperties
    <3> QED BY <1>3, <3>1, RangeRest
  <2> QED BY <2>1, <2>2
<1>5. /\ s2c' \in [Unit -> Seq(Answer)]
      /\ \A v \in Unit : v # u => s2c'[v] = s2c[v]
      /\ \A v \in Unit : Range(s2c'[v]) \subseteq Range(s2c[v])
  BY <1>2, <1>3, <1>4
<1>6. UnitAction(u)
  BY <1>2, CheckedAction DEF UnitAction
<1>7. /\ RunTypeOK' /\ pc' \in [Unit -> SocketPlaces] /\ RunInv'
      /\ \A v \in Unit : UnitInv(v)'
      /\ LifeInv' /\ (Somebody => Somebody')
      /\ \A v \in Unit : v # u => pc'[v] = pc[v]
  BY <1>1, <1>6, UnitCallPart DEF Inv
<1>8. WaitInv'
  BY <1>1, <1>7 DEF Inv, CallPart, WaitInv, ServerPart, NetOK
<1>9. SaysFinished(SubSeq(s2c[u], 1, n)) => Somebody \/ told
  <2>0. n # 0 \/ ~SaysFinished(SubSeq(s2c[u], 1, n))
    <3>1. SubSeq(s2c[u], 1, 0) = <<>>
      BY SubSeqEmpty
    <3>2. <<>> # <<"finished">>
      OBVIOUS
    <3> QED BY <3>1, <3>2 DEF SaysFinished
  <2> SUFFICES ASSUME n # 0
               PROVE  SaysFinished(SubSeq(s2c[u], 1, n)) => Somebody \/ told
    BY <2>0
  <2>1. Len(s2c[u]) \in Nat /\ n \in Nat /\ n <= Len(s2c[u]) /\ n >= 1
    BY <1>3, LenProperties
  <2>2. \A i \in 1 .. n : s2c[u][i] \in Answer
    BY <1>3, <2>1, ElementOfSeq
  <2>3. SubSeq(s2c[u], 1, n)[1] = s2c[u][1]
    <3>1. 1 \in Int /\ n \in Int /\ 1 \in 1 .. n - 1 + 1 /\ 1 + 1 - 1 = 1
      BY <2>1
    <3>2. SubSeq(s2c[u], 1, n)[1] = s2c[u][1 + 1 - 1]
      BY <2>2, <3>1, SubSeqProperties
    <3> QED BY <3>1, <3>2
  <2>4. SaysFinished(SubSeq(s2c[u], 1, n)) => SubSeq(s2c[u], 1, n)[1] = "finished"
    <3>1. <<"finished">>[1] = "finished"
      OBVIOUS
    <3> QED BY <3>1 DEF SaysFinished
  <2>5. "finished" \in Range(s2c[u]) => Somebody \/ told
    BY DEF Inv, ServerPart, FlagInv
  <2> QED BY <1>4, <2>3, <2>4, <2>5
<1>10. NoFalseStop'
  <2>1. CASE Somebody \/ told
    BY <1>1, <1>7, <2>1 DEF NoFalseStop, Somebody
  <2>2. CASE ~(Somebody \/ told)
    <3>1. UNCHANGED left \/ left' = [left EXCEPT ![u] = "success"]
      BY <1>2, <1>9, <2>2 DEF Checked, SuccessHandled, Leave
    <3>2. \A v \in Unit : left'[v] = "stopped" => left[v] = "stopped"
      BY <3>1 DEF Inv, CallPart, RunTypeOK, CallTypeOK
    <3> QED BY <1>1, <1>7, <3>2 DEF Inv, CallPart, NoFalseStop, Somebody
  <2> QED BY <2>1, <2>2
<1>11. FlagInv'
  BY <1>1, <1>5, <1>7 DEF Inv, ServerPart, FlagInv
<1>12. NetOK' /\ LinkInv' /\ ServerHoldsOut' /\ Heard'
  BY <1>1, <1>5
  DEF Inv, ServerPart, NetOK, LinkInv, ServerHoldsOut, Heard, HandlerOf, AnswerFor
<1>13. UnderWay'
  BY <1>1, <1>5 DEF Inv, ServerPart, UnderWay, AnswerFor, NetOK
<1> QED BY <1>7, <1>8, <1>10, <1>11, <1>12, <1>13 DEF Inv, CallPart, ServerPart

-----------------------------------------------------------------------------
(* The steps of the thread that called run(), and of the constructors and  *)
(* destructors it calls.                                                   *)
LEMMA RunnerInv ==
  ASSUME Inv, UNCHANGED <<netVars, serverVars, lifeVars, waiting>>,
         (made = size /\ Refuse) \/ (made = size /\ Spawn("loop")) \/ JoinNext({"exited"})
  PROVE  Inv'
<1>1. /\ RunOK /\ RunInv /\ CallOK /\ "loop" \in {"starting", "loop"}
      /\ {"exited"} \in SUBSET Through
      /\ Refuse \/ Spawn("loop") \/ JoinNext({"exited"})
  BY CallPartRun DEF Inv, CallPart, Through
<1>2. RunOK' /\ RunInv'
  BY <1>1, RunnerRun
<1>3. \A v \in Unit : UnitInv(v)'
  BY <1>1, RunnerUnits DEF Inv, CallPart
<1>4. /\ UNCHANGED <<hasResult, left>> /\ UNCHANGED size
      /\ \/ UNCHANGED pc
         \/ /\ started \in Unit /\ pc[started] = "unborn"
            /\ pc' = [pc EXCEPT ![started] = "loop"]
  BY <1>1, RunnerMoves
<1>5. /\ UNCHANGED <<made, closed, server, waiting>>
      /\ UNCHANGED <<c2s, s2c, status, accepted, reads, data, ready, answers, deleted>>
      /\ UNCHANGED <<foreign, lost, told>>
  BY DEF netVars, serverVars, lifeVars, otherVars
<1>6. pc' \in [Unit -> SocketPlaces]
      /\ \A v \in Unit : pc[v] # "unborn" => pc'[v] = pc[v]
  BY <1>4 DEF Inv, CallPart, SocketPlaces
<1>7. main # "done" /\ made = size /\ (Spawn("loop") => SpawnAllowed)
  BY <1>1 DEF Refuse, Spawn, JoinNext, Inv, CallPart, LifeInv
<1>8. LifeInv'
  <2>1. closed = {}
    BY <1>7 DEF Inv, CallPart, LifeInv
  <2>2. started' > 0 => SpawnAllowed
    BY <1>1, <1>7 DEF Refuse, JoinNext, Inv, CallPart, LifeInv
  <2>3. SpawnAllowed' <=> SpawnAllowed
    BY <1>4 DEF SpawnAllowed
  <2> QED BY <1>4, <1>5, <1>7, <2>1, <2>2, <2>3 DEF Inv, CallPart, LifeInv
<1>9. WaitInv' /\ NoFalseStop'
  BY <1>4, <1>5, <1>6 DEF Inv, CallPart, WaitInv, NoFalseStop, ServerPart, NetOK
<1>10. ServerPart'
  BY <1>4, <1>5, <1>7
  DEF Inv, ServerPart, NetOK, LinkInv, FlagInv, UnderWay, Heard, ServerHoldsOut, AnswerFor,
      HandlerOf, Somebody
<1> QED BY <1>2, <1>3, <1>6, <1>8, <1>9, <1>10 DEF Inv, CallPart, RunOK

(* While sockets are opened, no thread has been created; while they are    *)
(* closed, run() has returned.                                             *)
LEMMA LifeStepInv ==
  ASSUME Inv, ForkServer \/ Connect \/ (\E u \in Unit : Close(u)) \/ KillServer
  PROVE  Inv'
<1>1. /\ UNCHANGED callVars /\ UNCHANGED runVars /\ UNCHANGED <<size, main, started, joined>>
      /\ UNCHANGED <<c2s, s2c, status, accepted, reads, data, ready, answers, deleted>>
      /\ UNCHANGED waiting /\ UNCHANGED hasResult /\ UNCHANGED pc /\ UNCHANGED left
      /\ UNCHANGED <<foreign, lost, told>>
  BY DEF ForkServer, Connect, Close, KillServer, callVars, runVars, netVars, serverVars, otherVars
<1>2. \A v \in Unit : UnitInv(v)'
  BY <1>1, StutterUnit DEF Inv, CallPart
<1>3. RunInv'
  BY <1>1, RunKept DEF Inv, CallPart
<1>4. RunTypeOK' /\ WaitInv' /\ NoFalseStop' /\ pc' \in [Unit -> SocketPlaces]
  BY <1>1 DEF Inv, CallPart, RunTypeOK, CallTypeOK, WaitInv, NoFalseStop, callVars
<1>5. made \in 0 .. size /\ size \in 0 .. N /\ N \in Nat
  BY UnitIsNat DEF Inv, CallPart, LifeInv, RunTypeOK
<1>6. LifeInv' /\ closed \subseteq closed'
  <2>1. CASE ForkServer \/ KillServer
    BY <1>1, <2>1 DEF ForkServer, KillServer, Inv, CallPart, LifeInv, SpawnAllowed
  <2>2. CASE Connect
    <3>1. made < size /\ made' = made + 1 /\ UNCHANGED closed
      BY <2>2 DEF Connect
    <3>2. main = "spawn" /\ ~(started > 0) /\ closed = {}
      BY <1>5, <3>1 DEF Inv, CallPart, LifeInv
    <3> QED BY <1>1, <1>5, <3>1, <3>2 DEF LifeInv, SpawnAllowed
  <2>3. ASSUME NEW u \in Unit, Close(u)
        PROVE  LifeInv' /\ closed \subseteq closed'
    <3>1. u \in 0 .. size - 1 /\ main = "done" /\ closed' = closed \cup {u} /\ UNCHANGED made
      BY <2>3 DEF Close, MayClose
    <3>2. made = size
      BY <3>1 DEF Inv, CallPart, LifeInv
    <3> QED BY <1>1, <1>5, <3>1, <3>2 DEF Inv, CallPart, LifeInv, SpawnAllowed
  <2> QED BY <2>1, <2>2, <2>3
<1>7. /\ server' \in {"none", "starting", "up", "unforked", "failed", "broken", "killed"}
      /\ ServerHoldsOut'
  <2>1. CASE ForkServer
    BY <1>1, <2>1 DEF ForkServer, ServerHoldsOut
  <2>2. CASE Connect \/ \E u \in Unit : Close(u)
    BY <1>1, <2>2 DEF Connect, Close, Inv, ServerPart, NetOK, ServerHoldsOut
  <2>3. CASE KillServer
    <3>1. closed = 0 .. size - 1 /\ size > 0 /\ server' = "killed"
      BY <2>3 DEF KillServer
    <3>2. 0 \in closed
      BY <1>5, <3>1
    <3>3. main = "done"
      BY <3>2 DEF Inv, CallPart, LifeInv
    <3> QED BY <1>1, <3>1, <3>3 DEF ServerHoldsOut
  <2> QED BY <2>1, <2>2, <2>3
<1>8. lost' \subseteq 0 .. made' - 1
  <2>1. made' = made \/ made' = made + 1
    BY DEF ForkServer, Connect, Close, KillServer
  <2>2. lost' = lost /\ lost \subseteq 0 .. made - 1
    BY <1>1 DEF Inv, ServerPart, NetOK
  <2>3. 0 .. made - 1 \subseteq 0 .. made' - 1
    BY <1>5, <2>1
  <2> QED BY <2>2, <2>3
<1>9. ServerPart'
  BY <1>1, <1>6, <1>7, <1>8
  DEF Inv, ServerPart, NetOK, LinkInv, FlagInv, UnderWay, Heard, AnswerFor, HandlerOf, Somebody
<1> QED BY <1>2, <1>3, <1>4, <1>6, <1>9 DEF Inv, CallPart

-----------------------------------------------------------------------------
(* The inductive invariant holds initially.                                *)
LEMMA InitInv == Init => Inv
<1> SUFFICES ASSUME Init PROVE Inv
  OBVIOUS
<1>1. RunOK /\ RunInv /\ \A u \in Unit : UnitInv(u)
  BY InitRun DEF Init
<1>2. size \in Nat /\ main = "spawn" /\ started = 0 /\ made = 0 /\ closed = {}
  BY UnitIsNat DEF Init, RunInit
<1>3. pc \in [Unit -> SocketPlaces] /\ LifeInv /\ WaitInv /\ NoFalseStop
  BY <1>2 DEF Init, CallInit, SocketPlaces, LifeInv, WaitInv, NoFalseStop
<1>4. Range(<<>>) = {} /\ <<>> \in Seq(Request) /\ <<>> \in Seq(Answer)
      /\ <<>> \in Seq(Handler) /\ <<>> \in Seq(Unit \X Answer) /\ "get" \in Request
  BY DEF Range, Request
<1>5. NetOK
  BY <1>4 DEF Init, NetOK
<1>6. LinkInv /\ FlagInv /\ UnderWay /\ Heard /\ ServerHoldsOut
  BY <1>2, <1>4 DEF Init, LinkInv, FlagInv, UnderWay, Heard, ServerHoldsOut
<1> QED BY <1>1, <1>3, <1>5, <1>6 DEF Inv, CallPart, ServerPart, RunOK

(* The inductive invariant is preserved by every step.                     *)
LEMMA NextInv == Inv /\ [Next]_vars => Inv'
<1> SUFFICES ASSUME Inv, [Next]_vars PROVE Inv'
  OBVIOUS
<1>1. CASE Main
  BY <1>1, RunnerInv, LifeStepInv DEF Main
<1>2. CASE Listen \/ Server \/ Foreign
  BY <1>2, ListenInv, ServerInv, ForeignStartsInv, ForeignSucceedsInv, ForeignEndsInv
  DEF Foreign
<1>3. ASSUME NEW u \in Unit, UnitStep(u)
      PROVE  Inv'
  BY <1>3, QuietInv, SendInv, ReceiveInv DEF UnitStep
<1>4. CASE UNCHANGED vars
  <2>1. /\ UNCHANGED <<callVars, runVars, made, closed, waiting>>
        /\ UNCHANGED <<c2s, s2c, status, accepted, reads, data, ready, answers, deleted>>
        /\ UNCHANGED <<main, server, hasResult>> /\ UNCHANGED <<foreign, lost, told>>
    BY <1>4 DEF vars, runVars, callVars, netVars, serverVars, lifeVars, otherVars
  <2>2. CallPart' /\ (Somebody' <=> Somebody)
    BY <2>1, ServerCallPart DEF Inv
  <2>3. ServerPart'
    BY <2>1, <2>2
    DEF Inv, ServerPart, NetOK, LinkInv, FlagInv, UnderWay, Heard, ServerHoldsOut, AnswerFor,
        HandlerOf
  <2> QED BY <2>2, <2>3 DEF Inv
<1> QED BY <1>1, <1>2, <1>3, <1>4 DEF Next

(* The inductive invariant holds. *)
THEOREM Invariant == Spec => []Inv
  BY InitInv, NextInv, PTL DEF Spec

(* It implies the properties, which speak of places in the queues.         *)
LEMMA InvProperties ==
  ASSUME Inv
  PROVE  TypeOK /\ NoFalseStop /\ AnswerUnderWay /\ NeverDeaf /\ ServerHoldsOut
<1>1. TypeOK
  BY DEF Inv, CallPart, ServerPart, NetOK, LinkInv, LifeInv, TypeOK, SocketPlaces
<1>2. \A u \in Unit : AnswerFor(u) => \E i \in DOMAIN answers : answers[i][1] = u
  <2> SUFFICES ASSUME NEW u \in Unit, NEW a \in Answer, <<u, a>> \in Range(answers)
               PROVE  \E i \in DOMAIN answers : answers[i][1] = u
    BY DEF AnswerFor
  <2>1. PICK i \in DOMAIN answers : answers[i] = <<u, a>>
    BY DEF Range
  <2> QED BY <2>1
<1>3. \A u \in Unit : HandlerOf(u) => \E i \in DOMAIN ready : ready[i][2] = u
  <2> SUFFICES ASSUME NEW u \in Unit, NEW h \in Handlers, <<h, u>> \in Range(ready)
               PROVE  \E i \in DOMAIN ready : ready[i][2] = u
    BY DEF HandlerOf
  <2>1. PICK i \in DOMAIN ready : ready[i] = <<h, u>>
    BY DEF Range
  <2> QED BY <2>1
<1>4. AnswerUnderWay
  BY <1>2 DEF Inv, ServerPart, NetOK, UnderWay, AnswerUnderWay, Range
<1>5. NeverDeaf
  BY <1>2, <1>3 DEF Inv, ServerPart, NetOK, Heard, NeverDeaf
<1> QED BY <1>1, <1>4, <1>5 DEF Inv, CallPart, ServerPart

(* Every variable keeps its type. *)
THEOREM TypeCorrect == Spec => []TypeOK
  BY Invariant, InvProperties, PTL

(* A unit that is told to stop is stopped after a success of this program, *)
(* or after one of another program that has the port.                      *)
THEOREM NoFalseStopHolds == Spec => []NoFalseStop
  BY Invariant, InvProperties, PTL

(* Nobody waits for an answer that will not come.                          *)
THEOREM AnswerUnderWayHolds == Spec => []AnswerUnderWay
  BY Invariant, InvProperties, PTL

(* No server turns deaf to a connection.                                   *)
THEOREM NeverDeafHolds == Spec => []NeverDeaf
  BY Invariant, InvProperties, PTL

(* The server does not break while a unit may ask it.                      *)
THEOREM ServerHoldsOutHolds == Spec => []ServerHoldsOut
  BY Invariant, InvProperties, PTL

(* The inductive invariant implies that the search is complete.            *)
LEMMA InvCompletes == Inv => SearchComplete
<1> SUFFICES ASSUME Inv, main = "done", SpawnAllowed, ~told,
                    ~ \E u \in Unit : printed[u] \in expected
             PROVE  AllTried
  BY DEF SearchComplete
<1> USE DEF Inv, CallPart
<1>1. /\ 0 .. size - 1 \subseteq Unit
      /\ \A u \in Unit : pc[u] \in Through \cup {"unborn"}
  BY CallPartRun, DoneThrough
<1>2. \A u \in Unit : pc[u] \in {"exited", "unborn"}
  BY <1>1 DEF Through, SocketPlaces
<1>3. \A u \in Unit : ~hasResult[u]
  BY <1>2 DEF UnitInv
<1>4. ASSUME NEW u \in 0 .. size - 1, pc[u] # "unborn"
      PROVE  left[u] = "threw" \/ KeysOf(u) \subseteq tested[u]
  <2>1. u \in Unit /\ pc[u] = "exited"
    BY <1>1, <1>2, <1>4
  <2>2. left[u] \in {"exhausted", "threw"}
    BY <1>3, <2>1 DEF UnitInv, NoFalseStop, RunTypeOK, CallTypeOK
  <2> QED BY <2>1, <2>2 DEF UnitInv
<1> QED BY <1>4 DEF AllTried

(* Unless another program on the port has found a key, run() returns only  *)
(* when an accepted key has been printed or every argument has been tried, *)
(* save those behind an exception and those of a thread that could not be  *)
(* created.                                                                *)
THEOREM SearchCompletes == Spec => []SearchComplete
  BY Invariant, InvCompletes, PTL
=============================================================================
