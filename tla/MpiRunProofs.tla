---------------------------- MODULE MpiRunProofs ----------------------------
(***************************************************************************)
(* Proofs about MpiRun, for any number of ranks and callables, any         *)
(* arguments, and messages that reach whichever receive was posted first:  *)
(* all its invariants.                                                     *)
(***************************************************************************)
EXTENDS MpiRun, CallableProofs, SequenceTheorems

MpiPlaces == {"unborn", "loop", "check", "call", "announce", "report", "exited"}

(* The part of the invariant that is about the callables and their ranks:  *)
(* a rank goes through its callables in order, each to its end.            *)
OrderInv ==
  /\ \A r \in Ranks : RankOf(counter[r]) = r
  /\ \A u \in Unit :
       /\ u < counter[RankOf(u)] => pc[u] = "exited"
       /\ u = counter[RankOf(u)] => pc[u] # "exited"
       /\ u > counter[RankOf(u)] => pc[u] = "unborn"
       /\ u >= count => pc[u] = "unborn"

RankType ==
  /\ backend \in Backends
  /\ count \in 0 .. N
  /\ size \in Sizes
  /\ counter \in [Rank -> Nat]

CallPart ==
  /\ CallOK
  /\ pc \in [Unit -> MpiPlaces]
  /\ \A u \in Unit : UnitInv(u)
  /\ OrderInv

(* The part that is about the messages: the receives a rank waits with are *)
(* exactly those of its callables' requests, each one once.                *)
Distinct(seq) ==
  \A i, j \in DOMAIN seq :
    seq[i].unit = seq[j].unit /\ seq[i].request = seq[j].request => i = j

Holds(seq, u, request) ==
  \E i \in DOMAIN seq : seq[i].unit = u /\ seq[i].request = request

PostInv ==
  \A r \in Rank :
    /\ Distinct(posted[r])
    /\ \A u \in Unit : Holds(posted[r], u, "resp") <=> RankOf(u) = r /\ Waits(resp[u])
    /\ \A u \in Unit : Holds(posted[r], u, "bcast") <=> RankOf(u) = r /\ Waits(bcast[u])

NetType == net \in [Rank -> [Rank -> Seq({"size", "body"})]]

RequestType ==
  /\ posted \in [Rank -> Seq(Receive)]
  /\ resp \in [Unit -> Request]
  /\ bcast \in [Unit -> Request]

(* Before the first result there are no messages.                          *)
Somebody == \E u \in Unit : hasResult[u]

QuietInv ==
  \/ Somebody
  \/ /\ \A s, r \in Rank : net[s][r] = <<>>
     /\ \A u \in Unit : resp[u].state \in {"unused", "size?"}

Inv ==
  /\ RankType
  /\ CallPart
  /\ NetType
  /\ RequestType
  /\ PostInv
  /\ QuietInv
  /\ NoFalseStop

-----------------------------------------------------------------------------
(* A receive that is posted is the last of the sequence.                   *)
LEMMA AppendReceive ==
  ASSUME NEW seq \in Seq(Receive), NEW receive \in Receive, Distinct(seq),
         ~Holds(seq, receive.unit, receive.request)
  PROVE  /\ Append(seq, receive) \in Seq(Receive)
         /\ Distinct(Append(seq, receive))
         /\ \A u, request : Holds(Append(seq, receive), u, request) <=>
              Holds(seq, u, request) \/ (u = receive.unit /\ request = receive.request)
<1> DEFINE longer == Append(seq, receive)
<1>1. /\ longer \in Seq(Receive)
      /\ Len(seq) \in Nat /\ DOMAIN seq = 1 .. Len(seq)
      /\ DOMAIN longer = 1 .. Len(seq) + 1
      /\ \A i \in 1 .. Len(seq) : longer[i] = seq[i]
      /\ longer[Len(seq) + 1] = receive
  BY AppendProperties, LenProperties
<1> HIDE DEF longer
<1>2. Distinct(longer)
  BY <1>1 DEF Distinct, Holds
<1>3. ASSUME NEW u, NEW request
      PROVE  Holds(longer, u, request) <=>
               Holds(seq, u, request) \/ (u = receive.unit /\ request = receive.request)
  <2>1. Holds(longer, u, request) =>
          Holds(seq, u, request) \/ (u = receive.unit /\ request = receive.request)
    BY <1>1 DEF Holds
  <2>2. Holds(seq, u, request) => Holds(longer, u, request)
    BY <1>1 DEF Holds
  <2>3. Holds(longer, receive.unit, receive.request)
    BY <1>1 DEF Holds
  <2> QED BY <2>1, <2>2, <2>3
<1> QED BY <1>1, <1>2, <1>3 DEF longer

(* The sequence without its i-th element.                                  *)
LEMMA WithoutOne ==
  ASSUME NEW S, NEW seq \in Seq(S), NEW i \in 1 .. Len(seq)
  PROVE  /\ Without(seq, i) \in Seq(S)
         /\ Len(Without(seq, i)) = Len(seq) - 1
         /\ \A j \in 1 .. Len(seq) - 1 :
              Without(seq, i)[j] = IF j < i THEN seq[j] ELSE seq[j + 1]
<1> DEFINE before == SubSeq(seq, 1, i - 1)
           behind == SubSeq(seq, i + 1, Len(seq))
<1>0. Len(seq) \in Nat /\ i \in Nat /\ i >= 1 /\ i <= Len(seq)
  BY LenProperties
<1>1. /\ before \in Seq(S) /\ Len(before) = i - 1
      /\ \A j \in 1 .. i - 1 : before[j] = seq[j]
  BY <1>0
<1>2. /\ behind \in Seq(S) /\ Len(behind) = Len(seq) - i
      /\ \A j \in 1 .. Len(seq) - i : behind[j] = seq[i + j]
  BY <1>0
<1> HIDE DEF before, behind
<1>3. /\ before \o behind \in Seq(S)
      /\ Len(before \o behind) = Len(before) + Len(behind)
      /\ \A j \in 1 .. Len(before) + Len(behind) :
           (before \o behind)[j] = IF j <= Len(before) THEN before[j]
                                   ELSE behind[j - Len(before)]
  BY <1>1, <1>2, ConcatProperties
<1>4. ASSUME NEW j \in 1 .. Len(seq) - 1
      PROVE  (before \o behind)[j] = IF j < i THEN seq[j] ELSE seq[j + 1]
  <2>1. j \in 1 .. Len(before) + Len(behind)
    BY <1>0, <1>1, <1>2
  <2>2. CASE j < i
    BY <1>0, <1>1, <1>3, <2>1, <2>2
  <2>3. CASE ~(j < i)
    <3>1. j - (i - 1) \in 1 .. Len(seq) - i /\ i + (j - (i - 1)) = j + 1 /\ ~(j <= i - 1)
      BY <1>0, <2>3
    <3> QED BY <1>1, <1>2, <1>3, <2>1, <2>3, <3>1
  <2> QED BY <2>2, <2>3
<1>5. Len(before \o behind) = Len(seq) - 1
  BY <1>0, <1>1, <1>2, <1>3
<1> QED BY <1>3, <1>4, <1>5 DEF Without, before, behind

(* A receive that has its message is posted no longer, and only it.        *)
LEMMA WithoutReceive ==
  ASSUME NEW seq \in Seq(Receive), NEW i \in 1 .. Len(seq), Distinct(seq)
  PROVE  /\ Without(seq, i) \in Seq(Receive)
         /\ Distinct(Without(seq, i))
         /\ \A u, request : Holds(Without(seq, i), u, request) <=>
              Holds(seq, u, request) /\ ~(u = seq[i].unit /\ request = seq[i].request)
<1> DEFINE shorter == Without(seq, i)
<1>1. /\ shorter \in Seq(Receive)
      /\ Len(shorter) = Len(seq) - 1
      /\ \A j \in 1 .. Len(seq) - 1 :
           shorter[j] = IF j < i THEN seq[j] ELSE seq[j + 1]
  BY WithoutOne
<1>2. /\ Len(seq) \in Nat /\ DOMAIN seq = 1 .. Len(seq)
      /\ DOMAIN shorter = 1 .. Len(seq) - 1
      /\ i \in Nat /\ i >= 1 /\ i <= Len(seq)
  BY <1>1, LenProperties
<1> HIDE DEF shorter
<1>3. Distinct(shorter)
  <2> SUFFICES ASSUME NEW a \in 1 .. Len(seq) - 1, NEW b \in 1 .. Len(seq) - 1,
                      shorter[a].unit = shorter[b].unit,
                      shorter[a].request = shorter[b].request
               PROVE  a = b
    BY <1>2 DEF Distinct
  <2> DEFINE Old(n) == IF n < i THEN n ELSE n + 1
  <2>1. Old(a) \in DOMAIN seq /\ Old(b) \in DOMAIN seq
    BY <1>2
  <2>2. shorter[a] = seq[Old(a)] /\ shorter[b] = seq[Old(b)]
    BY <1>1
  <2>3. Old(a) = Old(b)
    BY <2>1, <2>2 DEF Distinct
  <2> QED BY <1>2, <2>3
<1>4. ASSUME NEW u, NEW request
      PROVE  Holds(shorter, u, request) <=>
               Holds(seq, u, request) /\ ~(u = seq[i].unit /\ request = seq[i].request)
  <2>1. ASSUME NEW a \in 1 .. Len(seq) - 1, shorter[a].unit = u, shorter[a].request = request
        PROVE  Holds(seq, u, request) /\ ~(u = seq[i].unit /\ request = seq[i].request)
    <3> DEFINE old == IF a < i THEN a ELSE a + 1
    <3>1. old \in DOMAIN seq /\ old # i /\ shorter[a] = seq[old]
      BY <1>1, <1>2
    <3> QED BY <1>2, <2>1, <3>1 DEF Holds, Distinct
  <2>2. ASSUME NEW b \in DOMAIN seq, seq[b].unit = u, seq[b].request = request, b # i
        PROVE  Holds(shorter, u, request)
    <3> DEFINE new == IF b < i THEN b ELSE b - 1
    <3>1. new \in DOMAIN shorter /\ shorter[new] = seq[b]
      BY <1>1, <1>2, <2>2
    <3> QED BY <2>2, <3>1 DEF Holds
  <2> QED BY <1>2, <2>1, <2>2 DEF Holds
<1> QED BY <1>1, <1>3, <1>4 DEF shorter

-----------------------------------------------------------------------------
(* There is a rank as soon as there is a callable.                         *)
LEMMA UnitRank ==
  ASSUME RankType, NEW u \in Unit
  PROVE  /\ RankOf(u) \in Ranks /\ RankOf(u) \in Rank
         /\ Root \in Rank /\ Ranks \subseteq Rank
         /\ size \in Nat /\ size > 0 /\ N \in Nat /\ u \in Nat
<1>1. size \in Nat /\ size > 0 /\ size <= N /\ N \in Nat /\ u \in Nat
  BY CallableAssumption, MpiAssumption DEF RankType, Unit
<1>2. u % size \in 0 .. size - 1
  BY <1>1
<1> QED BY <1>1, <1>2 DEF RankOf, Ranks, Rank, Root

(* Posting the receive of a request that now waits keeps PostInv.          *)
LEMMA PostKeeps ==
  ASSUME RankType, RequestType, PostInv, UNCHANGED size,
         NEW u \in Unit, NEW request \in {"resp", "bcast"}, NEW from \in Rank \cup {Any},
         Post(u, request, from),
         ~Waits(IF request = "resp" THEN resp[u] ELSE bcast[u]),
         \A v \in Unit : Waits(resp'[v]) <=> Waits(resp[v]) \/ (v = u /\ request = "resp"),
         \A v \in Unit : Waits(bcast'[v]) <=> Waits(bcast[v]) \/ (v = u /\ request = "bcast")
  PROVE  posted' \in [Rank -> Seq(Receive)] /\ PostInv'
<1> DEFINE r == RankOf(u)
           receive == [unit |-> u, request |-> request, from |-> from]
           longer == Append(posted[r], receive)
<1>1. r \in Rank /\ receive \in Receive
      /\ receive.unit = u /\ receive.request = request
  BY UnitRank DEF Receive
<1>2. posted \in [Rank -> Seq(Receive)] /\ posted[r] \in Seq(Receive)
      /\ posted' = [posted EXCEPT ![r] = longer]
  BY <1>1 DEF RequestType, Post
<1>3. Distinct(posted[r]) /\ ~Holds(posted[r], u, request)
  BY <1>1 DEF PostInv
<1>4. /\ longer \in Seq(Receive) /\ Distinct(longer)
      /\ \A v, q : Holds(longer, v, q) <=>
           Holds(posted[r], v, q) \/ (v = u /\ q = request)
  <2>1. ~Holds(posted[r], receive.unit, receive.request)
    BY <1>1, <1>3
  <2> HIDE DEF receive, r
  <2>2. /\ longer \in Seq(Receive) /\ Distinct(longer)
        /\ \A v, q : Holds(longer, v, q) <=>
             Holds(posted[r], v, q) \/ (v = receive.unit /\ q = receive.request)
    BY <1>1, <1>2, <1>3, <2>1, AppendReceive
  <2> QED BY <1>1, <2>2
<1>5. \A v \in Unit : RankOf(v)' = RankOf(v)
  BY DEF RankOf
<1>6. RankOf(u) = r
  OBVIOUS
<1> HIDE DEF longer, receive, r
<1>7. ASSUME NEW o \in Rank
      PROVE  /\ Distinct(posted'[o])
             /\ \A v \in Unit : Holds(posted'[o], v, "resp") <=>
                                  RankOf(v) = o /\ Waits(resp'[v])
             /\ \A v \in Unit : Holds(posted'[o], v, "bcast") <=>
                                  RankOf(v) = o /\ Waits(bcast'[v])
  <2>1. CASE o # r
    <3>1. posted'[o] = posted[o]
      BY <1>2, <2>1
    <3> QED BY <1>6, <2>1, <3>1 DEF PostInv
  <2>2. CASE o = r
    <3>1. posted'[o] = longer
      BY <1>1, <1>2, <2>2
    <3> QED BY <1>1, <1>4, <1>6, <2>2, <3>1 DEF PostInv
  <2> QED BY <2>1, <2>2
<1> QED BY <1>1, <1>2, <1>4, <1>5, <1>7 DEF PostInv

(* So does taking away the receive of a request that waits no longer.      *)
LEMMA TakeKeeps ==
  ASSUME RankType, RequestType, PostInv, UNCHANGED size,
         NEW r \in Rank, NEW i \in 1 .. Len(posted[r]),
         posted' = [posted EXCEPT ![r] = Without(@, i)],
         \A v \in Unit : Waits(resp'[v]) <=>
           Waits(resp[v]) /\ ~(v = posted[r][i].unit /\ posted[r][i].request = "resp"),
         \A v \in Unit : Waits(bcast'[v]) <=>
           Waits(bcast[v]) /\ ~(v = posted[r][i].unit /\ posted[r][i].request = "bcast")
  PROVE  posted' \in [Rank -> Seq(Receive)] /\ PostInv'
<1> DEFINE receive == posted[r][i]
           shorter == Without(posted[r], i)
<1>1. posted \in [Rank -> Seq(Receive)] /\ posted[r] \in Seq(Receive)
      /\ posted' = [posted EXCEPT ![r] = shorter]
  BY DEF RequestType
<1>2. Distinct(posted[r])
  BY DEF PostInv
<1>3. /\ shorter \in Seq(Receive) /\ Distinct(shorter)
      /\ \A v, q : Holds(shorter, v, q) <=>
           Holds(posted[r], v, q) /\ ~(v = receive.unit /\ q = receive.request)
  BY <1>1, <1>2, WithoutReceive
<1>4. receive \in Receive /\ Holds(posted[r], receive.unit, receive.request)
  <2>1. i \in DOMAIN posted[r] /\ receive \in Receive
    BY <1>1, ElementOfSeq, LenProperties
  <2> QED BY <2>1 DEF Holds
<1>5. /\ receive.unit \in Unit /\ receive.request \in {"resp", "bcast"}
      /\ RankOf(receive.unit) = r
  BY <1>4 DEF Receive, PostInv
<1>6. \A v \in Unit : RankOf(v)' = RankOf(v)
  BY DEF RankOf
<1>7. /\ \A v \in Unit : Waits(resp'[v]) <=>
           Waits(resp[v]) /\ ~(v = receive.unit /\ receive.request = "resp")
      /\ \A v \in Unit : Waits(bcast'[v]) <=>
           Waits(bcast[v]) /\ ~(v = receive.unit /\ receive.request = "bcast")
  OBVIOUS
<1> HIDE DEF shorter, receive
<1>8. ASSUME NEW o \in Rank
      PROVE  /\ Distinct(posted'[o])
             /\ \A v \in Unit : Holds(posted'[o], v, "resp") <=>
                                  RankOf(v) = o /\ Waits(resp'[v])
             /\ \A v \in Unit : Holds(posted'[o], v, "bcast") <=>
                                  RankOf(v) = o /\ Waits(bcast'[v])
  <2>1. CASE o # r
    <3>1. posted'[o] = posted[o]
      BY <1>1, <2>1
    <3> QED BY <1>5, <1>7, <2>1, <3>1 DEF PostInv
  <2>2. CASE o = r
    <3>1. posted'[o] = shorter
      BY <1>1, <2>2
    <3> QED BY <1>3, <1>7, <2>2, <3>1 DEF PostInv
  <2> QED BY <2>1, <2>2
<1> QED BY <1>1, <1>3, <1>6, <1>8 DEF PostInv

(* A step that leaves the requests and the receives alone.                 *)
LEMMA RequestsKept ==
  ASSUME RequestType, PostInv, UNCHANGED <<size, posted, resp, bcast>>
  PROVE  RequestType' /\ PostInv'
  BY DEF RequestType, PostInv, RankOf

(* A string that is sent adds two messages to each stream.                 *)
LEMMA SendKeeps ==
  ASSUME NetType, NEW s \in Rank, NEW ranks, SendTo(s, ranks)
  PROVE  NetType'
<1>1. ASSUME NEW r \in Rank
      PROVE  net[s][r] \o <<"size", "body">> \in Seq({"size", "body"})
  <2>1. net[s][r] \in Seq({"size", "body"})
    BY DEF NetType
  <2>2. <<"size", "body">> \in Seq({"size", "body"})
    OBVIOUS
  <2> QED BY <2>1, <2>2, ConcatProperties
<1> DEFINE row == [r \in Rank |-> IF r \in ranks THEN net[s][r] \o <<"size", "body">>
                                  ELSE net[s][r]]
<1>2. row \in [Rank -> Seq({"size", "body"})]
  BY <1>1 DEF NetType
<1>3. net' = [net EXCEPT ![s] = row]
  BY DEF SendTo, NetType
<1> HIDE DEF row
<1> QED BY <1>2, <1>3 DEF NetType

-----------------------------------------------------------------------------
(* Quotient and remainder.                                                 *)
LEMMA QuotientRemainder ==
  ASSUME NEW n \in Nat, n > 0, NEW a \in Nat
  PROVE  a \div n \in Nat /\ a = n * (a \div n) + (a % n) /\ a % n \in 0 .. n - 1
<1> DEFINE p == a \div n
<1>1. p \in Nat /\ a = n * p + (a % n) /\ a % n \in 0 .. n - 1
  OBVIOUS
<1> QED BY <1>1

(* Multiples of n that differ are at least n apart.                        *)
LEMMA MultiplesApart ==
  ASSUME NEW n \in Nat, NEW p \in Nat, NEW q \in Nat, p < q
  PROVE  n * p \in Nat /\ n * q \in Nat /\ n * p + n <= n * q
<1>1. PICK d \in Nat : q = p + 1 + d
  <2>1. q - p - 1 \in Nat /\ q = p + 1 + (q - p - 1)
    OBVIOUS
  <2> QED BY <2>1
<1>2. n * q = n * p + n + n * d
  BY <1>1
<1>3. n * d \in Nat /\ n * p \in Nat /\ n * q \in Nat
  BY <1>1
<1> DEFINE nd == n * d
           np == n * p
           nq == n * q
<1>4. nd \in Nat /\ np \in Nat /\ nq \in Nat /\ nq = np + n + nd
  BY <1>2, <1>3
<1> HIDE DEF nd, np, nq
<1>5. np + n <= nq
  BY <1>4
<1> QED BY <1>3, <1>5 DEF np, nq

(* Only one number below n is the remainder.                               *)
LEMMA RemainderUnique ==
  ASSUME NEW n \in Nat, NEW p \in Nat, NEW q \in Nat,
         NEW a \in 0 .. n - 1, NEW b \in 0 .. n - 1, n * p + a = n * q + b
  PROVE  p = q /\ a = b
<1> DEFINE np == n * p
           nq == n * q
<1>1. np \in Nat /\ nq \in Nat /\ np + a = nq + b
  OBVIOUS
<1>2. (p < q => np + n <= nq) /\ (q < p => nq + n <= np)
  BY MultiplesApart
<1>3. p = q => np = nq
  OBVIOUS
<1> HIDE DEF np, nq
<1>4. ~(p < q) /\ ~(q < p)
  BY <1>1, <1>2
<1> QED BY <1>1, <1>3, <1>4

(* The callables of a rank are a number of ranks apart.                    *)
LEMMA NextOfRank ==
  ASSUME NEW n \in Nat, n > 0, NEW a \in Nat
  PROVE  /\ (a + n) % n = a % n
         /\ \A b \in Nat : b % n = a % n /\ a < b => a + n <= b
<1> DEFINE p == a \div n
           s == (a + n) \div n
           m == a % n
           l == (a + n) % n
<1>1. p \in Nat /\ a = n * p + m /\ m \in 0 .. n - 1
  BY QuotientRemainder
<1>2. s \in Nat /\ a + n = n * s + l /\ l \in 0 .. n - 1
  BY QuotientRemainder
<1> HIDE DEF p, s, m, l
<1>3. l = m
  <2>1. n * (p + 1) = n * p + n /\ n * p \in Nat
    BY <1>1
  <2> DEFINE np == n * p
  <2>2. np \in Nat /\ n * (p + 1) = np + n /\ a = np + m
    BY <1>1, <2>1
  <2> HIDE DEF np
  <2>3. n * (p + 1) + m = n * s + l
    BY <1>1, <1>2, <2>2
  <2> QED BY <1>1, <1>2, <2>3, RemainderUnique
<1>4. ASSUME NEW b \in Nat, b % n = m, a < b
      PROVE  a + n <= b
  <2> DEFINE q == b \div n
  <2>1. q \in Nat /\ b = n * q + m
    BY <1>4, QuotientRemainder
  <2> HIDE DEF q
  <2> DEFINE np == n * p
             nq == n * q
  <2>2. np \in Nat /\ nq \in Nat /\ a = np + m /\ b = nq + m /\ m \in Nat
    BY <1>1, <2>1
  <2>3. (p < q => np + n <= nq) /\ (q < p => nq + n <= np) /\ (p = q => np = nq)
    BY <1>1, <2>1, MultiplesApart
  <2> HIDE DEF np, nq
  <2> QED BY <1>1, <1>4, <2>1, <2>2, <2>3
<1> QED BY <1>3, <1>4 DEF m, l

(* A callable that has begun and not ended is the one its rank is at.      *)
LEMMA AtWork ==
  ASSUME RankType, CallPart, NEW u \in Unit, pc[u] \notin {"unborn", "exited"}
  PROVE  u = counter[RankOf(u)] /\ u < count
<1>1. u \in Nat /\ counter[RankOf(u)] \in Nat /\ count \in Nat
  BY UnitRank DEF RankType
<1> QED BY <1>1 DEF CallPart, OrderInv

(* A step of run() keeps what is said about the callables.                 *)
LEMMA WorkCall ==
  ASSUME RankType, CallPart, NEW u \in Unit, UnitAction(u), pc[u] # "report",
         UNCHANGED rankVars
  PROVE  RankType' /\ CallPart'
<1>1. RankType' /\ UNCHANGED <<counter, size, count>>
  BY DEF RankType, rankVars
<1>2. CallOK' /\ \A v \in Unit : UnitInv(v)'
  BY ActionType, ActionUnit DEF CallPart
<1>3. PICK to \in {"loop", "check", "call", "announce", "report"} :
        pc' = [pc EXCEPT ![u] = to]
  BY DEF UnitAction, FetchNext, Call, CallThrows, SuccessHandled, Report, Checked, Leave, Goto,
         FirstStop
<1>4. pc[u] \notin {"unborn", "exited"}
  BY DEF UnitAction, FetchNext, Call, CallThrows, SuccessHandled, Report, Checked
<1>5. u = counter[RankOf(u)] /\ u < count
  BY <1>4, AtWork
<1>6. pc' \in [Unit -> MpiPlaces]
  BY <1>3 DEF CallPart, MpiPlaces
<1>7. OrderInv'
  <2>1. /\ \A r \in Ranks' : RankOf(counter[r])' = r
        /\ \A v \in Unit : RankOf(v)' = RankOf(v) /\ counter'[RankOf(v)] = counter[RankOf(v)]
    BY <1>1 DEF CallPart, OrderInv, Ranks, RankOf
  <2>2. ASSUME NEW v \in Unit
        PROVE  /\ v < counter[RankOf(v)] => pc'[v] = "exited"
               /\ v = counter[RankOf(v)] => pc'[v] # "exited"
               /\ v > counter[RankOf(v)] => pc'[v] = "unborn"
               /\ v >= count => pc'[v] = "unborn"
    <3>0. u \in Nat /\ count \in Nat
      BY UnitRank DEF RankType
    <3>1. CASE v = u
      BY <1>3, <1>5, <3>0, <3>1 DEF CallPart
    <3>2. CASE v # u
      BY <1>3, <3>2 DEF CallPart, OrderInv
    <3> QED BY <3>1, <3>2
  <2> QED BY <1>1, <2>1, <2>2 DEF OrderInv
<1> QED BY <1>1, <1>2, <1>6, <1>7 DEF CallPart

(* So does an exception out of the interrupter.                            *)
LEMMA ThrowCall ==
  ASSUME RankType, CallPart, NEW u \in Unit, pc[u] \in {"check", "announce"},
         Leave(u, "threw"), UNCHANGED rankVars,
         UNCHANGED <<expected, endless, pos, hasResult, result, tested, printed>>
  PROVE  RankType' /\ CallPart'
<1>1. RankType' /\ UNCHANGED <<counter, size, count>>
  BY DEF RankType, rankVars
<1>2. pc' = [pc EXCEPT ![u] = "report"] /\ left' = [left EXCEPT ![u] = "threw"]
  BY DEF Leave, Goto
<1>3. CallOK' /\ pc' \in [Unit -> MpiPlaces]
  BY <1>2 DEF CallPart, CallOK, CallTypeOK, Places, MpiPlaces
<1>4. ASSUME NEW v \in Unit
      PROVE  UnitInv(v)'
  <2>1. UnitInv(v)
    BY DEF CallPart
  <2>2. CASE v = u
    <3>1. pc'[v] = "report" /\ left'[v] = "threw"
      BY <1>2, <2>2 DEF CallPart, CallOK, CallTypeOK
    <3> QED BY <2>1, <2>2, <3>1 DEF UnitInv, Tried, KeysOf
  <2>3. CASE v # u
    <3>1. pc'[v] = pc[v] /\ left'[v] = left[v]
      BY <1>2, <2>3 DEF CallPart, CallOK, CallTypeOK
    <3> QED BY <2>1, <3>1 DEF UnitInv, Tried, KeysOf
  <2> QED BY <2>2, <2>3
<1>5. u = counter[RankOf(u)] /\ u < count
  BY AtWork
<1>7. OrderInv'
  <2>1. /\ \A r \in Ranks' : RankOf(counter[r])' = r
        /\ \A v \in Unit : RankOf(v)' = RankOf(v) /\ counter'[RankOf(v)] = counter[RankOf(v)]
    BY <1>1 DEF CallPart, OrderInv, Ranks, RankOf
  <2>2. ASSUME NEW v \in Unit
        PROVE  /\ v < counter[RankOf(v)] => pc'[v] = "exited"
               /\ v = counter[RankOf(v)] => pc'[v] # "exited"
               /\ v > counter[RankOf(v)] => pc'[v] = "unborn"
               /\ v >= count => pc'[v] = "unborn"
    <3>0. u \in Nat /\ count \in Nat
      BY UnitRank DEF RankType
    <3>1. CASE v = u
      BY <1>2, <1>5, <3>0, <3>1 DEF CallPart
    <3>2. CASE v # u
      BY <1>2, <3>2 DEF CallPart, OrderInv
    <3> QED BY <3>1, <3>2
  <2> QED BY <1>1, <2>1, <2>2 DEF OrderInv
<1> QED BY <1>1, <1>3, <1>4, <1>7 DEF CallPart

(* A rank begins the callable it is at.                                    *)
LEMMA BeginCall ==
  ASSUME RankType, CallPart, NEW r \in Rank, Begin(r)
  PROVE  RankType' /\ CallPart' /\ UNCHANGED <<hasResult, left, pos>>
<1> DEFINE u == counter[r]
<1>1. u \in Unit /\ r \in Ranks /\ u < count /\ pc[u] = "unborn"
      /\ pc' = [pc EXCEPT ![u] = "loop"]
      /\ UNCHANGED <<expected, endless, pos, hasResult, result, tested, left, printed>>
      /\ UNCHANGED rankVars
  <2>1. u \in Nat /\ u < count /\ count \in Nat /\ count <= N /\ N \in Nat
    BY CallableAssumption DEF Begin, RankType
  <2>2. r \in Ranks
    BY MpiAssumption, CallableAssumption DEF Begin, RankType, Rank, Ranks
  <2> QED BY <2>1, <2>2 DEF Begin, Unit, Goto
<1> HIDE DEF u
<1>2. RankType' /\ UNCHANGED <<counter, size, count>>
  BY <1>1 DEF RankType, rankVars
<1>3. CallOK' /\ \A v \in Unit : UnitInv(v)'
  BY <1>1, RunnerUnit DEF CallPart
<1>4. pc' \in [Unit -> MpiPlaces]
  BY <1>1 DEF CallPart, MpiPlaces
<1>5. RankOf(u) = r /\ counter[RankOf(u)] = u
  BY <1>1 DEF CallPart, OrderInv, u
<1>6. OrderInv'
  <2>1. /\ \A o \in Ranks' : RankOf(counter[o])' = o
        /\ \A v \in Unit : RankOf(v)' = RankOf(v) /\ counter'[RankOf(v)] = counter[RankOf(v)]
    BY <1>2 DEF CallPart, OrderInv, Ranks, RankOf
  <2>2. ASSUME NEW v \in Unit
        PROVE  /\ v < counter[RankOf(v)] => pc'[v] = "exited"
               /\ v = counter[RankOf(v)] => pc'[v] # "exited"
               /\ v > counter[RankOf(v)] => pc'[v] = "unborn"
               /\ v >= count => pc'[v] = "unborn"
    <3>0. u \in Nat /\ count \in Nat
      BY <1>1, UnitRank DEF RankType
    <3>1. CASE v = u
      BY <1>1, <1>5, <3>0, <3>1 DEF CallPart
    <3>2. CASE v # u
      BY <1>1, <3>2 DEF CallPart, OrderInv
    <3> QED BY <3>1, <3>2
  <2> QED BY <1>2, <2>1, <2>2 DEF OrderInv
<1> QED BY <1>1, <1>2, <1>3, <1>4, <1>6 DEF CallPart

(* A rank goes on to the next of its callables.                            *)
LEMMA EndCall ==
  ASSUME RankType, CallPart, NEW u \in Unit, End(u)
  PROVE  RankType' /\ CallPart' /\ UNCHANGED <<hasResult, left, pos>>
<1> DEFINE r == RankOf(u)
<1>1. /\ Report(u) /\ pc[u] = "report" /\ pc' = [pc EXCEPT ![u] = "exited"]
      /\ UNCHANGED <<expected, hasResult, left, pos>>
      /\ counter' = [counter EXCEPT ![r] = counter[r] + size]
      /\ UNCHANGED <<backend, count, size>>
  BY DEF End, Report, NextCallable, Goto
<1>2. r \in Rank /\ r \in Ranks /\ size \in Nat /\ size > 0 /\ u \in Nat /\ count \in Nat
      /\ u = counter[r] /\ u < count
      /\ u % size = r
  BY <1>1, UnitRank, AtWork DEF RankType, RankOf
<1> HIDE DEF r
<1>3. RankType'
  BY <1>1, <1>2 DEF RankType
<1>4. CallOK' /\ (\A v \in Unit : UnitInv(v)') /\ pc' \in [Unit -> MpiPlaces]
  <2>1. UnitAction(u)
    BY <1>1 DEF UnitAction
  <2>2. CallOK' /\ \A v \in Unit : UnitInv(v)'
    BY <2>1, ActionType, ActionUnit DEF CallPart
  <2> QED BY <1>1, <2>2 DEF CallPart, MpiPlaces
<1>5. /\ counter'[r] = u + size
      /\ \A o \in Rank : o # r => counter'[o] = counter[o]
  BY <1>1, <1>2 DEF RankType
<1>6. (u + size) % size = r
  BY <1>2, NextOfRank
<1>7. \A v \in Unit : RankOf(v)' = RankOf(v) /\ RankOf(v) \in Rank /\ v \in Nat
  BY <1>1, UnitRank DEF RankOf
<1>8. ASSUME NEW o \in Ranks'
      PROVE  RankOf(counter[o])' = o
  <2>1. o \in Rank /\ o \in Ranks
    BY <1>1, UnitRank DEF Ranks
  <2>2. CASE o = r
    BY <1>1, <1>5, <1>6, <2>2 DEF RankOf
  <2>3. CASE o # r
    BY <1>1, <1>5, <2>1, <2>3 DEF RankOf, CallPart, OrderInv
  <2> QED BY <2>2, <2>3
<1>9. ASSUME NEW v \in Unit
      PROVE  /\ v < counter'[RankOf(v)] => pc'[v] = "exited"
             /\ v = counter'[RankOf(v)] => pc'[v] # "exited"
             /\ v > counter'[RankOf(v)] => pc'[v] = "unborn"
             /\ v >= count => pc'[v] = "unborn"
  <2>1. CASE v = u
    <3>1. RankOf(v) = r /\ counter'[RankOf(v)] = u + size
      BY <1>2, <1>5, <2>1 DEF RankOf
    <3>2. pc'[v] = "exited"
      BY <1>1, <2>1 DEF CallPart
    <3> QED BY <1>2, <2>1, <3>1, <3>2
  <2>2. CASE v # u /\ RankOf(v) = r
    <3>1. counter'[RankOf(v)] = u + size /\ v \in Nat /\ v % size = u % size
      BY <1>2, <1>5, <1>7, <2>2 DEF RankOf
    <3>2. pc'[v] = pc[v]
      BY <1>1, <2>2 DEF CallPart
    <3>3. /\ v < u => pc[v] = "exited"
          /\ v > u => pc[v] = "unborn"
          /\ v >= count => pc[v] = "unborn"
      BY <1>2, <2>2 DEF CallPart, OrderInv
    <3>4. u < v => u + size <= v
      BY <1>2, <3>1, NextOfRank
    <3> QED BY <1>2, <2>2, <3>1, <3>2, <3>3, <3>4
  <2>3. CASE RankOf(v) # r
    <3>1. counter'[RankOf(v)] = counter[RankOf(v)] /\ v # u
      BY <1>2, <1>5, <1>7, <2>3 DEF RankOf
    <3> QED BY <1>1, <3>1 DEF CallPart, OrderInv
  <2> QED BY <2>1, <2>2, <2>3
<1>10. OrderInv'
  <2>1. count' = count /\ \A v \in Unit : counter[RankOf(v)]' = counter'[RankOf(v)]
    BY <1>1, <1>7
  <2> QED BY <1>7, <1>8, <1>9, <2>1 DEF OrderInv
<1> QED BY <1>1, <1>3, <1>4, <1>10 DEF CallPart
-----------------------------------------------------------------------------
(* Once somebody has a result, nothing more is to be shown about stops.    *)
LEMMA SomebodyKeeps ==
  ASSUME Somebody, \A v \in Unit : hasResult[v] => hasResult'[v]
  PROVE  QuietInv' /\ NoFalseStop'
  BY DEF Somebody, QuietInv, NoFalseStop

(* And before, nobody has been stopped, and none of the messages exists.   *)
LEMMA NobodyYet ==
  ASSUME Inv, ~Somebody
  PROVE  /\ \A s, r \in Rank : net[s][r] = <<>>
         /\ \A u \in Unit : resp[u].state \in {"unused", "size?"} /\ pc[u] # "announce"
         /\ \A u \in Unit : left[u] # "stopped" /\ (left[u] = "threw" => CurrentArg(u) \in Faulty)
  BY DEF Inv, QuietInv, Somebody, NoFalseStop, CallPart, UnitInv

(* A step in which nobody leaves its loop, nor receives or sends.          *)
LEMMA NobodyLeaves ==
  ASSUME Inv, UNCHANGED <<hasResult, left, pos, net>>,
         \A u \in Unit : resp[u].state \in {"unused", "size?"}
                           => resp'[u].state \in {"unused", "size?"} \/ Somebody
  PROVE  QuietInv' /\ NoFalseStop'
<1>1. CASE Somebody
  BY <1>1, SomebodyKeeps
<1>2. CASE ~Somebody
  <2>1. QuietInv'
    BY <1>2, NobodyYet DEF QuietInv
  <2>2. NoFalseStop'
    BY <1>2, NobodyYet DEF NoFalseStop, CurrentArg
  <2> QED BY <2>1, <2>2
<1> QED BY <1>1, <1>2

(* The messages are left alone by what the units do in their loops.        *)
LEMMA MpiKept ==
  ASSUME Inv, UNCHANGED <<rankVars, mpiVars>>
  PROVE  NetType' /\ RequestType' /\ PostInv'
<1>1. UNCHANGED <<size, net, posted, resp, bcast>>
  BY DEF rankVars, mpiVars
<1>2. RequestType' /\ PostInv'
  BY <1>1, RequestsKept DEF Inv
<1> QED BY <1>1, <1>2 DEF Inv, NetType

(* A step of the loop.                                                     *)
LEMMA LoopInv ==
  ASSUME Inv, NEW u \in Unit, LoopStep(u), UNCHANGED <<rankVars, mpiVars>>
  PROVE  Inv'
<1>1. UnitAction(u) /\ pc[u] \in {"loop", "call"} /\ CallOK
  BY DEF LoopStep, UnitAction, FetchNext, Call, CallThrows, Inv, CallPart
<1>2. RankType' /\ CallPart'
  BY <1>1, WorkCall DEF Inv
<1>3. QuietInv' /\ NoFalseStop'
  <2>1. CASE Somebody
    <3>1. \A v \in Unit : hasResult[v] => hasResult'[v]
      BY <1>1, ResultKept
    <3> QED BY <2>1, <3>1, SomebodyKeeps
  <2>2. CASE ~Somebody
    <3>1. QuietInv'
      BY <2>2, NobodyYet DEF QuietInv, mpiVars
    <3>2. ASSUME NEW v \in Unit
          PROVE  left'[v] # "stopped" /\ (left'[v] = "threw" => CurrentArg(v)' \in Faulty)
      <4>0. left[v] # "stopped" /\ (left[v] = "threw" => CurrentArg(v) \in Faulty)
        BY <2>2, NobodyYet
      <4>1. left \in [Unit -> {"no", "exhausted", "stopped", "threw", "success"}]
            /\ pos \in [Unit -> Nat]
        BY <1>1 DEF CallOK, CallTypeOK
      <4>2. CASE FetchNext(u) /\ HasNextArg(u)
        <5>1. left' = left /\ pc[u] = "loop" /\ (v # u => pos'[v] = pos[v])
          BY <4>1, <4>2 DEF FetchNext, Leave
        <5>2. left[u] = "no"
          BY <5>1 DEF Inv, CallPart, UnitInv
        <5> QED BY <4>0, <5>1, <5>2 DEF CurrentArg
      <4>3. CASE FetchNext(u) /\ ~HasNextArg(u)
        <5>1. pos' = pos /\ left' = [left EXCEPT ![u] = "exhausted"]
          BY <4>3 DEF FetchNext, Leave
        <5> QED BY <4>0, <4>1, <5>1 DEF CurrentArg
      <4>4. CASE Call(u)
        BY <4>0, <4>4 DEF Call, CurrentArg
      <4>5. CASE CallThrows(u)
        <5>1. pos' = pos /\ left' = [left EXCEPT ![u] = "threw"] /\ CurrentArg(u) \in Faulty
          BY <4>5 DEF CallThrows, Leave
        <5> QED BY <4>0, <4>1, <5>1 DEF CurrentArg
      <4> QED BY <4>2, <4>3, <4>4, <4>5 DEF LoopStep
    <3> QED BY <3>1, <3>2 DEF NoFalseStop
  <2> QED BY <2>1, <2>2
<1> QED BY <1>2, <1>3, MpiKept DEF Inv

(* irecv posts the receive for a size.                                     *)
LEMMA IrecvInv ==
  ASSUME Inv, NEW u \in Unit, Irecv(u)
  PROVE  Inv'
<1>1. /\ resp' = [resp EXCEPT ![u].state = "size?"]
      /\ resp[u].state = "unused"
      /\ Post(u, "resp", Any)
      /\ UNCHANGED <<callVars, rankVars, net, bcast>>
      /\ UNCHANGED size /\ UNCHANGED net /\ UNCHANGED bcast
      /\ UNCHANGED <<hasResult, left, pos>>
  BY DEF Irecv, Responding, callVars, rankVars
<1>2. RequestType /\ RankType /\ PostInv
  BY DEF Inv
<1>3. RankType' /\ CallPart'
  BY <1>1, StutterUnit DEF Inv, RankType, CallPart, OrderInv, Ranks, RankOf, rankVars, callVars
<1>4. resp' \in [Unit -> Request]
  BY <1>1, <1>2 DEF RequestType, Request, RequestState
<1>5. resp'[u].state = "size?" /\ \A v \in Unit : v # u => resp'[v] = resp[v]
  BY <1>1, <1>2 DEF RequestType, Request
<1>6. posted' \in [Rank -> Seq(Receive)] /\ PostInv'
  <2>1. ~Waits(resp[u]) /\ Waits(resp'[u])
    BY <1>1, <1>5 DEF Waits
  <2>2. \A v \in Unit : Waits(resp'[v]) <=> Waits(resp[v]) \/ v = u
    BY <1>5, <2>1
  <2> QED BY <1>1, <1>2, <2>1, <2>2, PostKeeps
<1>7. QuietInv' /\ NoFalseStop'
  BY <1>1, <1>5, NobodyLeaves
<1> QED BY <1>1, <1>2, <1>3, <1>4, <1>6, <1>7 DEF Inv, NetType, RequestType

(* test() posts the receive for the body.                                  *)
LEMMA TestSizeInv ==
  ASSUME Inv, NEW u \in Unit, TestSize(u)
  PROVE  Inv'
<1>1. /\ resp' = [resp EXCEPT ![u].state = "body?"]
      /\ resp[u].state = "size"
      /\ Post(u, "resp", resp[u].from)
      /\ UNCHANGED <<callVars, rankVars, net, bcast>>
      /\ UNCHANGED size /\ UNCHANGED net /\ UNCHANGED bcast
      /\ UNCHANGED <<hasResult, left, pos>>
  BY DEF TestSize, callVars, rankVars
<1>2. RequestType /\ RankType /\ PostInv
  BY DEF Inv
<1>3. RankType' /\ CallPart'
  BY <1>1, StutterUnit DEF Inv, RankType, CallPart, OrderInv, Ranks, RankOf, rankVars, callVars
<1>4. resp' \in [Unit -> Request] /\ resp[u].from \in Rank \cup {Any}
  BY <1>1, <1>2 DEF RequestType, Request, RequestState
<1>5. resp'[u].state = "body?" /\ \A v \in Unit : v # u => resp'[v] = resp[v]
  BY <1>1, <1>2 DEF RequestType, Request
<1>6. posted' \in [Rank -> Seq(Receive)] /\ PostInv'
  <2>1. ~Waits(resp[u]) /\ Waits(resp'[u])
    BY <1>1, <1>5 DEF Waits
  <2>2. \A v \in Unit : Waits(resp'[v]) <=> Waits(resp[v]) \/ v = u
    BY <1>5, <2>1
  <2> QED BY <1>1, <1>2, <1>4, <2>1, <2>2, PostKeeps
<1>7. Somebody
  BY <1>1, NobodyYet
<1>8. QuietInv' /\ NoFalseStop'
  BY <1>1, <1>7, SomebodyKeeps
<1> QED BY <1>1, <1>2, <1>3, <1>4, <1>6, <1>8 DEF Inv, NetType, RequestType

(* A receive of broadcast is posted.                                       *)
LEMMA BroadcastReceiveInv ==
  ASSUME Inv, NEW u \in Unit, BroadcastReceive(u)
  PROVE  Inv'
<1>1. PICK to \in {"size?", "body?"} : bcast' = [bcast EXCEPT ![u].state = to]
  BY DEF BroadcastReceive
<1>2. /\ bcast[u].state \in {"unused", "size"}
      /\ Post(u, "bcast", Root)
      /\ UNCHANGED <<callVars, rankVars, net, resp>>
      /\ UNCHANGED size /\ UNCHANGED net /\ UNCHANGED resp
      /\ UNCHANGED <<hasResult, left, pos>>
      /\ pc[u] = "announce"
  BY DEF BroadcastReceive, callVars, rankVars
<1>3. RequestType /\ RankType /\ PostInv
  BY DEF Inv
<1>4. RankType' /\ CallPart'
  BY <1>2, StutterUnit DEF Inv, RankType, CallPart, OrderInv, Ranks, RankOf, rankVars, callVars
<1>5. bcast' \in [Unit -> Request] /\ Root \in Rank \cup {Any}
  BY <1>1, <1>3, UnitRank DEF RequestType, Request, RequestState
<1>6. bcast'[u].state = to /\ \A v \in Unit : v # u => bcast'[v] = bcast[v]
  BY <1>1, <1>3 DEF RequestType, Request
<1>7. posted' \in [Rank -> Seq(Receive)] /\ PostInv'
  <2>1. ~Waits(bcast[u]) /\ Waits(bcast'[u])
    BY <1>2, <1>6 DEF Waits
  <2>2. \A v \in Unit : Waits(bcast'[v]) <=> Waits(bcast[v]) \/ v = u
    BY <1>6, <2>1
  <2> QED BY <1>2, <1>3, <1>5, <2>1, <2>2, PostKeeps
<1>8. QuietInv' /\ NoFalseStop'
  BY <1>2, NobodyLeaves
<1> QED BY <1>2, <1>3, <1>4, <1>5, <1>7, <1>8 DEF Inv, NetType, RequestType

(* check_next_sync_call answers.                                           *)
LEMMA TestInv ==
  ASSUME Inv, NEW u \in Unit, Test(u)
  PROVE  Inv'
<1>1. /\ Checked(u, Answer(u)) /\ UNCHANGED <<rankVars, mpiVars>>
      /\ pc[u] = "check" /\ UNCHANGED hasResult /\ UNCHANGED pos
      /\ UNCHANGED <<net, resp>>
  BY DEF Test, Checked, mpiVars
<1>2. UnitAction(u)
  BY <1>1, CheckedAction
<1>3. RankType' /\ CallPart'
  BY <1>1, <1>2, WorkCall DEF Inv
<1>4. CASE Answer(u)
  <2>1. UNCHANGED left
    BY <1>1, <1>4 DEF Checked
  <2>2. QuietInv' /\ NoFalseStop'
    BY <1>1, <2>1, NobodyLeaves
  <2> QED BY <1>1, <1>3, <2>2, MpiKept DEF Inv
<1>5. CASE ~Answer(u)
  <2>1. Somebody
    BY <1>5, NobodyYet DEF Answer, MessageRead
  <2>2. QuietInv' /\ NoFalseStop'
    BY <1>1, <2>1, SomebodyKeeps
  <2> QED BY <1>1, <1>3, <2>2, MpiKept DEF Inv
<1> QED BY <1>4, <1>5

(* An exception out of test() or out of broadcast.                         *)
LEMMA ThrowsInv ==
  ASSUME Inv, NEW u \in Unit, TestThrows(u) \/ BroadcastThrows(u)
  PROVE  Inv'
<1>1. /\ pc[u] \in {"check", "announce"} /\ Leave(u, "threw")
      /\ UNCHANGED <<expected, endless, pos, hasResult, result, tested, printed>>
      /\ UNCHANGED <<rankVars, mpiVars>> /\ UNCHANGED rankVars
      /\ UNCHANGED hasResult
  BY DEF TestThrows, BroadcastThrows
<1>2. RankType' /\ CallPart'
  BY <1>1, ThrowCall DEF Inv
<1>3. Somebody
  BY NobodyYet DEF TestThrows, BroadcastThrows
<1>4. QuietInv' /\ NoFalseStop'
  BY <1>1, <1>3, SomebodyKeeps
<1> QED BY <1>1, <1>2, <1>4, MpiKept DEF Inv

(* handle_success returns, and has sent what it sends.                     *)
LEMMA HandledInv ==
  ASSUME Inv, NEW u \in Unit,
         HandleSuccessOpenMp(u) \/ HandleSuccessPointToPoint(u) \/ BroadcastSend(u)
  PROVE  Inv'
<1>1. /\ SuccessHandled(u) /\ UNCHANGED rankVars /\ UNCHANGED size
      /\ UNCHANGED <<posted, resp, bcast>>
      /\ pc[u] = "announce" /\ UNCHANGED hasResult
  BY DEF HandleSuccessOpenMp, HandleSuccessPointToPoint, BroadcastSend, SuccessHandled, rankVars,
         mpiVars
<1>2. UnitAction(u)
  BY <1>1 DEF UnitAction
<1>3. RankType' /\ CallPart'
  BY <1>1, <1>2, WorkCall DEF Inv
<1>4. RequestType' /\ PostInv'
  BY <1>1, RequestsKept DEF Inv
<1>5. NetType'
  <2>1. CASE UNCHANGED net
    BY <2>1 DEF Inv, NetType
  <2>2. CASE HandleSuccessPointToPoint(u)
    <3>1. SendTo(RankOf(u), Ranks) /\ RankOf(u) \in Rank
      BY <2>2, UnitRank DEF HandleSuccessPointToPoint, Inv
    <3> QED BY <3>1, SendKeeps DEF Inv
  <2>3. CASE BroadcastSend(u)
    <3>1. SendTo(Root, Ranks \ {Root}) /\ Root \in Rank
      BY <2>3, UnitRank DEF BroadcastSend, Inv
    <3> QED BY <3>1, SendKeeps DEF Inv
  <2> QED BY <2>1, <2>2, <2>3 DEF HandleSuccessOpenMp, mpiVars
<1>6. Somebody
  BY <1>1, NobodyYet
<1>7. QuietInv' /\ NoFalseStop'
  BY <1>1, <1>6, SomebodyKeeps
<1> QED BY <1>3, <1>4, <1>5, <1>7 DEF Inv

(* broadcast has received.                                                 *)
LEMMA BroadcastReceivedInv ==
  ASSUME Inv, NEW u \in Unit, BroadcastReceived(u)
  PROVE  Inv'
<1>1. /\ SuccessHandled(u) /\ UNCHANGED <<rankVars, net, posted, resp>>
      /\ UNCHANGED rankVars /\ UNCHANGED size
      /\ bcast[u].state = "body" /\ bcast' = [bcast EXCEPT ![u] = IdleRequest]
      /\ pc[u] = "announce" /\ UNCHANGED hasResult
  BY DEF BroadcastReceived, SuccessHandled, rankVars
<1>2. UnitAction(u)
  BY <1>1 DEF UnitAction
<1>3. RankType' /\ CallPart'
  BY <1>1, <1>2, WorkCall DEF Inv
<1>4. RequestType'
  BY <1>1 DEF Inv, RequestType, Request, RequestState, IdleRequest
<1>5. \A v \in Unit : Waits(bcast'[v]) <=> Waits(bcast[v])
  BY <1>1 DEF Inv, RequestType, Waits, IdleRequest
<1>6. PostInv'
  BY <1>1, <1>5 DEF Inv, PostInv, RankOf
<1>7. Somebody
  BY <1>1, NobodyYet
<1>8. QuietInv' /\ NoFalseStop'
  BY <1>1, <1>7, SomebodyKeeps
<1> QED BY <1>1, <1>3, <1>4, <1>6, <1>8 DEF Inv, NetType

(* A rank begins a callable.                                               *)
LEMMA BeginInv ==
  ASSUME Inv, NEW r \in Rank, Begin(r)
  PROVE  Inv'
<1>1. UNCHANGED <<rankVars, mpiVars>> /\ UNCHANGED <<net, resp>>
  BY DEF Begin, mpiVars
<1>2. RankType' /\ CallPart' /\ UNCHANGED <<hasResult, left, pos>>
  BY BeginCall DEF Inv
<1>3. QuietInv' /\ NoFalseStop'
  BY <1>1, <1>2, NobodyLeaves
<1> QED BY <1>1, <1>2, <1>3, MpiKept DEF Inv

(* A rank ends one.                                                        *)
LEMMA EndInv ==
  ASSUME Inv, NEW u \in Unit, End(u)
  PROVE  Inv'
<1>1. UNCHANGED <<size, posted, resp, bcast>> /\ UNCHANGED <<net, resp>>
  BY DEF End, mpiVars
<1>2. RankType' /\ CallPart' /\ UNCHANGED <<hasResult, left, pos>>
  BY EndCall DEF Inv
<1>3. QuietInv' /\ NoFalseStop'
  BY <1>1, <1>2, NobodyLeaves
<1>4. RequestType' /\ PostInv'
  BY <1>1, RequestsKept DEF Inv
<1> QED BY <1>1, <1>2, <1>3, <1>4 DEF Inv, NetType

(* A message reaches a receive.                                            *)
LEMMA MatchInv ==
  ASSUME Inv, NEW s \in Rank, NEW r \in Rank, Match(s, r)
  PROVE  Inv'
<1>1. /\ net[s][r] # <<>>
      /\ net' = [net EXCEPT ![s][r] = Tail(@)]
      /\ UNCHANGED <<callVars, rankVars>>
      /\ UNCHANGED size /\ UNCHANGED hasResult
  BY DEF Match, callVars, rankVars
<1>2. PICK i \in Accepting(r, s) :
        /\ posted' = [posted EXCEPT ![r] = Without(@, i)]
        /\ \/ /\ posted[r][i].request = "resp"
              /\ resp' = [resp EXCEPT ![posted[r][i].unit] = Matched(@, s, Head(net[s][r]))]
              /\ UNCHANGED bcast
           \/ /\ posted[r][i].request = "bcast"
              /\ bcast' = [bcast EXCEPT ![posted[r][i].unit] = Matched(@, s, Head(net[s][r]))]
              /\ UNCHANGED resp
  BY DEF Match
<1>3. RankType' /\ CallPart'
  BY <1>1, StutterUnit DEF Inv, RankType, CallPart, OrderInv, Ranks, RankOf, rankVars, callVars
<1>4. NetType'
  <2>1. net[s][r] \in Seq({"size", "body"})
    BY DEF Inv, NetType
  <2>2. Tail(net[s][r]) \in Seq({"size", "body"})
    BY <1>1, <2>1
  <2> QED BY <1>1, <2>2 DEF Inv, NetType
<1> DEFINE u == posted[r][i].unit
           part == Head(net[s][r])
<1>5. i \in 1 .. Len(posted[r]) /\ posted[r][i] \in Receive
      /\ u \in Unit /\ posted[r][i].request \in {"resp", "bcast"}
  <2>1. i \in 1 .. Len(posted[r]) /\ posted[r] \in Seq(Receive)
    BY DEF Accepting, Inv, RequestType
  <2>2. posted[r][i] \in Receive
    BY <2>1, ElementOfSeq, LenProperties
  <2> QED BY <2>1, <2>2 DEF Receive
<1>6. part \in {"size", "body"}
  <2>1. net[s][r] \in Seq({"size", "body"})
    BY DEF Inv, NetType
  <2> QED BY <1>1, <2>1
<1> HIDE DEF u, part
<1>7. ASSUME NEW request \in Request
      PROVE  Matched(request, s, part) \in Request /\ ~Waits(Matched(request, s, part))
  BY <1>6 DEF Matched, Request, RequestState, Waits
<1>8. /\ resp' \in [Unit -> Request] /\ bcast' \in [Unit -> Request]
      /\ \A v \in Unit : Waits(resp'[v]) <=>
           Waits(resp[v]) /\ ~(v = u /\ posted[r][i].request = "resp")
      /\ \A v \in Unit : Waits(bcast'[v]) <=>
           Waits(bcast[v]) /\ ~(v = u /\ posted[r][i].request = "bcast")
  <2>0. resp \in [Unit -> Request] /\ bcast \in [Unit -> Request]
    BY DEF Inv, RequestType
  <2>1. CASE /\ posted[r][i].request = "resp"
             /\ resp' = [resp EXCEPT ![u] = Matched(@, s, part)]
             /\ UNCHANGED bcast
    BY <1>5, <1>7, <2>0, <2>1
  <2>2. CASE /\ posted[r][i].request = "bcast"
             /\ bcast' = [bcast EXCEPT ![u] = Matched(@, s, part)]
             /\ UNCHANGED resp
    BY <1>5, <1>7, <2>0, <2>2
  <2> QED BY <1>2, <2>1, <2>2 DEF u, part
<1>9. posted' \in [Rank -> Seq(Receive)] /\ PostInv'
  <2>1. RankType /\ RequestType /\ PostInv
    BY DEF Inv
  <2> QED BY <1>1, <1>2, <1>5, <1>8, <2>1, TakeKeeps DEF u
<1>10. Somebody
  BY <1>1, NobodyYet
<1>11. QuietInv' /\ NoFalseStop'
  BY <1>1, <1>10, SomebodyKeeps
<1> QED BY <1>3, <1>4, <1>8, <1>9, <1>11 DEF Inv, RequestType

(* The inductive invariant holds initially.                                *)
LEMMA InitInv == Init => Inv
<1> SUFFICES ASSUME Init PROVE Inv
  OBVIOUS
<1>1. CallOK /\ (\A u \in Unit : UnitInv(u)) /\ pc = [u \in Unit |-> "unborn"]
      /\ left = [u \in Unit |-> "no"]
  BY InitUnit DEF Init, CallInit
<1>2. RankType
  BY CallableAssumption DEF Init, RankType, Rank
<1>3. OrderInv
  <2>1. ASSUME NEW r \in Ranks
        PROVE  RankOf(counter[r]) = r
    <3>1. size \in Nat /\ size > 0 /\ size <= N /\ N \in Nat
      BY <1>2, CallableAssumption, MpiAssumption DEF RankType
    <3>2. r \in Rank /\ r \in 0 .. size - 1
      BY <3>1 DEF Ranks, Rank
    <3>3. counter[r] = r
      BY <3>2 DEF Init
    <3>4. r % size = r
      BY <3>1, <3>2
    <3> QED BY <3>3, <3>4 DEF RankOf
  <2>2. ASSUME NEW u \in Unit
        PROVE  ~(u < counter[RankOf(u)]) /\ pc[u] = "unborn"
    <3>1. RankOf(u) \in Rank /\ u \in Nat /\ size \in Nat /\ size > 0
      BY <1>2, UnitRank
    <3>2. counter[RankOf(u)] = u % size
      BY <3>1 DEF Init, RankOf
    <3>3. u % size <= u /\ u % size \in Nat
      BY <3>1
    <3> QED BY <1>1, <3>1, <3>2, <3>3
  <2> QED BY <1>1, <2>1, <2>2 DEF OrderInv
<1>4. CallPart
  BY <1>1, <1>3 DEF CallPart, MpiPlaces
<1>5. NetType
  <2>1. <<>> \in Seq({"size", "body"})
    OBVIOUS
  <2> QED BY <2>1 DEF Init, NetType
<1>6. RequestType
  BY DEF Init, RequestType, Request, RequestState, IdleRequest
<1>7. PostInv
  BY DEF Init, PostInv, Distinct, Holds, Waits, IdleRequest
<1>8. QuietInv /\ NoFalseStop
  BY <1>1 DEF Init, QuietInv, NoFalseStop, IdleRequest
<1> QED BY <1>2, <1>4, <1>5, <1>6, <1>7, <1>8 DEF Inv

(* And every step keeps it.                                                *)
LEMMA NextInv == Inv /\ [Next]_vars => Inv'
<1> SUFFICES ASSUME Inv, [Next]_vars PROVE Inv'
  OBVIOUS
<1>1. ASSUME NEW r \in Rank, Begin(r) PROVE Inv'
  BY <1>1, BeginInv
<1>2. ASSUME NEW u \in Unit, UnitStep(u) PROVE Inv'
  <2>1. CASE LoopStep(u) /\ UNCHANGED <<rankVars, mpiVars>>
    BY <2>1, LoopInv
  <2>2. CASE CheckNextSyncCall(u)
    BY <2>2, IrecvInv, TestSizeInv, TestInv, ThrowsInv DEF CheckNextSyncCall
  <2>3. CASE HandleSuccess(u)
    BY <2>3, HandledInv, BroadcastReceiveInv, BroadcastReceivedInv, ThrowsInv
       DEF HandleSuccess
  <2>4. CASE End(u)
    BY <2>4, EndInv
  <2> QED BY <1>2, <2>1, <2>2, <2>3, <2>4 DEF UnitStep
<1>3. ASSUME NEW s \in Rank, NEW r \in Rank, Match(s, r) PROVE Inv'
  BY <1>3, MatchInv
<1>4. CASE UNCHANGED vars
  <2>1. UNCHANGED callVars /\ UNCHANGED <<rankVars, mpiVars>>
    BY <1>4 DEF vars
  <2>2. UNCHANGED <<hasResult, left, pos, net>> /\ UNCHANGED resp
    BY <2>1 DEF callVars, mpiVars
  <2>3. RankType' /\ CallPart'
    BY <2>1, StutterUnit DEF Inv, RankType, CallPart, OrderInv, Ranks, RankOf, rankVars, callVars
  <2>4. QuietInv' /\ NoFalseStop'
    BY <2>2, NobodyLeaves
  <2> QED BY <2>1, <2>3, <2>4, MpiKept DEF Inv
<1> QED BY <1>1, <1>2, <1>3, <1>4 DEF Next

(* The inductive invariant holds in every state.                           *)
THEOREM Invariant == Spec => []Inv
  BY InitInv, NextInv, PTL DEF Spec

(* The type invariant: among its parts that no receive is posted twice for *)
(* the same request, and none is left behind by one that waits no longer.  *)
THEOREM TypeCorrect == Spec => []TypeOK
<1>1. Inv => TypeOK
  <2> SUFFICES ASSUME Inv PROVE TypeOK
    OBVIOUS
  <2>1. ASSUME NEW r \in Rank
        PROVE  PostedOnce(r)
    <3>1. /\ Distinct(posted[r])
          /\ \A u \in Unit : Holds(posted[r], u, "resp") <=> RankOf(u) = r /\ Waits(resp[u])
          /\ \A u \in Unit : Holds(posted[r], u, "bcast") <=> RankOf(u) = r /\ Waits(bcast[u])
      BY DEF Inv, PostInv
    <3>2. ASSUME NEW i \in DOMAIN posted[r]
          PROVE  RankOf(posted[r][i].unit) = r
      <4>1. posted[r] \in Seq(Receive)
        BY DEF Inv, RequestType
      <4>2. posted[r][i] \in Receive
        BY <4>1, ElementOfSeq, LenProperties
      <4>3. posted[r][i].unit \in Unit /\ posted[r][i].request \in {"resp", "bcast"}
        BY <4>2 DEF Receive
      <4>4. Holds(posted[r], posted[r][i].unit, posted[r][i].request)
        BY DEF Holds
      <4> QED BY <3>1, <4>3, <4>4
    <3> QED BY <3>1, <3>2 DEF PostedOnce, Distinct, Holds
  <2> QED BY <2>1 DEF TypeOK, Inv, RankType, CallPart, CallOK, MpiPlaces, NetType, RequestType
<1> QED BY <1>1, Invariant, PTL

(* Nobody is stopped, by a message or by an exception that its function    *)
(* has not thrown, before some callable has had a result.                  *)
THEOREM NoFalseStopHolds == Spec => []NoFalseStop
<1>1. Inv => NoFalseStop
  BY DEF Inv
<1> QED BY <1>1, Invariant, PTL

(* When all ranks have returned, an accepted key has been printed, or      *)
(* every argument of every callable has been tried, save those behind an   *)
(* exception.                                                              *)
THEOREM SearchCompletes == Spec => []SearchComplete
<1>1. Inv => SearchComplete
  <2> SUFFICES ASSUME Inv, AllReturned
               PROVE  \/ \E u \in Unit : printed[u] \in expected
                      \/ \A u \in 0 .. count - 1 :
                           left[u] = "threw" \/ KeysOf(u) \subseteq tested[u]
    BY DEF SearchComplete
  <2>1. ASSUME NEW u \in Unit, u < count
        PROVE  pc[u] = "exited"
    <3>1. RankOf(u) \in Ranks /\ RankOf(u) \in Rank /\ u \in Nat
      BY UnitRank DEF Inv
    <3>2. count <= counter[RankOf(u)] /\ counter[RankOf(u)] \in Nat /\ count \in Nat
      BY <3>1 DEF AllReturned, Returned, Inv, RankType
    <3>3. u < counter[RankOf(u)]
      BY <2>1, <3>1, <3>2
    <3> QED BY <3>3 DEF Inv, CallPart, OrderInv
  <2>2. CASE Somebody
    <3>1. PICK u \in Unit : hasResult[u]
      BY <2>2 DEF Somebody
    <3>2. UnitInv(u) /\ (u >= count => pc[u] = "unborn") /\ u \in Nat /\ count \in Nat
      BY UnitRank DEF Inv, CallPart, OrderInv, RankType
    <3>3. pc[u] = "exited"
      BY <2>1, <3>1, <3>2 DEF UnitInv
    <3> QED BY <3>1, <3>2, <3>3 DEF UnitInv
  <2>3. CASE ~Somebody
    <3> SUFFICES ASSUME NEW u \in 0 .. count - 1
                 PROVE  left[u] = "threw" \/ KeysOf(u) \subseteq tested[u]
      OBVIOUS
    <3>1. u \in Unit /\ u < count
      BY CallableAssumption DEF Unit, Inv, RankType
    <3>2. pc[u] = "exited" /\ UnitInv(u) /\ ~hasResult[u] /\ left[u] # "stopped"
          /\ left[u] \in {"no", "exhausted", "stopped", "threw", "success"}
      BY <2>1, <2>3, <3>1, NobodyYet DEF Inv, CallPart, CallOK, CallTypeOK, Somebody
    <3> QED BY <3>2 DEF UnitInv
  <2> QED BY <2>2, <2>3
<1> QED BY <1>1, Invariant, PTL
=============================================================================
