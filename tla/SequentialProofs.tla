--------------------------- MODULE SequentialProofs ---------------------------
(***************************************************************************)
(* Proofs about the components that run in one thread: DecryptorSequence,  *)
(* for every width of the integers and every set of requests; Encryptor,   *)
(* for bytes of any length, any keys, any tables, any strings and either   *)
(* meaning of an overlong shift; and Lifecycle, for any runners, callables *)
(* and lists.  Each part ends with the theorems about its component.       *)
(***************************************************************************)
EXTENDS DecryptorSequence, Encryptor, Lifecycle, SequenceTheorems, FiniteSetTheorems, TLAPS

-----------------------------------------------------------------------------
(* DecryptorSequence.                                                      *)

(* In round m of either loop j is ToInt(m), and the key is not beyond.     *)
InRange(r, i, m) == HasNext(r, i, ToInt(m))

Round(i) == j[i] % Modulus

(* The generator has gone through the rounds before this one, all of them  *)
(* in range, unless no round is out of range and it never ends.            *)
WorkerInv(i) ==
  \/ /\ \A l \in 0 .. Round(i) - 1 : InRange(req, i, l)
     /\ yielded[i] = { KeyAt(req, i, ToInt(l)) : l \in 0 .. Round(i) - 1 }
  \/ \A l \in UInt : InRange(req, i, l)

SplitInv == SplitTypeOK /\ \A i \in Worker : WorkerInv(i)

-----------------------------------------------------------------------------
(* Conversions between int and uint32_t.                                   *)

\* An int is what its conversion to uint32_t converts to.
LEMMA Conversions ==
  /\ Modulus \in Nat /\ Half \in Nat /\ Modulus > 3 /\ Half > 1 /\ Modulus = 2 * Half
  /\ \A u \in Int : u % Modulus \in UInt
  /\ \A u \in UInt : u % Modulus = u /\ ToInt(u) \in -Half .. Half - 1
  /\ \A d \in -Half .. Half - 1 :
       /\ d % Modulus = IF d >= 0 THEN d ELSE d + Modulus
       /\ ToInt(d % Modulus) = d
<1>1. Modulus \in Nat /\ Half \in Nat /\ Modulus > 3 /\ Half > 1 /\ Modulus = 2 * Half
  BY ModulusAssumption DEF ModulusAssumption, Half
<1>2. \A u \in Int : u % Modulus \in UInt
  BY <1>1 DEF UInt
<1>3. \A u \in UInt : u % Modulus = u /\ ToInt(u) \in -Half .. Half - 1
  BY <1>1 DEF UInt, ToInt
<1>4. \A d \in -Half .. Half - 1 : d % Modulus = IF d >= 0 THEN d ELSE d + Modulus
  BY <1>1
<1>5. \A d \in -Half .. Half - 1 : ToInt(d % Modulus) = d
  BY <1>1, <1>4 DEF ToInt
<1> QED BY <1>1, <1>2, <1>3, <1>4, <1>5

\* The widths alone.
LEMMA Widths ==
  /\ Modulus \in Nat /\ Half \in Nat /\ Half > 1 /\ Modulus = 2 * Half
  /\ UInt = 0 .. Modulus - 1
  BY Conversions DEF UInt

\* The arguments of a call.
LEMMA Arguments ==
  ASSUME NEW r \in Request
  PROVE  /\ r.range_begin \in UInt /\ r.range_begin \in Nat
         /\ r.range_end \in UInt /\ r.range_end \in Nat
         /\ r.num_threads \in Nat /\ r.num_threads > 0 /\ r.num_threads < Half
<1>1. r.range_begin \in UInt /\ r.range_end \in UInt /\ r.num_threads \in 1 .. Half - 1
  BY DEF Request
<1> QED BY <1>1, Widths

\* j++ goes to the next round, and from the last one to the first.
LEMMA NextRound ==
  ASSUME NEW d \in -Half .. Half - 1
  PROVE  /\ Incremented(d) \in -Half .. Half - 1
         /\ Incremented(d) % Modulus = IF d % Modulus = Modulus - 1 THEN 0 ELSE (d % Modulus) + 1
<1>1. Incremented(d) \in -Half .. Half - 1 /\ Incremented(d) % Modulus = (d + 1) % Modulus
  <2>1. d + 1 \in Int
    BY Widths
  <2>2. (d + 1) % Modulus \in UInt
    BY <2>1, Conversions
  <2>3. ASSUME NEW u \in UInt
        PROVE  ToInt(u) \in -Half .. Half - 1 /\ ToInt(u) % Modulus = u
    <3>1. ToInt(u) \in -Half .. Half - 1
      BY Conversions
    <3>2. ToInt(u) % Modulus = IF ToInt(u) >= 0 THEN ToInt(u) ELSE ToInt(u) + Modulus
      BY <3>1, Conversions
    <3> QED BY <3>1, <3>2, Widths DEF ToInt
  <2> QED BY <2>2, <2>3 DEF Incremented
<1>2. (d + 1) % Modulus = IF d % Modulus = Modulus - 1 THEN 0 ELSE (d % Modulus) + 1
  <2>1. CASE d = Half - 1
    BY <2>1, Conversions DEF UInt
  <2>2. CASE d < Half - 1
    <3>1. d + 1 \in -Half .. Half - 1
      BY <2>2, Widths
    <3>2. (d + 1) % Modulus = IF d + 1 >= 0 THEN d + 1 ELSE d + 1 + Modulus
      BY <3>1, Conversions
    <3>3. d % Modulus = IF d >= 0 THEN d ELSE d + Modulus
      BY Conversions
    <3> QED BY <2>2, <3>2, <3>3, Widths
  <2> QED BY <2>1, <2>2, Widths
<1> QED BY <1>1, <1>2

-----------------------------------------------------------------------------
(* The step.                                                               *)

\* The step is an int, the keys are uint32_t.
LEMMA StepType ==
  ASSUME NEW r \in Request
  PROVE  /\ StepOf(r) \in Int
         /\ \A i \in Nat, d \in Int : KeyAt(r, i, d) \in UInt
<1>1. ToInt(RangeSize(r)) \in Int /\ r.num_threads \in Nat /\ r.num_threads > 0
  <2>1. r.range_end - r.range_begin \in Int
    BY Arguments
  <2>2. RangeSize(r) \in UInt
    BY <2>1, Conversions DEF RangeSize
  <2>3. ToInt(RangeSize(r)) \in -Half .. Half - 1
    BY <2>2, Conversions
  <2> QED BY <2>3, Arguments, Widths
<1>2. Quot(ToInt(RangeSize(r)), r.num_threads) \in Int
  BY <1>1 DEF Quot
<1>3. StepOf(r) \in Int
  BY <1>2 DEF StepOf
<1> QED BY <1>3, Conversions DEF KeyAt

\* The quotient rounded up: as many steps as units cover the range, with
\* less than a key for each unit to spare.
LEMMA StepNarrow ==
  ASSUME NEW r \in Request, r.range_begin = 0, r.range_end < Half
  PROVE  /\ StepOf(r) \in 0 .. r.range_end
         /\ r.range_end <= r.num_threads * StepOf(r)
         /\ r.num_threads * StepOf(r) < r.range_end + r.num_threads
         /\ r.range_end > 0 => StepOf(r) > 0
<1> DEFINE R == r.range_end
           n == r.num_threads
           q == R \div n
           S == StepOf(r)
<1>1. R \in Nat /\ R < Half /\ n \in Nat /\ n > 0 /\ R \in UInt
  BY Conversions DEF Request, UInt
<1>2. S = IF R = q * n THEN q ELSE q + 1
  <2>1. RangeSize(r) = R /\ ToInt(R) = R
    BY <1>1, Conversions DEF RangeSize, ToInt
  <2>2. Quot(R, n) = q
    BY <1>1 DEF Quot
  <2> QED BY <2>1, <2>2 DEF StepOf
<1> HIDE DEF R, n, S
<1>3. q \in Nat /\ n * q <= R /\ R < n * q + n
  BY <1>1
<1> HIDE DEF q
<1>4. q * n = n * q /\ n * (q + 1) = n * q + n
  BY <1>1, <1>3
<1>5. R <= n * S /\ n * S < R + n /\ S \in Nat
  BY <1>1, <1>2, <1>3, <1>4
<1>6. S <= R
  <2>1. q <= n * q
    BY <1>1, <1>3
  <2>2. CASE R = q * n
    BY <2>1, <2>2, <1>1, <1>2, <1>3
  <2>3. CASE R # q * n
    BY <2>1, <2>3, <1>1, <1>2, <1>3, <1>4
  <2> QED BY <2>2, <2>3
<1>7. R > 0 => S > 0
  BY <1>1, <1>5
<1> QED BY <1>1, <1>5, <1>6, <1>7 DEF R, n, S

\* Within the step nothing wraps.
LEMMA KeyNarrow ==
  ASSUME NEW r \in Request, r.range_begin = 0, r.range_end < Half,
         NEW i \in 0 .. r.num_threads - 1, NEW d \in 0 .. StepOf(r)
  PROVE  KeyAt(r, i, d) = i * StepOf(r) + d
<1> DEFINE R == r.range_end
           n == r.num_threads
           S == StepOf(r)
<1>1. /\ R \in Nat /\ R < Half /\ n \in Nat /\ n < Half /\ S \in Nat
      /\ n * S < R + n
  <2>1. S \in 0 .. R /\ n * S < R + n
    BY StepNarrow
  <2>2. R \in Nat /\ R < Half /\ n \in Nat /\ n > 0 /\ n < Half
    BY Arguments
  <2> QED BY <2>1, <2>2
<1> HIDE DEF R, n, S
<1>2. i \in Nat /\ i + 1 <= n /\ d \in Nat /\ d <= S
  BY <1>1 DEF n, S
<1>3. (i + 1) * S <= n * S /\ (i + 1) * S = i * S + S /\ i * S \in Nat
  BY <1>1, <1>2
<1>4. i * S + d \in UInt
  <2>1. i * S + d <= n * S /\ n * S \in Nat
    BY <1>1, <1>2, <1>3
  <2>2. i * S + d < Modulus /\ i * S + d \in Nat
    <3>1. R + n < Modulus
      BY <1>1, Widths
    <3> QED BY <3>1, <2>1, <1>1, <1>2, <1>3, Widths
  <2> QED BY <2>2, Widths
<1>5. (i * S + d) % Modulus = i * S + d
  BY <1>4, Conversions
<1> QED BY <1>5 DEF KeyAt, S

\* The round after the step is out of range, even where j is negative again.
LEMMA EndNarrow ==
  ASSUME NEW r \in Request, r.range_begin = 0, r.range_end < Half,
         NEW i \in 0 .. r.num_threads - 1
  PROVE  StepOf(r) + 1 \in UInt /\ ~InRange(r, i, StepOf(r) + 1)
<1> DEFINE R == r.range_end
           n == r.num_threads
           S == StepOf(r)
<1>1. /\ R \in Nat /\ R < Half /\ n \in Nat /\ 0 < n /\ n < Half /\ S \in 0 .. R
      /\ n * S < R + n
  <2>1. S \in 0 .. R /\ n * S < R + n
    BY StepNarrow
  <2>2. R \in Nat /\ R < Half /\ n \in Nat /\ n > 0 /\ n < Half
    BY Arguments
  <2> QED BY <2>1, <2>2
<1> HIDE DEF R, n, S
<1>2. S + 1 \in UInt
  BY <1>1, Conversions DEF UInt
<1>3. CASE S + 1 < Half
  <2>1. ToInt(S + 1) = S + 1 /\ ~(S + 1 <= S)
    BY <1>1, <1>3 DEF ToInt
  <2> QED BY <1>2, <2>1 DEF InRange, HasNext, S
<1>4. CASE S + 1 = Half
  <2>1. n = 1
    <3>1. CASE n >= 2
      <4>1. n * S = S + (n - 1) * S /\ S = R
        BY <1>1, <1>4, Conversions
      <4>2. (n - 1) * S < n
        BY <4>1, <1>1
      <4>3. (n - 1) * S >= (n - 1) * 2
        <5>1. S >= 2
          BY <3>1, <1>1, <1>4, Conversions
        <5> QED BY <5>1, <3>1, <1>1
      <4> QED BY <4>2, <4>3, <3>1, <1>1
    <3> QED BY <3>1, <1>1
  <2>2. i = 0
    BY <2>1 DEF n
  <2>3. ToInt(S + 1) = -Half
    BY <1>4, Conversions DEF ToInt
  <2>4. i * S + (-Half) = -Half
    BY <2>2, <1>1, Conversions
  <2>5. (-Half) % Modulus = Half
    BY Conversions
  <2>6. KeyAt(r, i, ToInt(S + 1)) = Half /\ ~(Half <= R)
    BY <2>3, <2>4, <2>5, <1>1, Conversions DEF KeyAt, S
  <2> QED BY <2>6, <1>2 DEF InRange, HasNext, R, S
<1> QED BY <1>1, <1>2, <1>3, <1>4, Conversions DEF S

-----------------------------------------------------------------------------
(* The invariant.                                                          *)

\* The generators start in round 0.
LEMMA SplitInitInv == SplitInit => SplitInv
<1> SUFFICES ASSUME SplitInit PROVE SplitInv
  OBVIOUS
<1>1. 0 \in -Half .. Half - 1 /\ 0 % Modulus = 0
  BY Conversions
<1>2. SplitTypeOK
  BY <1>1, RequestsAssumption DEF SplitInit, SplitTypeOK
<1>3. ASSUME NEW i \in Worker PROVE WorkerInv(i)
  <2>1. Round(i) = 0 /\ yielded[i] = {}
    BY <1>1 DEF SplitInit, Round
  <2>2. 0 .. 0 - 1 = {}
    OBVIOUS
  <2> QED BY <2>1, <2>2 DEF WorkerInv
<1> QED BY <1>2, <1>3 DEF SplitInv

\* next() of one generator leaves the others alone and keeps the types.
LEMMA TakeType ==
  ASSUME SplitTypeOK, NEW i \in Worker, Take(i)
  PROVE  SplitTypeOK'
<1>1. req \in Request /\ j[i] \in -Half .. Half - 1 /\ i \in Nat /\ Worker' = Worker
  BY DEF SplitTypeOK, Worker, Take
<1>2. Incremented(j[i]) \in -Half .. Half - 1
  BY <1>1, NextRound
<1>3. KeyAt(req, i, j[i]) \in UInt
  BY <1>1, StepType
<1>4. j' \in [Worker -> -Half .. Half - 1]
  BY <1>2 DEF SplitTypeOK, Take
<1>5. yielded' \in [Worker -> SUBSET UInt]
  BY <1>3 DEF SplitTypeOK, Take
<1> QED BY <1>1, <1>4, <1>5 DEF SplitTypeOK, Take

\* next() goes on to the next round, having yielded the key of this one.
LEMMA TakeInv ==
  ASSUME SplitInv, NEW i \in Worker, Take(i)
  PROVE  SplitInv'
<1>1. SplitTypeOK /\ SplitTypeOK' /\ req' = req /\ Worker' = Worker
  BY TakeType DEF SplitInv, Take, Worker
<1>2. /\ j[i] \in -Half .. Half - 1
      /\ j'[i] = Incremented(j[i])
      /\ yielded'[i] = yielded[i] \cup {KeyAt(req, i, j[i])}
      /\ \A d \in Worker \ {i} : j'[d] = j[d] /\ yielded'[d] = yielded[d]
  BY DEF SplitInv, SplitTypeOK, Take
<1>3. ASSUME NEW d \in Worker PROVE WorkerInv(d)'
  <2>1. CASE d # i
    BY <2>1, <1>1, <1>2 DEF SplitInv, WorkerInv, Round
  <2>2. CASE d = i
    <3> DEFINE m == j[i] % Modulus
    <3>1. m \in UInt /\ ToInt(m) = j[i]
      BY <1>2, Conversions
    <3>2. InRange(req, i, m)
      BY <3>1 DEF InRange, Take
    <3>3. CASE \A l \in UInt : InRange(req, i, l)
      BY <3>3, <2>2, <1>1 DEF WorkerInv
    <3>4. CASE /\ \A l \in 0 .. m - 1 : InRange(req, i, l)
               /\ yielded[i] = { KeyAt(req, i, ToInt(l)) : l \in 0 .. m - 1 }
      <4>1. CASE m = Modulus - 1
        <5>1. \A l \in UInt : InRange(req, i, l)
          <6>1. UInt = (0 .. m - 1) \cup {m}
            BY <4>1, Widths
          <6> QED BY <6>1, <3>2, <3>4
        <5> QED BY <5>1, <2>2, <1>1 DEF WorkerInv
      <4>2. CASE m # Modulus - 1
        <5>1. j'[i] % Modulus = m + 1
          BY <4>2, <1>2, NextRound
        <5> HIDE DEF m
        <5>2. 0 .. (m + 1) - 1 = (0 .. m - 1) \cup {m}
          BY <3>1, Widths
        <5>3. \A l \in 0 .. (m + 1) - 1 : InRange(req, i, l)
          BY <5>2, <3>2, <3>4
        <5>4. yielded'[i] = { KeyAt(req, i, ToInt(l)) : l \in 0 .. (m + 1) - 1 }
          BY <5>2, <3>1, <3>4, <1>2
        <5> QED BY <5>1, <5>3, <5>4, <2>2, <1>1 DEF WorkerInv, Round
      <4> QED BY <4>1, <4>2
    <3> QED BY <3>3, <3>4 DEF SplitInv, WorkerInv, Round
  <2> QED BY <2>1, <2>2
<1> QED BY <1>1, <1>3 DEF SplitInv

(* The invariant of the two generators' loops.                             *)
THEOREM SplitInvariant == SplitSpec => []SplitInv
<1>1. SplitInit => SplitInv
  BY SplitInitInv
<1>2. SplitInv /\ [SplitNext]_splitVars => SplitInv'
  <2> SUFFICES ASSUME SplitInv, [SplitNext]_splitVars PROVE SplitInv'
    OBVIOUS
  <2>1. CASE SplitNext
    BY <2>1, TakeInv DEF SplitNext
  <2>2. CASE UNCHANGED splitVars
    BY <2>2 DEF splitVars, SplitInv, SplitTypeOK, Worker, WorkerInv, Round
  <2> QED BY <2>1, <2>2
<1> QED BY <1>1, <1>2, PTL DEF SplitSpec

-----------------------------------------------------------------------------
(* The type invariant: counters stay ints and keys uint32_t, whatever the  *)
(* arguments of the call are.                                              *)
THEOREM SplitTypeCorrect == SplitSpec => []SplitTypeOK
<1>1. SplitInv => SplitTypeOK
  BY DEF SplitInv
<1> QED BY <1>1, SplitInvariant, PTL

\* An exhausted generator is in the first round that is out of range.
LEMMA ExhaustedAgrees ==
  ASSUME SplitInv, NEW i \in Worker, Exhausted(i)
  PROVE  yielded[i] = EagerKeys(req, i)
<1> DEFINE m == Round(i)
<1>1. m \in UInt /\ ToInt(m) = j[i]
  BY Conversions DEF SplitInv, SplitTypeOK, Round
<1>2. ~InRange(req, i, m)
  BY <1>1 DEF Exhausted, InRange
<1>3. /\ \A l \in 0 .. m - 1 : InRange(req, i, l)
      /\ yielded[i] = { KeyAt(req, i, ToInt(l)) : l \in 0 .. m - 1 }
  BY <1>1, <1>2 DEF SplitInv, WorkerInv
<1> HIDE DEF m
<1>4. 0 .. m - 1 = { n \in UInt : \A l \in 0 .. n : InRange(req, i, l) }
  <2>1. ASSUME NEW n \in UInt
        PROVE  n \in 0 .. m - 1 <=> \A l \in 0 .. n : InRange(req, i, l)
    BY <1>1, <1>2, <1>3, Conversions DEF UInt
  <2>2. 0 .. m - 1 \subseteq UInt
    BY <1>1, Conversions DEF UInt
  <2> QED BY <2>1, <2>2
<1>5. EagerKeys(req, i) =
        { KeyAt(req, i, ToInt(l)) : l \in { n \in UInt : \A l \in 0 .. n : InRange(req, i, l) } }
  BY DEF EagerKeys, InRange, HasNext
<1> QED BY <1>3, <1>4, <1>5

(* EagerAgrees: DecryptorSequence yields what prepare_functions lists, at  *)
(* every width and for all arguments of the call.                          *)
THEOREM EagerAgreesHolds == SplitSpec => []EagerAgrees
<1>1. SplitInv => EagerAgrees
  BY ExhaustedAgrees DEF EagerAgrees
<1> QED BY <1>1, SplitInvariant, PTL

\* Where the split is right, the keys of a unit are consecutive from the
\* first one of its part on, and end with the first one of the next.
LEMMA NarrowWorker ==
  ASSUME SplitInv, Narrow, NEW i \in Worker
  PROVE  /\ Round(i) \in 0 .. StepOf(req) + 1 /\ ToInt(Round(i)) = j[i]
         /\ yielded[i] = { i * StepOf(req) + l : l \in 0 .. Round(i) - 1 }
<1> DEFINE m == Round(i)
           S == StepOf(req)
<1>0. /\ req \in Request /\ req.range_begin = 0 /\ req.range_end < Half
      /\ i \in 0 .. req.num_threads - 1
  BY DEF SplitInv, SplitTypeOK, Narrow, Worker
<1>1. m \in UInt /\ ToInt(m) = j[i]
  BY Conversions DEF SplitInv, SplitTypeOK, Round
<1>2. S + 1 \in UInt /\ ~InRange(req, i, S + 1)
  BY <1>0, EndNarrow
<1>3. S \in 0 .. req.range_end /\ req.range_end \in Nat
  BY <1>0, StepNarrow, Arguments
<1>4. /\ \A l \in 0 .. m - 1 : InRange(req, i, l)
      /\ yielded[i] = { KeyAt(req, i, ToInt(l)) : l \in 0 .. m - 1 }
  BY <1>2 DEF SplitInv, WorkerInv
<1>5. \A l \in 0 .. S : ToInt(l) = l /\ KeyAt(req, i, l) = i * S + l
  <2>1. ASSUME NEW l \in 0 .. S
        PROVE  ToInt(l) = l /\ KeyAt(req, i, l) = i * S + l
    <3>1. KeyAt(req, i, l) = i * S + l
      BY <1>0, KeyNarrow
    <3>2. l < Half
      BY <1>0, <1>3, Widths
    <3> QED BY <3>1, <3>2 DEF ToInt
  <2> QED BY <2>1
<1> HIDE DEF m, S
<1>6. m \in 0 .. S + 1 /\ S \in Nat
  <2>1. m \in Nat /\ S \in Nat
    BY <1>1, <1>3, Conversions DEF UInt
  <2>2. S + 1 \notin 0 .. m - 1
    BY <1>2, <1>4
  <2> QED BY <2>1, <2>2
<1>7. \A l \in 0 .. m - 1 : KeyAt(req, i, ToInt(l)) = i * S + l
  BY <1>5, <1>6
<1> QED BY <1>1, <1>4, <1>6, <1>7 DEF m, S

\* An exhausted generator has yielded its keys as far as the range goes.
LEMMA NarrowExhausted ==
  ASSUME SplitInv, Narrow, NEW i \in Worker, Exhausted(i),
         NEW d \in 0 .. StepOf(req), i * StepOf(req) + d <= req.range_end
  PROVE  i * StepOf(req) + d \in yielded[i]
<1> DEFINE m == Round(i)
           S == StepOf(req)
<1>1. /\ m \in 0 .. S + 1 /\ ToInt(m) = j[i]
      /\ yielded[i] = { i * S + l : l \in 0 .. m - 1 }
  BY NarrowWorker
<1>2. /\ req \in Request /\ req.range_begin = 0 /\ req.range_end < Half
      /\ i \in 0 .. req.num_threads - 1 /\ i \in Nat
      /\ S \in Nat /\ S < Half /\ req.range_end \in Nat
  <2>1. /\ req \in Request /\ req.range_begin = 0 /\ req.range_end < Half
        /\ i \in 0 .. req.num_threads - 1
    BY DEF SplitInv, SplitTypeOK, Narrow, Worker
  <2>2. S \in 0 .. req.range_end
    BY <2>1, StepNarrow
  <2>3. req.range_end \in Nat /\ req.num_threads \in Nat
    BY <2>1, Arguments
  <2> HIDE DEF S
  <2> QED BY <2>1, <2>2, <2>3, Widths
<1>3. d < m
  <2>1. SUFFICES ASSUME m <= d PROVE FALSE
    BY <1>1, <1>2
  <2>2. m \in 0 .. S /\ j[i] = m
    <3> HIDE DEF m, S
    <3>1. m \in 0 .. S
      BY <2>1, <1>1, <1>2 DEF S
    <3>2. m < Half
      BY <3>1, <1>2, Widths
    <3> QED BY <3>1, <3>2, <1>1 DEF ToInt
  <2>3. KeyAt(req, i, j[i]) = i * S + m
    BY <2>2, <1>2, KeyNarrow
  <2> HIDE DEF m, S
  <2>4. i * S + m <= i * S + d /\ i * S \in Nat
    BY <2>1, <2>2, <1>2
  <2>5. i * S + m <= req.range_end /\ j[i] <= S
    <3>1. i * S + d <= req.range_end
      BY DEF S
    <3> QED BY <3>1, <2>2, <2>4, <1>2 DEF S
  <2> QED BY <2>3, <2>5 DEF Exhausted, HasNext, S
<1> QED BY <1>1, <1>2, <1>3

(* NoKeyMissed: for every range from 0 that an int can hold and any number *)
(* of units, the rounded up step and the inclusive bounds lose no key.     *)
THEOREM NoKeyMissedHolds == SplitSpec => []NoKeyMissed
<1>1. SplitInv => NoKeyMissed
  <2> SUFFICES ASSUME SplitInv, AllExhausted, Narrow, NEW v \in 0 .. req.range_end
               PROVE  v \in AllYielded
    BY DEF NoKeyMissed
  <2> DEFINE n == req.num_threads
             S == StepOf(req)
             R == req.range_end
  <2>1. /\ R \in Nat /\ n \in Nat /\ n > 0 /\ S \in 0 .. R /\ R <= n * S
        /\ R > 0 => S > 0
    <3>1. req \in Request /\ req.range_begin = 0 /\ req.range_end < Half
      BY DEF SplitInv, SplitTypeOK, Narrow
    <3>2. S \in 0 .. R /\ R <= n * S /\ (R > 0 => S > 0)
      BY <3>1, StepNarrow
    <3>3. R \in Nat /\ n \in Nat /\ n > 0
      BY <3>1, Arguments
    <3> QED BY <3>2, <3>3
  <2>2. \E i \in 0 .. n - 1, d \in 0 .. S : v = i * S + d
    <3> HIDE DEF n, S, R
    <3>0. v \in Nat /\ v <= R
      BY <2>1 DEF R
    <3>1. CASE S = 0
      <4>1. R = 0 /\ v = 0 * S + 0 /\ 0 \in 0 .. n - 1 /\ 0 \in 0 .. S
        BY <3>0, <3>1, <2>1
      <4> QED BY <4>1
    <3>2. CASE S > 0
      <4> DEFINE q == v \div S
      <4>1. q \in Nat /\ S * q <= v /\ v < S * q + S /\ S \in Nat
        BY <3>0, <3>2, <2>1
      <4> HIDE DEF q
      <4>2. CASE q < n
        <5>1. q \in 0 .. n - 1 /\ v - q * S \in 0 .. S /\ v = q * S + (v - q * S)
          BY <4>1, <4>2, <3>0, <2>1
        <5> QED BY <5>1
      <4>3. CASE q >= n
        <5>1. n * S <= q * S /\ q * S = S * q
          BY <4>1, <4>3, <2>1
        <5>2. v = n * S /\ n * S = (n - 1) * S + S
          BY <5>1, <4>1, <3>0, <2>1
        <5>3. n - 1 \in 0 .. n - 1 /\ S \in 0 .. S
          BY <4>1, <2>1
        <5> QED BY <5>2, <5>3
      <4> QED BY <4>1, <4>2, <4>3, <2>1
    <3> QED BY <3>1, <3>2, <2>1
  <2>3. PICK i \in 0 .. n - 1, d \in 0 .. S : v = i * S + d
    BY <2>2
  <2>4. i \in Worker /\ v <= R /\ Exhausted(i)
    BY <2>1 DEF AllExhausted, Worker
  <2>5. v \in yielded[i]
    BY <2>3, <2>4, NarrowExhausted
  <2> QED BY <2>4, <2>5 DEF AllYielded
<1> QED BY <1>1, SplitInvariant, PTL

(* SharedOnlyAtBoundary: at every width two units test the same key only   *)
(* where one ends and the next begins.                                     *)
THEOREM SharedOnlyAtBoundaryHolds == SplitSpec => []SharedOnlyAtBoundary
<1>1. SplitInv => SharedOnlyAtBoundary
  <2> SUFFICES ASSUME SplitInv, Narrow, req.range_end > 0,
                      NEW i1 \in Worker, NEW i2 \in Worker, i1 < i2,
                      NEW v \in yielded[i1] \cap yielded[i2]
               PROVE  i2 = i1 + 1 /\ v = i2 * StepOf(req)
    BY DEF SharedOnlyAtBoundary
  <2> DEFINE S == StepOf(req)
  <2>1. S \in Nat /\ S > 0 /\ i1 \in Nat /\ i2 \in Nat
    <3>1. req \in Request /\ req.range_begin = 0 /\ req.range_end < Half
      BY DEF SplitInv, SplitTypeOK, Narrow
    <3>2. S \in 0 .. req.range_end /\ S > 0
      BY <3>1, StepNarrow
    <3>3. req.range_end \in Nat /\ req.num_threads \in Nat
      BY <3>1, Arguments
    <3> QED BY <3>2, <3>3 DEF Worker
  <2>2. PICK k1 \in 0 .. Round(i1) - 1 : v = i1 * S + k1
    BY NarrowWorker
  <2>3. PICK k2 \in 0 .. Round(i2) - 1 : v = i2 * S + k2
    BY NarrowWorker
  <2>4. k1 \in Nat /\ k1 <= S /\ k2 \in Nat
    <3>1. Round(i1) \in 0 .. S + 1 /\ Round(i2) \in 0 .. S + 1
      BY NarrowWorker
    <3> QED BY <3>1, <2>1, <2>2, <2>3
  <2> HIDE DEF S
  <2>5. i1 * S \in Nat /\ i2 * S \in Nat /\ (i1 + 1) * S = i1 * S + S
    BY <2>1
  <2>6. i2 * S <= (i1 + 1) * S
    BY <2>2, <2>3, <2>4, <2>5, <2>1
  <2>7. i2 <= i1 + 1
    <3>1. SUFFICES ASSUME i2 >= i1 + 2 PROVE FALSE
      BY <2>1
    <3>2. i2 * S >= (i1 + 2) * S /\ (i1 + 2) * S = (i1 + 1) * S + S
      BY <3>1, <2>1
    <3> QED BY <3>2, <2>1, <2>5, <2>6
  <2>8. i2 = i1 + 1
    BY <2>7, <2>1
  <2>9. v = i2 * S
    BY <2>8, <2>2, <2>3, <2>4, <2>5, <2>1
  <2> QED BY <2>8, <2>9 DEF S
<1> QED BY <1>1, SplitInvariant, PTL

-----------------------------------------------------------------------------
(* Encryptor.  These are facts about the operators of Twofish first: what  *)
(* is computed are words and blocks, and each half of the cipher undoes    *)
(* the other.                                                              *)

(* Words.                                                                  *)

\* x ^= a; x ^= a leaves x as it was.
LEMMA XorCancels ==
  ASSUME NEW a, NEW b
  PROVE  Xor(Xor(a, b), b) = a
  BY DEF Xor

\* ^ of words is a word.
LEMMA XorType ==
  ASSUME NEW a \in Word, NEW b \in Word
  PROVE  Xor(a, b) \in Word
  BY DEF Xor, Word

\* The two rotations by one bit give words and undo each other.
LEMMA Rotations ==
  ASSUME NEW w \in Word
  PROVE  /\ Rol(w) \in Word /\ Ror(w) \in Word
         /\ Rol(Ror(w)) = w
         /\ Ror(Rol(w)) = w
<1>0. WordBits \in Nat /\ WordBits >= 4
  BY TwofishAssumption DEF TwofishAssumption, WordBits
<1>1. Rol(w) \in Word /\ Ror(w) \in Word
  BY DEF Rol, Ror, Word
<1>2. Rol(Ror(w)) = w
  <2>1. ASSUME NEW i \in Bit
        PROVE  i \in Rol(Ror(w)) <=> i \in w
    BY <1>0 DEF Rol, Ror, Bit
  <2>2. Rol(Ror(w)) \subseteq Bit /\ w \subseteq Bit
    BY DEF Rol, Word
  <2> QED  BY <2>1, <2>2
<1>3. Ror(Rol(w)) = w
  <2>1. ASSUME NEW i \in Bit
        PROVE  i \in Ror(Rol(w)) <=> i \in w
    BY <1>0 DEF Rol, Ror, Bit
  <2>2. Ror(Rol(w)) \subseteq Bit /\ w \subseteq Bit
    BY DEF Ror, Word
  <2> QED  BY <2>1, <2>2
<1> QED  BY <1>1, <1>2, <1>3

\* The sum of words is a word.
LEMMA PlusType ==
  ASSUME NEW a, NEW b
  PROVE  Plus(a, b) \in Word
  BY DEF Plus, Word

\* A byte of anything is a byte, also when the shift is too long.
LEMMA BnType ==
  ASSUME NEW w, NEW n, NEW sh
  PROVE  ByteOf(w, n) \in Byte /\ Bn(w, n, sh) \in Byte
  BY DEF Bn, ByteOf, Byte

\* g gives a word, whatever its input.
LEMMA GType ==
  ASSUME NEW sk \in Keys, NEW ws, NEW R, NEW sh
  PROVE  g(sk, ws, R, sh) \in Word
<1> DEFINE S(t) == SessionKey[sk].sbox[t][Bn(ws, R + t, sh)]
<1>1. ASSUME NEW t \in 0 .. 3
      PROVE  S(t) \in Word
  BY BnType, TwofishAssumption DEF TwofishAssumption
<1>2. S(0) \in Word /\ S(1) \in Word /\ S(2) \in Word /\ S(3) \in Word
  BY <1>1
<1> HIDE DEF S
<1>3. Xor(Xor(Xor(S(0), S(1)), S(2)), S(3)) \in Word
  BY <1>2, XorType
<1> QED  BY <1>3 DEF g, S

\* The subkeys are words.
LEMMA SubkeyType ==
  ASSUME NEW sk \in Keys, NEW n \in 0 .. 39
  PROVE  SessionKey[sk].skey[n] \in Word
  BY TwofishAssumption DEF TwofishAssumption

\* The results of the F function are words.
LEMMA FType ==
  ASSUME NEW sk, NEW ws, NEW y, NEW n, NEW sh
  PROVE  F0(sk, ws, y, n, sh) \in Word /\ F1(sk, ws, y, n, sh) \in Word
  BY PlusType DEF F0, F1

\* Four words, by their names and by their numbers.
LEMMA WordsOfType ==
  ASSUME NEW w0 \in Word, NEW w1 \in Word, NEW w2 \in Word, NEW w3 \in Word
  PROVE  /\ WordsOf(w0, w1, w2, w3) \in Words
         /\ WordsOf(w0, w1, w2, w3)[0] = w0
         /\ WordsOf(w0, w1, w2, w3)[1] = w1
         /\ WordsOf(w0, w1, w2, w3)[2] = w2
         /\ WordsOf(w0, w1, w2, w3)[3] = w3
<1> DEFINE ws == WordsOf(w0, w1, w2, w3)
<1>1. ws[0] = w0 /\ ws[1] = w1 /\ ws[2] = w2 /\ ws[3] = w3
  BY DEF WordsOf
<1>2. ws = [n \in 0 .. 3 |-> ws[n]]
  BY DEF WordsOf
<1>3. \A n \in 0 .. 3 : ws[n] \in Word
  BY <1>1
<1> HIDE DEF ws
<1>4. ws \in Words
  BY <1>2, <1>3 DEF Words
<1> QED  BY <1>1, <1>4 DEF ws

\* Words are the same if they are the same one by one.
LEMMA WordsEqual ==
  ASSUME NEW ws \in Words, NEW y \in Words,
         ws[0] = y[0], ws[1] = y[1], ws[2] = y[2], ws[3] = y[3]
  PROVE  ws = y
<1>1. \A n \in 0 .. 3 : ws[n] = y[n]
  OBVIOUS
<1> QED  BY <1>1 DEF Words

\* Words are what their own four words make.
LEMMA WordsOfOwn ==
  ASSUME NEW ws \in Words
  PROVE  WordsOf(ws[0], ws[1], ws[2], ws[3]) = ws
<1>1. ASSUME NEW n \in 0 .. 3
      PROVE  (CASE n = 0 -> ws[0] [] n = 1 -> ws[1] [] n = 2 -> ws[2] [] n = 3 -> ws[3]) = ws[n]
  <2>1. CASE n = 0  BY <2>1
  <2>2. CASE n = 1  BY <2>2
  <2>3. CASE n = 2  BY <2>3
  <2>4. CASE n = 3  BY <2>4
  <2> QED  BY <2>1, <2>2, <2>3, <2>4
<1> QED  BY <1>1 DEF WordsOf, Words

-----------------------------------------------------------------------------
(* A cycle of decrypt undoes a cycle of encrypt that began with subkey n,  *)
(* when it begins with the last of its four subkeys.                       *)
THEOREM CycleUndone ==
  ASSUME NEW sk \in Keys, NEW ws \in Words, NEW n \in Nat, NEW sh
  PROVE  /\ EncryptCycle(sk, ws, n, sh) \in Words
         /\ DecryptCycle(sk, EncryptCycle(sk, ws, n, sh), n + 3, sh) = ws
<1> DEFINE y2 == Ror(Xor(ws[2], F0(sk, ws[0], ws[1], n, sh)))
           y3 == Xor(Rol(ws[3]), F1(sk, ws[0], ws[1], n + 1, sh))
           y0 == Ror(Xor(ws[0], F0(sk, y2, y3, n + 2, sh)))
           y1 == Xor(Rol(ws[1]), F1(sk, y2, y3, n + 3, sh))
           y  == EncryptCycle(sk, ws, n, sh)
<1>0. ws[0] \in Word /\ ws[1] \in Word /\ ws[2] \in Word /\ ws[3] \in Word
  BY DEF Words
<1>1. y2 \in Word /\ y3 \in Word
  BY <1>0, FType, XorType, Rotations
<1>2. y0 \in Word /\ y1 \in Word
  BY <1>0, FType, XorType, Rotations
<1>3. y = WordsOf(y0, y1, y2, y3)
  BY DEF EncryptCycle
<1>4. y \in Words /\ y[0] = y0 /\ y[1] = y1 /\ y[2] = y2 /\ y[3] = y3
  <2> HIDE DEF y0, y1, y2, y3, y
  <2> QED  BY <1>1, <1>2, <1>3, WordsOfType
(* The half cycles are undone in the opposite order. *)
<1>5. Ror(Xor(y1, F1(sk, y2, y3, n + 3, sh))) = ws[1]
  BY <1>0, XorCancels, Rotations
<1>6. Xor(Rol(y0), F0(sk, y2, y3, n + 2, sh)) = ws[0]
  BY <1>0, FType, XorType, XorCancels, Rotations
<1>7. Ror(Xor(y3, F1(sk, ws[0], ws[1], n + 1, sh))) = ws[3]
  BY <1>0, XorCancels, Rotations
<1>8. Xor(Rol(y2), F0(sk, ws[0], ws[1], n, sh)) = ws[2]
  BY <1>0, FType, XorType, XorCancels, Rotations
<1>9. DecryptCycle(sk, y, n + 3, sh) = WordsOf(ws[0], ws[1], ws[2], ws[3])
  <2>1. n + 3 - 1 = n + 2 /\ n + 3 - 2 = n + 1 /\ n + 3 - 3 = n
    OBVIOUS
  <2> HIDE DEF y0, y1, y2, y3, y
  <2> QED  BY <1>4, <1>5, <1>6, <1>7, <1>8, <2>1 DEF DecryptCycle
<1>10. WordsOf(ws[0], ws[1], ws[2], ws[3]) = ws
  BY WordsOfOwn
<1> QED  BY <1>4, <1>9, <1>10

-----------------------------------------------------------------------------
(* Blocks.                                                                 *)

\* Byte m of a word put together from four bytes is the m-th of them.
LEMMA ByteOfWord ==
  ASSUME NEW b0 \in Byte, NEW b1 \in Byte, NEW b2 \in Byte, NEW b3 \in Byte
  PROVE  /\ Joined(b0, b1, b2, b3) \in Word
         /\ ByteOf(Joined(b0, b1, b2, b3), 0) = b0
         /\ ByteOf(Joined(b0, b1, b2, b3), 1) = b1
         /\ ByteOf(Joined(b0, b1, b2, b3), 2) = b2
         /\ ByteOf(Joined(b0, b1, b2, b3), 3) = b3
<1> DEFINE w == Joined(b0, b1, b2, b3)
<1>0. ByteBits \in Nat /\ ByteBits > 0
  BY TwofishAssumption DEF TwofishAssumption
<1>1. w \in Word
  BY DEF Joined, ShiftedByte, Word
<1>2. \A i : i \in w <=> /\ i \in 0 .. 4 * ByteBits - 1
                          /\ \/ i \in b0 \/ i - ByteBits \in b1
                             \/ i - 2 * ByteBits \in b2 \/ i - 3 * ByteBits \in b3
  BY <1>0 DEF Joined, ShiftedByte, Bit, WordBits
<1> HIDE DEF w
<1>3. ByteOf(w, 0) = b0
  <2>1. ASSUME NEW i \in 0 .. ByteBits - 1
        PROVE  i \in ByteOf(w, 0) <=> i \in b0
    BY <1>0, <1>2 DEF ByteOf, Byte
  <2> QED  BY <2>1 DEF ByteOf, Byte
<1>4. ByteOf(w, 1) = b1
  <2>1. ASSUME NEW i \in 0 .. ByteBits - 1
        PROVE  i \in ByteOf(w, 1) <=> i \in b1
    BY <1>0, <1>2 DEF ByteOf, Byte
  <2> QED  BY <2>1 DEF ByteOf, Byte
<1>5. ByteOf(w, 2) = b2
  <2>1. ASSUME NEW i \in 0 .. ByteBits - 1
        PROVE  i \in ByteOf(w, 2) <=> i \in b2
    BY <1>0, <1>2 DEF ByteOf, Byte
  <2> QED  BY <2>1 DEF ByteOf, Byte
<1>6. ByteOf(w, 3) = b3
  <2>1. ASSUME NEW i \in 0 .. ByteBits - 1
        PROVE  i \in ByteOf(w, 3) <=> i \in b3
    BY <1>0, <1>2 DEF ByteOf, Byte
  <2> QED  BY <2>1 DEF ByteOf, Byte
<1> QED  BY <1>1, <1>3, <1>4, <1>5, <1>6 DEF w

\* A word is put together from its own four bytes.
LEMMA WordOfBytes ==
  ASSUME NEW w \in Word
  PROVE  Joined(ByteOf(w, 0), ByteOf(w, 1), ByteOf(w, 2), ByteOf(w, 3)) = w
<1> DEFINE v == Joined(ByteOf(w, 0), ByteOf(w, 1), ByteOf(w, 2), ByteOf(w, 3))
<1>0. ByteBits \in Nat /\ ByteBits > 0
  BY TwofishAssumption DEF TwofishAssumption
<1>1. ASSUME NEW i \in 0 .. 4 * ByteBits - 1
      PROVE  i \in v <=> i \in w
  BY <1>0 DEF Joined, ShiftedByte, ByteOf, Bit, WordBits
<1>2. v \subseteq Bit /\ w \subseteq Bit
  BY DEF Joined, ShiftedByte, Word
<1> QED  BY <1>1, <1>2 DEF Bit, WordBits

\* The four words of a block, one by one.
LEMMA WordsAtType ==
  ASSUME NEW p \in Block
  PROVE  /\ WordsAt(p) \in Words
         /\ \A n \in 0 .. 3 : \A m \in 0 .. 3 : ByteOf(WordAt(p, n), m) = p[4 * n + m]
<1>1. ASSUME NEW n \in 0 .. 3
      PROVE  /\ WordAt(p, n) \in Word
             /\ ByteOf(WordAt(p, n), 0) = p[4 * n]
             /\ ByteOf(WordAt(p, n), 1) = p[4 * n + 1]
             /\ ByteOf(WordAt(p, n), 2) = p[4 * n + 2]
             /\ ByteOf(WordAt(p, n), 3) = p[4 * n + 3]
  <2>1. /\ p[4 * n] \in Byte /\ p[4 * n + 1] \in Byte
        /\ p[4 * n + 2] \in Byte /\ p[4 * n + 3] \in Byte
    BY DEF Block
  <2> QED  BY <2>1, ByteOfWord DEF WordAt
<1>2. ASSUME NEW n \in 0 .. 3, NEW m \in 0 .. 3
      PROVE  ByteOf(WordAt(p, n), m) = p[4 * n + m]
  <2>1. CASE m = 0  BY <1>1, <2>1
  <2>2. CASE m = 1  BY <1>1, <2>2
  <2>3. CASE m = 2  BY <1>1, <2>3
  <2>4. CASE m = 3  BY <1>1, <2>4
  <2> QED  BY <2>1, <2>2, <2>3, <2>4
<1> QED  BY <1>1, <1>2 DEF WordsAt, Words

\* Taking a block apart into words and putting it together again.
LEMMA BlockOfWords ==
  ASSUME NEW p \in Block
  PROVE  BlockOf(WordsAt(p)) = p
<1>1. ASSUME NEW l \in 0 .. 15
      PROVE  ByteOf(WordsAt(p)[l \div 4], l % 4) = p[l]
  <2>1. l \div 4 \in 0 .. 3 /\ l % 4 \in 0 .. 3 /\ 4 * (l \div 4) + (l % 4) = l
    OBVIOUS
  <2>2. WordsAt(p)[l \div 4] = WordAt(p, l \div 4)
    BY <2>1 DEF WordsAt
  <2> QED  BY <2>1, <2>2, WordsAtType
<1> QED  BY <1>1 DEF BlockOf, Block

\* Putting words together to a block and taking it apart again.
LEMMA WordsOfBlock ==
  ASSUME NEW ws \in Words
  PROVE  /\ BlockOf(ws) \in Block
         /\ WordsAt(BlockOf(ws)) = ws
<1>1. BlockOf(ws) \in Block
  BY BnType DEF BlockOf, Block
<1>2. ASSUME NEW n \in 0 .. 3
      PROVE  WordAt(BlockOf(ws), n) = ws[n]
  <2>1. \A m \in 0 .. 3 : BlockOf(ws)[4 * n + m] = ByteOf(ws[n], m)
    <3>1. \A m \in 0 .. 3 : /\ 4 * n + m \in 0 .. 15
                            /\ (4 * n + m) \div 4 = n
                            /\ (4 * n + m) % 4 = m
      OBVIOUS
    <3> QED  BY <3>1 DEF BlockOf
  <2>2. /\ BlockOf(ws)[4 * n] = ByteOf(ws[n], 0)
        /\ BlockOf(ws)[4 * n + 1] = ByteOf(ws[n], 1)
        /\ BlockOf(ws)[4 * n + 2] = ByteOf(ws[n], 2)
        /\ BlockOf(ws)[4 * n + 3] = ByteOf(ws[n], 3)
    BY <2>1
  <2>3. ws[n] \in Word
    BY DEF Words
  <2> QED  BY <2>2, <2>3, WordOfBytes DEF WordAt
<1> QED  BY <1>1, <1>2 DEF WordsAt, Words

\* Whitening gives words and undoes itself; so does the swap.
LEMMA WhitenedTwice ==
  ASSUME NEW sk \in Keys, NEW ws \in Words, NEW n \in {0, 4}
  PROVE  /\ Whitened(sk, ws, n) \in Words /\ Swapped(ws) \in Words
         /\ Whitened(sk, Whitened(sk, ws, n), n) = ws
         /\ Swapped(Swapped(ws)) = ws
<1>1. Whitened(sk, ws, n) \in Words
  <2>1. ASSUME NEW m \in 0 .. 3
        PROVE  Xor(ws[m], SessionKey[sk].skey[n + m]) \in Word
    BY SubkeyType, XorType DEF Words
  <2> QED  BY <2>1 DEF Whitened, Words
<1>2. Whitened(sk, Whitened(sk, ws, n), n) = ws
  <2>1. \A m \in 0 .. 3 : Xor(Xor(ws[m], SessionKey[sk].skey[n + m]),
                              SessionKey[sk].skey[n + m]) = ws[m]
    BY XorCancels
  <2> QED  BY <2>1 DEF Whitened, Words
<1>3. /\ Swapped(ws) \in Words
      /\ Swapped(ws)[0] = ws[2] /\ Swapped(ws)[1] = ws[3]
      /\ Swapped(ws)[2] = ws[0] /\ Swapped(ws)[3] = ws[1]
  BY WordsOfType DEF Swapped, Words
<1>4. /\ Swapped(Swapped(ws)) \in Words
      /\ Swapped(Swapped(ws))[0] = ws[0] /\ Swapped(Swapped(ws))[1] = ws[1]
      /\ Swapped(Swapped(ws))[2] = ws[2] /\ Swapped(Swapped(ws))[3] = ws[3]
  <2> DEFINE y == Swapped(ws)
  <2>1. y \in Words
    BY <1>3
  <2> HIDE DEF y
  <2>2. /\ Swapped(y) \in Words
        /\ Swapped(y)[0] = y[2] /\ Swapped(y)[1] = y[3]
        /\ Swapped(y)[2] = y[0] /\ Swapped(y)[3] = y[1]
    BY <2>1, WordsOfType DEF Swapped, Words
  <2> QED  BY <1>3, <2>2 DEF y
<1> QED  BY <1>1, <1>2, <1>3, <1>4, WordsEqual

(* What decrypt makes of the block that encrypt returned is what encrypt   *)
(* had after its last cycle; and it ends with the block encrypt was given. *)
THEOREM EndsUndone ==
  ASSUME NEW sk \in Keys, NEW p \in Block, NEW ws \in Words
  PROVE  /\ EncryptInput(sk, p) \in Words
         /\ EncryptOutput(sk, ws) \in Block
         /\ DecryptInput(sk, p) \in Words
         /\ DecryptOutput(sk, ws) \in Block
         /\ DecryptInput(sk, EncryptOutput(sk, ws)) = ws
         /\ DecryptOutput(sk, EncryptInput(sk, p)) = p
<1>1. WordsAt(p) \in Words
  BY WordsAtType
<1>2. EncryptInput(sk, p) \in Words /\ Whitened(sk, EncryptInput(sk, p), 0) = WordsAt(p)
  BY <1>1, WhitenedTwice DEF EncryptInput
<1>3. DecryptOutput(sk, EncryptInput(sk, p)) = p
  BY <1>2, BlockOfWords DEF DecryptOutput
<1>4. Swapped(ws) \in Words /\ Whitened(sk, Swapped(ws), 4) \in Words
  BY WhitenedTwice
<1>5. /\ EncryptOutput(sk, ws) \in Block
      /\ WordsAt(EncryptOutput(sk, ws)) = Whitened(sk, Swapped(ws), 4)
  BY <1>4, WordsOfBlock DEF EncryptOutput
<1>6. DecryptInput(sk, EncryptOutput(sk, ws)) = ws
  BY <1>4, <1>5, WhitenedTwice DEF DecryptInput
<1>7. DecryptInput(sk, p) \in Words /\ DecryptOutput(sk, ws) \in Block
  BY <1>1, WhitenedTwice, WordsOfBlock DEF DecryptInput, DecryptOutput
<1> QED  BY <1>2, <1>3, <1>5, <1>6, <1>7

-----------------------------------------------------------------------------
(* Vectors.                                                                *)

\* A string grows to whole blocks, by at least one zero.
LEMMA PaddedFacts ==
  ASSUME NEW s \in Seq(Byte)
  PROVE  /\ PaddedSize(Len(s)) \in Nat
         /\ PaddedSize(Len(s)) % 16 = 0
         /\ PaddedSize(Len(s)) > Len(s)
         /\ Padded(s) \in Seq(Byte)
         /\ Len(Padded(s)) = PaddedSize(Len(s))
         /\ \A l \in 1 .. PaddedSize(Len(s)) :
                Padded(s)[l] = IF l <= Len(s) THEN s[l] ELSE {}
<1>0. Len(s) \in Nat
  OBVIOUS
<1>1. /\ PaddedSize(Len(s)) \in Nat
      /\ PaddedSize(Len(s)) % 16 = 0
      /\ PaddedSize(Len(s)) > Len(s)
  BY <1>0 DEF PaddedSize, BlockSize
<1>2. \A l \in 1 .. PaddedSize(Len(s)) : (IF l <= Len(s) THEN s[l] ELSE {}) \in Byte
  BY <1>0, <1>1, ElementOfSeq DEF Byte
<1>3. Padded(s) \in Seq(Byte)
  <2> DEFINE size == PaddedSize(Len(s))
             e(l) == IF l <= Len(s) THEN s[l] ELSE {}
  <2>1. size \in Nat /\ (\A l \in 1 .. size : e(l) \in Byte)
    BY <1>1, <1>2
  <2>2. Padded(s) = [l \in 1 .. size |-> e(l)]
    BY DEF Padded
  <2> HIDE DEF size, e
  <2> QED  BY <2>1, <2>2
<1>4. /\ Len(Padded(s)) = PaddedSize(Len(s))
      /\ \A l \in 1 .. PaddedSize(Len(s)) :
             Padded(s)[l] = IF l <= Len(s) THEN s[l] ELSE {}
  BY <1>1 DEF Padded
<1> QED  BY <1>1, <1>3, <1>4

\* A fresh vector is a vector of bytes.
LEMMA ZerosType ==
  ASSUME NEW n \in Nat
  PROVE  Zeros(n) \in Seq(Byte) /\ Len(Zeros(n)) = n
  BY DEF Zeros, Byte

\* Sixteen bytes of a vector are a block.
LEMMA BlockAtType ==
  ASSUME NEW v \in Seq(Byte), NEW o \in Nat, o + 16 <= Len(v)
  PROVE  BlockAt(v, o) \in Block
<1>1. \A l \in 0 .. 15 : v[o + l + 1] \in Byte
  BY ElementOfSeq
<1> QED  BY <1>1 DEF BlockAt, BlockSize, Block

\* Storing a block changes the bytes of this block only.
LEMMA WithBlockFacts ==
  ASSUME NEW v \in Seq(Byte), NEW o \in Nat, NEW b \in Block, o + 16 <= Len(v)
  PROVE  /\ WithBlock(v, o, b) \in Seq(Byte)
         /\ Len(WithBlock(v, o, b)) = Len(v)
         /\ \A l \in 1 .. o : WithBlock(v, o, b)[l] = v[l]
         /\ BlockAt(WithBlock(v, o, b), o) = b
         /\ \A q \in Nat : q + 16 <= o => BlockAt(WithBlock(v, o, b), q) = BlockAt(v, q)
<1> DEFINE w == WithBlock(v, o, b)
<1>0. Len(v) \in Nat
  OBVIOUS
<1>1. \A l \in 1 .. Len(v) :
          (IF l \in o + 1 .. o + BlockSize THEN b[l - o - 1] ELSE v[l]) \in Byte
  BY ElementOfSeq DEF BlockSize, Block
<1>2. w \in Seq(Byte) /\ Len(w) = Len(v)
  BY <1>0, <1>1 DEF WithBlock
<1>3. \A l \in 1 .. Len(v) : w[l] = IF l \in o + 1 .. o + 16 THEN b[l - o - 1] ELSE v[l]
  BY DEF WithBlock, BlockSize
<1> HIDE DEF w
<1>4. \A l \in 1 .. o : w[l] = v[l]
  BY <1>0, <1>3
<1>5. BlockAt(w, o) = b
  <2>1. \A l \in 0 .. 15 : w[o + l + 1] = b[l]
    BY <1>0, <1>3
  <2>2. b = [l \in 0 .. 15 |-> b[l]]
    BY DEF Block
  <2>3. BlockSize - 1 = 15
    BY DEF BlockSize
  <2> QED  BY <2>1, <2>2, <2>3 DEF BlockAt
<1>6. ASSUME NEW q \in Nat, q + 16 <= o
      PROVE  BlockAt(w, q) = BlockAt(v, q)
  <2>1. ASSUME NEW l \in 0 .. 15
        PROVE  w[q + l + 1] = v[q + l + 1]
    <3>1. q + l + 1 \in 1 .. o
      BY <1>6
    <3> QED  BY <1>4, <3>1
  <2> QED  BY <2>1 DEF BlockAt, BlockSize
<1> QED  BY <1>2, <1>4, <1>5, <1>6 DEF w

\* A set of positions of a string is finite and no larger than the string.
LEMMA PositionCount ==
  ASSUME NEW n \in Nat, NEW T \in SUBSET (1 .. n)
  PROVE  Cardinality(T) \in Nat /\ Cardinality(T) <= n
<1>1. IsFiniteSet(1 .. n) /\ Cardinality(1 .. n) = IF 1 > n THEN 0 ELSE n - 1 + 1
  <2>1. 1 \in Int /\ n \in Int
    OBVIOUS
  <2> QED  BY <2>1, FS_Interval
<1>2. IsFiniteSet(T) /\ Cardinality(T) <= Cardinality(1 .. n)
  BY <1>1, FS_Subset
<1>3. Cardinality(T) \in Nat
  BY <1>2, FS_CardinalityType
<1> QED  BY <1>1, <1>2, <1>3

\* The cut gives bytes.
LEMMA UpToZeroType ==
  ASSUME NEW s \in Seq(Byte)
  PROVE  UpToZero(s) \in Seq(Byte)
<1> DEFINE K == {n \in 1 .. Len(s) : \A l \in 1 .. n : s[l] # {}}
           c == Cardinality(K)
<1>1. Len(s) \in Nat /\ K \in SUBSET (1 .. Len(s))
  OBVIOUS
<1>2. c \in Nat /\ c <= Len(s)
  BY <1>1, PositionCount
<1> HIDE DEF c
<1>3. \A i \in 1 .. c : s[i] \in Byte
  BY <1>1, <1>2, ElementOfSeq
<1>4. SubSeq(s, 1, c) \in Seq(Byte)
  BY <1>2, <1>3, SubSeqProperties
<1> QED  BY <1>4 DEF UpToZero, c

\* The cut undoes the padding.
LEMMA CutOfPadded ==
  ASSUME NEW s \in Seq(Byte)
  PROVE  UpToZero(Padded(s)) = UpToZero(s)
<1> DEFINE v == Padded(s)
           K(r) == {n \in 1 .. Len(r) : \A l \in 1 .. n : r[l] # {}}
           c == Cardinality(K(s))
<1>0. /\ Len(s) \in Nat /\ Len(v) \in Nat /\ Len(v) > Len(s)
      /\ v \in Seq(Byte)
      /\ \A l \in 1 .. Len(v) : v[l] = IF l <= Len(s) THEN s[l] ELSE {}
  BY PaddedFacts
<1> HIDE DEF v
<1>1. ASSUME NEW n \in Nat
      PROVE  n \in K(v) <=> n \in K(s)
  <2>1. CASE n <= Len(s)
    <3>1. \A l \in 1 .. n : v[l] = s[l]
      BY <1>0, <2>1
    <3>2. n \in 1 .. Len(v) <=> n \in 1 .. Len(s)
      BY <1>0, <2>1
    <3> QED  BY <3>1, <3>2
  <2>2. CASE n > Len(s)
    <3>1. n \in K(v) => v[Len(s) + 1] # {}
      BY <1>0, <2>2
    <3>2. v[Len(s) + 1] = {}
      BY <1>0
    <3>3. n \notin K(v)
      BY <3>1, <3>2
    <3>4. n \notin K(s)
      BY <1>0, <2>2
    <3> QED  BY <3>3, <3>4
  <2>3. n <= Len(s) \/ n > Len(s)
    BY <1>0
  <2> HIDE DEF K
  <2> QED  BY <2>1, <2>2, <2>3
<1>2. K(v) = K(s)
  <2>1. K(v) \subseteq Nat /\ K(s) \subseteq Nat
    BY <1>0
  <2> QED  BY <1>1, <2>1
<1>3. c \in Nat /\ c <= Len(s)
  <2>1. K(s) \in SUBSET (1 .. Len(s))
    OBVIOUS
  <2> QED  BY <1>0, <2>1, PositionCount
<1> HIDE DEF c
<1>4. \A i \in 1 .. c : v[i] = s[i] /\ s[i] \in Byte
  BY <1>0, <1>3, ElementOfSeq
<1>5. /\ SubSeq(s, 1, c) \in Seq(Byte)
      /\ Len(SubSeq(s, 1, c)) = c
      /\ \A i \in 1 .. c : SubSeq(s, 1, c)[i] = s[i]
  BY <1>3, <1>4, SubSeqProperties
<1>6. /\ SubSeq(v, 1, c) \in Seq(Byte)
      /\ Len(SubSeq(v, 1, c)) = c
      /\ \A i \in 1 .. c : SubSeq(v, 1, c)[i] = v[i]
  BY <1>3, <1>4, SubSeqProperties
<1>7. SubSeq(v, 1, c) = SubSeq(s, 1, c)
  BY <1>4, <1>5, <1>6, SeqEqual
<1>8. UpToZero(s) = SubSeq(s, 1, c) /\ UpToZero(v) = SubSeq(v, 1, c)
  BY <1>2 DEF UpToZero, c
<1> QED  BY <1>7, <1>8 DEF v

-----------------------------------------------------------------------------
(* t[m] is what the cipher has of block p after m cycles of encrypt with   *)
(* key a in a build h, for the first n cycles.                             *)
Trail(a, h, t, p, n) ==
  /\ t[0] = EncryptInput(a, p)
  /\ \A m \in 0 .. n - 1 : t[m + 1] = EncryptCycle(a, t[m], 8 + 4 * m, h)

Trails == [0 .. 8 -> Words]

(* y is what the cipher has of block p after n cycles of encrypt.          *)
After(a, h, p, n, y) == \E t \in Trails : Trail(a, h, t, p, n) /\ t[n] = y

(* c is what encrypt makes of block p.                                     *)
Encrypts(a, h, p, c) ==
  \E t \in Trails : Trail(a, h, t, p, 8) /\ c = EncryptOutput(a, t[8])

\* The first words of a trail.
LEMMA TrailBegins ==
  ASSUME NEW a \in Keys, NEW h, NEW p \in Block
  PROVE  After(a, h, p, 0, EncryptInput(a, p))
<1> DEFINE y == EncryptInput(a, p)
           t == [m \in 0 .. 8 |-> y]
<1>0. y \in Words
  <2>1. NoWords \in Words
    BY DEF NoWords, Words, Word
  <2> QED  BY <2>1, EndsUndone
<1> HIDE DEF y
<1>1. t \in Trails /\ t[0] = y
  BY <1>0 DEF Trails
<1>2. Trail(a, h, t, p, 0)
  BY <1>1 DEF Trail, y
<1> QED  BY <1>1, <1>2 DEF After, y

\* A cycle of decrypt gives words, whatever words it is given.
LEMMA DecryptCycleType ==
  ASSUME NEW a, NEW h, NEW n, NEW y,
         y[0] \in Word, y[1] \in Word, y[2] \in Word, y[3] \in Word
  PROVE  DecryptCycle(a, y, n, h) \in Words
<1> DEFINE y1 == Ror(Xor(y[1], F1(a, y[2], y[3], n, h)))
           y0 == Xor(Rol(y[0]), F0(a, y[2], y[3], n - 1, h))
           y3 == Ror(Xor(y[3], F1(a, y0, y1, n - 2, h)))
           y2 == Xor(Rol(y[2]), F0(a, y0, y1, n - 3, h))
<1>1. y1 \in Word /\ y0 \in Word
  BY FType, XorType, Rotations
<1>2. y3 \in Word /\ y2 \in Word
  BY FType, XorType, Rotations
<1>3. DecryptCycle(a, y, n, h) = WordsOf(y0, y1, y2, y3)
  BY DEF DecryptCycle
<1> HIDE DEF y0, y1, y2, y3
<1> QED  BY <1>1, <1>2, <1>3, WordsOfType

\* One cycle of encrypt makes a trail longer.
LEMMA TrailGoesOn ==
  ASSUME NEW a \in Keys, NEW h, NEW p, NEW n \in 0 .. 7,
         NEW w, After(a, h, p, n, w)
  PROVE  /\ EncryptCycle(a, w, 8 + 4 * n, h) \in Words
         /\ After(a, h, p, n + 1, EncryptCycle(a, w, 8 + 4 * n, h))
<1>0. PICK t \in Trails : Trail(a, h, t, p, n) /\ t[n] = w
  BY DEF After
<1> DEFINE y == EncryptCycle(a, t[n], 8 + 4 * n, h)
           r == [t EXCEPT ![n + 1] = y]
<1>1. y \in Words
  <2>1. t[n] \in Words /\ 8 + 4 * n \in Nat
    BY DEF Trails
  <2> QED  BY <2>1, CycleUndone
<1>2. r[n + 1] = y /\ (\A m \in 0 .. n : r[m] = t[m])
  BY DEF Trails
<1> HIDE DEF y
<1>3. r \in Trails
  BY <1>1 DEF Trails
<1> HIDE DEF r
<1>4. ASSUME NEW m \in 0 .. n
      PROVE  r[m + 1] = EncryptCycle(a, r[m], 8 + 4 * m, h)
  <2>1. CASE m = n
    BY <1>2, <2>1 DEF y
  <2>2. CASE m < n
    <3>1. m + 1 \in 0 .. n /\ m \in 0 .. n - 1
      BY <2>2
    <3> QED  BY <1>0, <1>2, <3>1 DEF Trail
  <2> QED  BY <2>1, <2>2
<1>5. Trail(a, h, r, p, n + 1)
  <2>1. n + 1 - 1 = n /\ 0 \in 0 .. n
    OBVIOUS
  <2> QED  BY <1>0, <1>2, <1>4, <2>1 DEF Trail
<1>6. After(a, h, p, n + 1, y)
  BY <1>2, <1>3, <1>5 DEF After
<1> QED  BY <1>0, <1>1, <1>6 DEF y

\* One cycle of decrypt goes one step back on a whole trail.
LEMMA TrailBack ==
  ASSUME NEW a \in Keys, NEW h, NEW p, NEW n \in 0 .. 7,
         NEW t \in Trails, Trail(a, h, t, p, 8)
  PROVE  DecryptCycle(a, t[8 - n], 39 - 4 * n, h) = t[8 - (n + 1)]
<1> DEFINE m == 7 - n
<1>1. /\ m \in 0 .. 7 /\ 8 + 4 * m \in Nat /\ 8 + 4 * m + 3 = 39 - 4 * n
      /\ m + 1 = 8 - n /\ m = 8 - (n + 1)
  OBVIOUS
<1> HIDE DEF m
<1>2. t[m] \in Words
  BY <1>1 DEF Trails
<1>3. t[m + 1] = EncryptCycle(a, t[m], 8 + 4 * m, h)
  BY <1>1 DEF Trail
<1>4. DecryptCycle(a, t[m + 1], 8 + 4 * m + 3, h) = t[m]
  BY <1>1, <1>2, <1>3, CycleUndone
<1> QED  BY <1>1, <1>4

\* What decrypt begins and ends with, of a block that encrypt has made.
LEMMA TrailEnds ==
  ASSUME NEW a \in Keys, NEW h, NEW p \in Block,
         NEW t \in Trails, Trail(a, h, t, p, 8)
  PROVE  /\ EncryptOutput(a, t[8]) \in Block
         /\ DecryptInput(a, EncryptOutput(a, t[8])) = t[8]
         /\ DecryptOutput(a, t[0]) = p
<1>1. t[8] \in Words /\ t[0] = EncryptInput(a, p)
  BY DEF Trails, Trail
<1> QED  BY <1>1, EndsUndone

size == PaddedSize(Len(to_encrypt))

Encrypting == pc \in {"encrypt", "encryptCycles"}
Decrypting == pc \in {"decrypt", "decryptCycles"}

(* Where the loops are in the vectors, and the cipher in its subkeys.      *)
PlaceInv ==
  /\ offset \in 0 .. size /\ offset % 16 = 0
  /\ pc = "pad" => offset = 0
  /\ pc # "pad" => to_encrypt_vector = Padded(to_encrypt) /\ Len(encrypted) = size
  /\ Decrypting => Len(decrypted) = size
  /\ pc \in {"encryptCycles", "decryptCycles"} => offset < size
  /\ pc = "encryptCycles" => k = 8 + 4 * cycle
  /\ pc = "decryptCycles" => k = 39 - 4 * cycle

(* The blocks that have been encrypted, and the one that is being.         *)
EncryptedInv ==
  /\ pc # "pad" =>
       \A o \in Nat : /\ o % 16 = 0 /\ o < size
                      /\ Encrypting => o < offset
                      => Encrypts(key, shift, BlockAt(to_encrypt_vector, o),
                                  BlockAt(encrypted, o))
  /\ pc = "encryptCycles" =>
       After(key, shift, BlockAt(to_encrypt_vector, offset), cycle, x)

(* The blocks that have been decrypted, and the one that is being: it goes *)
(* back along the trail of encrypt.                                        *)
DecryptedInv ==
  trial = key =>
    /\ Decrypting => \A l \in 1 .. offset : decrypted[l] = to_encrypt_vector[l]
    /\ pc = "decryptCycles" =>
         \E t \in Trails : /\ Trail(key, shift, t, BlockAt(to_encrypt_vector, offset), 8)
                           /\ x = t[8 - cycle]

Inv ==
  /\ TypeOK
  /\ PlaceInv
  /\ EncryptedInv
  /\ DecryptedInv
  /\ RoundTrip

-----------------------------------------------------------------------------
(* The number of bytes in whole blocks.                                    *)
LEMMA SizeFacts ==
  ASSUME TypeOK
  PROVE  /\ to_encrypt \in Seq(Byte)
         /\ size \in Nat /\ size % 16 = 0
         /\ Padded(to_encrypt) \in Seq(Byte) /\ Len(Padded(to_encrypt)) = size
<1>1. to_encrypt \in Seq(Byte)
  BY EncryptorAssumption DEF TypeOK, EncryptorAssumption
<1> QED  BY <1>1, PaddedFacts DEF size

(* A block that begins before the end of whole blocks ends there at last.  *)
LEMMA BlockFits ==
  ASSUME NEW n \in Nat, n % 16 = 0, NEW o \in Nat, o % 16 = 0, o < n
  PROVE  o + 16 <= n /\ (o + 16) % 16 = 0
  OBVIOUS

\* The invariant holds when the program starts.
LEMMA InitInv ==
  ASSUME Init
  PROVE  Inv
<1>1. TypeOK
  <2>1. <<>> \in Seq(Byte)
    BY EmptySeq
  <2>2. NoWords \in Words
    BY DEF NoWords, Words, Word
  <2> QED  BY <2>1, <2>2 DEF Init, TypeOK, PCs, CycleCount
<1> QED  BY <1>1, SizeFacts DEF Init, Inv, PlaceInv, EncryptedInv, DecryptedInv, RoundTrip,
              Encrypting, Decrypting

(* The preparation of the vector.                                          *)
LEMMA PadInv ==
  ASSUME Inv, Pad
  PROVE  Inv'
<1>0. TypeOK
  BY DEF Inv
<1>1. size' = size /\ to_encrypt' = to_encrypt
  BY DEF Pad, settings, size
<1>2. /\ to_encrypt_vector' = Padded(to_encrypt)
      /\ encrypted' = Zeros(size)
      /\ pc' = "encrypt" /\ offset' = 0 /\ offset = 0
  BY DEF Pad, size, Inv, PlaceInv
<1>3. /\ to_encrypt_vector' \in Seq(Byte)
      /\ encrypted' \in Seq(Byte) /\ Len(encrypted') = size
  BY <1>0, <1>2, SizeFacts, ZerosType
<1>4. TypeOK'
  BY <1>0, <1>2, <1>3 DEF TypeOK, Pad, settings, locals, PCs
<1>5. PlaceInv'
  BY <1>0, <1>1, <1>2, <1>3, SizeFacts DEF PlaceInv, Decrypting
<1>6. EncryptedInv' /\ DecryptedInv' /\ RoundTrip'
  BY <1>2 DEF EncryptedInv, DecryptedInv, RoundTrip, Encrypting, Decrypting
<1> QED  BY <1>4, <1>5, <1>6 DEF Inv

(* The steps of encrypt.                                                   *)
LEMMA EncryptBlockInv ==
  ASSUME Inv, EncryptBlock
  PROVE  Inv'
<1> DEFINE p == BlockAt(to_encrypt_vector, offset)
<1>0. TypeOK /\ PlaceInv /\ EncryptedInv
  BY DEF Inv
<1>1. /\ UNCHANGED <<key, trial, shift, to_encrypt, to_encrypt_vector, encrypted,
                     decrypted, output, offset>>
      /\ pc = "encrypt" /\ pc' = "encryptCycles" /\ cycle' = 0 /\ k' = 8
      /\ x' = EncryptInput(key, p)
  BY DEF EncryptBlock, settings, vectors
<1>2. offset \in Nat /\ offset < size /\ offset % 16 = 0 /\ size' = size
  BY <1>0, <1>1 DEF EncryptBlock, PlaceInv, TypeOK, size
<1>3. to_encrypt_vector = Padded(to_encrypt) /\ Len(encrypted) = size
  BY <1>0, <1>1 DEF PlaceInv
<1>4. p \in Block
  BY <1>0, <1>2, <1>3, SizeFacts, BlockFits, BlockAtType
<1>5. x' \in Words
  <2> HIDE DEF p
  <2>1. NoWords \in Words
    BY DEF NoWords, Words, Word
  <2> QED  BY <1>0, <1>1, <1>4, <2>1, EndsUndone DEF TypeOK
<1>6. TypeOK'
  BY <1>0, <1>1, <1>5 DEF TypeOK, PCs, CycleCount
<1>7. PlaceInv'
  BY <1>0, <1>1, <1>2, <1>3 DEF PlaceInv, Decrypting
<1>8. EncryptedInv'
  <2>1. \A o \in Nat : o % 16 = 0 /\ o < size /\ o < offset
            => Encrypts(key, shift, BlockAt(to_encrypt_vector, o), BlockAt(encrypted, o))
    BY <1>0, <1>1 DEF EncryptedInv, Encrypting
  <2>2. After(key, shift, p, 0, x')
    BY <1>0, <1>1, <1>4, TrailBegins DEF TypeOK
  <2> QED  BY <1>1, <1>2, <2>1, <2>2 DEF EncryptedInv, Encrypting
<1>9. DecryptedInv' /\ RoundTrip'
  BY <1>1 DEF DecryptedInv, RoundTrip, Decrypting
<1> QED  BY <1>6, <1>7, <1>8, <1>9 DEF Inv

\* A cycle makes the trail of the block longer.
LEMMA EncryptCycleInv ==
  ASSUME Inv, DoEncryptCycle
  PROVE  Inv'
<1> DEFINE p == BlockAt(to_encrypt_vector, offset)
<1>0. TypeOK /\ PlaceInv /\ EncryptedInv
  BY DEF Inv
<1>1. /\ UNCHANGED <<key, trial, shift, to_encrypt, to_encrypt_vector, encrypted,
                     decrypted, output, offset, pc>>
      /\ pc = "encryptCycles" /\ cycle \in 0 .. 7 /\ cycle' = cycle + 1 /\ k' = k + 4
      /\ x' = EncryptCycle(key, x, k, shift)
  BY <1>0 DEF DoEncryptCycle, settings, vectors, TypeOK, CycleCount
<1>2. k = 8 + 4 * cycle /\ size' = size
  BY <1>0, <1>1 DEF PlaceInv, size
<1>3. After(key, shift, p, cycle, x)
  BY <1>0, <1>1 DEF EncryptedInv
<1>4. x' \in Words /\ After(key, shift, p, cycle + 1, x')
  <2> HIDE DEF p
  <2>1. key \in Keys
    BY <1>0 DEF TypeOK
  <2> QED  BY <1>1, <1>2, <1>3, <2>1, TrailGoesOn
<1>5. TypeOK'
  BY <1>0, <1>1, <1>2, <1>4 DEF TypeOK, CycleCount
<1>6. PlaceInv'
  BY <1>0, <1>1, <1>2 DEF PlaceInv, Decrypting
<1>7. EncryptedInv'
  BY <1>0, <1>1, <1>2, <1>4 DEF EncryptedInv, Encrypting
<1>8. DecryptedInv' /\ RoundTrip'
  BY <1>1 DEF DecryptedInv, RoundTrip, Decrypting
<1> QED  BY <1>5, <1>6, <1>7, <1>8 DEF Inv

\* The block at offset is what encrypt makes of its plaintext from now on.
LEMMA StoreEncryptedInv ==
  ASSUME Inv, StoreEncrypted
  PROVE  Inv'
<1> DEFINE p == BlockAt(to_encrypt_vector, offset)
           c == EncryptOutput(key, x)
<1>0. TypeOK /\ PlaceInv /\ EncryptedInv
  BY DEF Inv
<1>1. /\ UNCHANGED <<key, trial, shift, to_encrypt, to_encrypt_vector,
                     decrypted, output, x, cycle, k>>
      /\ pc = "encryptCycles" /\ pc' = "encrypt" /\ cycle = 8
      /\ encrypted' = WithBlock(encrypted, offset, c) /\ offset' = offset + 16
  BY DEF StoreEncrypted, settings, locals, CycleCount, BlockSize
<1>2. /\ offset \in Nat /\ offset < size /\ offset % 16 = 0 /\ size' = size
      /\ size \in Nat /\ size % 16 = 0
  BY <1>0, <1>1, SizeFacts DEF PlaceInv, TypeOK, size
<1>3. to_encrypt_vector = Padded(to_encrypt) /\ Len(encrypted) = size
  BY <1>0, <1>1 DEF PlaceInv
<1>4. offset + 16 <= size /\ (offset + 16) % 16 = 0
  BY <1>2, BlockFits
<1>5. p \in Block
  BY <1>0, <1>2, <1>3, <1>4, SizeFacts, BlockAtType
<1>6. PICK t \in Trails : Trail(key, shift, t, p, 8) /\ x = t[8]
  BY <1>0, <1>1 DEF EncryptedInv, After
<1>7. c \in Block /\ Encrypts(key, shift, p, c)
  <2> HIDE DEF p
  <2>1. key \in Keys
    BY <1>0 DEF TypeOK
  <2> QED  BY <1>5, <1>6, <2>1, TrailEnds DEF Encrypts
<1> HIDE DEF c
<1>8. /\ encrypted' \in Seq(Byte) /\ Len(encrypted') = size
      /\ BlockAt(encrypted', offset) = c
      /\ \A o \in Nat : o + 16 <= offset => BlockAt(encrypted', o) = BlockAt(encrypted, o)
  <2>1. encrypted \in Seq(Byte) /\ offset + 16 <= Len(encrypted)
    BY <1>0, <1>3, <1>4 DEF TypeOK
  <2>2. /\ WithBlock(encrypted, offset, c) \in Seq(Byte)
        /\ Len(WithBlock(encrypted, offset, c)) = Len(encrypted)
        /\ BlockAt(WithBlock(encrypted, offset, c), offset) = c
        /\ \A o \in Nat : o + 16 <= offset =>
               BlockAt(WithBlock(encrypted, offset, c), o) = BlockAt(encrypted, o)
    BY <1>2, <1>7, <2>1, WithBlockFacts
  <2> QED  BY <1>1, <1>3, <2>2
<1>9. TypeOK'
  BY <1>0, <1>1, <1>2, <1>8 DEF TypeOK, PCs
<1>10. PlaceInv'
  BY <1>0, <1>1, <1>2, <1>3, <1>4, <1>8 DEF PlaceInv, Decrypting
<1>11. EncryptedInv'
  <2>1. ASSUME NEW o \in Nat, o % 16 = 0, o < size, o < offset + 16
        PROVE  Encrypts(key, shift, BlockAt(to_encrypt_vector, o), BlockAt(encrypted', o))
    <3>1. CASE o = offset
      BY <1>7, <1>8, <3>1
    <3>2. CASE o < offset
      <4>1. o + 16 <= offset
        BY <1>2, <2>1, <3>2, BlockFits
      <4>2. Encrypts(key, shift, BlockAt(to_encrypt_vector, o), BlockAt(encrypted, o))
        BY <1>0, <1>1, <2>1, <3>2 DEF EncryptedInv, Encrypting
      <4> QED  BY <1>8, <4>1, <4>2
    <3>3. o = offset \/ o < offset
      BY <1>2, <2>1
    <3> QED  BY <3>1, <3>2, <3>3
  <2> QED  BY <1>1, <1>2, <2>1 DEF EncryptedInv, Encrypting
<1>12. DecryptedInv' /\ RoundTrip'
  BY <1>1 DEF DecryptedInv, RoundTrip, Decrypting
<1> QED  BY <1>9, <1>10, <1>11, <1>12 DEF Inv

(* The steps of decrypt.                                                   *)
LEMMA BeginDecryptInv ==
  ASSUME Inv, BeginDecrypt
  PROVE  Inv'
<1>0. TypeOK /\ PlaceInv /\ EncryptedInv
  BY DEF Inv
<1>1. /\ UNCHANGED <<key, trial, shift, to_encrypt, to_encrypt_vector, encrypted,
                     output, x, cycle, k>>
      /\ pc = "encrypt" /\ pc' = "decrypt" /\ offset >= Len(encrypted) /\ offset' = 0
      /\ decrypted' = Zeros(Len(encrypted))
  BY DEF BeginDecrypt, settings, locals
<1>2. /\ Len(encrypted) = size /\ size \in Nat /\ size' = size /\ offset = size
      /\ to_encrypt_vector = Padded(to_encrypt)
  BY <1>0, <1>1, SizeFacts DEF PlaceInv, size
<1>3. decrypted' \in Seq(Byte) /\ Len(decrypted') = size
  BY <1>1, <1>2, ZerosType
<1>4. TypeOK'
  BY <1>0, <1>1, <1>3 DEF TypeOK, PCs
<1>5. PlaceInv'
  BY <1>1, <1>2, <1>3 DEF PlaceInv, Decrypting
<1>6. EncryptedInv'
  BY <1>0, <1>1, <1>2 DEF EncryptedInv, Encrypting
<1>7. DecryptedInv' /\ RoundTrip'
  BY <1>1 DEF DecryptedInv, RoundTrip, Decrypting
<1> QED  BY <1>4, <1>5, <1>6, <1>7 DEF Inv

\* With the right key, the words are the end of the trail of the block.
LEMMA DecryptBlockInv ==
  ASSUME Inv, DecryptBlock
  PROVE  Inv'
<1> DEFINE p == BlockAt(to_encrypt_vector, offset)
           c == BlockAt(encrypted, offset)
<1>0. TypeOK /\ PlaceInv /\ EncryptedInv /\ DecryptedInv
  BY DEF Inv
<1>1. /\ UNCHANGED <<key, trial, shift, to_encrypt, to_encrypt_vector, encrypted,
                     decrypted, output, offset>>
      /\ pc = "decrypt" /\ pc' = "decryptCycles" /\ cycle' = 0 /\ k' = 39
      /\ x' = DecryptInput(trial, c) /\ offset < Len(encrypted)
  BY DEF DecryptBlock, settings, vectors
<1>2. /\ offset \in Nat /\ offset < size /\ offset % 16 = 0 /\ size' = size
      /\ size \in Nat /\ size % 16 = 0
      /\ to_encrypt_vector = Padded(to_encrypt) /\ Len(encrypted) = size
  BY <1>0, <1>1, SizeFacts DEF PlaceInv, TypeOK, size
<1>3. offset + 16 <= size
  BY <1>2, BlockFits
<1>4. p \in Block /\ c \in Block
  BY <1>0, <1>2, <1>3, SizeFacts, BlockAtType DEF TypeOK
<1>5. Encrypts(key, shift, p, c)
  BY <1>0, <1>1, <1>2 DEF EncryptedInv, Encrypting
<1> HIDE DEF p, c
<1>6. x' \in Words
  <2>1. NoWords \in Words
    BY DEF NoWords, Words, Word
  <2> QED  BY <1>0, <1>1, <1>4, <2>1, EndsUndone DEF TypeOK
<1>7. trial = key => \E t \in Trails : Trail(key, shift, t, p, 8) /\ x' = t[8]
  <2> SUFFICES ASSUME trial = key
               PROVE  \E t \in Trails : Trail(key, shift, t, p, 8) /\ x' = t[8]
    OBVIOUS
  <2>1. PICK t \in Trails : Trail(key, shift, t, p, 8) /\ c = EncryptOutput(key, t[8])
    BY <1>5 DEF Encrypts
  <2>2. x' = t[8]
    BY <1>0, <1>1, <1>4, <2>1, TrailEnds DEF TypeOK
  <2> QED  BY <2>1, <2>2
<1>8. TypeOK'
  BY <1>0, <1>1, <1>6 DEF TypeOK, PCs, CycleCount
<1>9. PlaceInv'
  BY <1>0, <1>1, <1>2 DEF PlaceInv, Decrypting
<1>10. EncryptedInv'
  BY <1>0, <1>1, <1>2 DEF EncryptedInv, Encrypting
<1>11. DecryptedInv' /\ RoundTrip'
  BY <1>0, <1>1, <1>7 DEF DecryptedInv, RoundTrip, Decrypting, p
<1> QED  BY <1>8, <1>9, <1>10, <1>11 DEF Inv

\* With the right key, a cycle goes one step back on the trail.
LEMMA DecryptCycleInv ==
  ASSUME Inv, DoDecryptCycle
  PROVE  Inv'
<1> DEFINE p == BlockAt(to_encrypt_vector, offset)
<1>0. TypeOK /\ PlaceInv /\ EncryptedInv /\ DecryptedInv
  BY DEF Inv
<1>1. /\ UNCHANGED <<key, trial, shift, to_encrypt, to_encrypt_vector, encrypted,
                     decrypted, output, offset, pc>>
      /\ pc = "decryptCycles" /\ cycle \in 0 .. 7 /\ cycle' = cycle + 1 /\ k' = k - 4
      /\ x' = DecryptCycle(trial, x, k, shift)
  BY <1>0 DEF DoDecryptCycle, settings, vectors, TypeOK, CycleCount
<1>2. k = 39 - 4 * cycle /\ size' = size
  BY <1>0, <1>1 DEF PlaceInv, size
<1>3. x' \in Words
  <2>1. x[0] \in Word /\ x[1] \in Word /\ x[2] \in Word /\ x[3] \in Word
    BY <1>0 DEF TypeOK, Words
  <2> QED  BY <1>1, <2>1, DecryptCycleType
<1>4. trial = key =>
        \E t \in Trails : Trail(key, shift, t, p, 8) /\ x' = t[8 - (cycle + 1)]
  <2> SUFFICES ASSUME trial = key
               PROVE  \E t \in Trails : /\ Trail(key, shift, t, p, 8)
                                        /\ x' = t[8 - (cycle + 1)]
    OBVIOUS
  <2>1. PICK t \in Trails : Trail(key, shift, t, p, 8) /\ x = t[8 - cycle]
    BY <1>0, <1>1 DEF DecryptedInv
  <2>2. x' = t[8 - (cycle + 1)]
    <3> HIDE DEF p
    <3> QED  BY <1>0, <1>1, <1>2, <2>1, TrailBack DEF TypeOK
  <2> QED  BY <2>1, <2>2
<1>5. TypeOK'
  BY <1>0, <1>1, <1>2, <1>3 DEF TypeOK, CycleCount
<1>6. PlaceInv'
  BY <1>0, <1>1, <1>2 DEF PlaceInv, Decrypting
<1>7. EncryptedInv'
  BY <1>0, <1>1, <1>2 DEF EncryptedInv, Encrypting
<1>8. DecryptedInv' /\ RoundTrip'
  BY <1>0, <1>1, <1>4 DEF DecryptedInv, RoundTrip, Decrypting
<1> QED  BY <1>5, <1>6, <1>7, <1>8 DEF Inv

\* With the right key, the block is the plaintext again.
LEMMA StoreDecryptedInv ==
  ASSUME Inv, StoreDecrypted
  PROVE  Inv'
<1> DEFINE p == BlockAt(to_encrypt_vector, offset)
           b == DecryptOutput(trial, x)
<1>0. TypeOK /\ PlaceInv /\ EncryptedInv /\ DecryptedInv
  BY DEF Inv
<1>1. /\ UNCHANGED <<key, trial, shift, to_encrypt, to_encrypt_vector, encrypted,
                     output, x, cycle, k>>
      /\ pc = "decryptCycles" /\ pc' = "decrypt" /\ cycle = 8
      /\ decrypted' = WithBlock(decrypted, offset, b) /\ offset' = offset + 16
  BY DEF StoreDecrypted, settings, locals, CycleCount, BlockSize
<1>2. /\ offset \in Nat /\ offset < size /\ offset % 16 = 0 /\ size' = size
      /\ size \in Nat /\ size % 16 = 0
      /\ to_encrypt_vector = Padded(to_encrypt)
      /\ Len(encrypted) = size /\ Len(decrypted) = size
  BY <1>0, <1>1, SizeFacts DEF PlaceInv, TypeOK, size, Decrypting
<1>3. offset + 16 <= size /\ (offset + 16) % 16 = 0
  BY <1>2, BlockFits
<1>4. p \in Block
  BY <1>0, <1>2, <1>3, SizeFacts, BlockAtType
<1>5. b \in Block
  BY <1>0, <1>4, EndsUndone DEF TypeOK
<1>6. trial = key => b = p
  <2> SUFFICES ASSUME trial = key
               PROVE  b = p
    OBVIOUS
  <2>1. PICK t \in Trails : Trail(key, shift, t, p, 8) /\ x = t[8 - cycle]
    BY <1>0, <1>1 DEF DecryptedInv
  <2>2. x = t[0]
    BY <1>1, <2>1
  <2> HIDE DEF p
  <2> QED  BY <1>0, <1>4, <2>1, <2>2, TrailEnds DEF TypeOK
<1> HIDE DEF b
<1>7. /\ decrypted' \in Seq(Byte) /\ Len(decrypted') = size
      /\ \A l \in 1 .. offset : decrypted'[l] = decrypted[l]
      /\ BlockAt(decrypted', offset) = b
  <2>1. decrypted \in Seq(Byte) /\ offset + 16 <= Len(decrypted)
    BY <1>0, <1>2, <1>3 DEF TypeOK
  <2> QED  BY <1>1, <1>2, <1>5, <2>1, WithBlockFacts
<1>8. TypeOK'
  BY <1>0, <1>1, <1>2, <1>7 DEF TypeOK, PCs
<1>9. PlaceInv'
  BY <1>0, <1>1, <1>2, <1>3, <1>7 DEF PlaceInv, Decrypting
<1>10. EncryptedInv'
  BY <1>0, <1>1, <1>2 DEF EncryptedInv, Encrypting
<1>11. DecryptedInv'
  <2>1. ASSUME trial = key, NEW l \in 1 .. offset + 16
        PROVE  decrypted'[l] = to_encrypt_vector[l]
    <3>1. CASE l <= offset
      BY <1>0, <1>1, <1>2, <1>7, <2>1, <3>1 DEF DecryptedInv, Decrypting
    <3>2. CASE l > offset
      <4> DEFINE i == l - offset - 1
      <4>1. i \in 0 .. 15 /\ offset + i + 1 = l
        BY <1>2, <3>2
      <4> HIDE DEF i
      <4>2. BlockAt(decrypted', offset)[i] = p[i]
        BY <1>6, <1>7, <2>1
      <4>3. BlockAt(decrypted', offset)[i] = decrypted'[l] /\ p[i] = to_encrypt_vector[l]
        BY <4>1 DEF BlockAt, BlockSize
      <4> QED  BY <4>2, <4>3
    <3> QED  BY <1>2, <3>1, <3>2
  <2> QED  BY <1>1, <2>1 DEF DecryptedInv, Decrypting
<1>12. RoundTrip'
  BY <1>1 DEF RoundTrip
<1> QED  BY <1>8, <1>9, <1>10, <1>11, <1>12 DEF Inv

\* With the right key, the cut is that of the padded string.
LEMMA CutInv ==
  ASSUME Inv, Cut
  PROVE  Inv'
<1>0. TypeOK /\ PlaceInv /\ EncryptedInv /\ DecryptedInv
  BY DEF Inv
<1>1. /\ UNCHANGED <<key, trial, shift, to_encrypt, to_encrypt_vector, encrypted,
                     decrypted, offset, x, cycle, k>>
      /\ pc = "decrypt" /\ pc' = "done" /\ offset >= Len(encrypted)
      /\ output' = UpToZero(decrypted)
  BY DEF Cut, settings, locals
<1>2. /\ size \in Nat /\ size' = size /\ offset = size
      /\ to_encrypt_vector = Padded(to_encrypt)
      /\ Len(encrypted) = size /\ Len(decrypted) = size
  BY <1>0, <1>1, SizeFacts DEF PlaceInv, Decrypting, size
<1>3. TypeOK'
  BY <1>0, <1>1, UpToZeroType DEF TypeOK, PCs
<1>4. PlaceInv'
  BY <1>0, <1>1, <1>2 DEF PlaceInv, Decrypting
<1>5. EncryptedInv'
  BY <1>0, <1>1, <1>2 DEF EncryptedInv, Encrypting
<1>6. DecryptedInv'
  BY <1>1 DEF DecryptedInv, Decrypting
<1>7. RoundTrip'
  <2> SUFFICES ASSUME trial = key
               PROVE  UpToZero(decrypted) = UpToZero(to_encrypt)
    BY <1>1 DEF RoundTrip
  <2>1. \A l \in 1 .. size : decrypted[l] = to_encrypt_vector[l]
    BY <1>0, <1>1, <1>2 DEF DecryptedInv, Decrypting
  <2>2. decrypted = Padded(to_encrypt)
    BY <1>0, <1>2, <2>1, SizeFacts, SeqEqual DEF TypeOK
  <2> QED  BY <1>0, <2>2, SizeFacts, CutOfPadded
<1> QED  BY <1>3, <1>4, <1>5, <1>6, <1>7 DEF Inv

-----------------------------------------------------------------------------
(* The invariant, one action after the other.                              *)
THEOREM Invariant == Spec => []Inv
<1>1. Init => Inv
  BY InitInv
<1>2. Inv /\ [Next]_vars => Inv'
  <2> SUFFICES ASSUME Inv, [Next]_vars
               PROVE  Inv'
    OBVIOUS
  <2>1. CASE Pad             BY <2>1, PadInv
  <2>2. CASE EncryptBlock    BY <2>2, EncryptBlockInv
  <2>3. CASE DoEncryptCycle  BY <2>3, EncryptCycleInv
  <2>4. CASE StoreEncrypted  BY <2>4, StoreEncryptedInv
  <2>5. CASE BeginDecrypt    BY <2>5, BeginDecryptInv
  <2>6. CASE DecryptBlock    BY <2>6, DecryptBlockInv
  <2>7. CASE DoDecryptCycle  BY <2>7, DecryptCycleInv
  <2>8. CASE StoreDecrypted  BY <2>8, StoreDecryptedInv
  <2>9. CASE Cut             BY <2>9, CutInv
  <2>10. CASE UNCHANGED vars
    BY <2>10 DEF vars, settings, vectors, locals, Inv, TypeOK, PlaceInv, EncryptedInv,
                 DecryptedInv, RoundTrip, size, Encrypting, Decrypting
  <2> QED  BY <2>1, <2>2, <2>3, <2>4, <2>5, <2>6, <2>7, <2>8, <2>9, <2>10 DEF Next
<1> QED  BY <1>1, <1>2, PTL DEF Spec

(* Every variable has its type: the words stay words, and k the number of  *)
(* a subkey, or of the one after the last.                                 *)
THEOREM TypeCorrect == Spec => []TypeOK
<1>1. Inv => TypeOK
  BY DEF Inv
<1> QED  BY <1>1, Invariant, PTL

(* decrypt gives back what encrypt was given, up to the first zero byte.   *)
THEOREM RoundTripHolds == Spec => []RoundTrip
<1>1. Inv => RoundTrip
  BY DEF Inv
<1> QED  BY <1>1, Invariant, PTL

(* The loops over the blocks stay inside their vectors.                    *)
THEOREM BlocksInsideHolds == Spec => []BlocksInside
<1>1. Inv => BlocksInside
  <2> SUFFICES ASSUME Inv, pc \in {"encrypt", "decrypt"}, offset < Len(encrypted)
               PROVE  offset + 16 <= size /\ Len(to_encrypt_vector) = size /\ Len(encrypted) = size
    BY DEF BlocksInside, BlockSize
  <2>1. TypeOK /\ PlaceInv
    BY DEF Inv
  <2>2. /\ offset \in Nat /\ offset % 16 = 0 /\ Len(encrypted) = size
        /\ to_encrypt_vector = Padded(to_encrypt)
    BY <2>1 DEF PlaceInv, TypeOK
  <2> QED  BY <2>1, <2>2, SizeFacts, BlockFits
<1> QED  BY <1>1, Invariant, PTL

(* In a build that leaves the overlong shifts to the processor, g starting *)
(* with byte 3 is g of the rotated word: that build computes Twofish.      *)
THEOREM MaskedShiftRotates == Spec => [](shift = "masked" => RotatedInput)
<1>1. Inv => (shift = "masked" => RotatedInput)
  <2> SUFFICES ASSUME TypeOK, shift = "masked"
               PROVE  g(key, x[1], 3, shift) = g(key, RolByte(x[1]), 0, shift)
    BY DEF Inv, RotatedInput
  <2> DEFINE w == x[1]
             r == RolByte(w)
  <2>1. /\ ByteOf(r, 0) = ByteOf(w, 3) /\ ByteOf(r, 1) = ByteOf(w, 0)
        /\ ByteOf(r, 2) = ByteOf(w, 1) /\ ByteOf(r, 3) = ByteOf(w, 2)
    <3> DEFINE b0 == ByteOf(w, 3)
               b1 == ByteOf(w, 0)
               b2 == ByteOf(w, 1)
               b3 == ByteOf(w, 2)
    <3>1. b0 \in Byte /\ b1 \in Byte /\ b2 \in Byte /\ b3 \in Byte
      BY BnType
    <3>2. r = Joined(b0, b1, b2, b3)
      BY DEF RolByte
    <3> HIDE DEF b0, b1, b2, b3, r
    <3>3. ByteOf(r, 0) = b0 /\ ByteOf(r, 1) = b1 /\ ByteOf(r, 2) = b2 /\ ByteOf(r, 3) = b3
      BY <3>1, <3>2, ByteOfWord
    <3> QED  BY <3>3 DEF b0, b1, b2, b3
  <2> HIDE DEF w, r
  <2>2. /\ Bn(w, 3 + 0, shift) = ByteOf(w, 3) /\ Bn(w, 3 + 1, shift) = ByteOf(w, 0)
        /\ Bn(w, 3 + 2, shift) = ByteOf(w, 1) /\ Bn(w, 3 + 3, shift) = ByteOf(w, 2)
    BY DEF Bn
  <2>3. /\ Bn(r, 0 + 0, shift) = ByteOf(r, 0) /\ Bn(r, 0 + 1, shift) = ByteOf(r, 1)
        /\ Bn(r, 0 + 2, shift) = ByteOf(r, 2) /\ Bn(r, 0 + 3, shift) = ByteOf(r, 3)
    BY DEF Bn
  <2>4. g(key, w, 3, shift) = g(key, r, 0, shift)
    BY <2>1, <2>2, <2>3 DEF g
  <2> QED  BY <2>4 DEF w, r
<1> QED  BY <1>1, Invariant, PTL

-----------------------------------------------------------------------------
(* Lifecycle.  An interrupter is held by callables of one group only: the  *)
(* n-th callable added to a runner and the items of its list.              *)
GroupOf(r, n) == {units[r][n]} \cup ItemsOf(units[r][n])

Group(h) == GroupOf(h[1], h[2])

HolderInv ==
  /\ \A r \in Runner : state[r] = "none" => units[r] = <<>>
  /\ \A c \in Object : handler[c] # Null =>
       /\ handler[c][2] \in DOMAIN units[handler[c][1]]
       /\ c \in Group(handler[c])
       /\ Exists(c) => state[handler[c][1]] = "live"

LifeInv ==
  /\ LifeTypeOK
  /\ HolderInv
  /\ CounterExact

(* In a program that hands over each callable once, that interrupter is    *)
(* held by the whole group, and a deleted callable is one of a runner that *)
(* has been destroyed.                                                     *)
GroupInv ==
  /\ \A c \in Object : handler[c] # Null => c \in given
  /\ \A r \in Runner : \A n \in DOMAIN units[r] :
       units[r][n] \in given /\ handler[units[r][n]] = <<r, n>> /\ <<r, n>> \in Interrupter
  /\ \A m \in Multiple : \A c \in ItemsOf(m) : c \in given /\ handler[c] = handler[m]
  /\ \A m, o \in Multiple : m # o => ItemsOf(m) \cap ItemsOf(o) = {}

FreedInv ==
  \A c \in Object :
    freed[c] = 0 \/ (freed[c] = 1 /\ handler[c] # Null /\ state[handler[c][1]] = "gone")

(* The server is missed only if it could not listen, or after a runner     *)
(* with socket interrupters is gone.                                       *)
Gone(r) == state[r] = "gone" /\ kind[r] = "socket"

ServerInv ==
  /\ server # Null => kind[server[1]] = "socket" /\ state[server[1]] # "none"
  /\ created /\ server = Null => failed \/ \E r \in Runner : Gone(r)
  /\ hangs # {} => failed \/ \E r \in Runner : Gone(r)

OnceInv == LifeInv /\ GroupInv /\ FreedInv /\ ServerInv

-----------------------------------------------------------------------------
(* A callable that is appended is the only new member of a list.           *)
LEMMA AppendOne ==
  ASSUME NEW S, NEW seq \in Seq(S), NEW c \in S
  PROVE  /\ Append(seq, c) \in Seq(S)
         /\ DOMAIN seq = 1 .. Len(seq) /\ Len(seq) \in Nat
         /\ DOMAIN Append(seq, c) = 1 .. Len(seq) + 1
         /\ \A n \in DOMAIN seq : Append(seq, c)[n] = seq[n]
         /\ Append(seq, c)[Len(seq) + 1] = c
         /\ MembersOf(Append(seq, c)) = MembersOf(seq) \cup {c}
<1> DEFINE longer == Append(seq, c)
<1>1. /\ longer \in Seq(S)
      /\ Len(seq) \in Nat /\ DOMAIN seq = 1 .. Len(seq)
      /\ DOMAIN longer = 1 .. Len(seq) + 1
      /\ \A n \in 1 .. Len(seq) : longer[n] = seq[n]
      /\ longer[Len(seq) + 1] = c
  BY AppendProperties, LenProperties
<1> HIDE DEF longer
<1>2. MembersOf(longer) = MembersOf(seq) \cup {c}
  BY <1>1 DEF MembersOf
<1> QED BY <1>1, <1>2 DEF longer

(* The size of a set without some of its elements.                         *)
LEMMA CountWithout ==
  ASSUME NEW A, NEW D \in SUBSET A, IsFiniteSet(A)
  PROVE  /\ IsFiniteSet(A \ D)
         /\ Cardinality(A) \in Nat /\ Cardinality(D) \in Nat /\ Cardinality(A \ D) \in Nat
         /\ Cardinality(A \ D) = Cardinality(A) - Cardinality(D)
<1>1. IsFiniteSet(D) /\ IsFiniteSet(A \ D)
  BY FS_Subset, FS_Difference
<1>2. Cardinality(A) \in Nat /\ Cardinality(D) \in Nat /\ Cardinality(A \ D) \in Nat
  BY <1>1, FS_CardinalityType
<1>3. Cardinality(A \ D) = Cardinality(A) - Cardinality(D)
  <2>1. Cardinality(A \ D) = Cardinality(A) - Cardinality(A \cap D)
    BY FS_Difference
  <2>2. A \cap D = D
    OBVIOUS
  <2> QED BY <2>1, <2>2
<1> QED BY <1>1, <1>2, <1>3

(* The objects, the lists among them, and the held interrupters are finite *)
(* in number.                                                              *)
LEMMA FiniteHeld ==
  ASSUME LifeTypeOK
  PROVE  /\ IsFiniteSet(Object) /\ Cardinality(Object) \in Nat
         /\ IsFiniteSet(Multiple) /\ Simple \subseteq Object /\ Multiple \subseteq Object
         /\ IsFiniteSet(Held) /\ Held \subseteq Interrupter
<1>1. IsFiniteSet(Object) /\ Cardinality(Object) \in Nat
      /\ IsFiniteSet(Multiple) /\ Simple \subseteq Object /\ Multiple \subseteq Object
  BY LifecycleAssumption, FS_Subset, FS_CardinalityType DEF Object
<1> DEFINE E == { d \in Object : Exists(d) }
           f == [c \in E |-> handler[c]]
           T == { handler[c] : c \in E }
<1>2. IsFiniteSet(E)
  BY <1>1, FS_Subset
<1>3. f \in Surjection(E, T)
  BY DEF Surjection
<1> HIDE DEF E, f
<1>4. IsFiniteSet(T)
  BY <1>2, <1>3, FS_Surjection
<1>5. Held \subseteq T
  BY DEF Held, E
<1>6. IsFiniteSet(Held)
  BY <1>4, <1>5, FS_Subset
<1>7. Held \subseteq Interrupter
  BY DEF Held, LifeTypeOK
<1> QED BY <1>1, <1>6, <1>7

(* Who holds an interrupter.                                               *)
LEMMA HeldBy ==
  ASSUME NEW h
  PROVE  h \in Held <=> h # Null /\ \E c \in Object : Exists(c) /\ handler[c] = h
  BY DEF Held

(* There are no interrupters of which nobody has the counter.              *)
LEMMA StaticsCount ==
  ASSUME LifeInv, NEW h, h \notin Held, NEW new \in {{}, {h}},
         Statics(new, Held \ Held'), UNCHANGED kind,
         Held' \subseteq Held \cup new, new \subseteq Held'
  PROVE  CounterExact' /\ counter' \in Nat
<1> DEFINE A == OfKind(Held, "shm")
           B == OfKind(Held', "shm")
           C == OfKind(new, "shm")
           D == OfKind(Held \ Held', "shm")
<1>1. IsFiniteSet(A)
  BY FiniteHeld, FS_Subset DEF LifeInv, OfKind
<1>2. D \in SUBSET A /\ h \notin A /\ C \in {{}, {h}} /\ B = (A \ D) \cup C
  BY DEF OfKind
<1>3. counter = Cardinality(A)
  BY DEF LifeInv, CounterExact
<1>4. counter' = counter + Cardinality(C) - Cardinality(D)
  BY DEF Statics, PageStatics, ServerStatics, Decrements
<1>5. OfKind(Held, "shm")' = B
  BY DEF OfKind
<1> HIDE DEF A, B, C, D
<1> DEFINE R == A \ D
<1>6. /\ IsFiniteSet(R) /\ h \notin R /\ B = R \cup C
      /\ Cardinality(A) \in Nat /\ Cardinality(D) \in Nat /\ Cardinality(R) \in Nat
      /\ Cardinality(R) = Cardinality(A) - Cardinality(D)
  BY <1>1, <1>2, CountWithout
<1> HIDE DEF R
<1>7. Cardinality(B) = Cardinality(R) + Cardinality(C) /\ Cardinality(C) \in {0, 1}
  <2>1. CASE C = {}
    <3>1. B = R
      BY <1>6, <2>1
    <3>2. Cardinality(C) = 0
      BY <2>1, FS_EmptySet
    <3>3. Cardinality(B) = Cardinality(R)
      BY <3>1
    <3> QED BY <1>6, <3>2, <3>3
  <2>2. CASE C = {h}
    <3>1. B = R \cup {h}
      BY <1>6, <2>2
    <3>2. Cardinality(C) = 1
      BY <2>2, FS_Singleton
    <3>3. Cardinality(R \cup {h}) = Cardinality(R) + 1
      BY <1>6, FS_AddElement
    <3>4. Cardinality(B) = Cardinality(R) + 1
      BY <3>1, <3>3
    <3> QED BY <3>2, <3>4
  <2> QED BY <1>2, <2>1, <2>2
<1>8. counter' = Cardinality(B) /\ counter' \in Nat
  BY <1>3, <1>4, <1>6, <1>7
<1> QED BY <1>5, <1>8 DEF CounterExact

(* The types of what is static.                                            *)
LEMMA StaticsTypes ==
  ASSUME LifeTypeOK, NEW new \in SUBSET Interrupter, NEW dying, Statics(new, dying)
  PROVE  /\ page' \in {"none", "clean", "finished"}
         /\ created' \in BOOLEAN /\ failed' \in BOOLEAN
         /\ server' \in Interrupter \cup {Null}
<1>1. created \in BOOLEAN /\ failed \in BOOLEAN /\ page \in {"none", "clean", "finished"}
      /\ server \in Interrupter \cup {Null}
  BY DEF LifeTypeOK
<1>2. created' \in BOOLEAN /\ failed' \in BOOLEAN
  <2>1. /\ created' = (created \/ (~created /\ OfKind(new, "socket") # {}))
        /\ failed' = (failed \/ ((~created /\ OfKind(new, "socket") # {}) /\ foreign))
    BY DEF Statics, PageStatics, ServerStatics
  <2> QED BY <2>1
<1> QED BY <1>1, <1>2 DEF Statics, PageStatics, ServerStatics

(* Who holds an interrupter after a step.                                  *)
LEMMA HeldByNext ==
  ASSUME NEW h
  PROVE  h \in Held' <=> h # Null /\ \E c \in Object : Exists(c)' /\ handler'[c] = h
  BY DEF Held

(* HolderInv after a step, said of each interrupter of its own.            *)
LEMMA HolderNext ==
  ASSUME \A r \in Runner : state'[r] = "none" => units'[r] = <<>>,
         ASSUME NEW d \in Object, NEW h, h = handler'[d], h # Null
         PROVE  /\ h[2] \in DOMAIN units'[h[1]]
                /\ d \in Group(h)'
                /\ Exists(d)' => state'[h[1]] = "live"
  PROVE  HolderInv'
  BY DEF HolderInv, Group, GroupOf, ItemsOf

(* The items of a list are no lists themselves, and a list is one of its   *)
(* group only as the callable that was added.                              *)
LEMMA ListOfGroup ==
  ASSUME LifeInv, NEW m \in Multiple, handler[m] # Null
  PROVE  m = units[handler[m][1]][handler[m][2]]
<1>1. m \in Group(handler[m])
  BY DEF LifeInv, HolderInv, Object
<1>2. \A c : c \in ItemsOf(units[handler[m][1]][handler[m][2]]) => c \in Simple
  <2>1. \A l \in Multiple : items[l] \in Seq(Simple)
    BY DEF LifeInv, LifeTypeOK
  <2>2. ASSUME NEW l \in Multiple, NEW c \in MembersOf(items[l])
        PROVE  c \in Simple
    BY <2>1, ElementOfSeq DEF MembersOf
  <2> QED BY <2>2 DEF ItemsOf
<1>3. m \notin Simple
  BY LifecycleAssumption
<1> QED BY <1>1, <1>2, <1>3 DEF Group, GroupOf

(* How often the destructor of a runner deletes a callable: at least once, *)
(* if it is one of the groups of the runner.                               *)
LEMMA DeletesGroup ==
  ASSUME LifeTypeOK, NEW r \in Runner, NEW c \in Object
  PROVE  /\ Deletes(r, c) \in Nat
         /\ \A n \in DOMAIN units[r] : c \in GroupOf(r, n) => Deletes(r, c) > 0
<1> DEFINE places == { i \in DOMAIN units[r] : units[r][i] = c }
           lists == { m \in Multiple \cap MembersOf(units[r]) : c \in ItemsOf(m) }
<1>1. units[r] \in Seq(Object) /\ DOMAIN units[r] = 1 .. Len(units[r]) /\ Len(units[r]) \in Nat
  BY LenProperties DEF LifeTypeOK
<1>2. IsFiniteSet(places)
  <2>1. IsFiniteSet(1 .. Len(units[r]))
    BY <1>1, FS_Interval
  <2>2. places \subseteq 1 .. Len(units[r])
    BY <1>1
  <2> QED BY <2>1, <2>2, FS_Subset
<1>3. IsFiniteSet(lists)
  <2>1. lists \subseteq Multiple
    OBVIOUS
  <2> QED BY <2>1, FiniteHeld, FS_Subset
<1>4. Deletes(r, c) = Cardinality(places) + Cardinality(lists)
  BY DEF Deletes, Occurrences
<1>5. ASSUME NEW n \in DOMAIN units[r], c \in GroupOf(r, n)
      PROVE  places # {} \/ lists # {}
  <2>1. CASE units[r][n] = c
    <3>1. n \in places
      BY <2>1
    <3> QED BY <3>1
  <2>2. CASE c \in ItemsOf(units[r][n])
    <3>1. units[r][n] \in Multiple /\ units[r][n] \in MembersOf(units[r])
      BY <2>2 DEF ItemsOf, MembersOf
    <3>2. units[r][n] \in lists
      BY <2>2, <3>1
    <3> QED BY <3>2
  <2> QED BY <1>5, <2>1, <2>2 DEF GroupOf
<1> HIDE DEF places, lists
<1>6. /\ Cardinality(places) \in Nat /\ (Cardinality(places) = 0 <=> places = {})
      /\ Cardinality(lists) \in Nat /\ (Cardinality(lists) = 0 <=> lists = {})
  BY <1>2, <1>3, FS_CardinalityType, FS_EmptySet
<1>7. Deletes(r, c) \in Nat /\ (places # {} \/ lists # {} => Deletes(r, c) > 0)
  BY <1>4, <1>6
<1> QED BY <1>5, <1>7

-----------------------------------------------------------------------------
(* LifeInv across each action, whatever the program hands over.            *)
LEMMA GetRunnerLife ==
  ASSUME LifeInv, NEW r \in Runner, GetRunner(r)
  PROVE  LifeInv'
<1>1. /\ state[r] = "none" /\ state' = [state EXCEPT ![r] = "live"]
      /\ UNCHANGED <<units, ran, items, handler, given, freed>>
      /\ UNCHANGED <<counter, page, created, server, failed, foreign, hangs>>
      /\ LifeTypeOK
  BY DEF GetRunner, objectVars, staticVars, LifeInv
<1>2. PICK kd \in Kinds : kind' = [kind EXCEPT ![r] = kd]
  BY DEF GetRunner
<1>3. LifeTypeOK'
  BY <1>1, <1>2 DEF LifeTypeOK
<1>4. units[r] = <<>>
  BY <1>1 DEF LifeInv, HolderInv
<1>5. ASSUME NEW c \in Object, handler[c] # Null
      PROVE  handler[c][1] \in Runner /\ handler[c][1] # r
  <2>1. handler[c] \in Interrupter
    BY <1>1, <1>5 DEF LifeTypeOK
  <2>2. handler[c][2] \in DOMAIN units[handler[c][1]]
    BY <1>5 DEF LifeInv, HolderInv
  <2> QED BY <1>4, <2>1, <2>2 DEF Interrupter
<1>6. state \in [Runner -> {"none", "live", "gone"}] /\ kind \in [Runner -> Kinds]
  BY <1>1 DEF LifeTypeOK
<1>7. HolderInv'
  <2>1. \A o \in Runner : state'[o] = "none" => units'[o] = <<>>
    BY <1>1, <1>6 DEF LifeInv, HolderInv
  <2>2. ASSUME NEW c \in Object, handler[c] # Null
        PROVE  /\ handler[c][2] \in DOMAIN units[handler[c][1]]
               /\ c \in Group(handler[c])'
               /\ Exists(c)' => state'[handler[c][1]] = "live"
    BY <1>1, <1>5, <1>6, <2>2 DEF LifeInv, HolderInv, Group, GroupOf, ItemsOf, Exists
  <2> QED BY <1>1, <2>1, <2>2 DEF HolderInv
<1>8. CounterExact'
  <2>1. Held' = Held
    BY <1>1 DEF Held, Exists
  <2>2. ASSUME NEW h \in Held
        PROVE  kind'[h[1]] = kind[h[1]]
    BY <1>2, <1>5, <1>6, HeldBy
  <2>3. OfKind(Held, "shm")' = OfKind(Held, "shm")
    BY <2>1, <2>2 DEF OfKind
  <2> QED BY <1>1, <2>3 DEF CounterExact, LifeInv
<1> QED BY <1>3, <1>7, <1>8 DEF LifeInv

(* run(), an add() that hangs and the servers have nothing to do with the  *)
(* callables.                                                              *)
LEMMA RunLife ==
  ASSUME LifeInv,
         (\E r \in Runner : Run(r) \/ AddHangs(r)) \/ ServerBreaks \/ ForeignServer
  PROVE  LifeInv'
<1>1. /\ UNCHANGED <<state, kind, units, items, handler, given, freed>>
      /\ UNCHANGED counter
      /\ LifeTypeOK
  BY DEF Run, AddHangs, ServerBreaks, ForeignServer, objectVars, staticVars, LifeInv
<1>2. /\ ran' \in [Runner -> 0 .. MaxRuns]
      /\ page' \in {"none", "clean", "finished"}
      /\ server' \in Interrupter \cup {Null}
      /\ created' \in BOOLEAN /\ failed' \in BOOLEAN /\ foreign' \in BOOLEAN
      /\ hangs' \subseteq Runner
  <2>1. CASE \E r \in Runner : Run(r)
    <3>1. PICK r \in Runner : Run(r)
      BY <2>1
    <3>2. ran[r] \in Nat /\ ran[r] + 1 <= MaxRuns
      BY <1>1, <3>1, LifecycleAssumption DEF Run, LifeTypeOK
    <3> QED BY <1>1, <3>1, <3>2, LifecycleAssumption DEF Run, LifeTypeOK
  <2>2. CASE \E r \in Runner : AddHangs(r)
    <3>1. PICK r \in Runner : AddHangs(r)
      BY <2>2
    <3>2. UNCHANGED <<ran, page, server, foreign>> /\ hangs' = {r} /\ created' = TRUE
          /\ failed' = (failed \/ ~created)
      BY <3>1 DEF AddHangs
    <3> QED BY <1>1, <3>2 DEF LifeTypeOK
  <2>3. CASE ServerBreaks
    BY <1>1, <2>3 DEF ServerBreaks, LifeTypeOK
  <2>4. CASE ForeignServer
    <3>1. UNCHANGED <<ran, page, server, created, failed, hangs>> /\ foreign' = ~foreign
      BY <2>4 DEF ForeignServer, staticVars
    <3> QED BY <1>1, <3>1 DEF LifeTypeOK
  <2> QED BY <2>1, <2>2, <2>3, <2>4
<1>3. LifeTypeOK'
  BY <1>1, <1>2 DEF LifeTypeOK
<1>4. HolderInv'
  BY <1>1 DEF LifeInv, HolderInv, Group, GroupOf, ItemsOf, Exists
<1>5. CounterExact'
  BY <1>1 DEF LifeInv, CounterExact, OfKind, Held, Exists
<1> QED BY <1>3, <1>4, <1>5 DEF LifeInv

(* An item joins the group of its list.                                    *)
LEMMA AddSingleLife ==
  ASSUME LifeInv, NEW m \in Multiple, NEW c \in Simple, AddSingleCallable(m, c)
  PROVE  LifeInv' /\ Held' \subseteq Held
<1>1. /\ items' = [items EXCEPT ![m] = Append(items[m], c)]
      /\ handler' = [handler EXCEPT ![c] = handler[m]]
      /\ given' = given \cup {c}
      /\ UNCHANGED <<state, kind, units, ran, freed, foreign, hangs>>
      /\ Statics({}, Held \ Held')
      /\ Exists(m) /\ Exists(c) /\ c \notin ItemsOf(m)
      /\ LifeTypeOK
  BY DEF AddSingleCallable, LifeInv, MayGive
<1>2. /\ handler \in [Object -> Interrupter \cup {Null}]
      /\ items \in [Multiple -> Seq(Simple)] /\ items[m] \in Seq(Simple)
      /\ c \in Object /\ m \in Object /\ c # m
  BY <1>1, LifecycleAssumption DEF LifeTypeOK, Object
<1>3. /\ Append(items[m], c) \in Seq(Simple)
      /\ MembersOf(Append(items[m], c)) = MembersOf(items[m]) \cup {c}
  BY <1>2, AppendOne
<1>4. ItemsOf(m)' = ItemsOf(m) \cup {c} /\ \A l : l # m => ItemsOf(l)' = ItemsOf(l)
  BY <1>1, <1>2, <1>3 DEF ItemsOf
<1>5. handler'[c] = handler[m] /\ \A d \in Object : d # c => handler'[d] = handler[d]
  BY <1>1, <1>2
<1>6. Held' \subseteq Held
  <2> SUFFICES ASSUME NEW h \in Held' PROVE h \in Held
    OBVIOUS
  <2>1. PICK d \in Object : Exists(d)' /\ handler'[d] = h
    BY HeldByNext
  <2>2. h # Null /\ Exists(d)
    BY <1>1, <2>1, HeldByNext DEF Exists
  <2>3. CASE d = c
    BY <1>1, <1>2, <1>5, <2>1, <2>2, <2>3, HeldBy
  <2>4. CASE d # c
    BY <1>5, <2>1, <2>2, <2>4, HeldBy
  <2> QED BY <2>3, <2>4
<1>7. CounterExact' /\ counter' \in Nat
  <2>1. Null \notin Held
    BY HeldBy
  <2> QED BY <1>1, <1>6, <2>1, StaticsCount
<1>8. LifeTypeOK'
  <2>1. /\ page' \in {"none", "clean", "finished"}
        /\ created' \in BOOLEAN /\ failed' \in BOOLEAN
        /\ server' \in Interrupter \cup {Null}
    BY <1>1, StaticsTypes
  <2>2. handler' \in [Object -> Interrupter \cup {Null}] /\ items' \in [Multiple -> Seq(Simple)]
        /\ given' \subseteq Object
    BY <1>1, <1>2, <1>3 DEF LifeTypeOK
  <2> QED BY <1>1, <1>7, <2>1, <2>2 DEF LifeTypeOK
<1>9. HolderInv'
  <2>1. \A r \in Runner : state'[r] = "none" => units'[r] = <<>>
    BY <1>1 DEF LifeInv, HolderInv
  <2>2. ASSUME NEW h, NEW d, d \in Group(h)
        PROVE  d \in Group(h)'
    BY <1>1, <1>4, <2>2 DEF Group, GroupOf
  <2>3. ASSUME NEW d \in Object, NEW h, h = handler'[d], h # Null
        PROVE  /\ h[2] \in DOMAIN units'[h[1]]
               /\ d \in Group(h)'
               /\ Exists(d)' => state'[h[1]] = "live"
    <3>1. CASE d = c
      <4>1. h = handler[m] /\ handler[m] # Null
        BY <1>5, <2>3, <3>1
      <4>2. /\ h[2] \in DOMAIN units[h[1]]
            /\ state[h[1]] = "live"
        BY <1>1, <1>2, <4>1 DEF LifeInv, HolderInv
      <4>3. m = units[h[1]][h[2]]
        BY <4>1, ListOfGroup
      <4>4. d \in Group(h)'
        BY <1>1, <1>4, <3>1, <4>3 DEF Group, GroupOf
      <4> QED BY <1>1, <4>2, <4>4
    <3>2. CASE d # c
      <4>1. h = handler[d]
        BY <1>5, <2>3, <3>2
      <4>2. /\ h[2] \in DOMAIN units[h[1]]
            /\ d \in Group(h)
            /\ Exists(d) => state[h[1]] = "live"
        BY <2>3, <4>1 DEF LifeInv, HolderInv
      <4> QED BY <1>1, <2>2, <4>2 DEF Exists
    <3> QED BY <3>1, <3>2
  <2> QED BY <1>1, <2>1, <2>3, HolderNext
<1> QED BY <1>6, <1>7, <1>8, <1>9 DEF LifeInv

(* A callable, with the items of its list, is added and gets a new         *)
(* interrupter.                                                            *)
LEMMA AddLife ==
  ASSUME LifeInv, NEW r \in Runner, NEW c \in Object, Add(r, c),
         NEW h, h = <<r, Len(units[r]) + 1>>
  PROVE  /\ LifeInv'
         /\ h \in Interrupter /\ h \notin Held /\ h \in Held' /\ Held' \subseteq Held \cup {h}
         /\ Statics({h}, Held \ Held')
<1>1. /\ units' = [units EXCEPT ![r] = Append(units[r], c)]
      /\ given' = given \cup {c}
      /\ UNCHANGED <<state, kind, ran, items, freed, foreign, hangs>>
      /\ handler' = [d \in Object |-> IF d \in TakesHandler(c) THEN h ELSE handler[d]]
      /\ Statics({h}, Held \ Held')
      /\ state[r] = "live" /\ Exists(c) /\ Len(units[r]) < Cardinality(Object)
      /\ LifeTypeOK
  BY DEF Add, LifeInv, MayGive
<1>2. /\ handler \in [Object -> Interrupter \cup {Null}]
      /\ units \in [Runner -> Seq(Object)] /\ units[r] \in Seq(Object)
      /\ Len(units[r]) \in Nat /\ Cardinality(Object) \in Nat
  BY <1>1, FiniteHeld, LenProperties DEF LifeTypeOK
<1>3. /\ Append(units[r], c) \in Seq(Object)
      /\ DOMAIN units[r] = 1 .. Len(units[r])
      /\ DOMAIN Append(units[r], c) = 1 .. Len(units[r]) + 1
      /\ \A n \in DOMAIN units[r] : Append(units[r], c)[n] = units[r][n]
      /\ Append(units[r], c)[Len(units[r]) + 1] = c
  BY <1>2, AppendOne
<1>4. h[1] = r /\ h[2] = Len(units[r]) + 1 /\ h \in Interrupter /\ h # Null
  <2>1. Len(units[r]) + 1 \in 1 .. Cardinality(Object)
    BY <1>1, <1>2
  <2> QED BY <2>1, LifecycleAssumption DEF Interrupter
<1>5. \A d \in Object : handler'[d] = IF d \in TakesHandler(c) THEN h ELSE handler[d]
  BY <1>1
<1>6. h \notin Held
  <2> SUFFICES ASSUME h \in Held PROVE FALSE
    OBVIOUS
  <2>1. PICK d \in Object : handler[d] = h
    BY HeldBy
  <2>2. h[2] \in DOMAIN units[h[1]]
    BY <1>4, <2>1 DEF LifeInv, HolderInv
  <2> QED BY <1>2, <1>3, <1>4, <2>2
<1>7. h \in Held'
  <2>1. c \in TakesHandler(c)
    BY DEF TakesHandler
  <2>2. handler'[c] = h /\ Exists(c)'
    BY <1>1, <1>5, <2>1 DEF Exists
  <2> QED BY <1>4, <2>2, HeldByNext
<1>8. Held' \subseteq Held \cup {h}
  <2> SUFFICES ASSUME NEW i \in Held', i # h PROVE i \in Held
    OBVIOUS
  <2>1. PICK d \in Object : Exists(d)' /\ handler'[d] = i
    BY HeldByNext
  <2>2. i # Null /\ Exists(d) /\ handler[d] = i
    BY <1>1, <1>5, <2>1, HeldByNext DEF Exists
  <2> QED BY <2>2, HeldBy
<1>9. CounterExact' /\ counter' \in Nat
  <2>1. {h} \in {{}, {h}} /\ {h} \subseteq Held' /\ UNCHANGED kind
    BY <1>1, <1>7
  <2> QED BY <1>1, <1>6, <1>8, <2>1, StaticsCount
<1>10. LifeTypeOK'
  <2>1. /\ page' \in {"none", "clean", "finished"}
        /\ created' \in BOOLEAN /\ failed' \in BOOLEAN
        /\ server' \in Interrupter \cup {Null}
    BY <1>1, <1>4, StaticsTypes
  <2>2. handler' \in [Object -> Interrupter \cup {Null}] /\ units' \in [Runner -> Seq(Object)]
        /\ given' \subseteq Object
    BY <1>1, <1>2, <1>3, <1>4 DEF LifeTypeOK
  <2> QED BY <1>1, <1>9, <2>1, <2>2 DEF LifeTypeOK
<1>11. HolderInv'
  <2>1. \A o \in Runner : state'[o] = "none" => units'[o] = <<>>
    BY <1>1, <1>2 DEF LifeInv, HolderInv
  <2>2. \A l : ItemsOf(l)' = ItemsOf(l)
    BY <1>1 DEF ItemsOf
  <2>3. ASSUME NEW d \in Object, NEW i, i = handler'[d], i # Null
        PROVE  /\ i[2] \in DOMAIN units'[i[1]]
               /\ d \in Group(i)'
               /\ Exists(d)' => state'[i[1]] = "live"
    <3>1. CASE d \in TakesHandler(c)
      <4>1. i = h
        BY <1>5, <2>3, <3>1
      <4>2. units'[r] = Append(units[r], c)
        BY <1>1, <1>2
      <4>3. i[2] \in DOMAIN units'[i[1]] /\ units'[i[1]][i[2]] = c
        BY <1>2, <1>3, <1>4, <4>1, <4>2
      <4>4. d \in Group(i)'
        BY <2>2, <3>1, <4>3 DEF Group, GroupOf, TakesHandler
      <4> QED BY <1>1, <1>4, <4>1, <4>3, <4>4
    <3>2. CASE d \notin TakesHandler(c)
      <4>1. i = handler[d]
        BY <1>5, <2>3, <3>2
      <4>2. /\ i[2] \in DOMAIN units[i[1]]
            /\ d \in Group(i)
            /\ Exists(d) => state[i[1]] = "live"
        BY <2>3, <4>1 DEF LifeInv, HolderInv
      <4>3. i[1] \in Runner
        BY <1>2, <2>3, <4>1 DEF Interrupter
      <4>4. i[2] \in DOMAIN units'[i[1]] /\ units'[i[1]][i[2]] = units[i[1]][i[2]]
        <5>1. CASE i[1] = r
          <6>1. units'[i[1]] = Append(units[r], c)
            BY <1>1, <1>2, <5>1
          <6> QED BY <1>2, <1>3, <4>2, <5>1, <6>1
        <5>2. CASE i[1] # r
          <6>1. units'[i[1]] = units[i[1]]
            BY <1>1, <1>2, <4>3, <5>2
          <6> QED BY <4>2, <6>1
        <5> QED BY <5>1, <5>2
      <4>5. d \in Group(i)'
        BY <2>2, <4>2, <4>4 DEF Group, GroupOf
      <4> QED BY <1>1, <4>2, <4>4, <4>5 DEF Exists
    <3> QED BY <3>1, <3>2
  <2> QED BY <2>1, <2>3, HolderNext
<1> QED BY <1>1, <1>4, <1>5, <1>6, <1>7, <1>8, <1>9, <1>10, <1>11 DEF LifeInv

(* A runner is destroyed with its callables.                               *)
LEMMA DestroyLife ==
  ASSUME LifeInv, NEW r \in Runner, Destroy(r)
  PROVE  /\ LifeInv'
         /\ Held' \subseteq Held
         /\ \A h \in Held \ Held' : \E c \in Object : Deletes(r, c) > 0 /\ handler[c] = h
<1>1. /\ state[r] = "live" /\ state' = [state EXCEPT ![r] = "gone"]
      /\ freed' = [c \in Object |-> freed[c] + Deletes(r, c)]
      /\ UNCHANGED <<kind, units, ran, items, handler, given, foreign, hangs>>
      /\ Statics({}, Held \ Held')
      /\ LifeTypeOK
  BY DEF Destroy, LifeInv
<1>2. /\ state \in [Runner -> {"none", "live", "gone"}]
      /\ freed \in [Object -> Nat]
      /\ handler \in [Object -> Interrupter \cup {Null}]
  BY <1>1 DEF LifeTypeOK
<1>3. \A c \in Object : Deletes(r, c) \in Nat /\ freed'[c] = freed[c] + Deletes(r, c)
  BY <1>1, DeletesGroup
<1>4. \A c \in Object : Exists(c)' <=> Exists(c) /\ Deletes(r, c) = 0
  BY <1>2, <1>3 DEF Exists
<1>5. Held' \subseteq Held
  <2> SUFFICES ASSUME NEW h \in Held' PROVE h \in Held
    OBVIOUS
  <2>1. PICK d \in Object : Exists(d)' /\ handler'[d] = h
    BY HeldByNext
  <2>2. h # Null /\ Exists(d) /\ handler[d] = h
    BY <1>1, <1>4, <2>1, HeldByNext
  <2> QED BY <2>2, HeldBy
<1>6. ASSUME NEW h \in Held \ Held'
      PROVE  \E c \in Object : Deletes(r, c) > 0 /\ handler[c] = h
  <2>1. PICK d \in Object : Exists(d) /\ handler[d] = h /\ h # Null
    BY HeldBy
  <2>2. ~Exists(d)'
    BY <1>1, <2>1, HeldByNext
  <2>3. Deletes(r, d) > 0
    BY <1>3, <1>4, <2>1, <2>2
  <2> QED BY <2>1, <2>3
<1>7. CounterExact' /\ counter' \in Nat
  <2>1. Null \notin Held
    BY HeldBy
  <2> QED BY <1>1, <1>5, <2>1, StaticsCount
<1>8. LifeTypeOK'
  <2>1. /\ page' \in {"none", "clean", "finished"}
        /\ created' \in BOOLEAN /\ failed' \in BOOLEAN
        /\ server' \in Interrupter \cup {Null}
    BY <1>1, StaticsTypes
  <2>2. freed' \in [Object -> Nat] /\ state' \in [Runner -> {"none", "live", "gone"}]
    BY <1>1, <1>2, <1>3
  <2> QED BY <1>1, <1>7, <2>1, <2>2 DEF LifeTypeOK
<1>9. HolderInv'
  <2>1. \A o \in Runner : state'[o] = "none" => units'[o] = <<>>
    BY <1>1, <1>2 DEF LifeInv, HolderInv
  <2>2. ASSUME NEW d \in Object, NEW h, h = handler'[d], h # Null
        PROVE  /\ h[2] \in DOMAIN units'[h[1]]
               /\ d \in Group(h)'
               /\ Exists(d)' => state'[h[1]] = "live"
    <3>1. h = handler[d]
      BY <1>1, <2>2
    <3>2. /\ h[2] \in DOMAIN units[h[1]]
          /\ d \in Group(h)
          /\ Exists(d) => state[h[1]] = "live"
      BY <2>2, <3>1 DEF LifeInv, HolderInv
    <3>3. d \in Group(h)'
      BY <1>1, <3>2 DEF Group, GroupOf, ItemsOf
    <3>4. ASSUME Exists(d)'
          PROVE  state'[h[1]] = "live"
      <4>1. Exists(d) /\ Deletes(r, d) = 0
        BY <1>4, <3>4
      <4>2. CASE h[1] = r
        <5>1. d \in GroupOf(r, h[2]) /\ h[2] \in DOMAIN units[r]
          BY <3>2, <4>2 DEF Group
        <5>2. Deletes(r, d) > 0
          BY <1>1, <5>1, DeletesGroup
        <5> QED BY <4>1, <5>2
      <4>3. CASE h[1] # r
        BY <1>1, <1>2, <3>2, <4>1, <4>3
      <4> QED BY <4>2, <4>3
    <3> QED BY <1>1, <3>2, <3>3, <3>4
  <2> QED BY <2>1, <2>2, HolderNext
<1> QED BY <1>5, <1>6, <1>7, <1>8, <1>9 DEF LifeInv

(* LifeInv holds initially.                                                *)
LEMMA InitLife == LifeInit => LifeInv
<1> SUFFICES ASSUME LifeInit PROVE LifeInv
  OBVIOUS
<1>1. "other" \in Kinds
  <2>1. <<"process", "signal">> \in Offered
    BY DEF Offered
  <2>2. KindOf("process", "signal") = "other"
    BY DEF KindOf
  <2>3. <<"process", "signal">>[1] = "process" /\ <<"process", "signal">>[2] = "signal"
    OBVIOUS
  <2> QED BY <2>1, <2>2, <2>3 DEF Kinds
<1>2. LifeTypeOK
  <2>1. 0 \in 0 .. MaxRuns
    BY LifecycleAssumption
  <2>2. /\ state \in [Runner -> {"none", "live", "gone"}]
        /\ kind \in [Runner -> Kinds]
        /\ ran \in [Runner -> 0 .. MaxRuns]
        /\ handler \in [Object -> Interrupter \cup {Null}]
        /\ freed \in [Object -> Nat]
    BY <1>1, <2>1 DEF LifeInit
  <2>3. units \in [Runner -> Seq(Object)] /\ items \in [Multiple -> Seq(Simple)]
    BY DEF LifeInit
  <2> QED BY <2>2, <2>3 DEF LifeInit, LifeTypeOK
<1>3. HolderInv
  BY DEF LifeInit, HolderInv
<1>4. CounterExact
  <2>1. OfKind(Held, "shm") = {}
    BY DEF LifeInit, Held, OfKind
  <2> QED BY <2>1, FS_EmptySet DEF LifeInit, CounterExact
<1> QED BY <1>2, <1>3, <1>4 DEF LifeInv

(* Every step keeps it.                                                    *)
LEMMA NextLife == LifeInv /\ [LifeNext]_lifeVars => LifeInv'
<1> SUFFICES ASSUME LifeInv, [LifeNext]_lifeVars PROVE LifeInv'
  OBVIOUS
<1>1. ASSUME NEW r \in Runner,
             GetRunner(r) \/ AddHangs(r) \/ Run(r) \/ Destroy(r) \/ \E c \in Object : Add(r, c)
      PROVE  LifeInv'
  <2>1. CASE \E c \in Object : Add(r, c)
    BY <2>1, AddLife
  <2>2. CASE GetRunner(r) \/ AddHangs(r) \/ Run(r) \/ Destroy(r)
    BY <2>2, GetRunnerLife, RunLife, DestroyLife
  <2> QED BY <1>1, <2>1, <2>2
<1>2. ASSUME NEW m \in Multiple, NEW c \in Simple, AddSingleCallable(m, c)
      PROVE  LifeInv'
  BY <1>2, AddSingleLife
<1>3. CASE UNCHANGED lifeVars
  <2>1. /\ UNCHANGED <<state, kind, units, ran, items, handler, given, freed>>
        /\ UNCHANGED <<counter, page, created, server, failed, foreign, hangs>>
    BY <1>3 DEF lifeVars, objectVars, staticVars
  <2>2. LifeTypeOK'
    BY <2>1 DEF LifeInv, LifeTypeOK
  <2>3. HolderInv'
    BY <2>1 DEF LifeInv, HolderInv, Group, GroupOf, ItemsOf, Exists
  <2>4. CounterExact'
    BY <2>1 DEF LifeInv, CounterExact, OfKind, Held, Exists
  <2> QED BY <2>2, <2>3, <2>4 DEF LifeInv
<1>4. CASE ServerBreaks \/ ForeignServer
  BY <1>4, RunLife
<1> QED BY <1>1, <1>2, <1>3, <1>4 DEF LifeNext

(* The inductive invariant of any program.                                 *)
THEOREM LifeInvariant == LifeSpec => []LifeInv
  BY InitLife, NextLife, PTL DEF LifeSpec

(* The type invariant of the runners, the callables and the statics: the   *)
(* counter is never negative, and no add() has more than its callables.    *)
THEOREM LifeTypeCorrect == LifeSpec => []LifeTypeOK
<1>1. LifeInv => LifeTypeOK
  BY DEF LifeInv
<1> QED BY <1>1, LifeInvariant, PTL

(* The static counter is the number of interrupters that share the page.   *)
THEOREM CounterExactHolds == LifeSpec => []CounterExact
<1>1. LifeInv => CounterExact
  BY DEF LifeInv
<1> QED BY <1>1, LifeInvariant, PTL

(* A runner whose predecessors have been destroyed starts with a page of   *)
(* its own.                                                                *)
LEMMA StepFresh ==
  ASSUME LifeInv, [LifeNext]_lifeVars, NEW r \in Runner, UsesPage(r)',
         \A o \in Runner : ~UsesPage(o)
  PROVE  page' = "clean"
<1>1. CASE UNCHANGED <<state, kind, units>>
  BY <1>1 DEF UsesPage
<1>2. ASSUME NEW o \in Runner, GetRunner(o)
      PROVE  FALSE
  <2>1. state[o] = "none" /\ state' = [state EXCEPT ![o] = "live"] /\ UNCHANGED units
        /\ \E kd \in Kinds : kind' = [kind EXCEPT ![o] = kd]
    BY <1>2 DEF GetRunner
  <2>2. units[o] = <<>>
    BY <2>1 DEF LifeInv, HolderInv
  <2>3. CASE r = o
    BY <2>1, <2>2, <2>3 DEF UsesPage
  <2>4. CASE r # o
    <3>1. state'[r] = state[r] /\ kind'[r] = kind[r] /\ units'[r] = units[r]
      BY <2>1, <2>4 DEF LifeInv, LifeTypeOK
    <3> QED BY <3>1 DEF UsesPage
  <2> QED BY <2>3, <2>4
<1>3. ASSUME NEW o \in Runner, Destroy(o)
      PROVE  FALSE
  <2>1. state' = [state EXCEPT ![o] = "gone"] /\ UNCHANGED kind /\ UNCHANGED units
    BY <1>3 DEF Destroy
  <2>2. state'[r] \in {state[r], "gone"}
    BY <2>1 DEF LifeInv, LifeTypeOK
  <2> QED BY <2>1, <2>2 DEF UsesPage
<1>4. ASSUME NEW o \in Runner, NEW c \in Object, Add(o, c)
      PROVE  page' = "clean"
  <2> DEFINE h == <<o, Len(units[o]) + 1>>
  <2>1. /\ units' = [units EXCEPT ![o] = Append(units[o], c)]
        /\ UNCHANGED state /\ UNCHANGED kind
        /\ Statics({h}, Held \ Held')
        /\ h[1] = o
    BY <1>4 DEF Add
  <2> HIDE DEF h
  <2>2. r = o
    <3>1. CASE r # o
      <4>1. units'[r] = units[r]
        BY <2>1, <3>1 DEF LifeInv, LifeTypeOK
      <4> QED BY <2>1, <4>1 DEF UsesPage
    <3> QED BY <3>1
  <2>3. kind[h[1]] = "shm"
    BY <2>1, <2>2 DEF UsesPage
  <2>4. OfKind({h}, "shm") # {}
    BY <2>3 DEF OfKind
  <2>5. OfKind(Held, "shm") = {}
    <3> SUFFICES ASSUME NEW i \in Held, kind[i[1]] = "shm" PROVE FALSE
      BY DEF OfKind
    <3>1. PICK d \in Object : Exists(d) /\ handler[d] = i /\ i # Null
      BY HeldBy
    <3>2. i[2] \in DOMAIN units[i[1]] /\ state[i[1]] = "live"
      BY <3>1 DEF LifeInv, HolderInv
    <3>3. i[1] \in Runner
      BY <3>1 DEF LifeInv, LifeTypeOK, Interrupter
    <3>4. units[i[1]] # <<>>
      BY <3>2
    <3> QED BY <3>2, <3>3, <3>4 DEF UsesPage
  <2>6. counter = 0
    BY <2>5, FS_EmptySet DEF LifeInv, CounterExact
  <2> QED BY <2>1, <2>4, <2>6 DEF Statics, PageStatics, ServerStatics
<1>5. ASSUME (\E o \in Runner : Run(o) \/ AddHangs(o)) \/ ServerBreaks \/ ForeignServer
      PROVE  UNCHANGED <<state, kind, units>>
  BY <1>5 DEF Run, AddHangs, ServerBreaks, ForeignServer
<1>6. ASSUME NEW m \in Multiple, NEW c \in Simple, AddSingleCallable(m, c)
      PROVE  UNCHANGED <<state, kind, units>>
  BY <1>6 DEF AddSingleCallable
<1>7. CASE UNCHANGED lifeVars
  BY <1>1, <1>7 DEF lifeVars
<1> QED BY <1>1, <1>2, <1>3, <1>4, <1>5, <1>6, <1>7 DEF LifeNext

(* Whatever the program hands over, the success of an earlier run does not *)
(* stop a runner that is alone.                                            *)
THEOREM FreshStartHolds == LifeSpec => FreshStart
<1>1. LifeInv /\ [LifeNext]_lifeVars
        => [\A r \in Runner :
              UsesPage(r)' /\ (\A o \in Runner : ~UsesPage(o)) => page' = "clean"]_lifeVars
  BY StepFresh
<1> QED BY <1>1, LifeInvariant, PTL DEF LifeSpec, FreshStart

-----------------------------------------------------------------------------
(* In a program that hands over each callable once, an added callable has  *)
(* had no interrupter, nor have the items of its list, and the interrupter *)
(* it gets is that of its group.                                           *)
LEMMA AddOnce ==
  ASSUME GivenOnce, OnceInv, NEW r \in Runner, NEW c \in Object, Add(r, c),
         NEW h, h = <<r, Len(units[r]) + 1>>
  PROVE  /\ GroupInv'
         /\ \A d \in TakesHandler(c) : d \in Object /\ handler[d] = Null /\ freed[d] = 0
         /\ Held \subseteq Held'
<1>1. /\ units' = [units EXCEPT ![r] = Append(units[r], c)]
      /\ given' = given \cup {c}
      /\ UNCHANGED <<state, items, freed>>
      /\ c \notin given
      /\ LifeInv /\ LifeTypeOK
  <2>1. MayGive(c)
    BY DEF Add
  <2>2. c \notin given
    BY <2>1 DEF MayGive
  <2> QED BY <2>2 DEF Add, OnceInv, LifeInv
<1>2. \A d \in Object : handler'[d] = IF d \in TakesHandler(c) THEN h ELSE handler[d]
  <2>1. handler' = [d \in Object |-> IF d \in TakesHandler(c) THEN h ELSE handler[d]]
    BY DEF Add
  <2> QED BY <2>1
<1>3. /\ handler \in [Object -> Interrupter \cup {Null}]
      /\ items \in [Multiple -> Seq(Simple)]
      /\ units \in [Runner -> Seq(Object)] /\ units[r] \in Seq(Object)
  BY <1>1 DEF LifeTypeOK
<1>4. /\ DOMAIN units[r] = 1 .. Len(units[r]) /\ Len(units[r]) \in Nat
      /\ DOMAIN Append(units[r], c) = 1 .. Len(units[r]) + 1
      /\ \A n \in DOMAIN units[r] : Append(units[r], c)[n] = units[r][n]
      /\ Append(units[r], c)[Len(units[r]) + 1] = c
  BY <1>3, AppendOne
<1>5. \A l \in Multiple : ItemsOf(l) \subseteq Simple
  <2> SUFFICES ASSUME NEW l \in Multiple, NEW d \in MembersOf(items[l]) PROVE d \in Simple
    BY DEF ItemsOf
  <2> QED BY <1>3, ElementOfSeq DEF MembersOf
<1>6. \A l : ItemsOf(l)' = ItemsOf(l)
  BY <1>1 DEF ItemsOf
<1>7. handler[c] = Null
  BY <1>1 DEF OnceInv, GroupInv
<1>8. ASSUME NEW d \in TakesHandler(c)
      PROVE  d \in Object /\ handler[d] = Null /\ freed[d] = 0
  <2>1. d \in Object /\ handler[d] = Null
    <3>1. CASE d = c
      BY <1>7, <3>1
    <3>2. CASE d \in ItemsOf(c)
      <4>1. c \in Multiple
        BY <3>2 DEF ItemsOf
      <4> QED BY <1>5, <1>7, <3>2, <4>1 DEF OnceInv, GroupInv, Object
    <3> QED BY <3>1, <3>2 DEF TakesHandler
  <2> QED BY <2>1 DEF OnceInv, FreedInv
<1>9. Held \subseteq Held'
  <2> SUFFICES ASSUME NEW i \in Held PROVE i \in Held'
    OBVIOUS
  <2>1. PICK d \in Object : Exists(d) /\ handler[d] = i /\ i # Null
    BY HeldBy
  <2>2. handler'[d] = i /\ Exists(d)'
    BY <1>1, <1>2, <1>8, <2>1 DEF Exists
  <2> QED BY <2>1, <2>2, HeldByNext
<1>10. GroupInv'
  <2>1. ASSUME NEW d \in Object, handler'[d] # Null
        PROVE  d \in given'
    <3>1. CASE d \in TakesHandler(c)
      <4>1. CASE d \in ItemsOf(c)
        <5>1. c \in Multiple
          BY <4>1 DEF ItemsOf
        <5> QED BY <1>1, <4>1, <5>1 DEF OnceInv, GroupInv
      <4> QED BY <1>1, <3>1, <4>1 DEF TakesHandler
    <3>2. CASE d \notin TakesHandler(c)
      BY <1>1, <1>2, <2>1, <3>2 DEF OnceInv, GroupInv
    <3> QED BY <3>1, <3>2
  <2>2. ASSUME NEW o \in Runner, NEW n \in DOMAIN units'[o]
        PROVE  /\ units'[o][n] \in given' /\ handler'[units'[o][n]] = <<o, n>>
               /\ <<o, n>> \in Interrupter
    <3>1. CASE o = r /\ n = Len(units[r]) + 1
      <4>1. units'[o][n] = c
        BY <1>1, <1>3, <1>4, <3>1
      <4>2. handler'[c] = h
        BY <1>2 DEF TakesHandler
      <4>3. h \in Interrupter /\ h = <<o, n>>
        BY <1>1, <3>1, AddLife
      <4> QED BY <1>1, <4>1, <4>2, <4>3
    <3>2. CASE ~(o = r /\ n = Len(units[r]) + 1)
      <4>1. n \in DOMAIN units[o] /\ units'[o][n] = units[o][n]
        <5>1. CASE o = r
          BY <1>1, <1>3, <1>4, <3>2, <5>1
        <5>2. CASE o # r
          BY <1>1, <1>3, <5>2
        <5> QED BY <5>1, <5>2
      <4>2. /\ units[o][n] \in given /\ handler[units[o][n]] = <<o, n>>
            /\ <<o, n>> \in Interrupter
        BY <4>1 DEF OnceInv, GroupInv
      <4>3. units[o] \in Seq(Object)
        BY <1>3
      <4>4. units[o][n] \in Object
        BY <4>1, <4>3, ElementOfSeq, LenProperties
      <4>5. units[o][n] \notin TakesHandler(c)
        BY <1>8, <4>2, LifecycleAssumption
      <4> QED BY <1>1, <1>2, <4>1, <4>2, <4>4, <4>5
    <3> QED BY <3>1, <3>2
  <2>3. ASSUME NEW l \in Multiple, NEW d \in ItemsOf(l)
        PROVE  d \in given' /\ handler'[d] = handler'[l]
    <3>1. d \in given /\ handler[d] = handler[l] /\ d \in Object /\ l \in Object /\ d # c
      BY <1>1, <1>5 DEF OnceInv, GroupInv, Object
    <3>2. CASE l = c
      <4>1. d \in TakesHandler(c) /\ c \in TakesHandler(c)
        BY <3>2 DEF TakesHandler
      <4> QED BY <1>1, <1>2, <3>1, <3>2, <4>1
    <3>3. CASE l # c
      <4>1. l \notin TakesHandler(c)
        <5>1. \A e \in ItemsOf(c) : e \in Simple
          BY <1>5 DEF ItemsOf
        <5> QED BY <3>3, <5>1, LifecycleAssumption DEF TakesHandler
      <4>2. d \notin TakesHandler(c)
        <5>1. d \in ItemsOf(c) => c \in Multiple
          BY DEF ItemsOf
        <5>2. d \notin ItemsOf(c)
          BY <3>3, <5>1 DEF OnceInv, GroupInv
        <5> QED BY <3>1, <5>2 DEF TakesHandler
      <4> QED BY <1>1, <1>2, <3>1, <4>1, <4>2
    <3> QED BY <3>2, <3>3
  <2>4. \A m, o \in Multiple : m # o => ItemsOf(m)' \cap ItemsOf(o)' = {}
    BY <1>6 DEF OnceInv, GroupInv
  <2>5. \A l \in Multiple : \A d \in ItemsOf(l)' : d \in given' /\ handler'[d] = handler'[l]
    BY <1>6, <2>3
  <2> QED BY <2>1, <2>2, <2>4, <2>5 DEF GroupInv
<1> QED BY <1>8, <1>9, <1>10

(* So has an item that joins a list, which takes the interrupter of the    *)
(* list: none is lost.                                                     *)
LEMMA AddSingleOnce ==
  ASSUME GivenOnce, OnceInv, NEW m \in Multiple, NEW c \in Simple, AddSingleCallable(m, c)
  PROVE  GroupInv' /\ handler[c] = Null /\ freed[c] = 0 /\ Held \subseteq Held'
<1>1. /\ items' = [items EXCEPT ![m] = Append(items[m], c)]
      /\ handler' = [handler EXCEPT ![c] = handler[m]]
      /\ given' = given \cup {c}
      /\ UNCHANGED <<state, kind, units, freed>>
      /\ c \notin given /\ Exists(c)
      /\ LifeInv /\ LifeTypeOK
  <2>1. MayGive(c)
    BY DEF AddSingleCallable
  <2>2. c \notin given
    BY <2>1 DEF MayGive
  <2> QED BY <2>2 DEF AddSingleCallable, MayGive, OnceInv, LifeInv
<1>2. /\ handler \in [Object -> Interrupter \cup {Null}]
      /\ items \in [Multiple -> Seq(Simple)] /\ items[m] \in Seq(Simple)
      /\ units \in [Runner -> Seq(Object)]
      /\ c \in Object /\ m \in Object /\ c # m
  BY <1>1, LifecycleAssumption DEF LifeTypeOK, Object
<1>3. /\ Append(items[m], c) \in Seq(Simple)
      /\ MembersOf(Append(items[m], c)) = MembersOf(items[m]) \cup {c}
  BY <1>2, AppendOne
<1>4. ItemsOf(m)' = ItemsOf(m) \cup {c} /\ \A l : l # m => ItemsOf(l)' = ItemsOf(l)
  BY <1>1, <1>2, <1>3 DEF ItemsOf
<1>5. handler'[c] = handler[m] /\ \A d \in Object : d # c => handler'[d] = handler[d]
  BY <1>1, <1>2
<1>6. handler[c] = Null /\ freed[c] = 0
  BY <1>1, <1>2 DEF OnceInv, GroupInv, Exists
<1>7. \A l \in Multiple : ItemsOf(l) \subseteq Object /\ c \notin ItemsOf(l) /\ l # c
  <2> SUFFICES ASSUME NEW l \in Multiple, NEW d \in MembersOf(items[l]) PROVE d \in Simple
    BY <1>1, LifecycleAssumption DEF ItemsOf, OnceInv, GroupInv, Object
  <2> QED BY <1>2, ElementOfSeq DEF MembersOf
<1>8. Held \subseteq Held'
  <2> SUFFICES ASSUME NEW i \in Held PROVE i \in Held'
    OBVIOUS
  <2>1. PICK d \in Object : Exists(d) /\ handler[d] = i /\ i # Null
    BY HeldBy
  <2>2. handler'[d] = i /\ Exists(d)'
    BY <1>1, <1>5, <1>6, <2>1 DEF Exists
  <2> QED BY <2>1, <2>2, HeldByNext
<1>9. GroupInv'
  <2>1. ASSUME NEW d \in Object, handler'[d] # Null
        PROVE  d \in given'
    BY <1>1, <1>5, <2>1 DEF OnceInv, GroupInv
  <2>2. ASSUME NEW o \in Runner, NEW n \in DOMAIN units[o]
        PROVE  /\ units[o][n] \in given' /\ handler'[units[o][n]] = <<o, n>>
               /\ <<o, n>> \in Interrupter
    <3>1. /\ units[o][n] \in given /\ handler[units[o][n]] = <<o, n>>
          /\ <<o, n>> \in Interrupter
      BY DEF OnceInv, GroupInv
    <3>2. units[o][n] \in Object
      <4>1. units[o] \in Seq(Object)
        BY <1>2
      <4> QED BY <4>1, ElementOfSeq, LenProperties
    <3> QED BY <1>1, <1>5, <3>1, <3>2
  <2>3. ASSUME NEW l \in Multiple, NEW d, d \in ItemsOf(l)'
        PROVE  d \in given' /\ handler'[d] = handler'[l]
    <3>1. handler'[l] = handler[l]
      BY <1>5, <1>7 DEF Object
    <3>2. CASE d \in ItemsOf(l)
      <4>1. d \in given /\ handler[d] = handler[l] /\ d # c /\ d \in Object
        BY <1>7, <3>2 DEF OnceInv, GroupInv
      <4> QED BY <1>1, <1>5, <3>1, <4>1
    <3>3. CASE d \notin ItemsOf(l)
      <4>1. l = m /\ d = c
        BY <1>4, <2>3, <3>3
      <4> QED BY <1>1, <1>5, <3>1, <4>1
    <3> QED BY <3>2, <3>3
  <2>4. ASSUME NEW l \in Multiple, NEW o \in Multiple, l # o
        PROVE  ItemsOf(l)' \cap ItemsOf(o)' = {}
    <3>1. ItemsOf(l) \cap ItemsOf(o) = {}
      BY <2>4 DEF OnceInv, GroupInv
    <3> QED BY <1>4, <1>7, <2>4, <3>1
  <2> QED BY <1>1, <2>1, <2>2, <2>3, <2>4 DEF GroupInv
<1> QED BY <1>6, <1>8, <1>9

(* A set whose elements are all the same.                                  *)
LEMMA AtMostOne ==
  ASSUME NEW A, \A a, b \in A : a = b
  PROVE  Cardinality(A) = IF A = {} THEN 0 ELSE 1
<1>1. CASE A = {}
  BY <1>1, FS_EmptySet
<1>2. CASE A # {}
  <2>1. PICK a \in A : TRUE
    BY <1>2
  <2>2. A = {a}
    BY <2>1
  <2> QED BY <1>2, <2>2, FS_Singleton
<1> QED BY <1>1, <1>2

(* In such a program the destructor of a runner deletes no callable twice, *)
(* and only those of its own groups.                                       *)
LEMMA DeletesOnce ==
  ASSUME OnceInv, NEW r \in Runner, NEW c \in Object
  PROVE  /\ Deletes(r, c) \in {0, 1}
         /\ Deletes(r, c) > 0 => handler[c] # Null /\ handler[c][1] = r
<1> DEFINE places == { i \in DOMAIN units[r] : units[r][i] = c }
           lists == { l \in Multiple \cap MembersOf(units[r]) : c \in ItemsOf(l) }
<1>1. Deletes(r, c) = Cardinality(places) + Cardinality(lists)
  BY DEF Deletes, Occurrences
<1>2. ASSUME NEW i \in places
      PROVE  handler[c] = <<r, i>> /\ handler[c] # Null
  <2>1. i \in DOMAIN units[r] /\ units[r][i] = c
    OBVIOUS
  <2>2. handler[units[r][i]] = <<r, i>> /\ <<r, i>> \in Interrupter
    BY <2>1 DEF OnceInv, GroupInv
  <2> QED BY <2>1, <2>2, LifecycleAssumption
<1>3. ASSUME NEW l \in lists
      PROVE  /\ c \in Simple
             /\ \E n \in DOMAIN units[r] :
                  units[r][n] = l /\ handler[c] = <<r, n>> /\ handler[c] # Null
  <2>1. PICK n \in DOMAIN units[r] : units[r][n] = l
    BY DEF MembersOf
  <2>2. handler[l] = <<r, n>> /\ <<r, n>> \in Interrupter /\ handler[c] = handler[l]
    BY <2>1 DEF OnceInv, GroupInv
  <2>3. c \in Simple
    <3>1. items[l] \in Seq(Simple) /\ c \in MembersOf(items[l])
      BY DEF OnceInv, LifeInv, LifeTypeOK, ItemsOf
    <3> QED BY <3>1, ElementOfSeq DEF MembersOf
  <2> QED BY <2>1, <2>2, <2>3, LifecycleAssumption
<1>4. \A a, b \in places : a = b
  <2> SUFFICES ASSUME NEW a \in places, NEW b \in places PROVE a = b
    OBVIOUS
  <2>1. <<r, a>> = <<r, b>>
    BY <1>2
  <2> QED BY <2>1
<1>5. \A a, b \in lists : a = b
  BY DEF OnceInv, GroupInv
<1>6. places = {} \/ lists = {}
  <2> SUFFICES ASSUME NEW i \in places, NEW l \in lists PROVE FALSE
    OBVIOUS
  <2>1. c \in Simple /\ l = units[r][i] /\ units[r][i] = c /\ l \in Multiple
    BY <1>2, <1>3
  <2> QED BY <2>1, LifecycleAssumption
<1>7. places # {} \/ lists # {} => handler[c] # Null /\ handler[c][1] = r
  BY <1>2, <1>3
<1> HIDE DEF places, lists
<1>8. /\ Cardinality(places) = IF places = {} THEN 0 ELSE 1
      /\ Cardinality(lists) = IF lists = {} THEN 0 ELSE 1
  BY <1>4, <1>5, AtMostOne
<1> QED BY <1>1, <1>6, <1>7, <1>8

-----------------------------------------------------------------------------
(* FreedInv and ServerInv across each action, when each callable is handed *)
(* over once.                                                              *)

(* get_runner, run() and an add() that hangs delete nothing.               *)
LEMMA OtherOnce ==
  ASSUME OnceInv, NEW r \in Runner, GetRunner(r) \/ Run(r) \/ AddHangs(r)
  PROVE  GroupInv' /\ FreedInv' /\ ServerInv'
<1>1. /\ UNCHANGED <<units, items, handler, given, freed>>
      /\ UNCHANGED server
      /\ LifeTypeOK
  BY DEF GetRunner, Run, AddHangs, objectVars, staticVars, OnceInv, LifeInv
<1>2. /\ state \in [Runner -> {"none", "live", "gone"}] /\ kind \in [Runner -> Kinds]
      /\ handler \in [Object -> Interrupter \cup {Null}] /\ server \in Interrupter \cup {Null}
  BY <1>1 DEF LifeTypeOK
<1>3. ASSUME NEW o \in Runner
      PROVE  /\ state[o] # "none" => state'[o] = state[o] /\ kind'[o] = kind[o]
             /\ Gone(o) => Gone(o)'
  <2>1. CASE GetRunner(r)
    <3>1. state[r] = "none" /\ state' = [state EXCEPT ![r] = "live"]
      BY <2>1 DEF GetRunner
    <3>2. \E kd \in Kinds : kind' = [kind EXCEPT ![r] = kd]
      BY <2>1 DEF GetRunner
    <3>3. state[o] # "none" => o # r
      BY <3>1
    <3> QED BY <1>2, <3>1, <3>2, <3>3 DEF Gone
  <2>2. CASE Run(r) \/ AddHangs(r)
    BY <2>2 DEF Run, AddHangs, Gone
  <2> QED BY <2>1, <2>2
<1>4. GroupInv'
  BY <1>1 DEF OnceInv, GroupInv, ItemsOf
<1>5. FreedInv'
  <2> SUFFICES ASSUME NEW c \in Object
               PROVE  \/ freed[c] = 0
                      \/ freed[c] = 1 /\ handler[c] # Null /\ state'[handler[c][1]] = "gone"
    BY <1>1 DEF FreedInv
  <2>1. \/ freed[c] = 0
        \/ freed[c] = 1 /\ handler[c] # Null /\ state[handler[c][1]] = "gone"
    BY DEF OnceInv, FreedInv
  <2>2. handler[c] # Null => handler[c][1] \in Runner
    BY <1>2 DEF Interrupter
  <2> QED BY <1>3, <2>1, <2>2
<1>6. ServerInv'
  <2>1. server # Null => server[1] \in Runner
    BY <1>2 DEF Interrupter
  <2>2. server' # Null => kind'[server'[1]] = "socket" /\ state'[server'[1]] # "none"
    BY <1>1, <1>3, <2>1 DEF OnceInv, ServerInv
  <2>3. (\E o \in Runner : Gone(o)) => \E o \in Runner : Gone(o)'
    BY <1>3
  <2>4. CASE GetRunner(r) \/ Run(r)
    <3>1. UNCHANGED <<created, failed, hangs>>
      BY <2>4 DEF GetRunner, Run, staticVars
    <3> QED BY <1>1, <2>2, <2>3, <3>1 DEF OnceInv, ServerInv
  <2>5. CASE AddHangs(r)
    <3>1. failed' = (failed \/ ~created) /\ (~created \/ (created /\ server = Null))
      BY <2>5 DEF AddHangs, NeedsServer, CannotListen
    <3>2. failed' \/ \E o \in Runner : Gone(o)'
      BY <2>3, <3>1 DEF OnceInv, ServerInv
    <3> QED BY <2>2, <3>2 DEF ServerInv
  <2> QED BY <2>4, <2>5
<1> QED BY <1>4, <1>5, <1>6

(* A server breaks only after a runner with socket interrupters is gone,   *)
(* for until then the callables hold all of these.                         *)
LEMMA ServersOnce ==
  ASSUME OnceInv, ServerBreaks \/ ForeignServer
  PROVE  GroupInv' /\ FreedInv' /\ ServerInv'
<1>1. /\ UNCHANGED <<state, kind, units, items, handler, given, freed>>
      /\ UNCHANGED <<created, failed, hangs>>
  BY DEF ServerBreaks, ForeignServer, objectVars, staticVars
<1>2. GroupInv'
  BY <1>1 DEF OnceInv, GroupInv, ItemsOf
<1>3. FreedInv'
  BY <1>1 DEF OnceInv, FreedInv
<1>4. CASE ForeignServer
  <2>1. UNCHANGED server
    BY <1>4 DEF ForeignServer, staticVars
  <2> QED BY <1>1, <1>2, <1>3, <2>1 DEF OnceInv, ServerInv, Gone
<1>5. CASE ServerBreaks
  <2>1. server' = Null
    BY <1>5 DEF ServerBreaks
  <2>2. PICK r \in Runner : kind[r] = "socket"
                           /\ \E n \in DOMAIN units[r] : <<r, n>> \notin Held
    BY <1>5 DEF ServerBreaks, SocketClosed
  <2>3. PICK n \in DOMAIN units[r] : <<r, n>> \notin Held
    BY <2>2
  <2> DEFINE c == units[r][n]
  <2>4. c \in Object
    <3>1. units[r] \in Seq(Object)
      BY DEF OnceInv, LifeInv, LifeTypeOK
    <3> QED BY <3>1, ElementOfSeq
  <2>5. handler[c] = <<r, n>> /\ <<r, n>> \in Interrupter
    BY DEF OnceInv, GroupInv
  <2>6. <<r, n>> # Null /\ <<r, n>>[1] = r
    BY <2>5, LifecycleAssumption
  <2> HIDE DEF c
  <2>7. ~Exists(c)
    BY <2>3, <2>4, <2>5, <2>6, HeldBy
  <2>8. Gone(r)
    BY <2>2, <2>4, <2>5, <2>6, <2>7 DEF OnceInv, FreedInv, Exists, Gone
  <2>9. Gone(r)'
    BY <1>1, <2>8 DEF Gone
  <2> QED BY <1>2, <1>3, <2>1, <2>9 DEF ServerInv
<1> QED BY <1>4, <1>5

(* What is static after a step in which no interrupter is made.            *)
LEMMA StaticsServer ==
  ASSUME LifeTypeOK, NEW dying, Statics({}, dying)
  PROVE  /\ created' = created /\ failed' = failed
         /\ server' = IF server \in dying THEN Null ELSE server
<1>1. OfKind({}, "socket") = {}
  BY DEF OfKind
<1>2. /\ created' = (created \/ FALSE) /\ failed' = (failed \/ FALSE)
      /\ server' = IF server \in dying THEN Null ELSE server
  BY <1>1 DEF Statics, PageStatics, ServerStatics, KillsServer
<1>3. created \in BOOLEAN /\ failed \in BOOLEAN
  BY DEF LifeTypeOK
<1> QED BY <1>2, <1>3

(* An item joins a list.                                                   *)
LEMMA AddSingleRest ==
  ASSUME GivenOnce, OnceInv, NEW m \in Multiple, NEW c \in Simple, AddSingleCallable(m, c)
  PROVE  FreedInv' /\ ServerInv'
<1>1. /\ handler' = [handler EXCEPT ![c] = handler[m]]
      /\ UNCHANGED <<state, kind, freed, hangs>>
      /\ Statics({}, Held \ Held')
      /\ handler \in [Object -> Interrupter \cup {Null}]
      /\ LifeTypeOK
  BY DEF AddSingleCallable, OnceInv, LifeInv, LifeTypeOK
<1>2. freed[c] = 0 /\ Held \subseteq Held'
  BY AddSingleOnce
<1>3. FreedInv'
  <2>1. \A d \in Object : freed[d] # 0 => handler'[d] = handler[d]
    BY <1>1, <1>2
  <2> QED BY <1>1, <2>1 DEF OnceInv, FreedInv
<1>4. server \notin Held \ Held'
  BY <1>2
<1>5. server' = server /\ created' = created /\ failed' = failed
  BY <1>1, <1>4, StaticsServer
<1>6. ServerInv'
  BY <1>1, <1>5 DEF OnceInv, ServerInv, Gone
<1> QED BY <1>3, <1>6

(* A callable is added to a runner.                                        *)
LEMMA AddRest ==
  ASSUME GivenOnce, OnceInv, NEW r \in Runner, NEW c \in Object, Add(r, c),
         NEW h, h = <<r, Len(units[r]) + 1>>
  PROVE  FreedInv' /\ ServerInv'
<1>1. /\ UNCHANGED <<state, kind, freed, hangs>>
      /\ handler' = [d \in Object |-> IF d \in TakesHandler(c) THEN h ELSE handler[d]]
      /\ Statics({h}, Held \ Held')
      /\ state[r] = "live" /\ h[1] = r /\ LifeInv
  BY DEF Add, OnceInv
<1>2. \A d \in TakesHandler(c) : freed[d] = 0
  BY AddOnce
<1>3. Held \subseteq Held'
  BY AddOnce
<1>4. h \in Interrupter
  BY <1>1, AddLife
<1>5. FreedInv'
  <2> SUFFICES ASSUME NEW d \in Object, freed[d] # 0
               PROVE  freed[d] = 1 /\ handler'[d] # Null /\ state[handler'[d][1]] = "gone"
    BY <1>1 DEF FreedInv
  <2>1. handler'[d] = handler[d]
    BY <1>1, <1>2
  <2> QED BY <2>1 DEF OnceInv, FreedInv
<1>6. server \notin Held \ Held'
  BY <1>3
<1> DEFINE first == ~created /\ OfKind({h}, "socket") # {}
<1>7. /\ created' = (created \/ first)
      /\ failed' = (failed \/ (first /\ foreign))
      /\ \/ first /\ ~foreign /\ server' \in {h}
         \/ first /\ foreign /\ server' = server
         \/ ~first /\ server' = IF server \in Held \ Held' THEN Null ELSE server
  BY <1>1 DEF Statics, PageStatics, ServerStatics, KillsServer
<1>8. hangs' # {} => failed' \/ \E o \in Runner : Gone(o)'
  BY <1>1, <1>7 DEF OnceInv, ServerInv, Gone
<1>9. CASE first /\ ~foreign
  <2>1. server' = h /\ kind[r] = "socket" /\ h # Null
    BY <1>1, <1>4, <1>7, <1>9, LifecycleAssumption DEF OfKind
  <2>2. kind'[server'[1]] = "socket" /\ state'[server'[1]] # "none" /\ server' # Null
    BY <1>1, <2>1
  <2>3. ServerInv'
    BY <1>8, <2>2 DEF ServerInv
  <2> QED BY <1>5, <2>3
<1>10. CASE first /\ foreign
  <2>1. server' = server /\ failed'
    BY <1>7, <1>10
  <2> HIDE DEF first
  <2>2. ServerInv'
    BY <1>1, <2>1 DEF OnceInv, ServerInv
  <2> QED BY <1>5, <2>2
<1>11. CASE ~first
  <2>1. server' = server /\ created' = (created \/ FALSE) /\ failed' = (failed \/ FALSE)
    BY <1>6, <1>7, <1>11
  <2> HIDE DEF first
  <2>2. ServerInv'
    BY <1>1, <2>1 DEF OnceInv, ServerInv, Gone
  <2> QED BY <1>5, <2>2
<1> QED BY <1>9, <1>10, <1>11

(* A runner is destroyed: what it deletes has not been deleted before, and *)
(* when the server goes with it, the runner that had the server is gone.   *)
LEMMA DestroyOnce ==
  ASSUME OnceInv, NEW r \in Runner, Destroy(r)
  PROVE  GroupInv' /\ FreedInv' /\ ServerInv'
<1>1. /\ state[r] = "live" /\ state' = [state EXCEPT ![r] = "gone"]
      /\ freed' = [c \in Object |-> freed[c] + Deletes(r, c)]
      /\ UNCHANGED <<kind, units, items, handler, given, hangs>>
      /\ Statics({}, Held \ Held')
      /\ LifeTypeOK /\ LifeInv
  BY DEF Destroy, OnceInv, LifeInv
<1>2. /\ state \in [Runner -> {"none", "live", "gone"}]
      /\ handler \in [Object -> Interrupter \cup {Null}] /\ server \in Interrupter \cup {Null}
  BY <1>1 DEF LifeTypeOK
<1>3. \A o \in Runner : o # r => state'[o] = state[o]
  BY <1>1, <1>2
<1>4. state'[r] = "gone"
  BY <1>1, <1>2
<1>5. GroupInv'
  BY <1>1 DEF OnceInv, GroupInv, ItemsOf
<1>6. FreedInv'
  <2> SUFFICES ASSUME NEW c \in Object
               PROVE  \/ freed'[c] = 0
                      \/ freed'[c] = 1 /\ handler[c] # Null /\ state'[handler[c][1]] = "gone"
    BY <1>1 DEF FreedInv
  <2>1. freed'[c] = freed[c] + Deletes(r, c)
    BY <1>1
  <2>2. \/ freed[c] = 0
        \/ freed[c] = 1 /\ handler[c] # Null /\ state[handler[c][1]] = "gone"
    BY DEF OnceInv, FreedInv
  <2>3. handler[c] # Null => handler[c][1] \in Runner
    BY <1>2 DEF Interrupter
  <2>4. /\ Deletes(r, c) \in {0, 1}
        /\ Deletes(r, c) > 0 => handler[c] # Null /\ handler[c][1] = r
    BY DeletesOnce
  <2>5. CASE Deletes(r, c) = 0
    <3>1. freed'[c] = freed[c]
      BY <2>1, <2>2, <2>5
    <3> QED BY <1>1, <1>3, <2>2, <2>3, <3>1
  <2>6. CASE Deletes(r, c) = 1
    <3>1. handler[c] # Null /\ handler[c][1] = r
      BY <2>4, <2>6
    <3>2. freed[c] = 0
      BY <1>1, <2>2, <3>1
    <3> QED BY <1>4, <2>1, <2>6, <3>1, <3>2
  <2> QED BY <2>4, <2>5, <2>6
<1>7. /\ created' = created /\ failed' = failed
      /\ server' = IF server \in Held \ Held' THEN Null ELSE server
  BY <1>1, StaticsServer
<1>8. \A o \in Runner : Gone(o) => Gone(o)'
  BY <1>1, <1>3, <1>4 DEF Gone
<1>9. server # Null => server[1] \in Runner
  BY <1>2 DEF Interrupter
<1>10. server' # Null => kind'[server'[1]] = "socket" /\ state'[server'[1]] # "none"
  <2> SUFFICES ASSUME server' # Null PROVE kind[server[1]] = "socket" /\ state'[server[1]] # "none"
    BY <1>1, <1>7
  <2>1. server # Null
    BY <1>7
  <2> QED BY <1>3, <1>4, <1>9, <2>1 DEF OnceInv, ServerInv
<1>11. created' /\ server' = Null => failed' \/ \E o \in Runner : Gone(o)'
  <2> SUFFICES ASSUME created', server' = Null PROVE failed' \/ \E o \in Runner : Gone(o)'
    OBVIOUS
  <2>1. CASE server = Null
    BY <1>7, <1>8, <2>1 DEF OnceInv, ServerInv
  <2>2. CASE server # Null
    <3>1. server \in Held \ Held'
      BY <1>7, <2>2
    <3>2. PICK c \in Object : Deletes(r, c) > 0 /\ handler[c] = server
      BY <1>1, <3>1, DestroyLife
    <3>3. server[1] = r
      BY <3>2, DeletesOnce
    <3>4. kind[r] = "socket"
      BY <2>2, <3>3 DEF OnceInv, ServerInv
    <3> QED BY <1>1, <1>4, <3>4 DEF Gone
  <2> QED BY <2>1, <2>2
<1>12. hangs' # {} => failed' \/ \E o \in Runner : Gone(o)'
  BY <1>1, <1>7, <1>8 DEF OnceInv, ServerInv
<1>13. ServerInv'
  BY <1>10, <1>11, <1>12 DEF ServerInv
<1> QED BY <1>5, <1>6, <1>13

(* The whole invariant holds initially.                                    *)
LEMMA InitOnce == LifeInit => OnceInv
<1> SUFFICES ASSUME LifeInit PROVE OnceInv
  OBVIOUS
<1>1. GroupInv
  BY DEF LifeInit, GroupInv, ItemsOf, MembersOf
<1>2. FreedInv /\ ServerInv
  BY DEF LifeInit, FreedInv, ServerInv
<1> QED BY <1>1, <1>2, InitLife DEF OnceInv

(* Every step keeps it.                                                    *)
LEMMA NextOnce == ASSUME GivenOnce PROVE OnceInv /\ [LifeNext]_lifeVars => OnceInv'
<1> SUFFICES ASSUME OnceInv, [LifeNext]_lifeVars PROVE GroupInv' /\ FreedInv' /\ ServerInv'
  BY NextLife DEF OnceInv
<1>1. ASSUME NEW r \in Runner, GetRunner(r) \/ Run(r) \/ AddHangs(r)
      PROVE  GroupInv' /\ FreedInv' /\ ServerInv'
  BY <1>1, OtherOnce
<1>2. ASSUME NEW r \in Runner, Destroy(r)
      PROVE  GroupInv' /\ FreedInv' /\ ServerInv'
  BY <1>2, DestroyOnce
<1>3. ASSUME NEW r \in Runner, NEW c \in Object, Add(r, c)
      PROVE  GroupInv' /\ FreedInv' /\ ServerInv'
  <2>1. GroupInv'
    BY <1>3, AddOnce
  <2> QED BY <1>3, <2>1, AddRest
<1>4. ASSUME NEW m \in Multiple, NEW c \in Simple, AddSingleCallable(m, c)
      PROVE  GroupInv' /\ FreedInv' /\ ServerInv'
  BY <1>4, AddSingleOnce, AddSingleRest
<1>5. CASE UNCHANGED lifeVars
  <2>1. /\ UNCHANGED <<state, kind, units, items, handler, given, freed>>
        /\ UNCHANGED <<created, server, failed, hangs>>
    BY <1>5 DEF lifeVars, objectVars, staticVars
  <2>2. GroupInv'
    BY <2>1 DEF OnceInv, GroupInv, ItemsOf
  <2> QED BY <2>1, <2>2 DEF OnceInv, FreedInv, ServerInv, Gone
<1>6. CASE ServerBreaks \/ ForeignServer
  BY <1>6, ServersOnce
<1> QED BY <1>1, <1>2, <1>3, <1>4, <1>5, <1>6 DEF LifeNext

(* The inductive invariant of a program that hands over each callable      *)
(* once.                                                                   *)
THEOREM OnceInvariant == ASSUME GivenOnce PROVE LifeSpec => []OnceInv
  BY InitOnce, NextOnce, PTL DEF LifeSpec

(* When run() is called, every callable it will run has the interrupter of *)
(* its own unit.                                                           *)
THEOREM HandlersReadyHolds == ASSUME GivenOnce PROVE LifeSpec => []HandlersReady
<1>1. OnceInv => HandlersReady
  <2> SUFFICES ASSUME OnceInv, NEW r \in Runner, NEW n \in DOMAIN units[r],
                      NEW c \in {units[r][n]} \cup ItemsOf(units[r][n])
               PROVE  handler[c] = <<r, n>>
    BY DEF HandlersReady
  <2>1. handler[units[r][n]] = <<r, n>>
    BY DEF OnceInv, GroupInv
  <2>2. c \in ItemsOf(units[r][n]) => units[r][n] \in Multiple
    BY DEF ItemsOf
  <2> QED BY <2>1, <2>2 DEF OnceInv, GroupInv
<1> QED BY <1>1, OnceInvariant, PTL

(* No callable is deleted twice.                                           *)
THEOREM FreedOnceHolds == ASSUME GivenOnce PROVE LifeSpec => []FreedOnce
<1>1. OnceInv => FreedOnce
  <2> SUFFICES ASSUME OnceInv, NEW c \in Object PROVE freed[c] <= 1
    BY DEF FreedOnce
  <2>1. freed[c] = 0 \/ freed[c] = 1
    BY DEF OnceInv, FreedInv
  <2> QED BY <2>1
<1> QED BY <1>1, OnceInvariant, PTL

(* add() hangs for want of a server only if the one forked first could not *)
(* listen, or after a runner with socket interrupters has been destroyed.  *)
THEOREM HangsForCauseHolds == ASSUME GivenOnce PROVE LifeSpec => []HangsForCause
<1>1. OnceInv => HangsForCause
  BY DEF OnceInv, ServerInv, Gone, HangsForCause
<1> QED BY <1>1, OnceInvariant, PTL
=============================================================================
