------------------------- MODULE DecryptorSequence -------------------------
(***************************************************************************)
(* How parallel_decryptor.h splits a key range over the parallel units:    *)
(* prepare_mapped_functions gives every unit a lazy DecryptorSequence,     *)
(* prepare_functions gives it an eager list of Callables.  The arithmetic  *)
(* is C++ arithmetic on uint32_t and int, with Modulus standing for 2^32;  *)
(* the build wraps on int overflow (no optimisation level is set), so a    *)
(* value converted to uint32_t is the mathematical value % Modulus.        *)
(***************************************************************************)
EXTENDS Integers

CONSTANTS
  Modulus,   \* number of values of uint32_t
  Requests   \* the argument records the two functions are called with

Half == Modulus \div 2

UInt == 0 .. Modulus - 1

(* num_threads = 0 would divide by zero; it is a uint16_t, so it is small. *)
Request == [range_begin : UInt, range_end : UInt, num_threads : 1 .. Half - 1]

ASSUME ModulusAssumption == Modulus \in Nat /\ Modulus > 3 /\ Modulus = 2 * Half

ASSUME RequestsAssumption == Requests \subseteq Request

VARIABLES
  req,      \* the arguments of this call
  j,        \* j[i]: the field j of the i-th DecryptorSequence
  yielded   \* yielded[i]: the keys its next() has returned

splitVars == <<req, j, yielded>>

Worker == 0 .. req.num_threads - 1

-----------------------------------------------------------------------------
(* The implicit conversion of a uint32_t to the int parameter of div. *)
ToInt(x) == IF x < Half THEN x ELSE x - Modulus

RangeSize(r) == (r.range_end - r.range_begin) % Modulus

(* C division truncates towards zero, the divisor is positive. *)
Quot(a, b) == IF a >= 0 THEN a \div b ELSE -((-a) \div b)

StepRoundedDown(r) == Quot(ToInt(RangeSize(r)), r.num_threads)

StepOf(r) ==
  LET size == ToInt(RangeSize(r))
      quot == Quot(size, r.num_threads)
  IN  IF size = quot * r.num_threads THEN quot ELSE quot + 1

KeyAt(r, i, k) == (i * StepOf(r) + k) % Modulus

HasNextOneShort(r, i, k) == KeyAt(r, i, k) <= r.range_end /\ k < StepOf(r)

HasNextOneLong(r, i, k) == KeyAt(r, i, k) <= r.range_end /\ k <= StepOf(r) + 1

HasNext(r, i, k) == KeyAt(r, i, k) <= r.range_end /\ k <= StepOf(r)

(* The keys prepare_functions puts in the list of unit i: in round m of    *)
(* its inner loop j is ToInt(m), the loop ends when j is beyond step, and  *)
(* it breaks at a key beyond range_end.                                    *)
EagerKeys(r, i) ==
  LET key(m) == KeyAt(r, i, ToInt(m))
      inRange(m) == ToInt(m) <= StepOf(r) /\ key(m) <= r.range_end
  IN  { key(m) : m \in { n \in UInt : \A l \in 0 .. n : inRange(l) } }

IncrementedAsLong(k) == k + 1

(* j++ on an int: the one after Half - 1 is -Half. *)
Incremented(k) == ToInt((k + 1) % Modulus)

-----------------------------------------------------------------------------
SplitInit ==
  /\ req \in Requests
  /\ j = [i \in Worker |-> 0]
  /\ yielded = [i \in Worker |-> {}]

Take(i) ==
  /\ HasNext(req, i, j[i])
  /\ yielded' = [yielded EXCEPT ![i] = @ \cup {KeyAt(req, i, j[i])}]
  /\ j' = [j EXCEPT ![i] = Incremented(@)]
  /\ UNCHANGED req

SplitNext == \E i \in Worker : Take(i)

SplitSpec == SplitInit /\ [][SplitNext]_splitVars

-----------------------------------------------------------------------------
Exhausted(i) == ~HasNext(req, i, j[i])

AllExhausted == \A i \in Worker : Exhausted(i)

AllYielded == UNION { yielded[i] : i \in Worker }

(* The requests the split is right for: main.cpp's, with range_begin = 0   *)
(* and a range an int can hold.                                            *)
Narrow == req.range_begin = 0 /\ req.range_end < Half

(* Type invariant of the generators: each counter is an int and each       *)
(* yielded key a uint32_t, for exactly the units that were requested.      *)
SplitTypeOK ==
  /\ req \in Request
  /\ j \in [Worker -> -Half .. Half - 1]
  /\ yielded \in [Worker -> SUBSET UInt]

(* No key is lost between two units: when every generator of a Narrow      *)
(* request is exhausted, every key from 0 to range_end, both included, has *)
(* been handed out (the rounding of step and the inclusive bound j <= step *)
(* of has_next are what this rests on).                                    *)
NoKeyMissed ==
  AllExhausted /\ Narrow => 0 .. req.range_end \subseteq AllYielded

(* Work is duplicated only where two neighbouring units meet: a key that   *)
(* two units of a Narrow request both test is the first key of the later   *)
(* one.  (With range_end = 0 the step is 0 and every unit tests key 0.)    *)
SharedOnlyAtBoundary ==
  Narrow /\ req.range_end > 0 => \A i1, i2 \in Worker :
    i1 < i2 => \A key \in yielded[i1] \cap yielded[i2] :
                  i2 = i1 + 1 /\ key = i2 * StepOf(req)

(* The eager and the lazy implementation agree: an exhausted generator has *)
(* yielded exactly the keys prepare_functions would have listed, whatever  *)
(* the arguments are.                                                      *)
EagerAgrees == \A i \in Worker : Exhausted(i) => yielded[i] = EagerKeys(req, i)
=============================================================================
