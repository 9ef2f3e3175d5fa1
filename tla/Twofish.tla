------------------------------- MODULE Twofish -------------------------------
(***************************************************************************)
(* The block cipher of sources/twofish.cpp, as far as it does not depend   *)
(* on the tables: words and the operations on them, one cycle (two rounds) *)
(* of encrypt and of decrypt, and the way a block becomes four words and   *)
(* back.                                                                   *)
(*                                                                         *)
(* A byte is the set of the positions of its one bits, and so is a word:   *)
(* then ^ is the symmetric difference.  The session key (the tables sBox   *)
(* and the 40 subkeys) that make_session_key computes is a parameter:      *)
(* nothing here depends on how it is computed.                             *)
(***************************************************************************)
EXTENDS Integers

CONSTANTS
    ByteBits,    \* the bits of a byte: 8 in the program
    Keys,        \* the keys that are used
    SessionKey   \* SessionKey[key].sbox[t][b] and SessionKey[key].skey[k]

WordBits == 4 * ByteBits
Byte     == SUBSET (0 .. ByteBits - 1)
Bit      == 0 .. WordBits - 1
Word     == SUBSET Bit
Words    == [0 .. 3 -> Word]     \* x0, x1, x2, x3
Block    == [0 .. 15 -> Byte]    \* block_t

(***************************************************************************)
(* Shifting a word by its width or more is undefined in C++.  The macro Bn *)
(* does so for n > 3.  An unoptimised build leaves it to the processor,    *)
(* which takes the count modulo 32 ("masked"); an optimising compiler      *)
(* replaces the result by 0 ("zero").                                      *)
(***************************************************************************)
Shifts == {"masked", "zero"}

TwofishAssumption ==
    /\ ByteBits \in Nat \ {0}
    /\ SessionKey \in [Keys -> [sbox : [0 .. 3 -> [Byte -> Word]],
                                skey : [0 .. 39 -> Word]]]

ASSUME TwofishAssumption

-----------------------------------------------------------------------------
(* Words.                                                                  *)

Xor(a, b) == (a \ b) \cup (b \ a)

Rol(w) == {i \in Bit : (IF i = 0 THEN WordBits - 1 ELSE i - 1) \in w}

Ror(w) == {i \in Bit : (IF i = WordBits - 1 THEN 0 ELSE i + 1) \in w}

\* The sum modulo 2^WordBits, bit by bit; carry[i] is the carry into bit i.
Plus(a, b) ==
    LET carry[i \in Nat] ==
            /\ i > 0
            /\ \/ i - 1 \in a /\ i - 1 \in b
               \/ carry[i - 1] /\ i - 1 \in a \cup b
    IN {i \in Bit : (i \in Xor(a, b)) # carry[i]}

\* The n-th byte of a word.
ByteOf(w, n) == {i \in 0 .. ByteBits - 1 : n * ByteBits + i \in w}

\* b << 8 * n
ShiftedByte(b, n) == {i \in Bit : i - n * ByteBits \in b}

\* The macro Bn.
Bn(w, n, shift) ==
    IF n < 4 THEN ByteOf(w, n)
    ELSE IF shift = "masked" THEN ByteOf(w, n - 4) ELSE {}

\* The macro g: the input goes through the four S-boxes, starting with byte R.
g(key, x, R, shift) ==
    LET S(t) == SessionKey[key].sbox[t][Bn(x, R + t, shift)]
    IN Xor(Xor(Xor(S(0), S(1)), S(2)), S(3))

\* t0 + t1 + skey[k]
F0(key, x, y, k, shift) ==
    Plus(Plus(g(key, x, 0, shift), g(key, y, 3, shift)), SessionKey[key].skey[k])

\* t0 + 2*t1 + skey[k]
F1(key, x, y, k, shift) ==
    LET t1 == g(key, y, 3, shift)
    IN Plus(Plus(g(key, x, 0, shift), Plus(t1, t1)), SessionKey[key].skey[k])

-----------------------------------------------------------------------------
(* The body of the loops.  k is the subkey the cycle begins with.           *)

WordsOf(w0, w1, w2, w3) ==
    [n \in 0 .. 3 |-> CASE n = 0 -> w0 [] n = 1 -> w1 [] n = 2 -> w2 [] n = 3 -> w3]

EncryptCycle(key, x, k, shift) ==
    LET x2 == Ror(Xor(x[2], F0(key, x[0], x[1], k, shift)))
        x3 == Xor(Rol(x[3]), F1(key, x[0], x[1], k + 1, shift))
        x0 == Ror(Xor(x[0], F0(key, x2, x3, k + 2, shift)))
        x1 == Xor(Rol(x[1]), F1(key, x2, x3, k + 3, shift))
    IN WordsOf(x0, x1, x2, x3)

\* Plausible mistake: the subkeys of a half cycle taken in the order of encrypt.
DecryptCycleUnreversed(key, x, k, shift) ==
    LET x1 == Ror(Xor(x[1], F1(key, x[2], x[3], k - 1, shift)))
        x0 == Xor(Rol(x[0]), F0(key, x[2], x[3], k, shift))
        x3 == Ror(Xor(x[3], F1(key, x0, x1, k - 3, shift)))
        x2 == Xor(Rol(x[2]), F0(key, x0, x1, k - 2, shift))
    IN WordsOf(x0, x1, x2, x3)

DecryptCycle(key, x, k, shift) ==
    LET x1 == Ror(Xor(x[1], F1(key, x[2], x[3], k, shift)))
        x0 == Xor(Rol(x[0]), F0(key, x[2], x[3], k - 1, shift))
        x3 == Ror(Xor(x[3], F1(key, x0, x1, k - 2, shift)))
        x2 == Xor(Rol(x[2]), F0(key, x0, x1, k - 3, shift))
    IN WordsOf(x0, x1, x2, x3)

-----------------------------------------------------------------------------
(* Blocks and words.  A block's word n is its bytes 4 * n to 4 * n + 3, the *)
(* lowest first.                                                           *)

Joined(b0, b1, b2, b3) ==
    ShiftedByte(b0, 0) \cup ShiftedByte(b1, 1) \cup ShiftedByte(b2, 2) \cup ShiftedByte(b3, 3)

WordAt(p, n) == Joined(p[4 * n], p[4 * n + 1], p[4 * n + 2], p[4 * n + 3])

BlockOf(x) == [j \in 0 .. 15 |-> ByteOf(x[j \div 4], j % 4)]

\* x ^ the subkeys from the k-th on.
Whitened(key, x, k) == [n \in 0 .. 3 |-> Xor(x[n], SessionKey[key].skey[k + n])]

\* x2, x3, x0, x1: the last swap is undone.
Swapped(x) == WordsOf(x[2], x[3], x[0], x[1])

WordsAt(p) == [n \in 0 .. 3 |-> WordAt(p, n)]

\* Before the first and after the last cycle of encrypt.
EncryptInput(key, p)  == Whitened(key, WordsAt(p), 0)
EncryptOutput(key, x) == BlockOf(Whitened(key, Swapped(x), 4))

\* Before the first and after the last cycle of decrypt.
DecryptInput(key, c)  == Swapped(Whitened(key, WordsAt(c), 4))
DecryptOutput(key, x) == BlockOf(Whitened(key, x, 0))
=============================================================================
