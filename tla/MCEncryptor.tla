----------------------------- MODULE MCEncryptor -----------------------------
(***************************************************************************)
(* An instance of Encryptor for TLC: bytes of 2 bits, two keys, tables     *)
(* that treat every byte and every table differently, and strings on both  *)
(* sides of a block's end, with and without a zero byte in them.           *)
(***************************************************************************)
EXTENDS Encryptor

MCKeys == {0, 1}

MCSessionKey ==
    [a \in MCKeys |->
        [sbox |-> [t \in 0 .. 3 |->
                      [b \in Byte |-> {(3 * i + 2 * t + a) % WordBits : i \in b}
                                      \cup {(t * t + a) % WordBits}]],
         skey |-> [n \in 0 .. 39 |->
                      {i \in Bit : (n * (i + 1) + (n \div 3) * i * i + a * i) % 7 < 3}]]]

\* n bytes without a zero, of three values.
Plain(n) == [j \in 1 .. n |-> CASE j % 3 = 0 -> {0} [] j % 3 = 1 -> {1} [] j % 3 = 2 -> {0, 1}]

MCTexts ==
    {Plain(n) : n \in {0, 1, 3, 15, 16, 17}}
        \cup {[Plain(17) EXCEPT ![z] = {}] : z \in {1, 16, 17}}
=============================================================================
