------------------------------ MODULE Encryptor ------------------------------
(***************************************************************************)
(* sources/encryptor.cpp: a string is encrypted with one key and decrypted *)
(* with another or the same, as main and decrypt_with_key do.  encrypt     *)
(* pads the string with zeros to whole blocks, decrypt ends the string at  *)
(* the first zero byte.  One step of the specification is the preparation  *)
(* of a vector, the load of a block, one cycle of the cipher, the store of *)
(* a block, or the cut.                                                    *)
(*                                                                         *)
(* A vector is a sequence: vec[j] in C++ is vec[j + 1] here.  The lengths  *)
(* stay below 2^31, where the int that counts them ends.                   *)
(***************************************************************************)
EXTENDS Twofish, Sequences, FiniteSets

CONSTANT Texts    \* the strings that may be encrypted

BlockSize == 16   \* block_size
CycleCount == 8

EncryptorAssumption == Texts \subseteq Seq(Byte)

ASSUME EncryptorAssumption

VARIABLES
    key, trial,          \* the keys of encrypt and of decrypt
    shift,               \* what the build makes of an overlong shift
    to_encrypt,          \* the string
    to_encrypt_vector, encrypted, decrypted, output,
    pc,
    offset,              \* the i of the loop over the blocks
    x, cycle, k          \* locals of the cipher: the words, its i, its k

settings == <<key, trial, shift, to_encrypt>>
vectors  == <<to_encrypt_vector, encrypted, decrypted, output>>
locals   == <<x, cycle, k>>
vars     == <<settings, vectors, pc, offset, locals>>

PCs == {"pad", "encrypt", "encryptCycles", "decrypt", "decryptCycles", "done"}

Zeros(size) == [j \in 1 .. size |-> {}]
NoWords     == [n \in 0 .. 3 |-> {}]

TypeOK ==
    /\ key \in Keys /\ trial \in Keys
    /\ shift \in Shifts
    /\ to_encrypt \in Texts
    /\ to_encrypt_vector \in Seq(Byte)
    /\ encrypted \in Seq(Byte)
    /\ decrypted \in Seq(Byte)
    /\ output \in Seq(Byte)
    /\ pc \in PCs
    /\ offset \in Nat
    /\ x \in Words
    /\ cycle \in 0 .. CycleCount
    /\ k \in {0} \cup 7 .. 40

Init ==
    /\ key \in Keys /\ trial \in Keys
    /\ shift \in Shifts
    /\ to_encrypt \in Texts
    /\ to_encrypt_vector = <<>> /\ encrypted = <<>> /\ decrypted = <<>>
    /\ output = <<>>
    /\ pc = "pad"
    /\ offset = 0
    /\ x = NoWords /\ cycle = 0 /\ k = 0

\* Plausible mistake: room for the terminator only.
TerminatedSize(n) == n + 1

PaddedSize(n) == n + (BlockSize - (n % BlockSize))

Padded(s) == [j \in 1 .. PaddedSize(Len(s)) |-> IF j <= Len(s) THEN s[j] ELSE {}]

\* A block copied out of a vector, and into one.
BlockAt(vec, o) == [j \in 0 .. BlockSize - 1 |-> vec[o + j + 1]]

WithBlock(vec, o, block) ==
    [j \in 1 .. Len(vec) |->
        IF j \in o + 1 .. o + BlockSize THEN block[j - o - 1] ELSE vec[j]]

-----------------------------------------------------------------------------
\* encrypt up to its loop over the blocks.
Pad ==
    /\ pc = "pad"
    /\ to_encrypt_vector' = Padded(to_encrypt)
    /\ encrypted' = Zeros(PaddedSize(Len(to_encrypt)))
    /\ pc' = "encrypt"
    /\ UNCHANGED <<settings, decrypted, output, offset, locals>>

\* The next block is handed to twofish256::encrypt.
EncryptBlock ==
    /\ pc = "encrypt"
    /\ offset < Len(encrypted)
    /\ x' = EncryptInput(key, BlockAt(to_encrypt_vector, offset))
    /\ cycle' = 0
    /\ k' = 8
    /\ pc' = "encryptCycles"
    /\ UNCHANGED <<settings, vectors, offset>>

DoEncryptCycle ==
    /\ pc = "encryptCycles"
    /\ cycle < CycleCount
    /\ x' = EncryptCycle(key, x, k, shift)
    /\ cycle' = cycle + 1
    /\ k' = k + 4
    /\ UNCHANGED <<settings, vectors, pc, offset>>

\* twofish256::encrypt returns the block.
StoreEncrypted ==
    /\ pc = "encryptCycles"
    /\ cycle = CycleCount
    /\ encrypted' = WithBlock(encrypted, offset, EncryptOutput(key, x))
    /\ offset' = offset + BlockSize
    /\ pc' = "encrypt"
    /\ UNCHANGED <<settings, to_encrypt_vector, decrypted, output, locals>>

\* encrypt returns, and decrypt begins.
BeginDecrypt ==
    /\ pc = "encrypt"
    /\ offset >= Len(encrypted)
    /\ decrypted' = Zeros(Len(encrypted))
    /\ offset' = 0
    /\ pc' = "decrypt"
    /\ UNCHANGED <<settings, to_encrypt_vector, encrypted, output, locals>>

\* Plausible mistake: the subkeys counted down from the last but one.
DecryptBlockLate ==
    /\ pc = "decrypt"
    /\ offset < Len(encrypted)
    /\ x' = DecryptInput(trial, BlockAt(encrypted, offset))
    /\ cycle' = 0
    /\ k' = 38
    /\ pc' = "decryptCycles"
    /\ UNCHANGED <<settings, vectors, offset>>

\* The next block is handed to twofish256::decrypt.
DecryptBlock ==
    /\ pc = "decrypt"
    /\ offset < Len(encrypted)
    /\ x' = DecryptInput(trial, BlockAt(encrypted, offset))
    /\ cycle' = 0
    /\ k' = 39
    /\ pc' = "decryptCycles"
    /\ UNCHANGED <<settings, vectors, offset>>

DoDecryptCycle ==
    /\ pc = "decryptCycles"
    /\ cycle < CycleCount
    /\ x' = DecryptCycle(trial, x, k, shift)
    /\ cycle' = cycle + 1
    /\ k' = k - 4
    /\ UNCHANGED <<settings, vectors, pc, offset>>

\* twofish256::decrypt returns the block.
StoreDecrypted ==
    /\ pc = "decryptCycles"
    /\ cycle = CycleCount
    /\ decrypted' = WithBlock(decrypted, offset, DecryptOutput(trial, x))
    /\ offset' = offset + BlockSize
    /\ pc' = "decrypt"
    /\ UNCHANGED <<settings, to_encrypt_vector, encrypted, output, locals>>

\* The bytes before the first zero.
UpToZero(s) ==
    SubSeq(s, 1, Cardinality({n \in 1 .. Len(s) : \A j \in 1 .. n : s[j] # {}}))

\* The last loop of decrypt, and its return.
Cut ==
    /\ pc = "decrypt"
    /\ offset >= Len(encrypted)
    /\ output' = UpToZero(decrypted)
    /\ pc' = "done"
    /\ UNCHANGED <<settings, to_encrypt_vector, encrypted, decrypted, offset, locals>>

Next ==
    \/ Pad
    \/ EncryptBlock \/ DoEncryptCycle \/ StoreEncrypted
    \/ BeginDecrypt
    \/ DecryptBlock \/ DoDecryptCycle \/ StoreDecrypted
    \/ Cut

Spec == Init /\ [][Next]_vars

-----------------------------------------------------------------------------
(***************************************************************************)
(* decrypt with the key of encrypt gives back the string up to its first   *)
(* zero byte, whatever the key, the tables and the build: the cycles are   *)
(* undone in the opposite order with the same subkeys, although decrypt    *)
(* counts them down, and the padding is removed.  decrypt_with_key and the *)
(* checker of the search rely on it.                                       *)
(***************************************************************************)
RoundTrip ==
    (pc = "done" /\ trial = key) => output = UpToZero(to_encrypt)

(***************************************************************************)
(* The loop over the blocks reads block_size bytes from each offset below  *)
(* the size, of a vector it has not measured in blocks: they are there,    *)
(* of every vector that encrypt has made.                                  *)
(***************************************************************************)
BlocksInside ==
    /\ (pc = "encrypt" /\ offset < Len(encrypted))
            => offset + BlockSize <= Len(to_encrypt_vector)
    /\ (pc = "decrypt" /\ offset < Len(encrypted))
            => offset + BlockSize <= Len(encrypted)

\* Rotates a word to the left by one byte.
RolByte(w) == Joined(ByteOf(w, 3), ByteOf(w, 0), ByteOf(w, 1), ByteOf(w, 2))

(***************************************************************************)
(* "T1 = g(ROL(R1, 8))" (twofish.cpp:202): the second half of a cycle's    *)
(* input goes through g rotated by a byte.  The code has g start with byte *)
(* 3 instead and relies on an overlong shift to wrap around.               *)
(***************************************************************************)
RotatedInput ==
    pc = "encryptCycles" =>
        g(key, x[1], 3, shift) = g(key, RolByte(x[1]), 0, shift)
=============================================================================
