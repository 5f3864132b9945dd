-------------------------------- MODULE Guest --------------------------------
(***************************************************************************)
(* What is computed off chain: the guest program (crates/methods/guest),   *)
(* and how the prover and the contract take its journal apart.  Bytes,     *)
(* words and hashes may be narrower than the code's; sha256 is a constant. *)
(***************************************************************************)
EXTENDS Integers, SequencesExt

CONSTANTS Base,          \* values of a byte: 256
          WordBytes,     \* bytes of a u64: 8
          FieldBytes,    \* bytes of a JobId and of a sha256: 32
          Sha256(_),
          Data           \* inputs that are considered

Byte == 0 .. Base - 1
Field == [1..FieldBytes -> Byte]

ASSUME GuestAssumption ==
  /\ Base \in Nat \ {0, 1}
  /\ {WordBytes, FieldBytes} \subseteq Nat \ {0}
  /\ Data \subseteq Seq(Byte)
  /\ \A d \in Data : Sha256(d) \in Field

(* How many numbers k bytes can hold.                                      *)
Numbers[k \in 0..WordBytes] == IF k = 0 THEN 1 ELSE Base * Numbers[k - 1]

Modulus == Numbers[WordBytes]

(* The number that the last k bytes stand for, for each k.                 *)
FromLittleEndian(bytes) ==
  LET last[k \in 0 .. Len(bytes)] ==
        IF k = 0 THEN 0 ELSE bytes[Len(bytes) - k + 1] + Base * last[k - 1]
  IN last[Len(bytes)]

(* What is left of n after each byte.                                      *)
ToLittleEndian(n) ==
  LET left[i \in 0..WordBytes] == IF i = 0 THEN n ELSE left[i - 1] \div Base
  IN [i \in 1..WordBytes |-> left[i - 1] % Base]

(* The first eight bytes, or all there are and zeros behind them.          *)
Input(data) ==
  FromLittleEndian([i \in 1..WordBytes |-> IF i <= Len(data) THEN data[i] ELSE 0])

SaturatingAdd(x, y) == Min({x + y, Modulus - 1})

WrappingAdd(x, y) == (x + y) % Modulus

Turn(ab) == <<ab[2], WrappingAdd(ab[1], ab[2])>>

(* a and b at the end of the loop for i.                                   *)
AB[i \in 1 .. Modulus - 1] == IF i = 1 THEN <<0, 1>> ELSE Turn(AB[i - 1])

Fibonacci(n) == IF n = 0 THEN 0 ELSE AB[n][2]

GuestMain(id, data) == id \o Sha256(data) \o ToLittleEndian(Fibonacci(Input(data)))

-----------------------------------------------------------------------------

JournalTooShort == [error |-> "journal too short"]

(* submitProof up to the verifier, and prove_sync after the receipt.       *)
ReadJournal(journal) ==
  IF Len(journal) < 2 * FieldBytes THEN JournalTooShort
  ELSE [job_id |-> SubSeq(journal, 1, FieldBytes),
        payload_hash |-> SubSeq(journal, FieldBytes + 1, 2 * FieldBytes),
        result |-> SubSeq(journal, 2 * FieldBytes + 1, Len(journal))]

ProveSync(id, data) == ReadJournal(GuestMain(id, data))

-----------------------------------------------------------------------------

(* fibonacci() is the Fibonacci sequence modulo the width.                 *)
FibonacciModuloWidth ==
  /\ Fibonacci(0) = 0 /\ Fibonacci(1) = 1
  /\ \A n \in 2 .. Modulus - 1 :
       Fibonacci(n) = (Fibonacci(n - 1) + Fibonacci(n - 2)) % Modulus

(* The number an input stands for: little-endian, modulo the width.        *)
ResultOf(data) == Fibonacci(FromLittleEndian(data) % Modulus)

(* For every job and input, also one shorter or longer than a word, the    *)
(* contract and the prover read from the journal the job, the hash of the  *)
(* whole input, and the Fibonacci number of the input.                     *)
JournalsAreRead ==
  \A id \in Field, data \in Data :
    LET read == ProveSync(id, data)
    IN /\ read # JournalTooShort
       /\ read.job_id = id
       /\ read.payload_hash = Sha256(data)
       /\ FromLittleEndian(read.result) = ResultOf(data)
=============================================================================
