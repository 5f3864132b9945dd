----------------------------- MODULE GuestProofs -----------------------------
(***************************************************************************)
(* What the guest computes and how its journal is read, for bytes, words   *)
(* and fields of any width and for every input; and that a paid job has    *)
(* the result its owner ordered.                                           *)
(***************************************************************************)
EXTENDS FibonacciJobs, JobRegistryProofs

-----------------------------------------------------------------------------
(* Arithmetic                                                              *)

(* Division with a rest.                                                   *)
LEMMA DivMod ==
  ASSUME NEW n \in Nat, NEW b \in Nat \ {0}
  PROVE  /\ n \div b \in Nat /\ n % b \in Nat
         /\ n % b < b
         /\ n = b * (n \div b) + (n % b)
OBVIOUS

(* A larger factor makes a product larger by the other factor at least.    *)
LEMMA Products ==
  ASSUME NEW m \in Nat, NEW p \in Nat, NEW q \in Nat
  PROVE  /\ m * p \in Nat
         /\ p < q => m * p + m <= m * q
         /\ m * 0 = 0
OBVIOUS

(* There is one way to divide.                                             *)
LEMMA OneDivision ==
  ASSUME NEW m \in Nat \ {0}, NEW p \in Nat, NEW q \in Nat, NEW r \in Nat, NEW s \in Nat,
         r < m, s < m, m * p + r = m * q + s
  PROVE  r = s /\ p = q
<1>1. ~(p < q)
  BY Products
<1>2. ~(q < p)
  BY Products
<1> QED BY <1>1, <1>2

(* The rest of a number that is put together from a rest.                  *)
LEMMA RestOf ==
  ASSUME NEW m \in Nat \ {0}, NEW q \in Nat, NEW r \in Nat, r < m
  PROVE  (r + m * q) % m = r
<1> DEFINE n == r + m * q
<1>1. n \in Nat
  BY Products
<1> HIDE DEF n
<1>2. /\ n % m < m /\ n = m * (n \div m) + (n % m)
      /\ n % m \in Nat /\ n \div m \in Nat
  BY <1>1, DivMod
<1> DEFINE t == n % m
           d == n \div m
<1>3. t \in Nat /\ d \in Nat /\ t < m /\ m * d + t = m * q + r
  <2>1. n = m * q + r
    BY Products DEF n
  <2> QED BY <1>2, <2>1
<1> HIDE DEF t, d
<1>4. t = r
  BY <1>3, OneDivision
<1> QED BY <1>4 DEF t, n

(* What is below a product divides into what is below the other factor.    *)
LEMMA DividesBelow ==
  ASSUME NEW n \in Nat, NEW b \in Nat \ {0}, NEW p \in Nat, n < b * p
  PROVE  n \div b < p
<1> DEFINE q == n \div b
<1>1. q \in Nat /\ b * q <= n
  BY DivMod
<1> HIDE DEF q
<1>2. ~(p < q)
  BY <1>1, Products
<1>3. p # q
  BY <1>1
<1> QED BY <1>1, <1>2, <1>3 DEF q

-----------------------------------------------------------------------------
(* Recursive functions                                                     *)

(* f begins with x, and its k-th value is the k-th step from the one before. *)
Computes(f, n, X, x, S) == /\ f \in [0..n -> X]
                           /\ f[0] = x
                           /\ \A k \in 1..n : f[k] = S[k][f[k - 1]]

(* What is computed step by step exists.                                   *)
LEMMA StepByStep ==
  ASSUME NEW n \in Nat, NEW X, NEW x \in X, NEW S, \A k \in 1..n : S[k] \in [X -> X]
  PROVE  \E f : Computes(f, n, X, x, S)
<1> DEFINE Runs(f, k) == Computes(f, k, X, x, S)
           P == {k \in 0..n : \E f : Runs(f, k)}
<1>1. 0 \in P
  <2> DEFINE f == [i \in 0..0 |-> x]
  <2>1. Runs(f, 0)
    BY DEF Computes
  <2> HIDE DEF f, Runs
  <2>2. 0 \in 0..n
    OBVIOUS
  <2> QED BY <2>1, <2>2
<1>2. ASSUME NEW k \in 1..n, k - 1 \in P
      PROVE  k \in P
  <2>1. PICK f : Runs(f, k - 1)
    BY <1>2
  <2> DEFINE y == S[k][f[k - 1]]
             g == [i \in 0..k |-> IF i = k THEN y ELSE f[i]]
  <2>2. f[k - 1] \in X /\ y \in X
    BY <2>1 DEF Computes
  <2>3. \A i \in 0..k - 1 : f[i] \in X
    BY <2>1 DEF Computes
  <2> HIDE DEF y
  <2>4. g \in [0..k -> X]
    BY <2>2, <2>3
  <2>5. g[k] = y /\ \A i \in 0..k - 1 : g[i] = f[i]
    OBVIOUS
  <2> HIDE DEF g
  <2>6. ASSUME NEW i \in 1..k
        PROVE  g[i] = S[i][g[i - 1]]
    <3>1. g[i - 1] = f[i - 1]
      BY <2>5
    <3>2. CASE i = k
      BY <2>5, <3>1, <3>2 DEF y
    <3>3. CASE i # k
      BY <2>1, <2>5, <3>1, <3>3 DEF Computes
    <3> QED BY <3>2, <3>3
  <2>7. g[0] = x
    BY <2>1, <2>5 DEF Computes
  <2>8. Runs(g, k)
    BY <2>4, <2>6, <2>7 DEF Computes
  <2> QED BY <2>8
<1>3. P = 0..n
  <2> HIDE DEF P
  <2>1. P \in SUBSET (0..n)
    BY DEF P
  <2> QED BY <1>1, <1>2, <2>1, UpToInduction
<1>4. n \in P
  <2> HIDE DEF P
  <2> QED BY <1>3
<1> QED BY <1>4


-----------------------------------------------------------------------------
(* Numbers and bytes                                                       *)

(* The widths are numbers, and a byte can be nothing but 0 ... Base - 1.   *)
LEMMA Widths ==
  /\ Base \in Nat /\ Base >= 2 /\ WordBytes \in Nat /\ WordBytes >= 1
  /\ FieldBytes \in Nat /\ FieldBytes >= 1
  /\ \A b : b \in Byte <=> b \in Nat /\ b < Base
BY GuestAssumption DEF Byte

(* Each byte more multiplies the numbers that can be held.                 *)
LEMMA NumbersSteps ==
  /\ Numbers[0] = 1
  /\ \A k \in 1..WordBytes : Numbers[k] = Base * Numbers[k - 1]
  /\ \A k \in 0..WordBytes : Numbers[k] \in Nat /\ Numbers[k] >= 1
  /\ Modulus \in Nat /\ Modulus >= 2
<1> DEFINE S == [k \in 1..WordBytes |-> [h \in Nat |-> Base * h]]
           Is(g) == g = [k \in 0..WordBytes |-> IF k = 0 THEN 1 ELSE Base * g[k - 1]]
<1>1. \A k \in 1..WordBytes : S[k] \in [Nat -> Nat]
  BY Widths
<1>2. \A k \in 1..WordBytes : \A h \in Nat : S[k][h] = Base * h
  OBVIOUS
<1> HIDE DEF S
<1>3. PICK f : Computes(f, WordBytes, Nat, 1, S)
  BY <1>1, Widths, StepByStep
<1>4. f \in [0..WordBytes -> Nat] /\ f[0] = 1
      /\ \A k \in 1..WordBytes : f[k] = Base * f[k - 1]
  <2>1. f \in [0..WordBytes -> Nat] /\ f[0] = 1
        /\ \A k \in 1..WordBytes : f[k] = S[k][f[k - 1]]
    BY <1>3 DEF Computes
  <2>2. \A k \in 1..WordBytes : f[k - 1] \in Nat
    BY <2>1, Widths
  <2> QED BY <1>2, <2>1, <2>2
<1>5. Is(f)
  BY <1>4, Widths
<1>6. Numbers = CHOOSE g : Is(g)
  BY DEF Numbers
<1>7. Is(Numbers)
  BY <1>5, <1>6
<1>8. \A k \in 0..WordBytes : Numbers[k] = IF k = 0 THEN 1 ELSE Base * Numbers[k - 1]
  BY <1>7
<1>9. Numbers[0] = 1 /\ \A k \in 1..WordBytes : Numbers[k] = Base * Numbers[k - 1]
  BY <1>8, Widths
<1> DEFINE P == {k \in 0..WordBytes : Numbers[k] \in Nat /\ Numbers[k] >= 1}
<1>10. 0 \in P
  BY <1>9, Widths
<1>11. ASSUME NEW k \in 1..WordBytes, k - 1 \in P
       PROVE  k \in P /\ Numbers[k] >= 2
  <2> DEFINE a == Numbers[k - 1]
  <2>1. a \in Nat /\ a >= 1 /\ Numbers[k] = Base * a
    BY <1>9, <1>11
  <2> HIDE DEF a
  <2>2. Numbers[k] \in Nat /\ Numbers[k] >= 2
    BY <2>1, Widths
  <2> QED BY <2>2
<1>12. P = 0..WordBytes
  <2> HIDE DEF P
  <2>1. P \in SUBSET (0..WordBytes)
    BY DEF P
  <2> QED BY <1>10, <1>11, <2>1, Widths, UpToInduction
<1>13. WordBytes \in 1..WordBytes /\ WordBytes - 1 \in P /\ WordBytes \in P
  <2> HIDE DEF P
  <2> QED BY <1>12, Widths
<1>14. Modulus \in Nat /\ Modulus >= 2
  BY <1>11, <1>13 DEF Modulus
<1> QED BY <1>9, <1>12, <1>14

(* g satisfies the recursive definition in FromLittleEndian.               *)
Reads(g, bytes) ==
  g = [k \in 0 .. Len(bytes) |->
         IF k = 0 THEN 0 ELSE bytes[Len(bytes) - k + 1] + Base * g[k - 1]]

(* Reading goes on byte by byte, from the last one.                        *)
LEMMA FromLittleEndianIs ==
  ASSUME NEW bytes \in Seq(Byte)
  PROVE  \E g : /\ FromLittleEndian(bytes) = g[Len(bytes)]
                /\ g[0] = 0
                /\ \A k \in 1..Len(bytes) : g[k] = bytes[Len(bytes) - k + 1] + Base * g[k - 1]
                /\ \A k \in 0..Len(bytes) : g[k] \in Nat
<1> DEFINE n == Len(bytes)
           Val(k) == bytes[n - k + 1]
           S == [k \in 1..n |-> [h \in Nat |-> Val(k) + Base * h]]
<1>1. n \in Nat /\ \A k \in 1..n : Val(k) \in Nat
  <2>1. n \in Nat /\ \A i \in 1..n : bytes[i] \in Byte
    BY LenProperties, ElementOfSeq
  <2>2. \A k \in 1..n : n - k + 1 \in 1..n
    BY <2>1
  <2> HIDE DEF n
  <2> QED BY <2>1, <2>2, Widths
<1> HIDE DEF n, Val
<1>2. \A k \in 1..n : S[k] \in [Nat -> Nat]
  BY <1>1, Widths
<1>3. \A k \in 1..n : \A h \in Nat : S[k][h] = Val(k) + Base * h
  OBVIOUS
<1> HIDE DEF S
<1>4. PICK f : Computes(f, n, Nat, 0, S)
  BY <1>1, <1>2, StepByStep
<1>5. f \in [0..n -> Nat] /\ f[0] = 0 /\ \A k \in 1..n : f[k] = Val(k) + Base * f[k - 1]
  <2>1. f \in [0..n -> Nat] /\ f[0] = 0 /\ \A k \in 1..n : f[k] = S[k][f[k - 1]]
    BY <1>4 DEF Computes
  <2>2. \A k \in 1..n : f[k - 1] \in Nat
    BY <1>1, <2>1
  <2> QED BY <1>3, <2>1, <2>2
<1>6. Reads(f, bytes)
  BY <1>1, <1>5 DEF Reads, n, Val
<1>7. FromLittleEndian(bytes) = (CHOOSE g : Reads(g, bytes))[n]
  BY DEF FromLittleEndian, Reads, n
<1>8. PICK g : g = CHOOSE h : Reads(h, bytes)
  OBVIOUS
<1>9. Reads(g, bytes)
  BY <1>6, <1>8
<1>10. g = [k \in 0..n |-> IF k = 0 THEN 0 ELSE Val(k) + Base * g[k - 1]]
  BY <1>9 DEF Reads, n, Val
<1>11. g[0] = 0 /\ \A k \in 1..n : g[k] = Val(k) + Base * g[k - 1]
  <2>1. \A k \in 0..n : g[k] = IF k = 0 THEN 0 ELSE Val(k) + Base * g[k - 1]
    BY <1>10
  <2> QED BY <1>1, <2>1
<1> DEFINE P == {k \in 0..n : g[k] \in Nat}
<1>12. P = 0..n
  <2>1. 0 \in P
    BY <1>1, <1>11
  <2>2. ASSUME NEW k \in 1..n, k - 1 \in P
        PROVE  k \in P
    <3> DEFINE a == g[k - 1]
    <3>1. a \in Nat /\ Val(k) \in Nat /\ g[k] = Val(k) + Base * a
      BY <1>1, <1>11, <2>2
    <3> HIDE DEF a
    <3>2. g[k] \in Nat
      BY <3>1, Widths
    <3> QED BY <3>2
  <2>3. P \in SUBSET (0..n)
    OBVIOUS
  <2> HIDE DEF P
  <2> QED BY <1>1, <2>1, <2>2, <2>3, UpToInduction
<1>13. FromLittleEndian(bytes) = g[n]
  BY <1>7, <1>8
<1> QED BY <1>11, <1>12, <1>13 DEF n, Val


(* g satisfies the recursive definition in ToLittleEndian.                 *)
Divides(g, n) == g = [i \in 0..WordBytes |-> IF i = 0 THEN n ELSE g[i - 1] \div Base]

(* Writing goes on byte by byte, and nothing is left in the end.           *)
LEMMA ToLittleEndianIs ==
  ASSUME NEW n \in Nat, n < Modulus
  PROVE  \E g : /\ ToLittleEndian(n) = [i \in 1..WordBytes |-> g[i - 1] % Base]
                /\ g[0] = n
                /\ \A i \in 1..WordBytes : g[i] = g[i - 1] \div Base
                /\ \A i \in 0..WordBytes : g[i] \in Nat
                /\ g[WordBytes] = 0
<1> DEFINE S == [k \in 1..WordBytes |-> [h \in Nat |-> h \div Base]]
<1>1. \A k \in 1..WordBytes : S[k] \in [Nat -> Nat]
  BY Widths, DivMod
<1>2. \A k \in 1..WordBytes : \A h \in Nat : S[k][h] = h \div Base
  OBVIOUS
<1> HIDE DEF S
<1>3. PICK f : Computes(f, WordBytes, Nat, n, S)
  BY <1>1, Widths, StepByStep
<1>4. f[0] = n /\ \A k \in 1..WordBytes : f[k] = f[k - 1] \div Base
  <2>1. f \in [0..WordBytes -> Nat] /\ f[0] = n
        /\ \A k \in 1..WordBytes : f[k] = S[k][f[k - 1]]
    BY <1>3 DEF Computes
  <2>2. \A k \in 1..WordBytes : f[k - 1] \in Nat
    BY <2>1, Widths
  <2> QED BY <1>2, <2>1, <2>2
<1>5. Divides(f, n)
  <2>1. f \in [0..WordBytes -> Nat]
    BY <1>3 DEF Computes
  <2> QED BY <1>4, <2>1, Widths DEF Divides
<1>6. PICK g : g = CHOOSE h : Divides(h, n)
  OBVIOUS
<1>7. Divides(g, n)
  BY <1>5, <1>6
<1>8. ToLittleEndian(n) = [i \in 1..WordBytes |-> g[i - 1] % Base]
  <2>1. ToLittleEndian(n) = [i \in 1..WordBytes |-> (CHOOSE h : Divides(h, n))[i - 1] % Base]
    BY DEF ToLittleEndian, Divides
  <2> QED BY <1>6, <2>1
<1>9. g[0] = n /\ \A k \in 1..WordBytes : g[k] = g[k - 1] \div Base
  <2>1. \A k \in 0..WordBytes : g[k] = IF k = 0 THEN n ELSE g[k - 1] \div Base
    BY <1>7 DEF Divides
  <2> QED BY <2>1, Widths
<1> DEFINE P == {k \in 0..WordBytes : g[k] \in Nat /\ g[k] < Numbers[WordBytes - k]}
<1>10. P = 0..WordBytes
  <2>1. 0 \in P
    BY <1>9, Widths DEF Modulus
  <2>2. ASSUME NEW k \in 1..WordBytes, k - 1 \in P
        PROVE  k \in P
    <3> DEFINE a == g[k - 1]
               p == Numbers[WordBytes - k]
    <3>1. WordBytes - k \in 0..WordBytes /\ WordBytes - k + 1 \in 1..WordBytes
          /\ WordBytes - (k - 1) = WordBytes - k + 1
          /\ (WordBytes - k + 1) - 1 = WordBytes - k
      BY Widths
    <3>2. p \in Nat /\ Numbers[WordBytes - k + 1] = Base * p
      BY <3>1, NumbersSteps
    <3>3. a \in Nat /\ a < Base * p /\ g[k] = a \div Base
      BY <1>9, <2>2, <3>1, <3>2
    <3> HIDE DEF a, p
    <3>4. g[k] \in Nat /\ g[k] < p
      BY <3>2, <3>3, Widths, DivMod, DividesBelow
    <3> QED BY <3>4 DEF p
  <2>3. P \in SUBSET (0..WordBytes)
    OBVIOUS
  <2> HIDE DEF P
  <2> QED BY <2>1, <2>2, <2>3, Widths, UpToInduction
<1>11. g[WordBytes] = 0
  <2>1. WordBytes \in P
    <3> HIDE DEF P
    <3> QED BY <1>10, Widths
  <2>2. WordBytes - WordBytes = 0
    BY Widths
  <2>3. g[WordBytes] \in Nat /\ g[WordBytes] < 1
    BY <2>1, <2>2, NumbersSteps
  <2> QED BY <2>3
<1> QED BY <1>8, <1>9, <1>10, <1>11

(* A word holds the numbers below the modulus.                             *)
LEMMA WordIsNumber ==
  ASSUME NEW bytes \in [1..WordBytes -> Byte]
  PROVE  /\ bytes \in Seq(Byte) /\ Len(bytes) = WordBytes
         /\ FromLittleEndian(bytes) \in Nat /\ FromLittleEndian(bytes) < Modulus
<1>1. bytes \in Seq(Byte) /\ Len(bytes) = WordBytes
  BY Widths, SeqDef, LenProperties
<1>2. PICK g : /\ FromLittleEndian(bytes) = g[WordBytes]
               /\ g[0] = 0
               /\ \A k \in 1..WordBytes : g[k] = bytes[WordBytes - k + 1] + Base * g[k - 1]
               /\ \A k \in 0..WordBytes : g[k] \in Nat
  BY <1>1, FromLittleEndianIs
<1> DEFINE P == {k \in 0..WordBytes : g[k] < Numbers[k]}
<1>3. P = 0..WordBytes
  <2>1. 0 \in P
    BY <1>2, Widths, NumbersSteps
  <2>2. ASSUME NEW k \in 1..WordBytes, k - 1 \in P
        PROVE  k \in P
    <3> DEFINE h == g[k - 1]
               p == Numbers[k - 1]
               b == bytes[WordBytes - k + 1]
    <3>1. h \in Nat /\ p \in Nat /\ h < p /\ Numbers[k] = Base * p /\ g[k] = b + Base * h
      BY <1>2, <2>2, Widths, NumbersSteps
    <3>2. b \in Nat /\ b < Base
      <4>1. WordBytes - k + 1 \in 1..WordBytes
        BY Widths
      <4> QED BY <4>1, Widths
    <3> HIDE DEF h, p, b
    <3>3. Base * h + Base <= Base * p /\ Base * h \in Nat /\ Base * p \in Nat
      BY <3>1, Widths, Products
    <3> DEFINE x == Base * h
               y == Base * p
    <3>4. x \in Nat /\ y \in Nat /\ x + Base <= y /\ g[k] = b + x /\ Numbers[k] = y
      BY <3>1, <3>3
    <3> HIDE DEF x, y
    <3>5. g[k] < Numbers[k]
      BY <3>2, <3>4, Widths
    <3> QED BY <3>5
  <2>3. P \in SUBSET (0..WordBytes)
    OBVIOUS
  <2> HIDE DEF P
  <2> QED BY <2>1, <2>2, <2>3, Widths, UpToInduction
<1>4. WordBytes \in P
  <2> HIDE DEF P
  <2> QED BY <1>3, Widths
<1> QED BY <1>1, <1>2, <1>4, Widths DEF Modulus

(* What is written is read again.                                          *)
LEMMA ReadsWhatIsWritten ==
  ASSUME NEW n \in Nat, n < Modulus
  PROVE  /\ ToLittleEndian(n) \in [1..WordBytes -> Byte]
         /\ FromLittleEndian(ToLittleEndian(n)) = n
<1> DEFINE bytes == ToLittleEndian(n)
<1>1. PICK r : /\ bytes = [i \in 1..WordBytes |-> r[i - 1] % Base]
               /\ r[0] = n
               /\ \A i \in 1..WordBytes : r[i] = r[i - 1] \div Base
               /\ \A i \in 0..WordBytes : r[i] \in Nat
               /\ r[WordBytes] = 0
  BY ToLittleEndianIs
<1> HIDE DEF bytes
<1>2. ASSUME NEW i \in 1..WordBytes
      PROVE  /\ bytes[i] \in Byte
             /\ r[i - 1] = Base * r[i] + bytes[i]
  <2> DEFINE a == r[i - 1]
  <2>1. a \in Nat /\ r[i] = a \div Base /\ bytes[i] = a % Base
    BY <1>1, Widths
  <2> HIDE DEF a
  <2>2. bytes[i] \in Nat /\ bytes[i] < Base /\ a = Base * r[i] + bytes[i]
    BY <2>1, Widths, DivMod
  <2> QED BY <2>2, Widths DEF a
<1>3. bytes \in [1..WordBytes -> Byte]
  BY <1>1, <1>2
<1>4. PICK g : /\ FromLittleEndian(bytes) = g[WordBytes]
               /\ g[0] = 0
               /\ \A k \in 1..WordBytes : g[k] = bytes[WordBytes - k + 1] + Base * g[k - 1]
  <2>1. bytes \in Seq(Byte) /\ Len(bytes) = WordBytes
    BY <1>3, WordIsNumber
  <2> QED BY <2>1, FromLittleEndianIs
<1> DEFINE P == {k \in 0..WordBytes : g[k] = r[WordBytes - k]}
<1>5. P = 0..WordBytes
  <2>1. 0 \in P
    <3>1. WordBytes - 0 = WordBytes /\ 0 \in 0..WordBytes
      BY Widths
    <3> QED BY <1>1, <1>4, <3>1
  <2>2. ASSUME NEW k \in 1..WordBytes, k - 1 \in P
        PROVE  k \in P
    <3> DEFINE i == WordBytes - k + 1
    <3>1. i \in 1..WordBytes /\ i - 1 = WordBytes - k /\ WordBytes - (k - 1) = i
          /\ k \in 0..WordBytes
      BY Widths
    <3>2. g[k] = bytes[i] + Base * g[k - 1] /\ g[k - 1] = r[i]
      BY <1>4, <2>2, <3>1
    <3> HIDE DEF i
    <3>3. r[i - 1] = Base * r[i] + bytes[i] /\ r[i] \in Nat /\ bytes[i] \in Nat
      <4>1. i \in 0..WordBytes /\ bytes[i] \in Byte
        BY <1>2, <3>1, Widths
      <4> QED BY <1>1, <1>2, <3>1, <4>1, Widths
    <3>4. g[k] = r[i - 1]
      <4> DEFINE x == r[i]
                 y == bytes[i]
      <4>1. g[k] = y + Base * x /\ r[i - 1] = Base * x + y /\ x \in Nat /\ y \in Nat
        BY <3>2, <3>3
      <4> HIDE DEF x, y
      <4>2. Base * x \in Nat
        BY <4>1, Widths, Products
      <4> QED BY <4>1, <4>2
    <3> QED BY <3>1, <3>4
  <2>3. P \in SUBSET (0..WordBytes)
    OBVIOUS
  <2> HIDE DEF P
  <2> QED BY <2>1, <2>2, <2>3, Widths, UpToInduction
<1>6. WordBytes \in P /\ WordBytes - WordBytes = 0
  <2> HIDE DEF P
  <2> QED BY <1>5, Widths
<1> QED BY <1>1, <1>3, <1>4, <1>6 DEF bytes


(* The bytes the guest takes its number from.                              *)
Word(data) == [i \in 1..WordBytes |-> IF i <= Len(data) THEN data[i] ELSE 0]

(* Padding a short input and cutting a long one gives the number that the  *)
(* whole input stands for, modulo the width.                               *)
LEMMA InputIsNumber ==
  ASSUME NEW data \in Seq(Byte)
  PROVE  /\ Input(data) \in Nat /\ Input(data) < Modulus
         /\ Input(data) = FromLittleEndian(data) % Modulus
<1> DEFINE w == Word(data)
           n == Len(data)
<1>1. n \in Nat /\ \A i \in 1..n : data[i] \in Byte
  BY LenProperties, ElementOfSeq
<1>2. w \in [1..WordBytes -> Byte] /\ \A i \in 1..WordBytes : w[i] = IF i <= n THEN data[i] ELSE 0
  <2>1. 0 \in Byte /\ \A i \in 1..WordBytes : i <= n => i \in 1..n
    BY <1>1, Widths
  <2> QED BY <1>1, <2>1 DEF Word
<1>3. Input(data) = FromLittleEndian(w)
  BY DEF Input, Word
<1>4. Input(data) \in Nat /\ Input(data) < Modulus
  BY <1>2, <1>3, WordIsNumber
<1>5. PICK h : /\ FromLittleEndian(w) = h[WordBytes]
               /\ h[0] = 0
               /\ \A k \in 1..WordBytes : h[k] = w[WordBytes - k + 1] + Base * h[k - 1]
               /\ \A k \in 0..WordBytes : h[k] \in Nat
  <2>1. w \in Seq(Byte) /\ Len(w) = WordBytes
    BY <1>2, WordIsNumber
  <2> QED BY <2>1, FromLittleEndianIs
<1>6. PICK g : /\ FromLittleEndian(data) = g[n]
               /\ g[0] = 0
               /\ \A k \in 1..n : g[k] = data[n - k + 1] + Base * g[k - 1]
               /\ \A k \in 0..n : g[k] \in Nat
  BY FromLittleEndianIs
<1> HIDE DEF w, n
<1>7. CASE n >= WordBytes
  <2> DEFINE o == n - WordBytes
             t == g[o]
             P == {k \in 0..WordBytes : g[o + k] = h[k] + Numbers[k] * t}
  <2>1. o \in Nat /\ o \in 0..n /\ o + WordBytes = n /\ o + 0 = o
    BY <1>1, <1>7, Widths
  <2>2. t \in Nat
    BY <1>6, <2>1
  <2> HIDE DEF t
  <2>3. 0 \in P
    <3>1. g[o + 0] = t
      BY <2>1 DEF t
    <3> HIDE DEF o
    <3>2. g[o + 0] = h[0] + Numbers[0] * t
      BY <1>5, <2>2, <3>1, NumbersSteps
    <3> QED BY <3>2, Widths
  <2>4. ASSUME NEW k \in 1..WordBytes, k - 1 \in P
        PROVE  k \in P
    <3> DEFINE i == WordBytes - k + 1
               x == h[k - 1]
               p == Numbers[k - 1]
               d == data[i]
    <3>1. /\ i \in 1..WordBytes /\ i \in 1..n /\ i <= n /\ k - 1 \in 0..WordBytes
          /\ o + k \in 1..n /\ (o + k) - 1 = o + (k - 1) /\ n - (o + k) + 1 = i
      BY <1>1, <1>7, <2>1, Widths
    <3>2. g[o + k] = d + Base * g[o + (k - 1)]
      <4> DEFINE j == o + k
      <4>1. j \in 1..n /\ j - 1 = o + (k - 1) /\ n - j + 1 = i
        BY <3>1
      <4> HIDE DEF j, i, o
      <4>2. g[j] = data[n - j + 1] + Base * g[j - 1]
        BY <1>6, <4>1
      <4> QED BY <4>1, <4>2 DEF j
    <3>3. g[o + (k - 1)] = x + p * t
      BY <2>4
    <3>4. h[k] = d + Base * x
      <4> HIDE DEF o
      <4>1. w[i] = d
        BY <1>2, <3>1
      <4> QED BY <1>5, <4>1
    <3>5. x \in Nat /\ p \in Nat /\ d \in Nat /\ Numbers[k] = Base * p
      <4>1. d \in Byte
        BY <1>1, <3>1
      <4> QED BY <1>5, <3>1, <4>1, Widths, NumbersSteps
    <3> HIDE DEF x, p, d, i
    <3>6. Base * (x + p * t) + d = (d + Base * x) + (Base * p) * t
      BY <2>2, <3>5, Widths
    <3>7. g[o + k] = h[k] + Numbers[k] * t
      <4> DEFINE y == x + p * t
                 z == Base * y
      <4>1. y \in Nat
        BY <2>2, <3>5, Products
      <4>2. z \in Nat
        BY <4>1, Widths, Products
      <4>3. g[o + k] = d + z
        BY <3>2, <3>3
      <4>4. z + d = h[k] + Numbers[k] * t
        BY <3>4, <3>5, <3>6
      <4> HIDE DEF y, z, o
      <4> QED BY <3>5, <4>2, <4>3, <4>4
    <3> QED BY <3>7
  <2>5. P = 0..WordBytes
    <3>1. P \in SUBSET (0..WordBytes)
      OBVIOUS
    <3> HIDE DEF P
    <3> QED BY <2>3, <2>4, <3>1, Widths, UpToInduction
  <2>6. WordBytes \in P
    <3> HIDE DEF P
    <3> QED BY <2>5, Widths
  <2>7. g[n] = h[WordBytes] + Modulus * t
    <3>1. g[o + WordBytes] = h[WordBytes] + Numbers[WordBytes] * t
      BY <2>6
    <3> QED BY <2>1, <3>1 DEF Modulus
  <2>8. (h[WordBytes] + Modulus * t) % Modulus = h[WordBytes]
    <3> DEFINE r == h[WordBytes]
    <3>1. r \in Nat /\ r < Modulus
      BY <1>3, <1>4, <1>5
    <3> HIDE DEF r
    <3>2. (r + Modulus * t) % Modulus = r
      BY <2>2, <3>1, NumbersSteps, RestOf
    <3> QED BY <3>2 DEF r
  <2> QED BY <1>3, <1>4, <1>5, <1>6, <2>7, <2>8
<1>8. CASE ~(n >= WordBytes)
  <2> DEFINE o == WordBytes - n
             Z == {k \in 0..o : h[k] = 0}
             P == {k \in 0..n : h[o + k] = g[k]}
  <2>1. o \in Nat /\ o \in 0..WordBytes /\ o + n = WordBytes /\ o + 0 = o
    BY <1>1, <1>8, Widths
  <2>2. Z = 0..o
    <3>1. 0 \in Z
      BY <1>5, <2>1
    <3>2. ASSUME NEW k \in 1..o, k - 1 \in Z
          PROVE  k \in Z
      <4> DEFINE i == WordBytes - k + 1
      <4>1. i \in 1..WordBytes /\ ~(i <= n) /\ k \in 1..WordBytes
        BY <1>1, <2>1, Widths
      <4>2. h[k] = w[i] + Base * h[k - 1] /\ h[k - 1] = 0
        BY <1>5, <3>2, <4>1
      <4> HIDE DEF o, i
      <4>3. w[i] = 0
        BY <1>2, <4>1
      <4>4. h[k] = 0
        BY <4>2, <4>3, Widths, Products
      <4> QED BY <4>4
    <3>3. Z \in SUBSET (0..o)
      OBVIOUS
    <3> HIDE DEF Z, o
    <3> QED BY <2>1, <3>1, <3>2, <3>3, UpToInduction
  <2>3. h[o] = 0
    <3>1. o \in Z
      <4> HIDE DEF Z, o
      <4> QED BY <2>1, <2>2
    <3> QED BY <3>1
  <2>4. 0 \in P
    <3> HIDE DEF o
    <3> QED BY <1>1, <1>6, <2>1, <2>3
  <2>5. ASSUME NEW k \in 1..n, k - 1 \in P
        PROVE  k \in P
    <3> DEFINE i == n - k + 1
               j == o + k
    <3>1. /\ i \in 1..WordBytes /\ i \in 1..n /\ i <= n
          /\ j \in 1..WordBytes /\ j - 1 = o + (k - 1) /\ WordBytes - j + 1 = i
      BY <1>1, <1>8, <2>1, Widths
    <3> HIDE DEF i, j, o
    <3>2. h[j] = w[i] + Base * h[o + (k - 1)]
      <4>1. h[j] = w[WordBytes - j + 1] + Base * h[j - 1]
        BY <1>5, <3>1
      <4> QED BY <3>1, <4>1
    <3>3. w[i] = data[i]
      BY <1>2, <3>1
    <3>4. g[k] = data[i] + Base * g[k - 1]
      BY <1>6 DEF i
    <3>5. h[o + (k - 1)] = g[k - 1]
      BY <2>5
    <3>6. h[j] = g[k]
      BY <3>2, <3>3, <3>4, <3>5
    <3> QED BY <3>6 DEF j
  <2>6. P = 0..n
    <3>1. P \in SUBSET (0..n)
      OBVIOUS
    <3> HIDE DEF P
    <3> QED BY <1>1, <2>4, <2>5, <3>1, UpToInduction
  <2>7. n \in P
    <3> HIDE DEF P
    <3> QED BY <1>1, <2>6
  <2>8. g[n] = h[WordBytes]
    <3>1. h[o + n] = g[n]
      BY <2>7
    <3> QED BY <2>1, <3>1
  <2>9. h[WordBytes] % Modulus = h[WordBytes]
    <3> DEFINE r == h[WordBytes]
    <3>1. r \in Nat /\ r < Modulus
      BY <1>3, <1>4, <1>5
    <3> HIDE DEF r
    <3>2. (r + Modulus * 0) % Modulus = r
      BY <3>1, NumbersSteps, RestOf
    <3>3. r + Modulus * 0 = r
      BY <3>1, NumbersSteps, Products
    <3>4. r % Modulus = r
      BY <3>2, <3>3
    <3> QED BY <3>4 DEF r
  <2> QED BY <1>3, <1>4, <1>5, <1>6, <2>8, <2>9
<1> QED BY <1>7, <1>8


-----------------------------------------------------------------------------
(* The loop                                                                *)

(* g satisfies the recursive definition of AB.                             *)
Turns(g) == g = [i \in 1 .. Modulus - 1 |-> IF i = 1 THEN <<0, 1>> ELSE Turn(g[i - 1])]

Pair == (0 .. Modulus - 1) \X (0 .. Modulus - 1)

(* A turn of the loop takes a pair of words to a pair of words.            *)
LEMMA TurnIs ==
  ASSUME NEW ab \in Pair
  PROVE  /\ Turn(ab) \in Pair
         /\ Turn(ab)[1] = ab[2]
         /\ Turn(ab)[2] = (ab[1] + ab[2]) % Modulus
<1> DEFINE n == ab[1] + ab[2]
<1>1. n \in Nat /\ ab[2] \in 0 .. Modulus - 1
  BY NumbersSteps DEF Pair
<1>2. Turn(ab) = <<ab[2], n % Modulus>>
  BY DEF Turn, WrappingAdd
<1> HIDE DEF n
<1>3. n % Modulus \in 0 .. Modulus - 1
  BY <1>1, NumbersSteps, DivMod
<1> QED BY <1>1, <1>2, <1>3 DEF Pair, n

(* The loop begins with 0 and 1 and goes on turn by turn.                  *)
LEMMA LoopTurns ==
  /\ AB[1] = <<0, 1>>
  /\ \A i \in 2 .. Modulus - 1 : AB[i] = Turn(AB[i - 1])
  /\ \A i \in 1 .. Modulus - 1 : AB[i] \in Pair
<1> DEFINE n == Modulus - 2
           S == [k \in 1..n |-> [ab \in Pair |-> Turn(ab)]]
<1>1. n \in Nat /\ Modulus - 1 = n + 1
  BY NumbersSteps
<1>2. <<0, 1>> \in Pair
  BY NumbersSteps DEF Pair
<1>3. \A k \in 1..n : S[k] \in [Pair -> Pair]
  BY TurnIs
<1>4. \A k \in 1..n : \A ab \in Pair : S[k][ab] = Turn(ab)
  OBVIOUS
<1> HIDE DEF S, n
<1>5. PICK f : Computes(f, n, Pair, <<0, 1>>, S)
  BY <1>1, <1>2, <1>3, StepByStep
<1>6. f \in [0..n -> Pair] /\ f[0] = <<0, 1>> /\ \A k \in 1..n : f[k] = Turn(f[k - 1])
  <2>1. f \in [0..n -> Pair] /\ f[0] = <<0, 1>> /\ \A k \in 1..n : f[k] = S[k][f[k - 1]]
    BY <1>5 DEF Computes
  <2>2. \A k \in 1..n : f[k - 1] \in Pair
    BY <1>1, <2>1
  <2> QED BY <1>4, <2>1, <2>2
<1> DEFINE e == [i \in 1..n + 1 |-> f[i - 1]]
<1>7. Turns(e)
  <2>1. ASSUME NEW i \in 1..n + 1
        PROVE  e[i] = IF i = 1 THEN <<0, 1>> ELSE Turn(e[i - 1])
    <3>1. CASE i = 1
      <4>1. e[1] = f[0]
        BY <1>1
      <4> QED BY <1>6, <3>1, <4>1
    <3>2. CASE i # 1
      <4>1. i - 1 \in 1..n /\ e[i] = f[i - 1] /\ e[i - 1] = f[(i - 1) - 1]
        BY <1>1, <3>2
      <4> HIDE DEF e
      <4> QED BY <1>6, <3>2, <4>1
    <3> QED BY <3>1, <3>2
  <2>2. e = [i \in 1..n + 1 |-> e[i]]
    OBVIOUS
  <2> HIDE DEF e
  <2>3. e = [i \in 1..n + 1 |-> IF i = 1 THEN <<0, 1>> ELSE Turn(e[i - 1])]
    BY <2>1, <2>2
  <2> QED BY <1>1, <2>3 DEF Turns
<1>8. AB = CHOOSE g : Turns(g)
  BY DEF AB, Turns
<1>9. Turns(AB)
  BY <1>7, <1>8
<1>10. \A i \in 1 .. Modulus - 1 : AB[i] = IF i = 1 THEN <<0, 1>> ELSE Turn(AB[i - 1])
  BY <1>9 DEF Turns
<1>11. AB[1] = <<0, 1>> /\ \A i \in 2 .. Modulus - 1 : AB[i] = Turn(AB[i - 1])
  BY <1>10, NumbersSteps
<1> DEFINE P == {k \in 0..n : AB[k + 1] \in Pair}
<1>12. P = 0..n
  <2>1. 0 \in P
    BY <1>1, <1>2, <1>11
  <2>2. ASSUME NEW k \in 1..n, k - 1 \in P
        PROVE  k \in P
    <3>1. k + 1 \in 2 .. Modulus - 1 /\ (k + 1) - 1 = k /\ (k - 1) + 1 = k
      BY <1>1
    <3>2. AB[k] \in Pair
      BY <2>2, <3>1
    <3>3. AB[k + 1] = Turn(AB[k])
      BY <1>11, <3>1
    <3> QED BY <3>2, <3>3, TurnIs
  <2>3. P \in SUBSET (0..n)
    OBVIOUS
  <2> HIDE DEF P
  <2> QED BY <1>1, <2>1, <2>2, <2>3, UpToInduction
<1>13. ASSUME NEW i \in 1 .. Modulus - 1
       PROVE  AB[i] \in Pair
  <2>1. i - 1 \in 0..n /\ (i - 1) + 1 = i
    BY <1>1
  <2>2. i - 1 \in P
    BY <1>12, <2>1
  <2> QED BY <2>1, <2>2
<1> QED BY <1>11, <1>13

(* For every width of a word: the loop computes the Fibonacci sequence,    *)
(* modulo the width, and its result fits into a word.                      *)
LEMMA LoopIsFibonacci ==
  /\ FibonacciModuloWidth
  /\ \A n \in 0 .. Modulus - 1 : Fibonacci(n) \in 0 .. Modulus - 1
<1>1. Fibonacci(0) = 0 /\ Fibonacci(1) = 1
  <2>1. <<0, 1>>[2] = 1
    OBVIOUS
  <2> QED BY <2>1, LoopTurns DEF Fibonacci
<1>2. ASSUME NEW n \in 2 .. Modulus - 1
      PROVE  Fibonacci(n) = (Fibonacci(n - 1) + Fibonacci(n - 2)) % Modulus
  <2> DEFINE ab == AB[n - 1]
  <2>1. n \in Nat /\ n # 0 /\ n - 1 # 0 /\ n - 1 \in 1 .. Modulus - 1
    BY NumbersSteps
  <2>2. ab \in Pair /\ AB[n] = Turn(ab)
    BY <2>1, LoopTurns
  <2>3. Fibonacci(n) = (ab[1] + ab[2]) % Modulus
    BY <2>1, <2>2, TurnIs DEF Fibonacci
  <2>4. Fibonacci(n - 1) = ab[2]
    BY <2>1 DEF Fibonacci
  <2>5. Fibonacci(n - 2) = ab[1]
    <3>1. CASE n = 2
      <4>1. n - 2 = 0 /\ n - 1 = 1
        BY <3>1
      <4>2. ab = <<0, 1>>
        BY <4>1, LoopTurns
      <4> QED BY <4>1, <4>2 DEF Fibonacci
    <3>2. CASE n # 2
      <4> DEFINE cd == AB[n - 2]
      <4>1. n - 2 \in 1 .. Modulus - 1 /\ n - 2 # 0 /\ (n - 1) - 1 = n - 2
            /\ n - 1 \in 2 .. Modulus - 1
        BY <3>2, NumbersSteps
      <4>2. cd \in Pair /\ ab = Turn(cd)
        BY <4>1, LoopTurns
      <4>3. ab[1] = cd[2]
        BY <4>2, TurnIs
      <4> QED BY <4>1, <4>3 DEF Fibonacci
    <3> QED BY <3>1, <3>2
  <2>6. ab[1] \in Nat /\ ab[2] \in Nat
    BY <2>2, NumbersSteps DEF Pair
  <2> HIDE DEF ab
  <2>7. ab[1] + ab[2] = ab[2] + ab[1]
    BY <2>6
  <2> QED BY <2>3, <2>4, <2>5, <2>7
<1>3. ASSUME NEW n \in 0 .. Modulus - 1
      PROVE  Fibonacci(n) \in 0 .. Modulus - 1
  <2>1. CASE n = 0
    BY <1>1, <2>1, NumbersSteps
  <2>2. CASE n # 0
    <3>1. n \in 1 .. Modulus - 1
      BY <2>2, NumbersSteps
    <3>2. AB[n] \in Pair
      BY <3>1, LoopTurns
    <3> QED BY <2>2, <3>2 DEF Fibonacci, Pair
  <2> QED BY <2>1, <2>2
<1> QED BY <1>1, <1>2, <1>3 DEF FibonacciModuloWidth

-----------------------------------------------------------------------------
(* The journal                                                             *)

Joined(a, b, c) == a \o b \o c

(* a, b and c are the parts of j that the readers of a journal take.       *)
Parts(j, a, b, c) ==
  /\ Len(j) = 2 * FieldBytes + Len(c)
  /\ SubSeq(j, 1, FieldBytes) = a
  /\ SubSeq(j, FieldBytes + 1, 2 * FieldBytes) = b
  /\ SubSeq(j, 2 * FieldBytes + 1, Len(j)) = c

(* What was joined is cut at the same places.                              *)
LEMMA CutWhereJoined ==
  ASSUME NEW S, NEW a \in Seq(S), NEW b \in Seq(S), NEW c \in Seq(S),
         Len(a) = FieldBytes, Len(b) = FieldBytes
  PROVE  Parts(Joined(a, b, c), a, b, c)
<1> DEFINE k == FieldBytes
<1> k \in Nat /\ Len(a) = k /\ Len(b) = k
  BY Widths
<1> HIDE DEF k
<1> DEFINE d == a \o b
           j == d \o c
           l == Len(c)
<1>1. /\ d \in Seq(S) /\ Len(d) = 2 * k /\ l \in Nat
      /\ \A i \in 1 .. 2 * k : d[i] = IF i <= k THEN a[i] ELSE b[i - k]
  <2> DEFINE p == Len(a)
             q == Len(b)
  <2>1. d \in Seq(S) /\ Len(d) = p + q
        /\ \A i \in 1 .. p + q : d[i] = IF i <= p THEN a[i] ELSE b[i - p]
    BY ConcatProperties
  <2>2. p = k /\ q = k /\ k + k = 2 * k /\ l \in Nat
    BY LenProperties
  <2> HIDE DEF d, l, p, q
  <2> QED BY <2>1, <2>2
<1> HIDE DEF d
<1>2. /\ j \in Seq(S) /\ Len(j) = 2 * k + l
      /\ \A i \in 1 .. 2 * k + l : j[i] = IF i <= 2 * k THEN d[i] ELSE c[i - 2 * k]
  <2> DEFINE p == Len(d)
             q == Len(c)
  <2>1. j \in Seq(S) /\ Len(j) = p + q
        /\ \A i \in 1 .. p + q : j[i] = IF i <= p THEN d[i] ELSE c[i - p]
    BY <1>1, ConcatProperties
  <2>2. p = 2 * k /\ q = l
    BY <1>1
  <2> HIDE DEF j, l, p, q
  <2> QED BY <2>1, <2>2
<1> HIDE DEF j, l
<1>3. \A i \in 1 .. 2 * k + l : j[i] \in S
  BY <1>2, ElementOfSeq
<1>4. SubSeq(j, 1, k) = a
  <2> DEFINE s == SubSeq(j, 1, k)
  <2>1. \A i \in 1..k : j[i] \in S /\ j[i] = a[i]
    BY <1>1, <1>2, <1>3
  <2>2. /\ s \in Seq(S) /\ Len(s) = IF 1 <= k THEN k - 1 + 1 ELSE 0
        /\ \A i \in 1 .. k - 1 + 1 : s[i] = j[1 + i - 1]
    BY <2>1, SubSeqProperties
  <2> HIDE DEF s
  <2>3. Len(s) = Len(a) /\ \A i \in 1..Len(s) : s[i] = a[i]
    <3>1. k - 1 + 1 = k /\ \A i \in 1..k : 1 + i - 1 = i
      OBVIOUS
    <3> QED BY <2>1, <2>2, <3>1
  <2>4. s = a
    BY <2>2, <2>3, SeqEqual
  <2> QED BY <2>4 DEF s
<1>5. SubSeq(j, k + 1, 2 * k) = b
  <2> DEFINE s == SubSeq(j, k + 1, 2 * k)
  <2>1. \A i \in k + 1 .. 2 * k : j[i] \in S /\ j[i] = b[i - k]
    BY <1>1, <1>2, <1>3
  <2>2. /\ s \in Seq(S) /\ Len(s) = IF k + 1 <= 2 * k THEN 2 * k - (k + 1) + 1 ELSE 0
        /\ \A i \in 1 .. 2 * k - (k + 1) + 1 : s[i] = j[k + 1 + i - 1]
    BY <2>1, SubSeqProperties
  <2> HIDE DEF s
  <2>3. Len(s) = Len(b) /\ \A i \in 1..Len(s) : s[i] = b[i]
    <3>1. /\ 2 * k - (k + 1) + 1 = k
          /\ \A i \in 1..k : k + 1 + i - 1 = k + i /\ k + i \in k + 1 .. 2 * k /\ (k + i) - k = i
      OBVIOUS
    <3>2. Len(s) = k
      BY <2>2, <3>1
    <3> QED BY <2>1, <2>2, <3>1, <3>2
  <2>4. s = b
    BY <2>2, <2>3, SeqEqual
  <2> QED BY <2>4 DEF s
<1>6. SubSeq(j, 2 * k + 1, 2 * k + l) = c
  <2> DEFINE m == 2 * k
             s == SubSeq(j, m + 1, m + l)
  <2>0. m \in Nat
    OBVIOUS
  <2>1. \A i \in m + 1 .. m + l : j[i] \in S /\ j[i] = c[i - m]
    BY <1>1, <1>2, <1>3
  <2> HIDE DEF m
  <2>2. /\ s \in Seq(S) /\ Len(s) = IF m + 1 <= m + l THEN m + l - (m + 1) + 1 ELSE 0
        /\ \A i \in 1 .. m + l - (m + 1) + 1 : s[i] = j[m + 1 + i - 1]
    BY <1>1, <2>0, <2>1, SubSeqProperties
  <2> HIDE DEF s
  <2>3. Len(s) = Len(c) /\ \A i \in 1..Len(s) : s[i] = c[i]
    <3>1. /\ m + l - (m + 1) + 1 = l
          /\ \A i \in 1..l : m + 1 + i - 1 = m + i /\ m + i \in m + 1 .. m + l /\ (m + i) - m = i
      BY <1>1, <2>0
    <3>2. Len(s) = l
      BY <1>1, <2>0, <2>2, <3>1
    <3> QED BY <2>1, <2>2, <3>1, <3>2 DEF l
  <2>4. s = c
    BY <2>2, <2>3, SeqEqual
  <2> QED BY <2>4 DEF s, m
<1>7. j = Joined(a, b, c)
  BY DEF j, d, Joined
<1> QED BY <1>2, <1>4, <1>5, <1>6, <1>7 DEF l, k, Parts

(* A field is a sequence of FieldBytes bytes, and a word one of WordBytes. *)
LEMMA BytesOfWidth ==
  ASSUME NEW n \in Nat, NEW f \in [1..n -> Byte]
  PROVE  f \in Seq(Byte) /\ Len(f) = n
<1>1. f \in Seq(Byte)
  BY SeqDef
<1>2. Len(f) = n
  BY <1>1, LenProperties
<1> QED BY <1>1, <1>2

(* For widths of every size and every input that is considered: the three  *)
(* parts of a journal are read as the guest wrote them, and the last one   *)
(* stands for the Fibonacci number of the input.                           *)
LEMMA EveryJournalIsRead == JournalsAreRead
<1> SUFFICES ASSUME NEW id \in Field, NEW data \in Data
             PROVE  LET read == ProveSync(id, data)
                    IN /\ read # JournalTooShort
                       /\ read.job_id = id
                       /\ read.payload_hash = Sha256(data)
                       /\ FromLittleEndian(read.result) = ResultOf(data)
  BY DEF JournalsAreRead
<1> DEFINE hash == Sha256(data)
           n == Input(data)
           word == ToLittleEndian(Fibonacci(n))
           journal == GuestMain(id, data)
           k == FieldBytes
<1>1. id \in Seq(Byte) /\ Len(id) = k /\ hash \in Seq(Byte) /\ Len(hash) = k
  <2>1. id \in [1..k -> Byte] /\ hash \in [1..k -> Byte]
    BY GuestAssumption DEF Field
  <2> QED BY <2>1, BytesOfWidth, Widths
<1>2. n \in 0 .. Modulus - 1 /\ n = FromLittleEndian(data) % Modulus
  <2>1. data \in Seq(Byte)
    BY GuestAssumption
  <2>2. n \in Nat /\ n < Modulus /\ n = FromLittleEndian(data) % Modulus
    BY <2>1, InputIsNumber
  <2> HIDE DEF n
  <2> QED BY <2>2, NumbersSteps
<1>3. word \in Seq(Byte) /\ FromLittleEndian(word) = Fibonacci(n)
  <2> DEFINE f == Fibonacci(n)
  <2>1. f \in Nat /\ f < Modulus
    <3>1. f \in 0 .. Modulus - 1
      BY <1>2, LoopIsFibonacci
    <3> HIDE DEF f
    <3> QED BY <3>1, NumbersSteps
  <2> HIDE DEF f
  <2>2. ToLittleEndian(f) \in [1..WordBytes -> Byte] /\ FromLittleEndian(ToLittleEndian(f)) = f
    BY <2>1, ReadsWhatIsWritten
  <2>3. ToLittleEndian(f) \in Seq(Byte)
    BY <2>2, BytesOfWidth, Widths
  <2> QED BY <2>2, <2>3 DEF f
<1>4. /\ Len(journal) = 2 * k + Len(word) /\ Len(word) \in Nat
      /\ SubSeq(journal, 1, k) = id
      /\ SubSeq(journal, k + 1, 2 * k) = hash
      /\ SubSeq(journal, 2 * k + 1, Len(journal)) = word
  <2>1. journal = Joined(id, hash, word)
    BY DEF GuestMain, Joined
  <2>2. Len(word) \in Nat /\ k \in Nat
    BY <1>3, LenProperties, Widths
  <2> HIDE DEF hash, word, journal
  <2>3. Parts(Joined(id, hash, word), id, hash, word)
    BY <1>1, <1>3, CutWhereJoined
  <2>4. Parts(journal, id, hash, word)
    BY <2>1, <2>3
  <2> QED BY <2>2, <2>4 DEF Parts
<1>5. ~(Len(journal) < 2 * k)
  <2> DEFINE l == Len(journal)
             m == Len(word)
  <2>1. l = 2 * k + m /\ m \in Nat /\ k \in Nat
    BY <1>4, Widths
  <2> HIDE DEF l, m, k
  <2> QED BY <2>1 DEF l
<1>6. ProveSync(id, data) = [job_id |-> id, payload_hash |-> hash, result |-> word]
  <2> HIDE DEF hash, word
  <2> QED BY <1>4, <1>5 DEF ProveSync, ReadJournal, journal
<1>7. ProveSync(id, data) # JournalTooShort
  <2>1. "error" \notin DOMAIN ProveSync(id, data)
    <3> HIDE DEF hash, word
    <3> QED BY <1>6
  <2>2. "error" \in DOMAIN JournalTooShort
    BY DEF JournalTooShort
  <2> QED BY <2>1, <2>2
<1>8. FromLittleEndian(word) = ResultOf(data)
  BY <1>2, <1>3 DEF ResultOf
<1> HIDE DEF hash, word
<1>9. /\ ProveSync(id, data).job_id = id
      /\ ProveSync(id, data).payload_hash = hash
      /\ ProveSync(id, data).result = word
  BY <1>6
<1> QED BY <1>7, <1>8, <1>9 DEF hash

-----------------------------------------------------------------------------
(* What is paid for                                                        *)

(* With a verifier that accepts only receipts of guest executions, whoever *)
(* is paid has delivered the Fibonacci number of the payload that the      *)
(* owner of the job submitted, for bytes, words and fields of every width. *)
THEOREM PaidWorkIsFibonacci == Spec => []PaidForFibonacci
<1>1. ASSUME TypeOK, PaidWorkWasProved
      PROVE  PaidForFibonacci
  <2>1. ASSUME ~MockVerifier, NEW i \in DOMAIN events, events[i].type = "JobCompleted"
        PROVE  FromLittleEndian(events[i].result) = ResultOf(jobs[events[i].job].payload)
    <3> DEFINE j == events[i].job
               p == jobs[j].payload
    <3>1. p \in Payload
      <4>1. jobs \in [Job -> JobRecord] /\ events \in Seq(EventRecord)
        BY <1>1 DEF TypeOK, Storage, Snapshot
      <4>2. events[i] \in EventRecord
        BY <2>1, <4>1, ElementOfSeq, LenProperties
      <4>3. j \in Job
        BY <4>2 DEF EventRecord
      <4>4. jobs[j] \in JobRecord
        BY <4>1, <4>3
      <4>5. \A r \in JobRecord : r.payload \in Payload
        <5> SUFFICES ASSUME NEW r \in JobRecord
                     PROVE  r.payload \in Payload
          OBVIOUS
        <5>1. NullJob.payload \in Payload
          BY ConstantsAssumption DEF NullJob
        <5>2. r = NullJob \/ r.payload \in Payload
          BY DEF JobRecord
        <5> QED BY <5>1, <5>2
      <4> HIDE DEF j
      <4> QED BY <4>4, <4>5
    <3>2. events[i].result = GuestResult[p]
      BY <1>1, <2>1 DEF PaidWorkWasProved
    <3>3. PICK id \in Field : TRUE
      <4>1. [b \in 1..FieldBytes |-> 0] \in Field
        BY Widths DEF Field
      <4> QED BY <4>1
    <3> HIDE DEF p
    <3>4. p \in Data /\ GuestResult[p] = ProveSync(id, p).result
      BY <3>1, <3>3, ResultsAssumption
    <3>5. FromLittleEndian(ProveSync(id, p).result) = ResultOf(p)
      BY <3>3, <3>4, EveryJournalIsRead DEF JournalsAreRead
    <3>6. FromLittleEndian(events[i].result) = ResultOf(p)
      BY <3>2, <3>4, <3>5
    <3> QED BY <3>6 DEF p
  <2> QED BY <2>1, LoopIsFibonacci, EveryJournalIsRead DEF PaidForFibonacci
<1> QED BY <1>1, TypeCorrect, OnlyProvedWorkIsPaid, PTL
=============================================================================
