--------------------------- MODULE TransfersProofs ---------------------------
(***************************************************************************)
(* The console's commands on target memory, for any sizes, files and       *)
(* contents: byte lanes; how ioread32_progress and iowrite32_progress cut  *)
(* a buffer into calls of the raw functions; and an inductive invariant    *)
(* from which follows what the commands write, read, show and compare.     *)
(***************************************************************************)
EXTENDS Transfers, TLAPS

-----------------------------------------------------------------------------
(* Byte lanes *)

(* The low byte of the address, which the code looks at, lies in the word  *)
(* at the same place as the address, which the bus looks at.               *)
LEMMA SamePlace ==
  ASSUME NEW addr \in Nat
  PROVE  /\ (addr % 256) % 4 = addr % 4
         /\ addr % 4 \in 0..3
         /\ addr % 2 = IF addr % 4 \in {0, 2} THEN 0 ELSE 1
  OBVIOUS

(* For every word, address and byte: iowrite8 puts the byte into the lane  *)
(* that the bus takes it from and ioread8 takes it from the lane it was    *)
(* stored in; the three other bytes of the word keep their values          *)
(* (ftdi_device.c, ioread8 and iowrite8).                                  *)
THEOREM ByteReadBack ==
  ASSUME NEW addr \in Nat, NEW word, NEW d
  PROVE  LET new == AhbWrite(word, 1, addr, Out8(addr, d))
         IN  /\ In8(addr, new) = d
             /\ \A k \in 1..4 : k # (addr % 4) + 1 => new[k] = word[k]
<1>1. (addr % 256) % 4 = addr % 4 /\ addr % 4 \in 0..3
  BY SamePlace
<1>2. Lanes(1, addr) = {(addr % 4) + 1}
  BY DEF Lanes
<1>3. Out8(addr, d)[5 - ((addr % 4) + 1)] = d
  BY <1>1 DEF Out8
<1>4. QED
  BY <1>1, <1>2, <1>3 DEF AhbWrite, In8

(* The same for a half-word at an even address: both its bytes come back,  *)
(* in their order, and the other half-word keeps its value                 *)
(* (ftdi_device.c, ioread16 and iowrite16).                                *)
THEOREM HalfReadBack ==
  ASSUME NEW addr \in Nat, addr % 2 = 0, NEW word, NEW a, NEW b
  PROVE  LET new == AhbWrite(word, 2, addr, Out16(addr, <<a, b>>))
         IN  /\ In16(addr, new) = <<a, b>>
             /\ \A k \in 1..4 : k \notin {(addr % 4) + 1, (addr % 4) + 2} => new[k] = word[k]
<1>1. (addr % 256) % 4 = addr % 4 /\ addr % 4 \in {0, 2}
  BY SamePlace
<1>2. Lanes(2, addr) = {(addr % 4) + 1, (addr % 4) + 2}
  <2>1. 2 # 1 /\ 2 # 4
    OBVIOUS
  <2>2. Lanes(2, addr) = {(addr % 4) - (addr % 2) + 1, (addr % 4) - (addr % 2) + 2}
    BY <2>1, Zenon DEF Lanes
  <2> QED BY <1>1, <2>2
<1>3. CASE addr % 4 = 0
  BY <1>1, <1>2, <1>3 DEF AhbWrite, In16, Out16
<1>4. CASE addr % 4 = 2
  BY <1>1, <1>2, <1>4 DEF AhbWrite, In16, Out16
<1>5. QED
  BY <1>1, <1>3, <1>4

-----------------------------------------------------------------------------
(* Chunks *)

(* Quotient and remainder, and that there is one pair only. *)
LEMMA Quotient ==
  ASSUME NEW m \in Nat \ {0}, NEW x \in Nat
  PROVE  x \div m \in Nat /\ x % m \in 0..(m - 1) /\ x = (x \div m) * m + (x % m)
<1>1. x % m \in 0..(m - 1) /\ x \div m \in Int
  OBVIOUS
<1>2. x = (x \div m) * m + (x % m)
  OBVIOUS
<1>3. x \div m > -1
  <2>1. CASE x \div m <= -1
    <3>1. (x \div m) * m <= (-1) * m
      BY <1>1, <2>1
    <3> QED BY <1>1, <1>2, <3>1
  <2> QED BY <1>1, <2>1
<1> QED BY <1>1, <1>2, <1>3

LEMMA OneQuotient ==
  ASSUME NEW m \in Nat \ {0}, NEW k \in Nat, NEW l \in Nat,
         NEW i1 \in 0..(m - 1), NEW i2 \in 0..(m - 1), k * m + i1 = l * m + i2
  PROVE  k = l /\ i1 = i2
<1>0. k * m \in Int /\ l * m \in Int
  OBVIOUS
<1>1. CASE k < l
  <2>1. (k + 1) * m <= l * m /\ (k + 1) * m = k * m + m
    BY <1>1
  <2> QED BY <1>0, <2>1
<1>2. CASE l < k
  <2>1. (l + 1) * m <= k * m /\ (l + 1) * m = l * m + m
    BY <1>2
  <2> QED BY <1>0, <2>1
<1>3. CASE k = l
  BY <1>0, <1>3
<1> QED BY <1>1, <1>2, <1>3

(* The number of chunks: the quotient, and one more for a remainder. *)
LEMMA ChunksValue ==
  ASSUME ChunkWords \in Nat \ {0}, NEW size \in Nat
  PROVE  Chunks(size) = (size \div ChunkWords) + IF size % ChunkWords = 0 THEN 0 ELSE 1
<1> DEFINE m == ChunkWords
           q == size \div m
           r == size % m
           x == size + m - 1
<1>1. q \in Nat /\ r \in 0..(m - 1) /\ size = q * m + r
  BY Quotient
<1>2. x \in Nat
  OBVIOUS
<1>3. x \div m \in Nat /\ x % m \in 0..(m - 1) /\ x = (x \div m) * m + (x % m)
  BY <1>2, Quotient
<1>4. CASE r = 0
  <2>1. q * m + (m - 1) = (x \div m) * m + (x % m) /\ m - 1 \in 0..(m - 1)
    BY <1>1, <1>3, <1>4
  <2>2. q = x \div m
    BY <1>1, <1>3, <2>1, OneQuotient
  <2> QED BY <1>1, <1>4, <2>2 DEF Chunks
<1>5. CASE r # 0
  <2>1. (q + 1) * m = q * m + m
    BY <1>1
  <2>2. (q + 1) * m + (r - 1) = (x \div m) * m + (x % m) /\ r - 1 \in 0..(m - 1) /\ q + 1 \in Nat
    BY <1>1, <1>3, <1>5, <2>1
  <2>3. q + 1 = x \div m
    BY <1>1, <1>3, <2>2, OneQuotient
  <2> QED BY <1>1, <1>5, <2>3 DEF Chunks
<1> QED BY <1>4, <1>5

(* For any number of words and any size of a chunk: no chunk is empty or   *)
(* longer than a chunk may be, none reaches beyond the buffer, and every   *)
(* word of the buffer is in exactly one of them, at one place              *)
(* (ftdi_device.c 1512-1541, 2036-2064).                                   *)
THEOREM ChunksCoverBuffer ==
  ASSUME ChunkWords \in Nat \ {0}, NEW size \in Nat
  PROVE  /\ \A k \in 0..(Chunks(size) - 1) :
              /\ ChunkSize(k, size) \in 1..ChunkWords
              /\ k * ChunkWords + ChunkSize(k, size) <= size
         /\ \A w \in 0..(size - 1) :
              \E k \in 0..(Chunks(size) - 1) :
                \E j \in 0..(ChunkSize(k, size) - 1) : w = k * ChunkWords + j
         /\ \A k, l \in 0..(Chunks(size) - 1) :
              \A j \in 0..(ChunkSize(k, size) - 1), n \in 0..(ChunkSize(l, size) - 1) :
                k * ChunkWords + j = l * ChunkWords + n => k = l /\ j = n
<1> DEFINE m == ChunkWords
           q == size \div m
           r == size % m
           c == Chunks(size)
<1>1. q \in Nat /\ r \in 0..(m - 1) /\ size = q * m + r /\ q * m \in Nat
  <2>1. q \in Nat /\ r \in 0..(m - 1) /\ size = q * m + r
    BY Quotient
  <2> HIDE DEF q, r
  <2> QED BY <2>1
<1>2. c = q + IF r = 0 THEN 0 ELSE 1
  BY ChunksValue
<1>3. ASSUME NEW k \in 0..(c - 1)
      PROVE  /\ k \in Nat
             /\ k < q => ChunkSize(k, size) = m /\ k * m + m <= q * m /\ k * m \in Nat
             /\ k = q => ChunkSize(k, size) = r /\ r # 0
             /\ k <= q
  <2>1. k \in Nat /\ k <= q /\ (k = q => r # 0)
    BY <1>1, <1>2
  <2>2. k < q => ChunkSize(k, size) = m
    BY <1>1, <1>2, <2>1 DEF ChunkSize
  <2>3. k = q => ChunkSize(k, size) = r
    BY <1>1, <1>2, <2>1 DEF ChunkSize
  <2>4. k < q => (k + 1) * m <= q * m /\ (k + 1) * m = k * m + m /\ k * m \in Nat
    BY <1>1, <2>1
  <2> QED BY <2>1, <2>2, <2>3, <2>4
<1>4. ASSUME NEW k \in 0..(c - 1)
      PROVE  ChunkSize(k, size) \in 1..m /\ k * m + ChunkSize(k, size) <= size
  <2>1. CASE k < q
    BY <1>1, <1>3, <2>1
  <2>2. CASE k = q
    BY <1>1, <1>3, <2>2
  <2> QED BY <1>1, <1>3, <2>1, <2>2
<1>5. ASSUME NEW w \in 0..(size - 1)
      PROVE  \E k \in 0..(c - 1) : \E j \in 0..(ChunkSize(k, size) - 1) : w = k * m + j
  <2> DEFINE k == w \div m
             j == w % m
  <2>1. k \in Nat /\ j \in 0..(m - 1) /\ w = k * m + j
    <3>1. w \in Nat
      OBVIOUS
    <3> QED BY <3>1, Quotient
  <2>2. k * m \in Nat
    BY <2>1
  <2> HIDE DEF k, j, q, r, c
  <2>3. k <= q
    <3>1. CASE k >= q + 1
      <4>1. k * m >= (q + 1) * m /\ (q + 1) * m = q * m + m
        BY <1>1, <2>1, <3>1
      <4> QED BY <1>1, <2>1, <2>2, <4>1
    <3> QED BY <1>1, <2>1, <3>1
  <2>4. k = q => j < r
    BY <1>1, <2>1, <2>2
  <2>5. k \in 0..(c - 1)
    BY <1>1, <1>2, <2>1, <2>3, <2>4
  <2>6. j \in 0..(ChunkSize(k, size) - 1)
    BY <1>1, <1>3, <2>1, <2>3, <2>4, <2>5
  <2> QED BY <2>1, <2>5, <2>6
<1>6. ASSUME NEW k \in 0..(c - 1), NEW l \in 0..(c - 1),
             NEW j \in 0..(ChunkSize(k, size) - 1), NEW n \in 0..(ChunkSize(l, size) - 1),
             k * m + j = l * m + n
      PROVE  k = l /\ j = n
  <2>1. j \in 0..(m - 1) /\ n \in 0..(m - 1)
    BY <1>4
  <2>2. k \in Nat /\ l \in Nat
    BY <1>3
  <2> QED BY <1>6, <2>1, <2>2, OneQuotient
<1> QED BY <1>4, <1>5, <1>6

(* A chunk that starts at the start of a block writes each of its words    *)
(* where the caller means it: only a transfer that starts elsewhere is     *)
(* wrapped round by the debug link (ftdi_device.c 1908-2028).              *)
THEOREM AlignedStays ==
  ASSUME ChunkWords \in Nat \ {0}, NEW a \in Nat, a % ChunkWords = 0,
         NEW j \in 0..(ChunkWords - 1)
  PROVE  Burst(a, j) = a + j
<1> DEFINE m == ChunkWords
<1>1. a \div m \in Nat /\ a = (a \div m) * m /\ (a \div m) * m \in Nat
  BY Quotient
<1>2. (a + j) \div m \in Nat /\ (a + j) % m \in 0..(m - 1)
      /\ a + j = ((a + j) \div m) * m + ((a + j) % m)
  BY Quotient
<1>3. (a + j) % m = j
  BY <1>1, <1>2, OneQuotient
<1> QED BY <1>1, <1>3 DEF Burst

(* Two multiples make one. *)
LEMMA SumAligned ==
  ASSUME NEW m \in Nat \ {0}, NEW x \in Nat, NEW y \in Nat, x % m = 0, y % m = 0
  PROVE  (x + y) % m = 0
<1> DEFINE p == x \div m
           q == y \div m
           s == x + y
<1>1. p \in Nat /\ q \in Nat /\ x = p * m /\ y = q * m
  <2>1. x = p * m + (x % m) /\ p \in Nat /\ x % m \in 0..(m - 1)
    BY Quotient
  <2>2. y = q * m + (y % m) /\ q \in Nat /\ y % m \in 0..(m - 1)
    BY Quotient
  <2>3. p * m \in Nat /\ q * m \in Nat
    BY <2>1, <2>2
  <2> HIDE DEF p, q
  <2> QED BY <2>1, <2>2, <2>3
<1>2. s = (s \div m) * m + (s % m) /\ s \div m \in Nat /\ s % m \in 0..(m - 1) /\ s \in Nat
  <2>1. s \in Nat
    OBVIOUS
  <2> HIDE DEF s
  <2> QED BY <2>1, Quotient
<1>3. (p + q) * m = p * m + q * m /\ p + q \in Nat /\ (p + q) * m \in Nat
  BY <1>1
<1> HIDE DEF p, q
<1>4. (p + q) * m + 0 = (s \div m) * m + (s % m)
  BY <1>1, <1>2, <1>3
<1>5. 0 \in 0..(m - 1)
  OBVIOUS
<1> HIDE DEF s
<1>6. s % m = 0
  <2> DEFINE u == s % m
             v == s \div m
             n == p + q
  <2>1. n * m + 0 = v * m + u /\ u \in 0..(m - 1) /\ v \in Nat /\ n \in Nat
    BY <1>2, <1>3, <1>4
  <2> HIDE DEF u, v, n
  <2>2. u = 0
    BY <1>5, <2>1, OneQuotient
  <2> QED BY <2>2 DEF u
<1> QED BY <1>6 DEF s

LEMMA ChunksNat ==
  ASSUME ChunkWords \in Nat \ {0}, NEW size \in Nat
  PROVE  Chunks(size) \in Nat
<1>1. size \div ChunkWords \in Nat
  BY Quotient
<1>2. Chunks(size) = (size \div ChunkWords) + IF size % ChunkWords = 0 THEN 0 ELSE 1
  BY ChunksValue
<1> QED BY <1>1, <1>2

LEMMA InAChunk ==
  ASSUME ChunkWords \in Nat \ {0}, NEW size \in Nat, NEW w \in 0..(size - 1)
  PROVE  \E k \in 0..(Chunks(size) - 1) :
           \E j \in 0..(ChunkSize(k, size) - 1) : w = k * ChunkWords + j
<1>1. \A v \in 0..(size - 1) :
        \E k \in 0..(Chunks(size) - 1) :
          \E j \in 0..(ChunkSize(k, size) - 1) : v = k * ChunkWords + j
  BY ChunksCoverBuffer
<1> QED BY <1>1

LEMMA SizeOfChunk ==
  ASSUME ChunkWords \in Nat \ {0}, NEW size \in Nat, NEW k \in 0..(Chunks(size) - 1)
  PROVE  k \in Nat /\ ChunkSize(k, size) \in 1..ChunkWords
         /\ k * ChunkWords \in Nat /\ k * ChunkWords + ChunkSize(k, size) <= size
<1>1. k \in Nat
  BY ChunksNat
<1>2. k * ChunkWords \in Nat
  BY <1>1
<1> QED BY <1>1, <1>2, ChunksCoverBuffer

(* The buffer words of the first k + 1 chunks: those of the first k, and   *)
(* those of the next.                                                      *)
LEMMA NextChunk ==
  ASSUME ChunkWords \in Nat \ {0}, NEW size \in Nat, NEW k \in 0..(Chunks(size) - 1)
  PROVE  /\ (k + 1) * ChunkWords = k * ChunkWords + ChunkWords
         /\ \A w \in 0..(size - 1) :
              w < (k + 1) * ChunkWords <=>
                w < k * ChunkWords \/ w - k * ChunkWords \in 0..(ChunkSize(k, size) - 1)
<1> DEFINE m == ChunkWords
           cs == ChunkSize(k, size)
<1>1. k \in Nat /\ cs \in 1..m /\ k * m \in Nat
  BY SizeOfChunk
<1>2. (k + 1) * m = k * m + m
  BY <1>1
<1>3. ASSUME NEW w \in 0..(size - 1), w >= k * m, w < k * m + m
      PROVE  w - k * m < cs
  <2>1. PICK l \in 0..(Chunks(size) - 1) : \E j \in 0..(ChunkSize(l, size) - 1) : w = l * m + j
    <3> HIDE DEF cs
    <3> QED BY InAChunk
  <2>2. PICK j \in 0..(ChunkSize(l, size) - 1) : w = l * m + j
    BY <2>1
  <2>3. l \in Nat /\ ChunkSize(l, size) \in 1..m /\ l * m \in Nat
    BY SizeOfChunk
  <2>4. j \in 0..(m - 1) /\ j < ChunkSize(l, size)
    BY <2>3
  <2>5. w - k * m \in 0..(m - 1) /\ k * m + (w - k * m) = l * m + j
    BY <1>1, <1>3, <2>2, <2>3
  <2>6. k = l /\ w - k * m = j
    BY <1>1, <2>3, <2>4, <2>5, OneQuotient
  <2> QED BY <2>4, <2>6
<1> HIDE DEF cs
<1>4. ASSUME NEW w \in 0..(size - 1)
      PROVE  w < k * m + m <=> w < k * m \/ w - k * m \in 0..(cs - 1)
  <2> DEFINE n == k * m
  <2>1. n \in Nat /\ cs \in 1..m /\ (w >= n /\ w < n + m => w - n < cs)
    BY <1>1, <1>3
  <2> HIDE DEF n
  <2>2. w < n + m <=> w < n \/ w - n \in 0..(cs - 1)
    BY <2>1
  <2> QED BY <2>2 DEF n
<1> QED BY <1>2, <1>4 DEF cs

(* After the last chunk no word is left. *)
LEMMA AllChunks ==
  ASSUME ChunkWords \in Nat \ {0}, NEW size \in Nat, NEW k \in Nat, k >= Chunks(size),
         NEW w \in 0..(size - 1)
  PROVE  w < k * ChunkWords
<1> DEFINE m == ChunkWords
<1>1. PICK l \in 0..(Chunks(size) - 1) : \E j \in 0..(ChunkSize(l, size) - 1) : w = l * m + j
  BY InAChunk
<1>2. PICK j \in 0..(ChunkSize(l, size) - 1) : w = l * m + j
  BY <1>1
<1>3. l \in Nat /\ ChunkSize(l, size) \in 1..m /\ l * m \in Nat /\ l < k
  BY ChunksNat, SizeOfChunk
<1>4. (l + 1) * m <= k * m /\ (l + 1) * m = l * m + m /\ k * m \in Nat
  BY <1>3
<1>5. j < m /\ j \in Nat
  BY <1>3
<1> HIDE DEF m
<1>6. m \in Nat
  BY DEF m
<1> QED BY <1>2, <1>3, <1>4, <1>5, <1>6 DEF m

(* A transfer that begins at the start of a block of the debug link, or    *)
(* does not go over the end of the one it begins in, puts the words of     *)
(* each of its chunks where the caller means them                          *)
(* (ftdi_device.c 1512-1541, 1908-2064).                                   *)
THEOREM ChunksStay ==
  ASSUME ChunkWords \in Nat \ {0}, NEW size \in Nat, NEW a \in Nat,
         a % ChunkWords = 0 \/ (a % ChunkWords) + size <= ChunkWords,
         NEW k \in 0..(Chunks(size) - 1), NEW j \in 0..(ChunkSize(k, size) - 1)
  PROVE  Burst(a + k * ChunkWords, j) = a + k * ChunkWords + j
<1> DEFINE m == ChunkWords
<1>1. k \in Nat /\ k * m \in Nat /\ ChunkSize(k, size) \in 1..m /\ k * m + ChunkSize(k, size) <= size
  BY SizeOfChunk
<1>2. CASE a % m = 0
  <2>1. (k * m) % m = 0
    <3> DEFINE x == k * m
    <3>1. x \in Nat
      BY <1>1
    <3>2. x \div m \in Nat /\ x % m \in 0..(m - 1) /\ x = (x \div m) * m + (x % m)
      BY <3>1, Quotient
    <3>3. 0 \in 0..(m - 1) /\ k * m + 0 = (x \div m) * m + (x % m)
      BY <3>1, <3>2
    <3> QED BY <1>1, <3>2, <3>3, OneQuotient
  <2>2. (a + k * m) % m = 0
    BY <1>1, <1>2, <2>1, SumAligned
  <2>3. a + k * m \in Nat /\ j \in 0..(m - 1)
    BY <1>1
  <2> QED BY <2>2, <2>3, AlignedStays
<1>3. CASE a % m # 0
  <2> DEFINE q == a \div m
             r == a % m
             s == a + j
  <2>1. q \in Nat /\ r \in 1..(m - 1) /\ a = q * m + r
    <3>1. q \in Nat /\ r \in 0..(m - 1) /\ a = q * m + r
      BY Quotient
    <3> QED BY <1>3, <3>1
  <2>2. r + size <= m
    BY <1>3
  <2>3. k = 0
    <3>1. CASE k >= 1
      <4>1. k * m >= m
        BY <1>1, <3>1
      <4> HIDE DEF r
      <4> QED BY <1>1, <2>1, <2>2, <4>1
    <3> QED BY <1>1, <3>1
  <2>4. k * m = 0 /\ j <= size - 1 /\ j \in Nat
    BY <1>1, <2>3
  <2>5. s \div m \in Nat /\ s % m \in 0..(m - 1) /\ s = (s \div m) * m + (s % m)
    <3>1. s \in Nat
      BY <2>4
    <3> HIDE DEF s
    <3> QED BY <3>1, Quotient
  <2>6. q * m \in Nat
    BY <2>1
  <2> HIDE DEF q, r, s
  <2>7. r + j \in 0..(m - 1) /\ q * m + (r + j) = (s \div m) * m + (s % m)
    BY <2>1, <2>2, <2>4, <2>5, <2>6 DEF s
  <2>8. s % m = r + j
    <3> DEFINE t == r + j
               u == s % m
               v == s \div m
    <3>1. q * m + t = v * m + u /\ t \in 0..(m - 1) /\ u \in 0..(m - 1) /\ v \in Nat
      BY <2>5, <2>7
    <3> HIDE DEF t, u, v
    <3>2. t = u
      BY <2>1, <3>1, OneQuotient
    <3> QED BY <3>2 DEF t, u
  <2>9. Burst(a, j) = q * m + (s % m)
    BY DEF Burst, q, s
  <2> QED BY <2>1, <2>4, <2>6, <2>8, <2>9
<1> QED BY <1>2, <1>3

-----------------------------------------------------------------------------
(* The inductive invariant. *)

FileFns == {"load", "verify"}
ItemReads == {"memh", "memb"}
ItemWrites == {"wmem", "wmemh", "wmemb"}
Buffered == FileFns \cup {"wash", "mem", "bdump"}

(* A command has the form its line in the console gives it. *)
CmdOK ==
  /\ cmd.fn \in {"none"} \cup Buffered \cup ItemReads \cup ItemWrites
  /\ cmd.addr \in Nat /\ cmd.len \in Nat /\ cmd.word \in Content
  /\ cmd.fn \in FileFns => cmd.file \in Files

(* Where the host is, and with which command. *)
PlaceOK ==
  /\ pc \in {"idle", "fread", "chunk", "item", "crashed"}
  /\ pc = "fread" => cmd.fn \in FileFns
  /\ pc = "chunk" => cmd.fn \in Buffered
  /\ pc = "item" => cmd.fn \in ItemReads \cup ItemWrites
  /\ pc = "crashed" => cmd.fn \in FileFns /\ cmd.file.size = Cutoff

(* The loop over the chunks of a buffer. *)
LoopOK ==
  /\ pc = "chunk" => i \in 0..Chunks(Size) /\ Size \in 0..WordMod - 1
  /\ pc = "item" /\ cmd.fn \in ItemReads => i \in 0..cmd.len - 1
  /\ pc = "chunk" /\ cmd.fn \notin FileFns => at = cmd.addr \div 4

(* The loop over the blocks of a file: each starts at the start of a block *)
(* of the debug link, and the last is the one that is not full.            *)
BlocksOK ==
  /\ current_read \in 0..4 * BufWords
  /\ pc \in {"fread", "chunk"} /\ cmd.fn \in FileFns =>
       /\ at \in Nat /\ at % ChunkWords = 0
       /\ bytes_read = 4 * at /\ bytes_read <= cmd.file.size - Cutoff
  /\ pc = "chunk" /\ cmd.fn \in FileFns =>
       /\ current_read = Take(cmd.file.size - Cutoff - bytes_read)
       /\ eof = (current_read < 4 * BufWords)

(* What the caller's array holds: the words to write, and the words of the *)
(* chunks that have been read.                                             *)
ArrayOK ==
  pc = "chunk" => \A k \in 0..Size - 1 :
    /\ cmd.fn = "load" => data[k] = FileWord(at + k)
    /\ cmd.fn = "wash" => data[k] = cmd.word
    /\ cmd.fn \notin Writes /\ Undisturbed /\ Straight /\ k < i * ChunkWords => data[k] = mem[at + k]

(* The words of a command, and those of them that have been sent. *)
Area == IF cmd.fn = "load" THEN 0..FileWords - 1
        ELSE cmd.addr \div 4..(cmd.addr \div 4) + cmd.len - 1
SentSoFar(a) ==
  /\ a \in Area
  /\ pc = "fread" => a < at
  /\ pc = "chunk" => a < at + Size /\ a < at + i * ChunkWords
WordFor(a) == IF cmd.fn = "load" THEN FileWord(a) ELSE cmd.word

MemoryOK ==
  /\ mem \in [0..MemWords - 1 -> Content]
  /\ cmd.fn \notin Writes \cup ItemWrites => mem = before
  /\ pc = "item" => mem = before
  /\ cmd.fn \in Writes /\ Straight => \A a \in 0..MemWords - 1 :
       /\ a \notin Area => mem[a] = before[a]
       /\ SentSoFar(a) /\ ~failed => mem[a] = WordFor(a)

(* wmem, wmemh and wmemb when they have returned. *)
LanesOK ==
  cmd.fn \in ItemWrites /\ pc = "idle" => \A b \in 0..4 * MemWords - 1 :
    /\ b \notin Asked => Byte(mem, b) = Byte(before, b)
    /\ b \in Asked /\ ~failed => Byte(mem, b) = Wanted(b)

(* What verify has found in the blocks it has compared. *)
FoundOK ==
  cmd.fn = "verify" /\ Undisturbed =>
    /\ pc \in {"fread", "chunk"} =>
         (error_found <=> \E k \in 0..at - 1 : mem[k] # FileWord(k))
    /\ pc = "idle" => (error_found <=> \E k \in 0..FileWords - 1 : mem[k] # FileWord(k))

(* What memh and memb have shown so far. *)
Unit(k) == LET a == cmd.addr - (cmd.addr % Width) + Width * (k - 1)
           IN  [n \in 1..Width |-> Byte(mem, a + n - 1)]
ShownOK ==
  /\ pc = "item" /\ cmd.fn \in ItemReads /\ Undisturbed => shown = [k \in 1..i |-> Unit(k)]
  /\ ReadsWhatIsThere

(* A queue that was in step is so until a read fails. *)
SyncOK == Undisturbed => synced

IInv ==
  /\ SyncOK
  /\ CmdOK /\ PlaceOK /\ LoopOK /\ BlocksOK /\ ArrayOK
  /\ MemoryOK /\ LanesOK /\ FoundOK /\ ShownOK
  /\ faults \in 0..MaxFaults

LEMMA WordNotUnset ==
  ASSUME NEW w \in Content
  PROVE  w # Unset
<1>1. DOMAIN w = 1..4
  BY DEF Content
<1>2. 1 \in DOMAIN w /\ DOMAIN Unset = {}
  BY <1>1 DEF Unset
<1> QED BY <1>2

(* The cases of the operators that look at the kind of a command. *)
CasesOK ==
  /\ cmd.fn \in FileFns => Size = current_read \div 4
  /\ cmd.fn \in {"wash", "mem"} => Size = cmd.len % WordMod
  /\ cmd.fn = "bdump" => Size = (cmd.len \div 4) % WordMod
  /\ cmd.fn \in {"wmem", "mem"} => Width = 4
  /\ cmd.fn \in {"wmemh", "memh"} => Width = 2
  /\ cmd.fn \in {"wmemb", "memb"} => Width = 1
  /\ cmd.fn = "wmem" => Out = Out32(cmd.word)
  /\ cmd.fn = "wmemh" => Out = Out16(cmd.addr, SubSeq(cmd.word, 3, 4))
  /\ cmd.fn = "wmemb" => Out = Out8(cmd.addr, cmd.word[4])
LEMMA Cases == CasesOK
<1>1. "load" # "wash" /\ "load" # "mem" /\ "verify" # "wash" /\ "verify" # "mem"
      /\ "bdump" # "load" /\ "bdump" # "verify" /\ "bdump" # "wash" /\ "bdump" # "mem"
      /\ "load" # "bdump" /\ "verify" # "bdump" /\ "wash" # "bdump" /\ "mem" # "bdump"
      /\ "wash" # "load" /\ "mem" # "load" /\ "wash" # "verify" /\ "mem" # "verify"
  OBVIOUS
<1>2. "wmem" # "wmemh" /\ "wmem" # "memh" /\ "wmem" # "wmemb" /\ "wmem" # "memb"
      /\ "mem" # "wmemh" /\ "mem" # "memh" /\ "mem" # "wmemb" /\ "mem" # "memb"
      /\ "wmemh" # "wmem" /\ "wmemh" # "mem" /\ "wmemh" # "wmemb" /\ "wmemh" # "memb"
      /\ "memh" # "wmem" /\ "memh" # "mem" /\ "memh" # "wmemb" /\ "memh" # "memb"
      /\ "wmemb" # "wmem" /\ "wmemb" # "mem" /\ "wmemb" # "wmemh" /\ "wmemb" # "memh"
      /\ "memb" # "wmem" /\ "memb" # "mem" /\ "memb" # "wmemh" /\ "memb" # "memh"
  OBVIOUS
<1>3. /\ cmd.fn \in FileFns => Size = current_read \div 4
      /\ cmd.fn \in {"wash", "mem"} => Size = cmd.len % WordMod
      /\ cmd.fn = "bdump" => Size = (cmd.len \div 4) % WordMod
  BY <1>1, Zenon DEF Size, FileFns
<1>4. /\ cmd.fn \in {"wmem", "mem"} => Width = 4
      /\ cmd.fn \in {"wmemh", "memh"} => Width = 2
      /\ cmd.fn \in {"wmemb", "memb"} => Width = 1
  BY <1>2, Zenon DEF Width
<1>5. /\ cmd.fn = "wmem" => Out = Out32(cmd.word)
      /\ cmd.fn = "wmemh" => Out = Out16(cmd.addr, SubSeq(cmd.word, 3, 4))
      /\ cmd.fn = "wmemb" => Out = Out8(cmd.addr, cmd.word[4])
  BY <1>2, Zenon DEF Out
<1> QED BY <1>3, <1>4, <1>5 DEF CasesOK

(* The same for what a command is asked to write. *)
Base == cmd.addr - (cmd.addr % Width)
AskedOK ==
  /\ cmd.fn = "load" =>
       Asked = 0..4 * FileWords - 1 /\ \A b \in Int : Wanted(b) = FileWord(b \div 4)[(b % 4) + 1]
  /\ cmd.fn = "wash" =>
       /\ Asked = cmd.addr - (cmd.addr % 4)..cmd.addr - (cmd.addr % 4) + 4 * cmd.len - 1
       /\ \A b \in Int : Wanted(b) = cmd.word[(b % 4) + 1]
  /\ cmd.fn \in ItemWrites =>
       /\ Asked = Base..Base + Width - 1
       /\ \A b \in Int : Wanted(b) = cmd.word[4 - Width + (b % Width) + 1]
  /\ cmd.fn \notin Writes \cup ItemWrites => Asked = {}
LEMMA AskedCases == AskedOK
<1>1. "load" # "wash" /\ "load" # "wmem" /\ "load" # "wmemh" /\ "load" # "wmemb"
      /\ "wash" # "load" /\ "wash" # "wmem" /\ "wash" # "wmemh" /\ "wash" # "wmemb"
      /\ "wmem" # "load" /\ "wmemh" # "load" /\ "wmemb" # "load"
      /\ "wmem" # "wash" /\ "wmemh" # "wash" /\ "wmemb" # "wash"
  OBVIOUS
<1>2. cmd.fn = "load" =>
        Asked = 0..4 * FileWords - 1 /\ \A b \in Int : Wanted(b) = FileWord(b \div 4)[(b % 4) + 1]
  BY <1>1, Zenon DEF Asked, Wanted
<1>3. cmd.fn = "wash" =>
        /\ Asked = cmd.addr - (cmd.addr % 4)..cmd.addr - (cmd.addr % 4) + 4 * cmd.len - 1
        /\ \A b \in Int : Wanted(b) = cmd.word[(b % 4) + 1]
  BY <1>1, Zenon DEF Asked, Wanted
<1>4. cmd.fn \in ItemWrites =>
        /\ Asked = Base..Base + Width - 1
        /\ \A b \in Int : Wanted(b) = cmd.word[4 - Width + (b % Width) + 1]
  BY <1>1, Zenon DEF Asked, Wanted, ItemWrites, Base
<1>5. cmd.fn \notin Writes \cup ItemWrites => Asked = {}
  BY Zenon DEF Asked, Writes, ItemWrites
<1> QED BY <1>2, <1>3, <1>4, <1>5 DEF AskedOK

(* A command with a buffer, in the loop over its chunks. *)
LEMMA InLoop ==
  ASSUME IInv, pc = "chunk"
  PROVE  /\ Size \in Nat /\ Size < WordMod /\ at \in Nat
         /\ i \in Nat /\ Chunks(Size) \in Nat /\ i <= Chunks(Size) /\ i * ChunkWords \in Nat
         /\ cmd.fn \in FileFns =>
              /\ at % ChunkWords = 0 /\ Size = current_read \div 4 /\ bytes_read = 4 * at
              /\ current_read \in Nat /\ cmd.file.size \in Nat
              /\ 4 * at + current_read <= cmd.file.size - Cutoff
              /\ at + Size <= FileWords
         /\ cmd.fn \notin FileFns => at = cmd.addr \div 4
<1>1. Size \in Nat /\ Size < WordMod /\ i \in 0..Chunks(Size)
  BY SizesAssumption DEF IInv, LoopOK
<1>2. Chunks(Size) \in Nat
  BY <1>1, SizesAssumption, ChunksNat
<1>3. i \in Nat /\ i <= Chunks(Size) /\ i * ChunkWords \in Nat
  BY <1>1, <1>2, SizesAssumption
<1>4. CASE cmd.fn \in FileFns
  <2>1. at \in Nat /\ at % ChunkWords = 0 /\ bytes_read = 4 * at
        /\ bytes_read <= cmd.file.size - Cutoff /\ current_read \in 0..4 * BufWords
        /\ current_read = Take(cmd.file.size - Cutoff - bytes_read)
    BY <1>4 DEF IInv, BlocksOK
  <2>2. Size = current_read \div 4
    BY <1>4, Cases DEF CasesOK
  <2>3. cmd.file.size \in Nat
    BY <1>4, FilesAssumption DEF IInv, CmdOK
  <2>4. 4 * at + current_read <= cmd.file.size - Cutoff
    BY <2>1, <2>3, SizesAssumption DEF Take
  <2>5. at + (current_read \div 4) <= FileWords
    BY <2>1, <2>3, <2>4, SizesAssumption DEF FileWords
  <2> QED BY <1>1, <1>2, <1>3, <1>4, <2>1, <2>2, <2>3, <2>4, <2>5, SizesAssumption
<1>5. CASE cmd.fn \notin FileFns
  <2>1. at = cmd.addr \div 4 /\ cmd.addr \in Nat
    BY <1>5 DEF IInv, LoopOK, CmdOK
  <2> QED BY <1>1, <1>2, <1>3, <1>5, <2>1
<1> QED BY <1>4, <1>5

(* For a command that is Straight, the size is what was asked for and no   *)
(* chunk is wrapped round.                                                 *)
LEMMA StraightLoop ==
  ASSUME IInv, pc = "chunk", Straight
  PROVE  /\ at % ChunkWords = 0 \/ (at % ChunkWords) + Size <= ChunkWords
         /\ cmd.fn \in {"wash", "mem"} => Size = cmd.len
         /\ cmd.fn = "bdump" => Size = cmd.len \div 4
<1>1. cmd.fn \in Buffered /\ cmd.len \in Nat /\ cmd.addr \in Nat
  BY DEF IInv, PlaceOK, CmdOK
<1>2. CASE cmd.fn \in FileFns
  BY <1>2, InLoop DEF FileFns
<1>3. CASE cmd.fn \in {"wash", "mem"}
  <2>1. cmd.len < WordMod /\ ((cmd.addr \div 4) % ChunkWords = 0
                             \/ ((cmd.addr \div 4) % ChunkWords) + cmd.len <= ChunkWords)
    BY <1>3 DEF Straight
  <2>2. Size = cmd.len % WordMod
    BY <1>3, Cases DEF CasesOK
  <2>3. cmd.len % WordMod = cmd.len
    BY <1>1, <2>1, SizesAssumption
  <2> QED BY <1>3, <2>1, <2>2, <2>3, InLoop DEF FileFns
<1>4. CASE cmd.fn = "bdump"
  <2> DEFINE n == cmd.len \div 4
  <2>1. n < WordMod /\ ((cmd.addr \div 4) % ChunkWords = 0
                             \/ ((cmd.addr \div 4) % ChunkWords) + n <= ChunkWords)
    BY <1>4 DEF Straight
  <2>2. Size = n % WordMod
    BY <1>4, Cases DEF CasesOK
  <2>3. n \in Nat
    BY <1>1
  <2> HIDE DEF n
  <2>4. n % WordMod = n
    BY <2>1, <2>3, SizesAssumption
  <2> QED BY <1>4, <2>1, <2>2, <2>4, InLoop DEF FileFns, n
<1> QED BY <1>1, <1>2, <1>3, <1>4 DEF Buffered

(* A chunk of the loop. *)
LEMMA ThisChunk ==
  ASSUME IInv, InChunks
  PROVE  /\ (i + 1) * ChunkWords = i * ChunkWords + ChunkWords /\ i + 1 \in 0..Chunks(Size)
         /\ \A j \in InChunk : j \in Index /\ i * ChunkWords + j \in 0..Size - 1
         /\ \A w \in 0..Size - 1 :
              w < (i + 1) * ChunkWords <=> w < i * ChunkWords \/ w - i * ChunkWords \in InChunk
         /\ Straight => \A j \in InChunk : Target(j) = at + i * ChunkWords + j
<1>1. i \in 0..(Chunks(Size) - 1) /\ Size \in Nat /\ Size < WordMod /\ at \in Nat
  BY InLoop DEF InChunks
<1>2. i \in Nat /\ ChunkSize(i, Size) \in 1..ChunkWords
      /\ i * ChunkWords \in Nat /\ i * ChunkWords + ChunkSize(i, Size) <= Size
  BY <1>1, SizesAssumption, SizeOfChunk
<1>3. /\ (i + 1) * ChunkWords = i * ChunkWords + ChunkWords
      /\ \A w \in 0..(Size - 1) :
           w < (i + 1) * ChunkWords <=> w < i * ChunkWords \/ w - i * ChunkWords \in InChunk
  BY <1>1, SizesAssumption, NextChunk DEF InChunk
<1>4. \A j \in InChunk : j \in Index /\ i * ChunkWords + j \in 0..Size - 1
  BY <1>1, <1>2, SizesAssumption DEF InChunk, Index
<1>5. ASSUME Straight, NEW j \in InChunk
      PROVE  Target(j) = at + i * ChunkWords + j
  <2>1. at % ChunkWords = 0 \/ (at % ChunkWords) + Size <= ChunkWords
    BY <1>5, StraightLoop DEF InChunks
  <2>2. j \in 0..(ChunkSize(i, Size) - 1)
    BY DEF InChunk
  <2>3. \A size, a \in Nat :
          a % ChunkWords = 0 \/ (a % ChunkWords) + size <= ChunkWords =>
            \A k \in 0..(Chunks(size) - 1) : \A n \in 0..(ChunkSize(k, size) - 1) :
              Burst(a + k * ChunkWords, n) = a + k * ChunkWords + n
    BY SizesAssumption, ChunksStay
  <2>4. \A k \in 0..(Chunks(Size) - 1) : \A n \in 0..(ChunkSize(k, Size) - 1) :
          Burst(at + k * ChunkWords, n) = at + k * ChunkWords + n
    BY <1>1, <2>1, <2>3
  <2> QED BY <1>1, <2>2, <2>4 DEF Target
<1>6. i + 1 \in 0..Chunks(Size)
  BY <1>1, <1>2, ChunksNat, SizesAssumption
<1> QED BY <1>3, <1>4, <1>5, <1>6

(* What a chunk of a write command sends: proper words, and, when it is    *)
(* Straight, the words of the command, each to its address.                *)
LEMMA ChunkOut ==
  ASSUME IInv, InChunks, cmd.fn \in Writes, NEW a \in 0..MemWords - 1
  PROVE  /\ For(a) # {} => Sent(a) \in Content
         /\ Straight =>
              /\ For(a) # {} => a \in Area /\ Sent(a) = WordFor(a)
              /\ SentSoFar(a) \/ For(a) # {} <=>
                   a \in Area /\ a < at + Size /\ a < at + (i + 1) * ChunkWords
<1>1. pc = "chunk" /\ cmd.fn \in {"load", "wash"}
  BY DEF InChunks, Writes
<1>2. /\ Size \in Nat /\ at \in Nat /\ i \in Nat /\ i * ChunkWords \in Nat
      /\ cmd.fn = "load" => at + Size <= FileWords /\ cmd.file.size \in Nat
      /\ cmd.fn = "wash" => at = cmd.addr \div 4
  BY <1>1, InLoop DEF FileFns
<1>3. ASSUME NEW k \in 0..Size - 1
      PROVE  data[k] \in Content /\ data[k] # Unset
             /\ (cmd.fn = "load" => data[k] = FileWord(at + k))
             /\ (cmd.fn = "wash" => data[k] = cmd.word)
  <2>1. (cmd.fn = "load" => data[k] = FileWord(at + k)) /\ (cmd.fn = "wash" => data[k] = cmd.word)
    BY <1>1 DEF IInv, ArrayOK
  <2>2. CASE cmd.fn = "load"
    <3>1. cmd.file \in Files
      BY <2>2 DEF IInv, CmdOK, FileFns
    <3>2. at + k + 1 \in 1..(cmd.file.size - Cutoff) \div 4
      BY <1>2, <2>2, SizesAssumption DEF FileWords
    <3>3. FileWord(at + k) \in Content
      BY <1>2, <3>1, <3>2, FilesAssumption DEF FileWord
    <3> QED BY <2>1, <2>2, <3>3, WordNotUnset
  <2>3. CASE cmd.fn = "wash"
    BY <2>1, <2>3, WordNotUnset DEF IInv, CmdOK
  <2> QED BY <1>1, <2>1, <2>2, <2>3
<1>4. ASSUME For(a) # {}
      PROVE  \E j \in InChunk : Target(j) = a /\ Sent(a) = data[i * ChunkWords + j]
  <2> DEFINE j == CHOOSE j \in For(a) : TRUE
  <2>1. j \in For(a)
    BY <1>4
  <2>2. j \in InChunk /\ Target(j) = a
    BY <2>1 DEF For
  <2>3. i * ChunkWords + j \in 0..Size - 1
    BY <2>2, ThisChunk
  <2>4. Sent(a) = data[i * ChunkWords + j]
    BY <1>3, <2>3 DEF Sent
  <2> QED BY <2>2, <2>4
<1>5. For(a) # {} => Sent(a) \in Content
  BY <1>3, <1>4, ThisChunk
<1>6. ASSUME Straight
      PROVE  /\ For(a) # {} => a \in Area /\ Sent(a) = WordFor(a)
             /\ SentSoFar(a) \/ For(a) # {} <=>
                  a \in Area /\ a < at + Size /\ a < at + (i + 1) * ChunkWords
  <2>1. For(a) # {} <=> a - at - i * ChunkWords \in InChunk
    <3>1. \A j \in InChunk : Target(j) = at + i * ChunkWords + j /\ j \in Int
      BY <1>6, ThisChunk DEF InChunk
    <3> QED BY <1>2, <3>1, SizesAssumption DEF For
  <2>2. cmd.fn = "wash" => Size = cmd.len
    BY <1>1, <1>6, StraightLoop
  <2>3. ASSUME For(a) # {}
        PROVE  a - at \in 0..Size - 1 /\ Sent(a) = data[a - at]
    <3>1. PICK j \in InChunk : Target(j) = a /\ Sent(a) = data[i * ChunkWords + j]
      BY <1>4, <2>3
    <3>2. a = at + i * ChunkWords + j /\ i * ChunkWords + j \in 0..Size - 1 /\ j \in Int
      BY <1>6, <3>1, ThisChunk DEF InChunk
    <3>3. a - at = i * ChunkWords + j
      BY <1>2, <3>2
    <3> QED BY <3>1, <3>2, <3>3
  <2>4. a - at \in 0..Size - 1 => a \in Area
    BY <1>1, <1>2, <2>2, SizesAssumption DEF Area, FileWords
  <2>5. For(a) # {} => Sent(a) = WordFor(a)
    <3>1. a - at \in 0..Size - 1 => data[a - at] = WordFor(a)
      <4>1. a = at + (a - at)
        BY <1>2
      <4> QED BY <1>1, <1>3, <4>1 DEF WordFor
    <3> QED BY <2>3, <3>1
  <2>6. ASSUME a \in Area, a < at + Size
        PROVE  a < at + (i + 1) * ChunkWords <=>
                 a < at + i * ChunkWords \/ a - at - i * ChunkWords \in InChunk
    <3> DEFINE n == i * ChunkWords
    <3>1. CASE a < at
      <4>1. (i + 1) * ChunkWords = n + ChunkWords /\ n \in Nat
        BY <1>2, ThisChunk
      <4> HIDE DEF n
      <4> QED BY <1>2, <3>1, <4>1, SizesAssumption DEF n
    <3>2. CASE a >= at
      <4>1. a - at \in 0..Size - 1
        BY <1>2, <2>6, <3>2
      <4>2. a - at < (i + 1) * ChunkWords <=> a - at < n \/ a - at - n \in InChunk
        BY <4>1, ThisChunk
      <4>3. (i + 1) * ChunkWords \in Int
        BY <1>2, SizesAssumption
      <4> QED BY <1>2, <4>2, <4>3
    <3> QED BY <1>2, <3>1, <3>2
  <2>7. SentSoFar(a) <=> a \in Area /\ a < at + Size /\ a < at + i * ChunkWords
    BY <1>1 DEF SentSoFar
  <2>8. (a \in Area /\ a < at + Size /\ a < at + i * ChunkWords) =>
          a < at + (i + 1) * ChunkWords
    BY <2>6
  <2>9. For(a) # {} => a < at + Size
    BY <1>2, <2>3
  <2> QED BY <2>1, <2>3, <2>4, <2>5, <2>6, <2>7, <2>8, <2>9
<1> QED BY <1>5, <1>6

LEMMA StartsRight == Init => IInv
<1> SUFFICES ASSUME Init PROVE IInv
  OBVIOUS
<1>1. cmd.fn = "none" /\ cmd.addr = 0 /\ cmd.len = 0 /\ cmd.word = Spoilt /\ pc = "idle"
      /\ mem = before /\ shown = <<>> /\ faults = 0 /\ current_read = 0 /\ synced = TRUE
  BY DEF Init, Cmd
<1>2. mem \in [0..MemWords - 1 -> Content]
  BY ContentsAssumption DEF Init
<1>3. CmdOK /\ PlaceOK /\ LoopOK
  BY <1>1, ContentsAssumption
     DEF CmdOK, PlaceOK, LoopOK, FileFns, ItemReads, ItemWrites, Buffered
<1>4. BlocksOK /\ SyncOK /\ faults \in 0..MaxFaults
  BY <1>1, SizesAssumption DEF BlocksOK, SyncOK
<1>5. ArrayOK /\ LanesOK /\ FoundOK
  BY <1>1 DEF ArrayOK, LanesOK, FoundOK, ItemWrites
<1>6. MemoryOK
  BY <1>1, <1>2 DEF MemoryOK, Writes
<1>7. ReadsWhatIsThere
  BY <1>1, Zenon DEF ReadsWhatIsThere
<1>8. ShownOK
  BY <1>1, <1>7 DEF ShownOK
<1> QED BY <1>1, <1>3, <1>4, <1>5, <1>6, <1>8 DEF IInv

-----------------------------------------------------------------------------
(* The steps *)

(* One chunk of load or wash, sent or failed: the memory is what it was    *)
(* but for the words of the chunk, and if the call did not fail those have *)
(* been written.                                                           *)
LEMMA WriteStep ==
  ASSUME IInv, InChunks, cmd.fn \in Writes,
         i' = i + 1, UNCHANGED <<pc, cmd, arrays, at, file, shown, before, behind, synced>>,
         faults' \in 0..MaxFaults, failed => failed',
         mem' \in [0..MemWords - 1 -> Content],
         \A a \in 0..MemWords - 1 :
           /\ For(a) = {} => mem'[a] = mem[a]
           /\ For(a) # {} /\ ~failed' => mem'[a] = Sent(a)
  PROVE  IInv'
<1>1. pc = "chunk" /\ pc' = "chunk" /\ cmd' = cmd /\ at' = at /\ data' = data
      /\ bytes_read' = bytes_read /\ current_read' = current_read /\ eof' = eof
      /\ error_found' = error_found /\ before' = before /\ cmd.fn \in {"load", "wash"}
      /\ SyncOK'
  BY DEF InChunks, file, arrays, Writes, IInv, SyncOK, Undisturbed
<1>2. Size' = Size /\ (Straight' <=> Straight) /\ Area' = Area
      /\ \A a : WordFor(a)' = WordFor(a)
  BY <1>1 DEF Size, Straight, Area, FileWords, WordFor, FileWord
<1>3. CmdOK' /\ PlaceOK' /\ BlocksOK'
  BY <1>1 DEF IInv, CmdOK, PlaceOK, BlocksOK
<1>4. Chunks(Size)' = Chunks(Size)
  BY <1>2 DEF Chunks
<1>5. LoopOK'
  <2>1. i' \in 0..Chunks(Size)
    BY ThisChunk
  <2> QED BY <1>1, <1>2, <1>4, <2>1 DEF IInv, LoopOK
<1>6. ArrayOK'
  BY <1>1, <1>2 DEF IInv, ArrayOK, FileWord, Writes
<1>7. MemoryOK'
  <2>1. ASSUME Straight, NEW a \in 0..MemWords - 1
        PROVE  /\ a \notin Area => mem'[a] = before[a]
               /\ SentSoFar(a)' /\ ~failed' => mem'[a] = WordFor(a)
    <3>1. /\ a \notin Area => mem[a] = before[a]
          /\ SentSoFar(a) /\ ~failed => mem[a] = WordFor(a)
      BY <2>1 DEF IInv, MemoryOK
    <3>2. For(a) # {} => a \in Area /\ Sent(a) = WordFor(a)
      BY <2>1, ChunkOut
    <3>3. SentSoFar(a)' <=> a \in Area /\ a < at + Size /\ a < at + (i + 1) * ChunkWords
      BY <1>1, <1>2 DEF SentSoFar
    <3>4. SentSoFar(a)' <=> SentSoFar(a) \/ For(a) # {}
      BY <2>1, <3>3, ChunkOut
    <3> QED BY <3>1, <3>2, <3>4
  <2> QED BY <1>1, <1>2, <2>1 DEF MemoryOK, Writes
<1>8. LanesOK' /\ FoundOK' /\ ReadsWhatIsThere'
  BY <1>1 DEF LanesOK, FoundOK, ReadsWhatIsThere, ItemWrites
<1>9. ShownOK'
  BY <1>1, <1>8 DEF ShownOK
<1> QED BY <1>1, <1>3, <1>5, <1>6, <1>7, <1>8, <1>9 DEF IInv

LEMMA WriteChunkKeeps == ASSUME IInv, WriteChunk PROVE IInv'
<1>1. mem \in [0..MemWords - 1 -> Content] /\ InChunks /\ cmd.fn \in Writes
  BY DEF IInv, MemoryOK, WriteChunk
<1>2. mem' = [a \in 0..MemWords - 1 |-> IF For(a) # {} THEN Sent(a) ELSE mem[a]]
  BY <1>1 DEF WriteChunk
<1>3. \A a \in 0..MemWords - 1 : For(a) # {} => Sent(a) \in Content
  BY <1>1, ChunkOut
<1>4. mem' \in [0..MemWords - 1 -> Content]
  BY <1>1, <1>2, <1>3
<1>5. i' = i + 1 /\ UNCHANGED <<pc, cmd, arrays, at, file, shown, before, behind, synced>>
      /\ faults' \in 0..MaxFaults /\ failed' = failed
  BY DEF WriteChunk, IInv, past
<1> QED BY <1>1, <1>2, <1>4, <1>5, WriteStep

LEMMA WriteChunkFailsKeeps == ASSUME IInv, WriteChunkFails PROVE IInv'
<1>1. mem \in [0..MemWords - 1 -> Content] /\ InChunks /\ cmd.fn \in Writes
  BY DEF IInv, MemoryOK, WriteChunkFails
<1>2. PICK fate \in [{a \in DOMAIN mem : For(a) # {}} -> {"kept", "stored", "spoilt"}] :
        mem' = [a \in DOMAIN mem |->
          IF a \notin DOMAIN fate \/ fate[a] = "kept" THEN mem[a]
          ELSE IF fate[a] = "stored" THEN Sent(a) ELSE Spoilt]
  BY DEF WriteChunkFails
<1>3. \A a \in 0..MemWords - 1 : For(a) # {} => Sent(a) \in Content
  BY <1>1, ChunkOut
<1>4. mem' \in [0..MemWords - 1 -> Content]
      /\ \A a \in 0..MemWords - 1 : For(a) = {} => mem'[a] = mem[a]
  BY <1>1, <1>2, <1>3, ContentsAssumption
<1>5. i' = i + 1 /\ UNCHANGED <<pc, cmd, arrays, at, file, shown, before, behind, synced>>
      /\ faults' \in 0..MaxFaults /\ failed' = TRUE
  BY SizesAssumption DEF WriteChunkFails, IInv, past
<1> QED BY <1>1, <1>4, <1>5, WriteStep

(* One chunk of verify, mem or bdump: the words of the chunk are copied,   *)
(* and if nothing has disturbed the command they are those of the memory.  *)
LEMMA ReadStep ==
  ASSUME IInv, InChunks, cmd.fn \notin Writes,
         i' = i + 1, UNCHANGED <<mem, pc, cmd, at, file, shown, before, behind>>,
         faults' \in 0..MaxFaults, failed => failed',
         data' = Copied(tempData'), SyncOK',
         Undisturbed' => \A j \in InChunk : tempData'[j] = mem[Target(j)]
  PROVE  IInv'
<1>1. pc = "chunk" /\ pc' = "chunk" /\ cmd' = cmd /\ at' = at /\ mem' = mem
      /\ bytes_read' = bytes_read /\ current_read' = current_read /\ eof' = eof
      /\ error_found' = error_found /\ before' = before /\ (Undisturbed' => Undisturbed)
  BY DEF InChunks, file, Undisturbed
<1>2. Size' = Size /\ (Straight' <=> Straight)
  BY <1>1 DEF Size, Straight
<1>3. CmdOK' /\ PlaceOK' /\ BlocksOK'
  BY <1>1 DEF IInv, CmdOK, PlaceOK, BlocksOK
<1>4. Chunks(Size)' = Chunks(Size)
  BY <1>2 DEF Chunks
<1>5. LoopOK'
  <2>1. i' \in 0..Chunks(Size)
    BY ThisChunk
  <2> QED BY <1>1, <1>2, <1>4, <2>1 DEF IInv, LoopOK
<1>6. ArrayOK'
  <2>1. ASSUME Undisturbed', Straight, NEW k \in 0..Size - 1, k < (i + 1) * ChunkWords
        PROVE  data'[k] = mem[at + k]
    <3> DEFINE n == i * ChunkWords
               j == k - n
    <3>1. k \in Index /\ n \in Nat /\ at \in Nat
      BY <1>1, InLoop, SizesAssumption DEF Index
    <3>2. data'[k] = IF j \in InChunk THEN tempData'[j] ELSE data[k]
      BY <3>1 DEF Copied
    <3>3. k < n \/ j \in InChunk
      BY <2>1, ThisChunk
    <3>4. j \in InChunk => tempData'[j] = mem[at + n + j] /\ at + n + j = at + k
      <4>1. j \in InChunk => tempData'[j] = mem[Target(j)] /\ Target(j) = at + n + j
        BY <2>1, ThisChunk
      <4>2. at + n + j = at + k
        BY <3>1
      <4> QED BY <4>1, <4>2
    <3>5. k < n => data[k] = mem[at + k]
      BY <1>1, <2>1 DEF IInv, ArrayOK
    <3> QED BY <3>2, <3>3, <3>4, <3>5
  <2> QED BY <1>1, <1>2, <2>1 DEF ArrayOK, Writes
<1>7. MemoryOK'
  BY <1>1 DEF IInv, MemoryOK
<1>8. LanesOK' /\ ReadsWhatIsThere'
  BY <1>1 DEF LanesOK, ReadsWhatIsThere, ItemWrites
<1>9. FoundOK'
  BY <1>1 DEF IInv, FoundOK, FileWord, FileWords
<1>10. ShownOK'
  BY <1>1, <1>8 DEF ShownOK
<1> QED BY <1>1, <1>3, <1>5, <1>6, <1>7, <1>8, <1>9, <1>10 DEF IInv

LEMMA ReadChunkKeeps == ASSUME IInv, ReadChunk PROVE IInv'
<1>1. InChunks /\ cmd.fn \notin Writes
  BY DEF ReadChunk
<1>2. i' = i + 1 /\ UNCHANGED <<mem, pc, cmd, at, file, shown, before, behind>>
      /\ faults' \in 0..MaxFaults /\ failed' = failed /\ data' = Copied(tempData')
      /\ (Undisturbed' => Undisturbed)
  BY DEF ReadChunk, IInv, past, Undisturbed
<1> DEFINE n == ChunkSize(i, Size)
<1>3. PICK late \in 0..n, old \in [InChunk -> Late] :
        /\ late = 0 <=> synced
        /\ tempData' = Answers(n, late, old)
        /\ synced' \in IF late < n THEN {TRUE} ELSE BOOLEAN
  BY DEF ReadChunk
<1>4. n \in Nat /\ n > 0
  <2>1. i \in 0..(Chunks(Size) - 1) /\ Size \in Nat
    BY <1>1, InLoop DEF InChunks
  <2> QED BY <2>1, SizeOfChunk, SizesAssumption
<1>5. \A j \in InChunk : j \in Index /\ j \in Nat /\ j < n
  BY <1>1, <1>4, ThisChunk DEF InChunk
<1> HIDE DEF n
<1>6. ASSUME synced
      PROVE  synced' /\ \A j \in InChunk : tempData'[j] = mem[Target(j)]
  <2>1. late = 0 /\ late < n
    BY <1>3, <1>4, <1>6
  <2>2. ASSUME NEW j \in InChunk
        PROVE  tempData'[j] = mem[Target(j)]
    <3>1. ~(j >= n) /\ ~(j < late) /\ j \in Index
      BY <1>4, <1>5, <2>1
    <3> QED BY <1>3, <3>1 DEF Answers
  <2> QED BY <1>3, <2>1, <2>2
<1>7. SyncOK'
  BY <1>2, <1>6 DEF SyncOK, IInv
<1>8. Undisturbed' => \A j \in InChunk : tempData'[j] = mem[Target(j)]
  BY <1>2, <1>6 DEF SyncOK, IInv
<1> QED BY <1>1, <1>2, <1>7, <1>8, ReadStep

LEMMA ReadChunkFailsKeeps == ASSUME IInv, ReadChunkFails PROVE IInv'
<1>1. InChunks /\ cmd.fn \notin Writes
  BY DEF ReadChunkFails
<1>2. i' = i + 1 /\ UNCHANGED <<mem, pc, cmd, at, file, shown, before, behind>>
      /\ faults' \in 0..MaxFaults /\ failed' = TRUE /\ data' = Copied(tempData')
      /\ SyncOK' /\ ~Undisturbed'
  BY SizesAssumption DEF ReadChunkFails, IInv, past, SyncOK, Undisturbed
<1> QED BY <1>1, <1>2, ReadStep

(* The part of the assumptions that does not divide. *)
LEMMA PlainSizes ==
  /\ MemWords \in Nat /\ Cutoff \in Nat
  /\ BufWords \in Nat /\ BufWords > 0 /\ WordMod \in Nat /\ BufWords < WordMod
BY SizesAssumption

(* A block of a file fills at most the buffer. *)
LEMMA BlockWords ==
  ASSUME NEW bytes \in 0..4 * BufWords
  PROVE  /\ bytes \div 4 \in 0..WordMod - 1
         /\ ~(bytes < 4 * BufWords) => bytes \div 4 = BufWords
<1>1. bytes \div 4 \in Nat /\ bytes \div 4 <= BufWords
  BY PlainSizes
<1> QED BY <1>1, PlainSizes

LEMMA FreadKeeps == ASSUME IInv, Fread PROVE IInv'
<1> DEFINE rest == cmd.file.size - Cutoff - bytes_read
<1>1. pc = "fread" /\ pc' = "chunk" /\ cmd.fn \in FileFns /\ cmd.fn \in {"load", "verify"} /\ i' = 0
      /\ UNCHANGED <<mem, cmd, at, bytes_read, error_found, shown, faults, before, failed>>
      /\ current_read' = Take(rest) /\ eof' = (current_read' < 4 * BufWords)
      /\ SyncOK' /\ (Undisturbed' <=> Undisturbed)
  BY DEF Fread, Enter, IInv, PlaceOK, FileFns, past, SyncOK, Undisturbed
<1>2. cmd.file \in Files /\ cmd.file.size \in Nat /\ at \in Nat /\ bytes_read = 4 * at
      /\ at % ChunkWords = 0 /\ bytes_read <= cmd.file.size - Cutoff
  BY <1>1, FilesAssumption DEF IInv, CmdOK, BlocksOK
<1>3. current_read' \in 0..4 * BufWords
  BY <1>1, <1>2, SizesAssumption DEF Take
<1>4. Size' = current_read' \div 4
  <2>1. CasesOK'
    BY Cases, PTL
  <2> QED BY <1>1, <2>1 DEF CasesOK
<1>5. Size' \in 0..WordMod - 1 /\ Chunks(Size)' \in Nat
  <2>1. Size' \in 0..WordMod - 1
    BY <1>3, <1>4, BlockWords
  <2>2. \A n \in Nat : Chunks(n) \in Nat
    BY SizesAssumption, ChunksNat
  <2>3. Chunks(Size)' = Chunks(Size')
    BY DEF Chunks
  <2> QED BY <2>1, <2>2, <2>3, SizesAssumption
<1>6. CmdOK' /\ PlaceOK' /\ faults' \in 0..MaxFaults
  BY <1>1 DEF IInv, CmdOK, PlaceOK, Buffered
<1>7. LoopOK'
  BY <1>1, <1>5 DEF LoopOK
<1>8. BlocksOK'
  BY <1>1, <1>2, <1>3 DEF BlocksOK
<1>9. ArrayOK'
  <2>1. ASSUME cmd.fn = "load", NEW k \in 0..Size' - 1
        PROVE  data'[k] = FileWord(at + k)'
    <3>1. k \in Index /\ k < current_read' \div 4
      BY <1>4, <1>5, SizesAssumption DEF Index
    <3>2. data' = [l \in Index |-> IF l < current_read' \div 4
                                   THEN FileWord((bytes_read \div 4) + l) ELSE data[l]]
      BY <2>1 DEF Fread
    <3>3. data'[k] = FileWord((bytes_read \div 4) + k)
      BY <3>1, <3>2
    <3>4. bytes_read \div 4 = at
      BY <1>2
    <3> QED BY <1>1, <3>3, <3>4 DEF FileWord
  <2>2. \A k \in 0..Size' - 1 : ~(k < i' * ChunkWords)
    BY <1>1, SizesAssumption
  <2> QED BY <1>1, <2>1, <2>2 DEF ArrayOK
<1>10. MemoryOK'
  <2>1. ASSUME NEW a \in 0..MemWords - 1, SentSoFar(a)'
        PROVE  SentSoFar(a)
    <3>1. a \in Area' /\ a < at' + Size' /\ a < at' + i' * ChunkWords
      BY <1>1, <2>1 DEF SentSoFar
    <3>2. i' * ChunkWords = 0
      BY <1>1, SizesAssumption
    <3>3. a \in Area /\ a < at
      BY <1>1, <1>2, <3>1, <3>2, PlainSizes DEF Area, FileWords
    <3> QED BY <1>1, <3>3 DEF SentSoFar
  <2>2. Area' = Area /\ (Straight' <=> Straight) /\ \A a : WordFor(a)' = WordFor(a)
    BY <1>1 DEF Area, FileWords, Straight, WordFor, FileWord
  <2> QED BY <1>1, <2>1, <2>2 DEF IInv, MemoryOK
<1>11. LanesOK' /\ ReadsWhatIsThere'
  BY <1>1 DEF LanesOK, ReadsWhatIsThere
<1>12. FoundOK'
  BY <1>1 DEF IInv, FoundOK, FileWord
<1>13. ShownOK'
  BY <1>1, <1>11 DEF ShownOK
<1> QED BY <1>1, <1>6, <1>7, <1>8, <1>9, <1>10, <1>11, <1>12, <1>13 DEF IInv

(* The end of a block: it has been sent, or compared, as a whole, and the  *)
(* next one begins where it ends.                                          *)
LEMMA NextBlockKeeps == ASSUME IInv, NextBlock PROVE IInv'
<1>1. pc = "chunk" /\ i >= Chunks(Size) /\ cmd.fn \in FileFns /\ cmd.fn \in {"load", "verify"}
      /\ UNCHANGED <<mem, cmd, data, current_read, eof, shown, faults, before, failed, i>>
      /\ SyncOK' /\ (Undisturbed' <=> Undisturbed)
      /\ at' = at + Size /\ bytes_read' = bytes_read + current_read
      /\ error_found' = (error_found \/ Differs)
      /\ pc' = IF cmd.file.size = Cutoff THEN "crashed" ELSE IF eof THEN "idle" ELSE "fread"
  BY DEF NextBlock, Done, Advance, arrays, FileFns, IInv, past, SyncOK, Undisturbed
<1>2. /\ Size \in Nat /\ at \in Nat /\ i \in Nat
      /\ at % ChunkWords = 0 /\ Size = current_read \div 4 /\ bytes_read = 4 * at
      /\ current_read \in Nat /\ cmd.file.size \in Nat
      /\ 4 * at + current_read <= cmd.file.size - Cutoff
      /\ at + Size <= FileWords
  BY <1>1, InLoop
<1>3. current_read = Take(cmd.file.size - Cutoff - bytes_read) /\ eof = (current_read < 4 * BufWords)
      /\ current_read \in 0..4 * BufWords
  BY <1>1 DEF IInv, BlocksOK
<1>4. pc' \in {"crashed", "idle", "fread"} /\ (pc' = "crashed" => cmd.file.size = Cutoff)
      /\ (pc' = "idle" => eof) /\ (pc' = "fread" => ~eof)
  BY <1>1
<1>5. CmdOK' /\ PlaceOK' /\ faults' \in 0..MaxFaults
  BY <1>1, <1>4 DEF IInv, CmdOK, PlaceOK
<1>6. LoopOK' /\ ArrayOK'
  BY <1>1, <1>4 DEF LoopOK, ArrayOK, FileFns, ItemReads
<1>7. pc' = "fread" => Size = BufWords /\ (at + Size) % ChunkWords = 0
  <2>1. pc' = "fread" => Size = BufWords
    BY <1>2, <1>3, <1>4, BlockWords
  <2>2. pc' = "fread" => Size % ChunkWords = 0
    BY <2>1, SizesAssumption
  <2> QED BY <1>2, <2>1, <2>2, SizesAssumption, SumAligned
<1>8. BlocksOK'
  <2>1. pc' = "fread" => bytes_read' = 4 * at' /\ bytes_read' <= cmd.file.size - Cutoff
    BY <1>1, <1>2, <1>3, <1>4, <1>7, SizesAssumption
  <2> QED BY <1>1, <1>2, <1>3, <1>4, <1>7, <2>1 DEF BlocksOK
<1>9. pc' = "idle" => at + Size = FileWords
  <2>1. pc' = "idle" => current_read = cmd.file.size - Cutoff - bytes_read
    <3>1. pc' = "idle" => current_read < 4 * BufWords
      BY <1>3, <1>4
    <3> DEFINE rest == cmd.file.size - Cutoff - bytes_read
    <3>2. rest \in Int
      BY <1>2, PlainSizes
    <3>3. current_read = IF rest < 4 * BufWords THEN rest ELSE 4 * BufWords
      BY <1>3 DEF Take
    <3> HIDE DEF rest
    <3>4. pc' = "idle" => current_read = rest
      BY <1>2, <3>1, <3>2, <3>3, PlainSizes
    <3> QED BY <3>4 DEF rest
  <2> QED BY <1>2, <2>1, PlainSizes DEF FileWords
<1>10. \A w \in 0..Size - 1 : w < i * ChunkWords
  BY <1>1, <1>2, SizesAssumption, AllChunks
<1>11. MemoryOK'
  <2>1. ASSUME cmd.fn = "load", NEW a \in 0..MemWords - 1, SentSoFar(a)'
        PROVE  SentSoFar(a)
    <3>1. a \in Area /\ a \in Nat
      BY <1>1, <2>1, SizesAssumption DEF SentSoFar, Area, FileWords
    <3>2. a < at + Size
      <4>1. CASE pc' = "fread"
        BY <1>1, <2>1, <4>1 DEF SentSoFar
      <4>2. CASE pc' = "idle"
        BY <1>9, <1>2, <2>1, <3>1, <4>2, PlainSizes DEF Area
      <4>3. CASE pc' = "crashed"
        <5>1. FileWords = 0
          BY <1>4, <4>3, SizesAssumption DEF FileWords
        <5> QED BY <2>1, <3>1, <5>1 DEF Area
      <4> QED BY <1>4, <4>1, <4>2, <4>3
    <3>3. a < at + i * ChunkWords
      <4> DEFINE n == i * ChunkWords
      <4>1. n \in Nat
        BY <1>2, SizesAssumption
      <4>2. a >= at => a - at \in 0..Size - 1 /\ a - at < n
        BY <1>2, <1>10, <3>1, <3>2
      <4> HIDE DEF n
      <4>3. a < at + n
        BY <1>2, <3>1, <4>1, <4>2
      <4> QED BY <4>3 DEF n
    <3> QED BY <1>1, <3>1, <3>2, <3>3 DEF SentSoFar
  <2>2. Area' = Area /\ (Straight' <=> Straight) /\ \A a : WordFor(a)' = WordFor(a)
    BY <1>1 DEF Area, FileWords, Straight, WordFor, FileWord
  <2> QED BY <1>1, <1>4, <2>1, <2>2 DEF IInv, MemoryOK, Writes
<1>12. LanesOK'
  BY <1>1 DEF LanesOK, ItemWrites
<1>13. FoundOK'
  <2>1. ASSUME cmd.fn = "verify", Undisturbed
        PROVE  error_found' <=> \E k \in 0..(at + Size) - 1 : mem[k] # FileWord(k)
    <3>1. Straight
      BY <2>1 DEF Straight
    <3>2. error_found <=> \E k \in 0..at - 1 : mem[k] # FileWord(k)
      BY <1>1, <2>1 DEF IInv, FoundOK
    <3>3. \A k \in 0..Size - 1 : data[k] = mem[at + k]
      BY <1>1, <1>10, <2>1, <3>1 DEF IInv, ArrayOK, Writes
    <3>4. bytes_read \div 4 = at
      BY <1>2
    <3>5. Differs <=> \E k \in 0..Size - 1 : mem[at + k] # FileWord(at + k)
      BY <2>1, <3>3, <3>4 DEF Differs
    <3>6. (\E k \in 0..Size - 1 : mem[at + k] # FileWord(at + k))
          <=> \E k \in at..(at + Size) - 1 : mem[k] # FileWord(k)
      <4>1. ASSUME NEW k \in at..(at + Size) - 1
            PROVE  k - at \in 0..Size - 1 /\ at + (k - at) = k
        BY <1>2
      <4>2. ASSUME NEW k \in 0..Size - 1
            PROVE  at + k \in at..(at + Size) - 1
        BY <1>2
      <4> QED BY <4>1, <4>2
    <3>7. 0..(at + Size) - 1 = (0..at - 1) \cup (at..(at + Size) - 1)
      BY <1>2
    <3> QED BY <1>1, <3>2, <3>5, <3>6, <3>7
  <2>2. \A k : FileWord(k)' = FileWord(k)
    BY <1>1 DEF FileWord
  <2>3. FileWords' = FileWords
    BY <1>1 DEF FileWords
  <2> QED BY <1>1, <1>4, <1>9, <2>1, <2>2, <2>3 DEF FoundOK
<1>14. ReadsWhatIsThere'
  <2>1. cmd' = cmd /\ cmd.fn # "mem" /\ cmd.fn # "bdump" /\ cmd.fn \notin {"memh", "memb"}
    BY <1>1
  <2> QED BY <2>1, Zenon DEF ReadsWhatIsThere
<1>15. ShownOK'
  BY <1>1, <1>4, <1>14 DEF ShownOK
<1> QED BY <1>1, <1>5, <1>6, <1>8, <1>11, <1>12, <1>13, <1>15 DEF IInv

(* What ReadsWhatIsThere says of each command. *)
ReadsOK ==
  /\ cmd.fn = "mem" => shown = [k \in 1..cmd.len |-> mem[(cmd.addr \div 4) + k - 1]]
  /\ cmd.fn = "bdump" => \A k \in 1..cmd.len \div 4 : shown[k] = mem[(cmd.addr \div 4) + k - 1]
  /\ cmd.fn \in ItemReads => shown = [k \in 1..cmd.len |-> Unit(k)]
LEMMA ReadsCases == (pc = "idle" /\ Undisturbed /\ Straight => ReadsOK) => ReadsWhatIsThere
<1> SUFFICES ASSUME pc = "idle", Undisturbed, Straight, ReadsOK PROVE ReadsWhatIsThere
  BY DEF ReadsWhatIsThere
<1>1. "mem" # "bdump" /\ "mem" # "memh" /\ "mem" # "memb" /\ "bdump" # "mem" /\ "bdump" # "memh"
      /\ "bdump" # "memb" /\ "memh" # "mem" /\ "memh" # "bdump" /\ "memb" # "mem" /\ "memb" # "bdump"
  OBVIOUS
<1>2. CASE cmd.fn = "mem"
  BY <1>1, <1>2, Zenon DEF ReadsWhatIsThere, ReadsOK
<1>3. CASE cmd.fn = "bdump"
  BY <1>1, <1>3, Zenon DEF ReadsWhatIsThere, ReadsOK
<1>4. CASE cmd.fn \in {"memh", "memb"}
  BY <1>1, <1>4, Zenon DEF ReadsWhatIsThere, ReadsOK, Unit, ItemReads
<1>5. CASE cmd.fn \notin {"mem", "bdump", "memh", "memb"}
  BY <1>5, Zenon DEF ReadsWhatIsThere
<1> QED BY <1>2, <1>3, <1>4, <1>5

LEMMA FinishKeeps == ASSUME IInv, Finish PROVE IInv'
<1>1. pc = "chunk" /\ i >= Chunks(Size) /\ cmd.fn \in {"wash", "mem", "bdump"} /\ pc' = "idle"
      /\ UNCHANGED <<mem, cmd, data, i, at, current_read, faults, before, failed>>
      /\ shown' = (IF cmd.fn = "wash" THEN shown ELSE [k \in 1..cmd.len |-> data[k - 1]])
      /\ SyncOK' /\ (Undisturbed' <=> Undisturbed)
  BY DEF Finish, Done, arrays, file, loop, IInv, past, SyncOK, Undisturbed
<1>2. Size \in Nat /\ at \in Nat /\ i \in Nat /\ at = cmd.addr \div 4
  BY <1>1, InLoop DEF FileFns
<1>3. \A w \in 0..Size - 1 : w < i * ChunkWords
  BY <1>1, <1>2, SizesAssumption, AllChunks
<1>4. CmdOK' /\ PlaceOK' /\ LoopOK' /\ BlocksOK' /\ ArrayOK' /\ faults' \in 0..MaxFaults
  BY <1>1 DEF IInv, CmdOK, PlaceOK, LoopOK, BlocksOK, ArrayOK
<1>5. MemoryOK'
  <2>1. ASSUME cmd.fn = "wash", Straight, NEW a \in 0..MemWords - 1, SentSoFar(a)'
        PROVE  SentSoFar(a)
    <3>1. a \in Area /\ a \in Nat
      BY <1>1, <2>1, SizesAssumption DEF SentSoFar, Area, FileWords
    <3>2. a - at \in 0..Size - 1
      <4>1. Size = cmd.len
        BY <1>1, <2>1, StraightLoop
      <4> QED BY <1>2, <2>1, <3>1, <4>1 DEF Area
    <3>3. a - at < i * ChunkWords /\ i * ChunkWords \in Nat
      BY <1>2, <1>3, <3>2, SizesAssumption
    <3> QED BY <1>1, <1>2, <3>1, <3>2, <3>3 DEF SentSoFar
  <2>2. Area' = Area /\ (Straight' <=> Straight) /\ \A a : WordFor(a)' = WordFor(a)
    BY <1>1 DEF Area, FileWords, Straight, WordFor, FileWord
  <2> QED BY <1>1, <2>1, <2>2 DEF IInv, MemoryOK, Writes
<1>6. LanesOK' /\ FoundOK'
  BY <1>1 DEF LanesOK, FoundOK, ItemWrites
<1>7. ReadsWhatIsThere'
  <2>1. ASSUME Undisturbed, Straight, cmd.fn \in {"mem", "bdump"}, NEW k \in 1..Size
        PROVE  data[k - 1] = mem[(cmd.addr \div 4) + k - 1]
    <3>1. k - 1 \in 0..Size - 1 /\ (cmd.addr \div 4) + k - 1 = at + (k - 1)
      BY <1>2
    <3>2. data[k - 1] = mem[at + (k - 1)]
      BY <1>1, <1>3, <2>1, <3>1 DEF IInv, ArrayOK, Writes
    <3> QED BY <3>1, <3>2
  <2>2. ASSUME Undisturbed', Straight'
        PROVE  ReadsOK'
    <3>0. Undisturbed /\ Straight
      BY <1>1, <2>2 DEF Straight
    <3>1. CASE cmd.fn = "mem"
      <4>1. Size = cmd.len
        BY <1>1, <3>0, <3>1, StraightLoop
      <4>2. shown' = [k \in 1..cmd.len |-> mem[(cmd.addr \div 4) + k - 1]]
        BY <1>1, <2>1, <3>0, <3>1, <4>1
      <4> QED BY <1>1, <3>1, <4>2 DEF ReadsOK, ItemReads
    <3>2. CASE cmd.fn = "bdump"
      <4>1. Size = cmd.len \div 4 /\ cmd.len \in Nat
        BY <1>1, <3>0, <3>2, StraightLoop DEF IInv, CmdOK
      <4>2. \A k \in 1..cmd.len \div 4 : k \in 1..cmd.len
        BY <4>1
      <4>3. \A k \in 1..cmd.len \div 4 : shown'[k] = mem[(cmd.addr \div 4) + k - 1]
        BY <1>1, <2>1, <3>0, <3>2, <4>1, <4>2
      <4> QED BY <1>1, <3>2, <4>3 DEF ReadsOK, ItemReads
    <3>3. CASE cmd.fn = "wash"
      BY <1>1, <3>3 DEF ReadsOK, ItemReads
    <3> QED BY <1>1, <3>1, <3>2, <3>3
  <2>3. ((pc = "idle" /\ Undisturbed /\ Straight => ReadsOK) => ReadsWhatIsThere)'
    BY ReadsCases, PTL
  <2> QED BY <2>2, <2>3
<1>8. ShownOK'
  BY <1>1, <1>7 DEF ShownOK
<1> QED BY <1>1, <1>4, <1>5, <1>6, <1>8 DEF IInv

(* The half-word that contains a byte. *)
LEMMA HalfPlaces ==
  ASSUME NEW x \in Nat, NEW a, a = x - (x % 2)
  PROVE  /\ a \in Nat /\ a % 2 = 0 /\ (a + 1) % 2 = 1
         /\ a \div 4 = x \div 4 /\ (a + 1) \div 4 = x \div 4
         /\ x % 4 \in {0, 1} => a % 4 = 0 /\ (a + 1) % 4 = 1
         /\ x % 4 \notin {0, 1} => a % 4 = 2 /\ (a + 1) % 4 = 3
<1> DEFINE q == x \div 4
<1>1. q \in Nat /\ x \in {4 * q, 4 * q + 1, 4 * q + 2, 4 * q + 3}
  OBVIOUS
<1> HIDE DEF q
<1>2. CASE x = 4 * q
  <2>1. a = 4 * q
    BY <1>1, <1>2
  <2> QED BY <1>1, <1>2, <2>1
<1>3. CASE x = 4 * q + 1
  <2>1. a = 4 * q
    BY <1>1, <1>3
  <2> QED BY <1>1, <1>3, <2>1
<1>4. CASE x = 4 * q + 2
  <2>1. a = 4 * q + 2
    BY <1>1, <1>4
  <2> QED BY <1>1, <1>4, <2>1
<1>5. CASE x = 4 * q + 3
  <2>1. a = 4 * q + 2
    BY <1>1, <1>5
  <2> QED BY <1>1, <1>5, <2>1
<1> QED BY <1>1, <1>2, <1>3, <1>4, <1>5

(* The bytes that an access of a width at an address concerns are those in *)
(* its lanes of the word it is in.                                         *)
LEMMA LanesAreBytes ==
  ASSUME NEW addr \in Nat, NEW w \in {1, 2, 4}, NEW b \in Nat
  PROVE  /\ b \in addr - (addr % w)..addr - (addr % w) + w - 1 <=>
              b \div 4 = addr \div 4 /\ (b % 4) + 1 \in Lanes(w, addr)
         /\ (b % 4) + 1 \in 1..4
<1>1. 1 # 2 /\ 1 # 4 /\ 2 # 1 /\ 2 # 4 /\ 4 # 1 /\ 4 # 2
  OBVIOUS
<1>2. CASE w = 1
  <2>1. Lanes(1, addr) = {(addr % 4) + 1}
    BY <1>1, Zenon DEF Lanes
  <2> QED BY <1>2, <2>1
<1>3. CASE w = 2
  <2>1. Lanes(2, addr) = {(addr % 4) - (addr % 2) + 1, (addr % 4) - (addr % 2) + 2}
    BY <1>1, Zenon DEF Lanes
  <2> QED BY <1>3, <2>1
<1>4. CASE w = 4
  <2>1. Lanes(4, addr) = 1..4
    BY <1>1, Zenon DEF Lanes
  <2> QED BY <1>4, <2>1
<1> QED BY <1>2, <1>3, <1>4

(* What a single write puts on the lanes of its access is the value, cut   *)
(* to its size, in the order of the bytes.                                 *)
LEMMA OutRight ==
  ASSUME CmdOK, cmd.fn \in ItemWrites
  PROVE  /\ Width \in {1, 2, 4} /\ \A n \in 1..4 : Out[n] \in 0..255
         /\ \A b \in Nat : b \in Asked => Out[5 - ((b % 4) + 1)] = Wanted(b)
<1>1. cmd.addr \in Nat /\ cmd.word \in [1..4 -> 0..255]
  BY DEF CmdOK, Content
<1>2. \A n \in 1..4 : cmd.word[n] \in 0..255
  BY <1>1
<1>3. CASE cmd.fn = "wmem"
  <2>1. Width = 4 /\ Out = [k \in 1..4 |-> cmd.word[5 - k]]
    BY <1>3, Cases DEF CasesOK, Out32
  <2>2. \A n \in 1..4 : Out[n] = cmd.word[5 - n] /\ 5 - n \in 1..4
    BY <2>1
  <2>3. ASSUME NEW b \in Nat
        PROVE  Wanted(b) = cmd.word[(b % 4) + 1]
    BY <1>3, <2>1, AskedCases DEF AskedOK
  <2>4. ASSUME NEW b \in Nat
        PROVE  Out[5 - ((b % 4) + 1)] = cmd.word[(b % 4) + 1]
    <3>1. 5 - ((b % 4) + 1) \in 1..4 /\ 5 - (5 - ((b % 4) + 1)) = (b % 4) + 1
      OBVIOUS
    <3> QED BY <2>2, <3>1
  <2> QED BY <1>2, <2>1, <2>2, <2>3, <2>4
<1>4. CASE cmd.fn = "wmemh"
  <2> DEFINE d == SubSeq(cmd.word, 3, 4)
  <2>1. Width = 2 /\ Out = Out16(cmd.addr, d)
    BY <1>4, Cases DEF CasesOK
  <2>2. d[1] = cmd.word[3] /\ d[2] = cmd.word[4]
    BY <1>1
  <2> HIDE DEF d
  <2>3. Out = IF cmd.addr % 4 \in {0, 1} THEN <<0, 0, cmd.word[4], cmd.word[3]>>
                                         ELSE <<cmd.word[4], cmd.word[3], 0, 0>>
    BY <1>1, <2>1, <2>2, SamePlace DEF Out16
  <2>4. ASSUME NEW b \in Nat, b \in Asked
        PROVE  Out[5 - ((b % 4) + 1)] = Wanted(b)
    <3>1. b \in cmd.addr - (cmd.addr % 2)..cmd.addr - (cmd.addr % 2) + 1
          /\ Wanted(b) = cmd.word[2 + (b % 2) + 1]
      BY <1>1, <1>4, <2>1, <2>4, AskedCases DEF AskedOK, ItemWrites, Base
    <3> DEFINE x == cmd.addr
               h == x - (x % 2)
    <3>2. /\ h \in Nat /\ h % 2 = 0 /\ (h + 1) % 2 = 1
          /\ x % 4 \in {0, 1} => h % 4 = 0 /\ (h + 1) % 4 = 1
          /\ x % 4 \notin {0, 1} => h % 4 = 2 /\ (h + 1) % 4 = 3
      BY <1>1, HalfPlaces
    <3>3. b = h \/ b = h + 1
      BY <3>1, <3>2
    <3> HIDE DEF h
    <3>4. CASE x % 4 \in {0, 1}
      <4>1. Out = <<0, 0, cmd.word[4], cmd.word[3]>>
        BY <2>3, <3>4
      <4>2. (b % 4 = 0 /\ b % 2 = 0) \/ (b % 4 = 1 /\ b % 2 = 1)
        BY <3>2, <3>3, <3>4
      <4> QED BY <3>1, <4>1, <4>2
    <3>5. CASE x % 4 \notin {0, 1}
      <4>1. Out = <<cmd.word[4], cmd.word[3], 0, 0>>
        BY <2>3, <3>5
      <4>2. (b % 4 = 2 /\ b % 2 = 0) \/ (b % 4 = 3 /\ b % 2 = 1)
        BY <3>2, <3>3, <3>5
      <4> QED BY <3>1, <4>1, <4>2
    <3> QED BY <3>4, <3>5
  <2> QED BY <1>2, <2>1, <2>3, <2>4
<1>5. CASE cmd.fn = "wmemb"
  <2>1. Width = 1 /\ Out = Out8(cmd.addr, cmd.word[4])
    BY <1>5, Cases DEF CasesOK
  <2>2. Out = [k \in 1..4 |-> IF k = 4 - (cmd.addr % 4) THEN cmd.word[4] ELSE 0]
    BY <1>1, <2>1, SamePlace DEF Out8
  <2>3. ASSUME NEW b \in Nat, b \in Asked
        PROVE  Out[5 - ((b % 4) + 1)] = Wanted(b)
    <3>1. b = cmd.addr /\ Wanted(b) = cmd.word[4]
      BY <1>1, <1>5, <2>1, <2>3, AskedCases DEF AskedOK, ItemWrites, Base
    <3>2. 5 - ((b % 4) + 1) \in 1..4 /\ 5 - ((b % 4) + 1) = 4 - (cmd.addr % 4)
      BY <3>1
    <3> QED BY <2>2, <3>1, <3>2
  <2> QED BY <1>2, <2>1, <2>2, <2>3, SMTT(30)
<1> QED BY <1>3, <1>4, <1>5 DEF ItemWrites

(* The bytes after a single write: those of its lanes from the command,    *)
(* the others as before.                                                   *)
LEMMA PutBytes ==
  ASSUME CmdOK, cmd.fn \in ItemWrites, mem \in [0..MemWords - 1 -> Content],
         NEW out, \A n \in 1..4 : out[n] \in 0..255
  PROVE  /\ Put(out) \in [0..MemWords - 1 -> Content]
         /\ \A b \in 0..4 * MemWords - 1 :
              Byte(Put(out), b) = IF b \in Asked THEN out[5 - ((b % 4) + 1)] ELSE Byte(mem, b)
<1> DEFINE c == cmd.addr \div 4
           new == AhbWrite(mem[c], Width, cmd.addr, out)
<1>1. cmd.addr \in Nat /\ Width \in {1, 2, 4} /\ c \in Nat
  BY OutRight DEF CmdOK
<1>2. new = [k \in 1..4 |-> IF k \in Lanes(Width, cmd.addr) THEN out[5 - k] ELSE mem[c][k]]
  BY DEF AhbWrite
<1>3. Put(out) = [a \in 0..MemWords - 1 |-> IF a = c THEN new ELSE mem[a]]
  BY DEF Put
<1>4. c \in 0..MemWords - 1 => new \in Content
  <2>1. ASSUME c \in 0..MemWords - 1
        PROVE  \A k \in 1..4 : mem[c][k] \in 0..255 /\ out[5 - k] \in 0..255
    <3>1. mem[c] \in [1..4 -> 0..255]
      BY <2>1 DEF Content
    <3>2. \A k \in 1..4 : 5 - k \in 1..4
      OBVIOUS
    <3> QED BY <3>1, <3>2
  <2> HIDE DEF c
  <2> QED BY <1>2, <2>1 DEF Content
<1>5. ASSUME NEW b \in 0..4 * MemWords - 1
      PROVE  Byte(Put(out), b) = IF b \in Asked THEN out[5 - ((b % 4) + 1)] ELSE Byte(mem, b)
  <2> DEFINE k == (b % 4) + 1
  <2>1. b \in Nat /\ b \div 4 \in 0..MemWords - 1 /\ k \in 1..4
    BY PlainSizes
  <2>2. b \in Asked <=> b \in cmd.addr - (cmd.addr % Width)..cmd.addr - (cmd.addr % Width) + Width - 1
    BY AskedCases DEF AskedOK, Base
  <2>3. b \in Asked <=> b \div 4 = c /\ k \in Lanes(Width, cmd.addr)
    BY <1>1, <2>1, <2>2, LanesAreBytes, SMTT(30)
  <2>4. Byte(Put(out), b) = IF b \div 4 = c THEN new[k] ELSE mem[b \div 4][k]
    <3> HIDE DEF new, c, k
    <3>1. Put(out)[b \div 4] = IF b \div 4 = c THEN new ELSE mem[b \div 4]
      BY <1>3, <2>1
    <3>2. Byte(Put(out), b) = Put(out)[b \div 4][k]
      BY DEF Byte, k
    <3> QED BY <3>1, <3>2
  <2>5. new[k] = IF k \in Lanes(Width, cmd.addr) THEN out[5 - k] ELSE mem[c][k]
    BY <1>2, <2>1
  <2>6. Byte(mem, b) = mem[b \div 4][k]
    BY DEF Byte
  <2> HIDE DEF new, c, k
  <2>7. Byte(Put(out), b) = IF b \in Asked THEN out[5 - k] ELSE Byte(mem, b)
    BY <2>3, <2>4, <2>5, <2>6
  <2> QED BY <2>7 DEF k
<1> HIDE DEF new, c
<1>6. Put(out) \in [0..MemWords - 1 -> Content]
  BY <1>3, <1>4
<1> QED BY <1>5, <1>6

LEMMA WriteItemKeeps == ASSUME IInv, WriteItem PROVE IInv'
<1>1. pc = "item" /\ pc' = "idle" /\ cmd.fn \in ItemWrites
      /\ UNCHANGED <<cmd, data, i, at, current_read, before>>
      /\ mem = before /\ mem \in [0..MemWords - 1 -> Content]
      /\ SyncOK'
  BY DEF WriteItem, IInv, MemoryOK, ItemWrites, arrays, loop, file, past, SyncOK, Undisturbed
<1>2. mem' \in {mem, Put(Out), Put(Spoilt)} /\ (~failed' => mem' = Put(Out))
      /\ faults' \in 0..MaxFaults
  BY SizesAssumption DEF WriteItem, IInv
<1>3. (\A n \in 1..4 : Out[n] \in 0..255) /\ (\A n \in 1..4 : Spoilt[n] \in 0..255)
      /\ \A b \in Nat : b \in Asked => Out[5 - ((b % 4) + 1)] = Wanted(b)
  BY <1>1, OutRight, ContentsAssumption DEF IInv, Content
<1>4. mem' \in [0..MemWords - 1 -> Content]
  BY <1>1, <1>2, <1>3, PutBytes DEF IInv
<1>5. CmdOK' /\ PlaceOK' /\ LoopOK' /\ BlocksOK' /\ ArrayOK'
  BY <1>1 DEF IInv, CmdOK, PlaceOK, LoopOK, BlocksOK, ArrayOK
<1>6. MemoryOK'
  BY <1>1, <1>4 DEF MemoryOK, ItemWrites, Writes
<1>7. LanesOK'
  <2>1. ASSUME NEW b \in 0..4 * MemWords - 1
        PROVE  /\ b \notin Asked => Byte(mem', b) = Byte(before, b)
               /\ b \in Asked /\ ~failed' => Byte(mem', b) = Wanted(b)
    <3>1. b \in Nat
      BY PlainSizes
    <3>2. Byte(Put(Out), b) = IF b \in Asked THEN Out[5 - ((b % 4) + 1)] ELSE Byte(mem, b)
      BY <1>1, <1>3, PutBytes DEF IInv
    <3>3. Byte(Put(Spoilt), b) = IF b \in Asked THEN Spoilt[5 - ((b % 4) + 1)] ELSE Byte(mem, b)
      BY <1>1, <1>3, PutBytes DEF IInv
    <3> QED BY <1>1, <1>2, <1>3, <3>1, <3>2, <3>3
  <2>2. Asked' = Asked /\ \A b : Wanted(b)' = Wanted(b)
    BY <1>1 DEF Asked, Wanted, FileWords, FileWord, Width
  <2>3. \A m, b : Byte(m, b)' = Byte(m', b)
    BY DEF Byte
  <2> QED BY <1>1, <2>1, <2>2 DEF LanesOK, Byte
<1>8. FoundOK'
  BY <1>1 DEF FoundOK, ItemWrites
<1>9. ReadsWhatIsThere'
  <2>1. cmd' = cmd /\ cmd.fn # "mem" /\ cmd.fn # "bdump" /\ cmd.fn \notin {"memh", "memb"}
    BY <1>1 DEF ItemWrites
  <2> QED BY <2>1, Zenon DEF ReadsWhatIsThere
<1>10. ShownOK'
  BY <1>1, <1>9 DEF ShownOK
<1> QED BY <1>1, <1>2, <1>5, <1>6, <1>7, <1>8, <1>10 DEF IInv

(* One half-word or byte of memh or memb is the one at its address.        *)
LEMMA ItemRight ==
  ASSUME CmdOK, cmd.fn \in ItemReads, i \in Nat
  PROVE  Item(mem[ItemAt \div 4]) = Unit(i + 1)
<1>1. cmd.addr \in Nat
  BY DEF CmdOK
<1>2. CASE cmd.fn = "memh"
  <2> DEFINE x == cmd.addr + 2 * i
             a == cmd.addr - (cmd.addr % 2) + 2 * i
  <2>1. Width = 2 /\ ItemAt = x /\ x \in Nat
    BY <1>1, <1>2, Cases DEF CasesOK, ItemAt
  <2>2. Unit(i + 1) = [n \in 1..2 |-> mem[(a + n - 1) \div 4][((a + n - 1) % 4) + 1]]
    BY <1>1, <2>1 DEF Unit, Byte
  <2>3. /\ (a + 1 - 1) \div 4 = x \div 4 /\ (a + 2 - 1) \div 4 = x \div 4
        /\ x % 4 \in {0, 1} => (a + 1 - 1) % 4 = 0 /\ (a + 2 - 1) % 4 = 1
        /\ x % 4 \notin {0, 1} => (a + 1 - 1) % 4 = 2 /\ (a + 2 - 1) % 4 = 3
    <3>1. x \in Nat /\ a = x - (x % 2)
      BY <1>1
    <3> HIDE DEF x, a
    <3>2. /\ a \in Nat /\ a \div 4 = x \div 4 /\ (a + 1) \div 4 = x \div 4
          /\ x % 4 \in {0, 1} => a % 4 = 0 /\ (a + 1) % 4 = 1
          /\ x % 4 \notin {0, 1} => a % 4 = 2 /\ (a + 1) % 4 = 3
      BY <3>1, HalfPlaces
    <3>3. a + 1 - 1 = a /\ a + 2 - 1 = a + 1
      BY <3>2
    <3> QED BY <3>2, <3>3
  <2>4. (x % 256) % 4 = x % 4
    BY <2>1, SamePlace
  <2> DEFINE w == mem[x \div 4]
  <2>5. Item(mem[ItemAt \div 4]) = IF x % 4 \in {0, 1} THEN <<w[1], w[2]>> ELSE <<w[3], w[4]>>
    BY <1>2, <2>1, <2>4 DEF Item, In16
  <2>6. Unit(i + 1) = [n \in 1..2 |-> IF x % 4 \in {0, 1} THEN w[n] ELSE w[n + 2]]
    <3>1. \A n \in 1..2 : mem[(a + n - 1) \div 4][((a + n - 1) % 4) + 1]
                          = IF x % 4 \in {0, 1} THEN w[n] ELSE w[n + 2]
      BY <2>3
    <3> QED BY <2>2, <3>1
  <2> HIDE DEF w
  <2> QED BY <2>5, <2>6
<1>3. CASE cmd.fn = "memb"
  <2> DEFINE x == cmd.addr + i
  <2>1. Width = 1 /\ ItemAt = x /\ x \in Nat
    BY <1>1, <1>3, Cases DEF CasesOK, ItemAt
  <2>2. Unit(i + 1) = [n \in 1..1 |-> mem[(x + n - 1) \div 4][((x + n - 1) % 4) + 1]]
    BY <1>1, <2>1 DEF Unit, Byte
  <2>3. Item(mem[ItemAt \div 4]) = <<mem[x \div 4][(x % 4) + 1]>>
    BY <1>3, <2>1, SamePlace DEF Item, In8
  <2>4. Unit(i + 1) = [n \in 1..1 |-> mem[x \div 4][(x % 4) + 1]]
    BY <2>1, <2>2
  <2> HIDE DEF x
  <2> QED BY <2>3, <2>4
<1> QED BY <1>2, <1>3 DEF ItemReads

LEMMA ReadItemKeeps == ASSUME IInv, ReadItem PROVE IInv'
<1>1. pc = "item" /\ cmd.fn \in ItemReads /\ cmd.fn \in {"memh", "memb"} /\ i' = i + 1
      /\ UNCHANGED <<mem, cmd, data, at, current_read, before>>
      /\ pc' = (IF i' = cmd.len THEN "idle" ELSE "item") /\ faults' \in 0..MaxFaults
      /\ SyncOK' /\ (Undisturbed' => Undisturbed)
      /\ (Undisturbed' => shown' = Append(shown, Item(mem[ItemAt \div 4])))
  <2>1. pc = "item" /\ cmd.fn \in ItemReads /\ cmd.fn \in {"memh", "memb"} /\ i' = i + 1
        /\ UNCHANGED <<mem, cmd, data, at, current_read, before, behind>>
        /\ pc' = (IF i' = cmd.len THEN "idle" ELSE "item") /\ faults' \in 0..MaxFaults
    <3>1. pc = "item" /\ cmd.fn \in ItemReads /\ cmd.fn \in {"memh", "memb"} /\ i' = i + 1
      BY DEF ReadItem, ItemReads
    <3>2. UNCHANGED <<mem, cmd, data, at, current_read, before, behind>>
      BY DEF ReadItem, arrays, file, past
    <3>3. pc' = (IF i' = cmd.len THEN "idle" ELSE "item")
      BY DEF ReadItem
    <3>4. faults' = faults \/ (faults < MaxFaults /\ faults' = faults + 1)
      BY DEF ReadItem
    <3>5. faults' \in 0..MaxFaults
      BY <3>4, SizesAssumption DEF IInv
    <3> QED BY <3>1, <3>2, <3>3, <3>5
  <2>2. \/ failed' = TRUE
        \/ /\ failed' = failed /\ synced' \in (IF synced THEN {TRUE} ELSE BOOLEAN)
           /\ \E word \in ItemAnswer : shown' = Append(shown, Item(word))
    BY DEF ReadItem
  <2>3. synced => ItemAnswer = {mem[ItemAt \div 4]}
    BY DEF ItemAnswer
  <2>4. Undisturbed => synced
    BY DEF IInv, SyncOK
  <2>5. Undisturbed' => Undisturbed /\ failed' # TRUE
    BY <2>1, <2>2 DEF Undisturbed
  <2>6. Undisturbed' => synced' /\ shown' = Append(shown, Item(mem[ItemAt \div 4]))
    BY <2>2, <2>3, <2>4, <2>5
  <2> QED BY <2>1, <2>5, <2>6 DEF SyncOK
<1>2. i \in 0..cmd.len - 1 /\ cmd.len \in Nat /\ pc' \in {"idle", "item"}
  BY <1>1 DEF IInv, LoopOK, CmdOK
<1>3. CmdOK' /\ PlaceOK' /\ BlocksOK' /\ ArrayOK'
  BY <1>1, <1>2 DEF IInv, CmdOK, PlaceOK, BlocksOK, ArrayOK
<1>4. LoopOK'
  BY <1>1, <1>2 DEF LoopOK
<1>5. MemoryOK' /\ LanesOK' /\ FoundOK'
  BY <1>1 DEF IInv, MemoryOK, LanesOK, FoundOK, ItemWrites, Writes
<1>6. ASSUME Undisturbed'
      PROVE  shown' = [k \in 1..i' |-> Unit(k)]
  <2>1. shown = [k \in 1..i |-> Unit(k)]
    BY <1>1, <1>6 DEF IInv, ShownOK
  <2>2. shown' = Append(shown, Unit(i + 1))
    BY <1>1, <1>2, <1>6, ItemRight DEF IInv
  <2> QED BY <1>1, <1>2, <2>1, <2>2
<1>7. \A k : Unit(k)' = Unit(k)
  BY <1>1 DEF Unit, Byte, Width
<1>8. ReadsWhatIsThere'
  <2>1. pc' = "idle" /\ Undisturbed' => ReadsOK'
    BY <1>1, <1>6, <1>7 DEF ReadsOK, ItemReads
  <2>2. ((pc = "idle" /\ Undisturbed /\ Straight => ReadsOK) => ReadsWhatIsThere)'
    BY ReadsCases, PTL
  <2> QED BY <2>1, <2>2
<1>9. ShownOK'
  BY <1>6, <1>7, <1>8 DEF ShownOK
<1> QED BY <1>1, <1>3, <1>4, <1>5, <1>9 DEF IInv

(* A command that has just been typed: where its function is when it has   *)
(* looked at its arguments.                                                *)
Refused(c) ==
  /\ pc' = "idle"
  /\ \/ c.fn \in FileFns /\ c.file.size < Cutoff /\ error_found' = FALSE
     \/ c.fn = "wash" /\ c.len % WordMod = 0
OpensFile(c) ==
  /\ pc' = "fread" /\ c.fn \in FileFns /\ c.addr = 0 /\ ~(c.file.size < Cutoff)
  /\ bytes_read' = 0 /\ error_found' = FALSE
HasBuffer(c) ==
  /\ pc' = "chunk" /\ i' = 0 /\ c.fn \in {"wash", "mem", "bdump"}
  /\ c.fn = "wash" => \A k \in 0..(c.len % WordMod) - 1 : data'[k] = c.word
HasItems(c) ==
  /\ pc' = "item" /\ c.fn \in ItemReads \cup ItemWrites
  /\ c.fn \in ItemReads => i' = 0 /\ c.len > 0

LEMMA CommandStep ==
  ASSUME IInv, NEW c, Command(c),
         c.fn \in Buffered \cup ItemReads \cup ItemWrites,
         c.addr \in Nat, c.len \in Nat, c.word \in Content, c.fn \in FileFns => c.file \in Files,
         current_read' \in 0..4 * BufWords,
         Refused(c) \/ OpensFile(c) \/ HasBuffer(c) \/ HasItems(c)
  PROVE  IInv'
<1>1. cmd' = c /\ mem' = mem /\ before' = mem /\ failed' = FALSE /\ shown' = <<>>
      /\ at' = c.addr \div 4 /\ faults' = faults /\ SyncOK'
  BY DEF Command, SyncOK, Undisturbed
<1>2. CmdOK'
  BY <1>1 DEF CmdOK
<1>3. PlaceOK'
  BY <1>1 DEF PlaceOK, Refused, OpensFile, HasBuffer, HasItems, Buffered, FileFns
<1>4. pc' = "chunk" => /\ Size' \in 0..WordMod - 1 /\ Chunks(Size)' \in Nat /\ i' = 0
                       /\ c.fn = "wash" => Size' = c.len % WordMod
  <2>1. CasesOK'
    BY Cases, PTL
  <2>2. \A n \in Nat : n % WordMod \in 0..WordMod - 1
    BY PlainSizes
  <2>3. \A n \in Nat : Chunks(n) \in Nat
    BY SizesAssumption, ChunksNat
  <2>4. Chunks(Size)' = Chunks(Size')
    BY DEF Chunks
  <2>5. ASSUME HasBuffer(c)
        PROVE  /\ Size' \in 0..WordMod - 1
               /\ c.fn = "wash" => Size' = c.len % WordMod
    <3>1. CASE c.fn \in {"wash", "mem"}
      BY <1>1, <2>1, <2>2, <3>1 DEF CasesOK
    <3>2. CASE c.fn = "bdump"
      <4>1. c.len \div 4 \in Nat
        OBVIOUS
      <4> QED BY <1>1, <2>1, <2>2, <3>2, <4>1 DEF CasesOK
    <3> QED BY <2>5, <3>1, <3>2 DEF HasBuffer
  <2>6. 0..WordMod - 1 \subseteq Nat
    BY PlainSizes
  <2> QED BY <2>3, <2>4, <2>5, <2>6 DEF Refused, OpensFile, HasBuffer, HasItems
<1>5. LoopOK'
  <2>1. pc' = "item" /\ c.fn \in ItemReads => i' = 0 /\ c.len > 0
    BY DEF Refused, OpensFile, HasBuffer, HasItems
  <2>2. i' = 0 /\ c.len > 0 => i' \in 0..c.len - 1
    OBVIOUS
  <2>3. pc' = "chunk" => i' \in 0..Chunks(Size)'
    BY <1>4
  <2> QED BY <1>1, <1>4, <2>1, <2>2, <2>3 DEF LoopOK
<1>6. c.fn \in FileFns => c.file.size \in Nat
  BY FilesAssumption
<1>7. BlocksOK'
  <2>1. pc' = "fread" => /\ c.fn \in FileFns /\ at' = 0 /\ at' % ChunkWords = 0
                         /\ bytes_read' = 4 * at' /\ bytes_read' <= c.file.size - Cutoff
    <3>1. 0 % ChunkWords = 0
      BY SizesAssumption
    <3> QED BY <1>1, <1>6, <3>1, PlainSizes, SMTT(30) DEF Refused, OpensFile, HasBuffer, HasItems
  <2>2. pc' = "chunk" => c.fn \notin FileFns
    BY DEF Refused, OpensFile, HasBuffer, HasItems, FileFns
  <2> QED BY <1>1, <2>1, <2>2 DEF BlocksOK
<1>8. ArrayOK'
  <2>1. i' = 0 => \A k \in 0..Size' - 1 : ~(k < i' * ChunkWords)
    BY SizesAssumption
  <2>2. pc' = "chunk" => HasBuffer(c)
    BY DEF Refused, OpensFile, HasBuffer, HasItems
  <2> QED BY <1>1, <1>4, <2>1, <2>2 DEF ArrayOK, HasBuffer
<1>9. Refused(c) /\ c.fn \in FileFns => FileWords' < 0
  <2>1. \A n \in Nat : n < Cutoff => (n - Cutoff) \div 4 < 0
    BY PlainSizes
  <2>2. Refused(c) /\ c.fn \in FileFns => c.file.size < Cutoff
    BY DEF Refused, FileFns
  <2> QED BY <1>1, <1>6, <2>1, <2>2 DEF FileWords
<1>10. MemoryOK'
  <2>1. ASSUME NEW a \in 0..MemWords - 1, c.fn \in Writes, Straight', SentSoFar(a)'
        PROVE  FALSE
    <3>1. a \in Area' /\ a \in Nat
      BY <2>1, PlainSizes DEF SentSoFar
    <3>2. CASE OpensFile(c)
      <4>1. a < 0
        BY <1>1, <2>1, <3>2 DEF SentSoFar, OpensFile
      <4> QED BY <3>1, <4>1
    <3>3. CASE HasBuffer(c)
      <4>1. a < at' + i' * ChunkWords /\ i' * ChunkWords = 0 /\ c.fn = "wash" /\ pc' = "chunk"
        BY <2>1, <3>3, SizesAssumption DEF SentSoFar, HasBuffer, Writes
      <4>2. a >= at' /\ at' \in Nat
        BY <1>1, <3>1, <4>1 DEF Area
      <4> QED BY <3>1, <4>1, <4>2
    <3>4. CASE HasItems(c)
      BY <2>1, <3>4 DEF HasItems, Writes, ItemReads, ItemWrites
    <3>5. CASE Refused(c)
      <4>1. CASE c.fn = "wash"
        <5>1. c.len % WordMod = 0 /\ c.len < WordMod
          BY <1>1, <2>1, <3>5, <4>1 DEF Refused, Straight, FileFns
        <5>2. c.len = 0
          BY <5>1, PlainSizes
        <5> QED BY <1>1, <3>1, <4>1, <5>2 DEF Area
      <4>2. CASE c.fn = "load"
        <5>1. FileWords' < 0 /\ a \in 0..FileWords' - 1 /\ FileWords' \in Int
          BY <1>1, <1>6, <1>9, <3>1, <3>5, <4>2, PlainSizes DEF Area, FileFns, FileWords
        <5>2. \A n \in Int : n < 0 => 0..n - 1 = {}
          OBVIOUS
        <5> QED BY <5>1, <5>2
      <4> QED BY <2>1, <4>1, <4>2 DEF Writes
    <3> QED BY <3>2, <3>3, <3>4, <3>5
  <2> QED BY <1>1, <2>1 DEF IInv, MemoryOK
<1>11. LanesOK'
  BY <1>1 DEF LanesOK, Refused, OpensFile, HasBuffer, HasItems, ItemWrites, FileFns
<1>12. FoundOK'
  <2>1. CASE Refused(c)
    <3>1. c.fn = "verify" => ~error_found' /\ FileWords' < 0 /\ FileWords' \in Int
      BY <1>1, <1>6, <1>9, <2>1, PlainSizes DEF Refused, FileFns, FileWords
    <3>2. c.fn = "verify" => 0..FileWords' - 1 = {}
      BY <3>1
    <3> QED BY <1>1, <2>1, <3>1, <3>2 DEF FoundOK, Refused
  <2>2. CASE OpensFile(c)
    <3>1. 0..at' - 1 = {}
      BY <1>1, <2>2 DEF OpensFile
    <3> QED BY <2>2, <3>1 DEF FoundOK, OpensFile
  <2>3. CASE HasBuffer(c) \/ HasItems(c)
    BY <1>1, <2>3 DEF FoundOK, HasBuffer, HasItems, ItemReads, ItemWrites
  <2> QED BY <2>1, <2>2, <2>3
<1>13. ReadsWhatIsThere'
  <2>1. pc' = "idle" => /\ c.fn # "mem" /\ c.fn # "bdump" /\ c.fn \notin {"memh", "memb"}
    BY DEF Refused, OpensFile, HasBuffer, HasItems, FileFns
  <2> QED BY <1>1, <2>1, Zenon DEF ReadsWhatIsThere
<1>14. ShownOK'
  <2>1. pc' = "item" /\ c.fn \in ItemReads => i' = 0
    BY DEF Refused, OpensFile, HasBuffer, HasItems
  <2>2. i' = 0 => <<>> = [k \in 1..i' |-> Unit(k)']
    OBVIOUS
  <2> QED BY <1>1, <1>13, <2>1, <2>2 DEF ShownOK
<1> QED BY <1>1, <1>2, <1>3, <1>5, <1>7, <1>8, <1>10, <1>11, <1>12, <1>14 DEF IInv

LEMMA CmdFields ==
  ASSUME NEW fn, NEW addr, NEW len, NEW word, NEW f, NEW c, c = Cmd(fn, addr, len, word, f)
  PROVE  c.fn = fn /\ c.addr = addr /\ c.len = len /\ c.word = word /\ c.file = f
BY DEF Cmd

LEMMA UserKeeps == ASSUME IInv, User PROVE IInv'
<1>0. current_read \in 0..4 * BufWords /\ 0 \in 0..4 * BufWords
  BY PlainSizes DEF IInv, BlocksOK
<1>1. CASE cli_load
  <2>1. PICK fn \in {"load", "verify"}, f \in Files :
          /\ Command(Cmd(fn, 0, 0, Spoilt, f))
          /\ pc' = IF f.size < Cutoff THEN "idle" ELSE "fread"
    BY <1>1 DEF cli_load
  <2>2. bytes_read' = 0 /\ current_read' = 0 /\ error_found' = FALSE
    BY <1>1 DEF cli_load
  <2>3. PICK c : c = Cmd(fn, 0, 0, Spoilt, f)
    OBVIOUS
  <2>4. c.fn = fn /\ c.addr = 0 /\ c.len = 0 /\ c.word = Spoilt /\ c.file = f
    BY <2>3, CmdFields
  <2>5. Refused(c) \/ OpensFile(c)
    BY <2>1, <2>2, <2>4 DEF Refused, OpensFile, FileFns
  <2> QED BY <1>0, <2>1, <2>2, <2>3, <2>4, <2>5, ContentsAssumption, CommandStep
          DEF Buffered, FileFns
<1>2. CASE cli_washc
  <2>1. PICK n \in Lengths, a \in Addresses, w \in Words :
          /\ Command(Cmd("wash", a, n, w, NoFile))
          /\ data' = [k \in Index |-> IF k < n % WordMod THEN w ELSE Unset]
          /\ IF n % WordMod = 0 THEN pc' = "idle" /\ UNCHANGED <<i, tempData>> ELSE Enter
    BY <1>2 DEF cli_washc
  <2>2. current_read' = current_read
    BY <1>2 DEF cli_washc, file
  <2>3. PICK c : c = Cmd("wash", a, n, w, NoFile)
    OBVIOUS
  <2>4. c.fn = "wash" /\ c.addr = a /\ c.len = n /\ c.word = w
    BY <2>3, CmdFields
  <2>5. Refused(c) \/ HasBuffer(c)
    <3>1. CASE n % WordMod = 0
      BY <2>1, <2>4, <3>1 DEF Refused
    <3>2. CASE n % WordMod # 0
      <4>1. \A k \in 0..(n % WordMod) - 1 : k \in Index /\ k < n % WordMod
        BY InputsAssumption, SizesAssumption DEF Index
      <4> QED BY <2>1, <2>4, <3>2, <4>1 DEF HasBuffer, Enter
    <3> QED BY <3>1, <3>2
  <2>6. a \in Nat /\ n \in Nat /\ w \in Content
    BY InputsAssumption, ContentsAssumption
  <2> QED BY <1>0, <2>1, <2>2, <2>3, <2>4, <2>5, <2>6, CommandStep
          DEF Buffered, FileFns
<1>3. CASE cli_memx
  <2>1. PICK fn \in {"mem", "bdump", "memh", "memb"}, a \in Addresses, n \in Lengths :
          /\ n > 0
          /\ Command(Cmd(fn, a, n, Spoilt, NoFile))
          /\ IF fn \in {"mem", "bdump"} THEN Enter
             ELSE pc' = "item" /\ i' = 0 /\ UNCHANGED tempData
    BY <1>3 DEF cli_memx
  <2>2. current_read' = current_read
    BY <1>3 DEF cli_memx, file
  <2>3. PICK c : c = Cmd(fn, a, n, Spoilt, NoFile)
    OBVIOUS
  <2>4. c.fn = fn /\ c.addr = a /\ c.len = n /\ c.word = Spoilt
    BY <2>3, CmdFields
  <2>5. HasBuffer(c) \/ HasItems(c)
    BY <2>1, <2>4 DEF HasBuffer, HasItems, ItemReads, ItemWrites, Enter
  <2>6. a \in Nat /\ n \in Nat
    BY InputsAssumption
  <2> QED BY <1>0, <2>1, <2>2, <2>3, <2>4, <2>5, <2>6, ContentsAssumption, CommandStep
          DEF Buffered, FileFns, ItemReads
<1>4. CASE cli_wmemx
  <2>1. PICK fn \in ItemWrites, a \in Addresses, w \in Words :
          Command(Cmd(fn, a, 0, w, NoFile))
    BY <1>4 DEF cli_wmemx, ItemWrites
  <2>2. current_read' = current_read /\ pc' = "item"
    BY <1>4 DEF cli_wmemx, file
  <2>3. PICK c : c = Cmd(fn, a, 0, w, NoFile)
    OBVIOUS
  <2>4. c.fn = fn /\ c.addr = a /\ c.len = 0 /\ c.word = w
    BY <2>3, CmdFields
  <2>5. HasItems(c)
    BY <2>2, <2>4 DEF HasItems, ItemReads, ItemWrites
  <2>6. a \in Nat /\ w \in Content /\ c.fn \notin FileFns
    BY <2>4, InputsAssumption, ContentsAssumption DEF ItemWrites, FileFns
  <2> QED BY <1>0, <2>1, <2>2, <2>3, <2>4, <2>5, <2>6, CommandStep
<1> QED BY <1>1, <1>2, <1>3, <1>4 DEF User

LEMMA NextKeeps == IInv /\ [Next]_vars => IInv'
<1> SUFFICES ASSUME IInv, [Next]_vars PROVE IInv'
  OBVIOUS
<1>1. CASE UNCHANGED vars
  <2>1. UNCHANGED <<mem, pc, cmd, data, i, at, bytes_read, current_read, eof, error_found,
                    shown, faults, before, failed, behind, synced>>
    BY <1>1 DEF vars, arrays, loop, file, past
  <2>2. /\ Size' = Size /\ Area' = Area /\ (Straight' <=> Straight) /\ Asked' = Asked
        /\ FileWords' = FileWords /\ (ReadsWhatIsThere' <=> ReadsWhatIsThere)
    BY <2>1 DEF Size, Area, Straight, Asked, FileWords, Width, ReadsWhatIsThere, Byte, Undisturbed
  <2>3. \A k : /\ FileWord(k)' = FileWord(k) /\ WordFor(k)' = WordFor(k)
               /\ Wanted(k)' = Wanted(k) /\ Unit(k)' = Unit(k)
               /\ SentSoFar(k)' = SentSoFar(k)
    BY <2>1, <2>2 DEF FileWord, WordFor, Wanted, Unit, Width, Byte, SentSoFar
  <2> QED BY <2>1, <2>2, <2>3, SMTT(30)
          DEF IInv, CmdOK, PlaceOK, LoopOK, BlocksOK, ArrayOK, MemoryOK, LanesOK, FoundOK, ShownOK,
              Byte, Chunks, SyncOK, Undisturbed
<1> QED BY <1>1, UserKeeps, FreadKeeps, NextBlockKeeps, FinishKeeps, WriteChunkKeeps,
           WriteChunkFailsKeeps, ReadChunkKeeps, ReadChunkFailsKeeps, ReadItemKeeps, WriteItemKeeps
        DEF Next, Step, Call

-----------------------------------------------------------------------------
(* The theorems *)

THEOREM TransfersCorrect == Spec => []IInv
<1> QED BY StartsRight, NextKeeps, PTL DEF Spec

(* Every variable keeps its type; the memory holds words of four bytes,    *)
(* and no size leaves the range of a WORD (uviemon_cli.c, load, wash, mem  *)
(* and bdump; ftdi_device.c, the _progress functions).                     *)
THEOREM TransfersTypeCorrect == Spec => []TypeOK
<1>1. IInv => TypeOK
  <2> SUFFICES ASSUME IInv PROVE TypeOK
    OBVIOUS
  <2>1. mem \in [0..MemWords - 1 -> Content]
    BY DEF IInv, MemoryOK
  <2>2. \A a \in DOMAIN mem : \A n \in 1..4 : mem[a][n] \in 0..255
    BY <2>1 DEF Content
  <2>3. pc = "chunk" => i \in 0..Chunks(Size) /\ Size < WordMod
    BY PlainSizes DEF IInv, LoopOK
  <2> QED BY <2>1, <2>2, <2>3 DEF IInv, PlaceOK, BlocksOK, TypeOK
<1> QED BY <1>1, TransfersCorrect, PTL

(* The words of a buffer are the bytes the command was asked for. *)
LEMMA WordsAreBytes ==
  ASSUME IInv, cmd.fn \in Writes, NEW b \in 0..4 * MemWords - 1
  PROVE  /\ b \div 4 \in 0..MemWords - 1
         /\ b \in Asked <=> b \div 4 \in Area
         /\ Wanted(b) = WordFor(b \div 4)[(b % 4) + 1]
<1>1. b \in Nat /\ b \div 4 \in 0..MemWords - 1
  BY PlainSizes
<1>2. CASE cmd.fn = "load"
  <2>1. Asked = 0..4 * FileWords - 1 /\ Wanted(b) = FileWord(b \div 4)[(b % 4) + 1]
    <3>1. /\ Asked = 0..4 * FileWords - 1
          /\ \A n \in Int : Wanted(n) = FileWord(n \div 4)[(n % 4) + 1]
      BY <1>2, AskedCases, Zenon DEF AskedOK
    <3>2. b \in Int
      BY <1>1
    <3> QED BY <3>1, <3>2, Zenon
  <2>2. cmd.file.size \in Nat
    BY <1>2, FilesAssumption DEF IInv, CmdOK, FileFns
  <2>3. FileWords \in Int
    BY <2>2, PlainSizes DEF FileWords
  <2>4. b \in 0..4 * FileWords - 1 <=> b \div 4 \in 0..FileWords - 1
    BY <1>1, <2>3
  <2> QED BY <1>1, <1>2, <2>1, <2>4 DEF Area, WordFor
<1>3. CASE cmd.fn = "wash"
  <2> DEFINE x == cmd.addr
  <2>1. Asked = x - (x % 4)..x - (x % 4) + 4 * cmd.len - 1 /\ Wanted(b) = cmd.word[(b % 4) + 1]
    <3>1. /\ Asked = x - (x % 4)..x - (x % 4) + 4 * cmd.len - 1
          /\ \A n \in Int : Wanted(n) = cmd.word[(n % 4) + 1]
      BY <1>3, AskedCases, Zenon DEF AskedOK
    <3> QED BY <1>1, <3>1, SMTT(30)
  <2>2. x \in Nat /\ cmd.len \in Nat
    BY DEF IInv, CmdOK
  <2>3. b \in x - (x % 4)..x - (x % 4) + 4 * cmd.len - 1
        <=> b \div 4 \in (x \div 4)..(x \div 4) + cmd.len - 1
    BY <1>1, <2>2
  <2> QED BY <1>1, <1>3, <2>1, <2>3 DEF Area, WordFor
<1> QED BY <1>2, <1>3 DEF Writes

(* For any sizes, files, contents and failures: a command without a failed *)
(* call has written what it was asked to write, each byte at its address,  *)
(* and nothing else (uviemon_cli.c, load, wash, wmem, wmemh, wmemb;        *)
(* ftdi_device.c, iowrite32_progress).                                     *)
THEOREM WritesCorrect == Spec => []WritesWhatWasAsked
<1>1. IInv => WritesWhatWasAsked
  <2> SUFFICES ASSUME IInv, pc = "idle", ~failed, Straight, NEW b \in 0..4 * MemWords - 1
               PROVE  Byte(mem, b) = IF b \in Asked THEN Wanted(b) ELSE Byte(before, b)
    BY DEF WritesWhatWasAsked
  <2>1. CASE cmd.fn \in Writes
    <3>1. b \div 4 \in 0..MemWords - 1 /\ (b \in Asked <=> b \div 4 \in Area)
          /\ Wanted(b) = WordFor(b \div 4)[(b % 4) + 1]
      BY <2>1, WordsAreBytes
    <3>2. /\ b \div 4 \notin Area => mem[b \div 4] = before[b \div 4]
          /\ b \div 4 \in Area => mem[b \div 4] = WordFor(b \div 4)
      BY <2>1, <3>1 DEF IInv, MemoryOK, SentSoFar
    <3> QED BY <3>1, <3>2 DEF Byte
  <2>2. CASE cmd.fn \in ItemWrites
    BY <2>2 DEF IInv, LanesOK
  <2>3. CASE cmd.fn \notin Writes \cup ItemWrites
    <3>1. mem = before /\ Asked = {}
      BY <2>3, AskedCases DEF AskedOK, IInv, MemoryOK
    <3> QED BY <3>1
  <2> QED BY <2>1, <2>2, <2>3
<1> QED BY <1>1, TransfersCorrect, PTL

(* At no time, whatever fails, is a byte changed that was not to be        *)
(* written (uviemon_cli.c, the commands that write; ftdi_device.c,         *)
(* iowrite8, iowrite16 and iowrite32_progress).                            *)
THEOREM NothingElseCorrect == Spec => []NothingElse
<1>1. IInv => NothingElse
  <2> SUFFICES ASSUME IInv, Straight, NEW b \in 0..4 * MemWords - 1, b \notin Asked
               PROVE  Byte(mem, b) = Byte(before, b)
    BY DEF NothingElse
  <2>1. CASE cmd.fn \in Writes
    <3>1. b \div 4 \in 0..MemWords - 1 /\ b \div 4 \notin Area
      BY <2>1, WordsAreBytes
    <3>2. mem[b \div 4] = before[b \div 4]
      BY <2>1, <3>1 DEF IInv, MemoryOK
    <3> QED BY <3>2 DEF Byte
  <2>2. CASE cmd.fn \in ItemWrites /\ pc = "idle"
    BY <2>2 DEF IInv, LanesOK
  <2>3. CASE cmd.fn \in ItemWrites /\ pc # "idle"
    BY <2>3 DEF IInv, PlaceOK, MemoryOK, ItemWrites, FileFns, Buffered
  <2>4. CASE cmd.fn \notin Writes \cup ItemWrites
    BY <2>4 DEF IInv, MemoryOK
  <2> QED BY <2>1, <2>2, <2>3, <2>4
<1> QED BY <1>1, TransfersCorrect, PTL

(* What an undisturbed reading command shows is what the memory holds at   *)
(* the addresses it shows it for, and the queue, in step when the command  *)
(* began, is in step in all of its reads (uviemon_cli.c, mem, memh, memb,  *)
(* bdump; ftdi_device.c, ioread32_progress, ioread16, ioread8).            *)
THEOREM ReadsCorrect == Spec => [](ReadsWhatIsThere /\ (Undisturbed => synced))
<1>1. IInv => ReadsWhatIsThere /\ (Undisturbed => synced)
  BY DEF IInv, ShownOK, SyncOK
<1> QED BY <1>1, TransfersCorrect, PTL

(* An undisturbed verify finds an error exactly if a whole word of the     *)
(* file is not in memory, however many blocks and chunks it takes          *)
(* (uviemon_cli.c, verify).                                                *)
THEOREM VerifyCorrect == Spec => []VerifyTruthful
<1>1. IInv => VerifyTruthful
  BY DEF IInv, FoundOK, VerifyTruthful
<1> QED BY <1>1, TransfersCorrect, PTL
=============================================================================
