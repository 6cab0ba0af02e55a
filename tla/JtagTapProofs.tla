--------------------------- MODULE JtagTapProofs ---------------------------
(***************************************************************************)
(* What the clock patterns of JtagTap do, for every content of the chip,   *)
(* every memory and every number of clocks.                                *)
(*                                                                         *)
(* Clocked and Run are recursive functions.  That they satisfy their       *)
(* equations is an induction over the length of a sequence; it is made     *)
(* with the least number for which a claim fails (LeastNumber), an         *)
(* argument of first order.                                                *)
(***************************************************************************)
EXTENDS JtagTap, SequenceTheorems, WellFoundedInduction, TLAPS

-----------------------------------------------------------------------------
(* Induction and recursion *)

(* A set of natural numbers that is not empty has a least element. *)
LEMMA LeastNumber ==
  ASSUME NEW T \in SUBSET Nat, T # {}
  PROVE  \E x \in T : \A y \in T : x <= y
<1> DEFINE R == OpToRel(<, Nat)
<1>1. IsWellFoundedOn(R, Nat)
  BY NatLessThanWellFounded
<1> HIDE DEF R
<1>2. PICK x \in T : \A y \in T : ~(<<y, x>> \in R)
  BY <1>1, WFMin
<1>3. \A y \in T : ~(<<y, x>> \in R) => x <= y
  BY <1>2 DEF R, OpToRel
<1> QED BY <1>2, <1>3

(* A set of numbers that holds 0 and with each number the next one. *)
LEMMA AllNumbers ==
  ASSUME NEW n \in Nat, NEW S, 0 \in S, \A k \in 1..n : k - 1 \in S => k \in S
  PROVE  0..n \subseteq S
<1> DEFINE T == {k \in 0..n : k \notin S}
<1> SUFFICES ASSUME T # {} PROVE FALSE
  OBVIOUS
<1>1. T \in SUBSET Nat
  OBVIOUS
<1> HIDE DEF T
<1>2. PICK x \in T : \A y \in T : x <= y
  BY <1>1, LeastNumber
<1> USE DEF T
<1>3. x \in 1..n /\ x - 1 \notin T
  BY <1>2
<1> QED BY <1>2, <1>3

(* The clocks one after the other, as a function of their number. *)
LEMMA ClocksExist ==
  ASSUME NEW c, NEW edges, Len(edges) \in Nat
  PROVE  \E f : f = [k \in 0..Len(edges) |->
                       IF k = 0 THEN c ELSE Clock(f[k - 1], edges[k][1], edges[k][2])]
<1> DEFINE n == Len(edges)
           Step(x, k) == Clock(x, edges[k][1], edges[k][2])
           Follows(f, m) == f = [k \in 0..m |-> IF k = 0 THEN c ELSE Step(f[k - 1], k)]
           S == {m \in 0..n : \E f : Follows(f, m)}
<1> HIDE DEF Step
<1>1. 0 \in S
  <2>1. Follows([k \in 0..0 |-> c], 0)
    OBVIOUS
  <2> HIDE DEF Follows
  <2> QED BY <2>1
<1>2. ASSUME NEW m \in 1..n, m - 1 \in S PROVE m \in S
  <2>1. PICK f : Follows(f, m - 1)
    BY <1>2
  <2> DEFINE g == [k \in 0..m |-> IF k < m THEN f[k] ELSE Step(f[m - 1], m)]
  <2>2. ASSUME NEW k \in 0..m
        PROVE  g[k] = IF k = 0 THEN c ELSE Step(g[k - 1], k)
    <3>1. CASE k < m
      BY <2>1, <3>1
    <3>2. CASE k = m
      BY <2>1, <3>2
    <3> QED BY <3>1, <3>2
  <2>3. g = [k \in 0..m |-> g[k]]
    OBVIOUS
  <2> HIDE DEF g
  <2>4. Follows(g, m)
    BY <2>2, <2>3
  <2> HIDE DEF Follows
  <2> QED BY <2>4
<1>3. n \in S
  <2> HIDE DEF S
  <2>1. 0..n \subseteq S
    BY <1>1, <1>2, AllNumbers
  <2> QED BY <2>1
<1> QED BY <1>3 DEF Step

(* Clocked does what each clock does to what the clock before has left. *)
LEMMA ClockByClock ==
  ASSUME NEW c, NEW edges, Len(edges) \in Nat
  PROVE  \E f : /\ f[0] = c
                /\ \A k \in 1..Len(edges) : f[k] = Clock(f[k - 1], edges[k][1], edges[k][2])
                /\ Clocked(c, edges) = f[Len(edges)]
<1> DEFINE Is(f) == f = [k \in 0..Len(edges) |-> IF k = 0 THEN c ELSE Clock(f[k - 1], edges[k][1], edges[k][2])]
           after == CHOOSE f : Is(f)
<1>1. Is(after)
  <2>1. \E f : Is(f)
    BY ClocksExist
  <2> HIDE DEF Is
  <2> QED BY <2>1
<1>2. Clocked(c, edges) = after[Len(edges)]
  BY DEF Clocked
<1> HIDE DEF after
<1>3. after[0] = c
  BY <1>1
<1>4. \A k \in 1..Len(edges) : after[k] = Clock(after[k - 1], edges[k][1], edges[k][2])
  <2> DEFINE Step(x, k) == Clock(x, edges[k][1], edges[k][2])
  <2>1. after = [k \in 0..Len(edges) |-> IF k = 0 THEN c ELSE Step(after[k - 1], k)]
    BY <1>1
  <2> HIDE DEF Step
  <2>2. \A k \in 1..Len(edges) : after[k] = Step(after[k - 1], k)
    BY <2>1
  <2> QED BY <2>2 DEF Step
<1> QED BY <1>2, <1>3, <1>4

(* The same of the commands of a batch. *)
LEMMA CommandsExist ==
  ASSUME NEW c, NEW commands, Len(commands) \in Nat
  PROVE  \E f : f = [k \in 0..Len(commands) |->
                       IF k = 0 THEN c ELSE Do(f[k - 1], commands[k])]
<1> DEFINE n == Len(commands)
           Step(x, k) == Do(x, commands[k])
           Follows(f, m) == f = [k \in 0..m |-> IF k = 0 THEN c ELSE Step(f[k - 1], k)]
           S == {m \in 0..n : \E f : Follows(f, m)}
<1> HIDE DEF Step
<1>1. 0 \in S
  <2>1. Follows([k \in 0..0 |-> c], 0)
    OBVIOUS
  <2> HIDE DEF Follows
  <2> QED BY <2>1
<1>2. ASSUME NEW m \in 1..n, m - 1 \in S PROVE m \in S
  <2>1. PICK f : Follows(f, m - 1)
    BY <1>2
  <2> DEFINE g == [k \in 0..m |-> IF k < m THEN f[k] ELSE Step(f[m - 1], m)]
  <2>2. ASSUME NEW k \in 0..m
        PROVE  g[k] = IF k = 0 THEN c ELSE Step(g[k - 1], k)
    <3>1. CASE k < m
      BY <2>1, <3>1
    <3>2. CASE k = m
      BY <2>1, <3>2
    <3> QED BY <3>1, <3>2
  <2>3. g = [k \in 0..m |-> g[k]]
    OBVIOUS
  <2> HIDE DEF g
  <2>4. Follows(g, m)
    BY <2>2, <2>3
  <2> HIDE DEF Follows
  <2> QED BY <2>4
<1>3. n \in S
  <2> HIDE DEF S
  <2>1. 0..n \subseteq S
    BY <1>1, <1>2, AllNumbers
  <2> QED BY <2>1
<1> QED BY <1>3 DEF Step

(* Run does what each command does to what the command before has left. *)
Chain(f, c, commands, n) ==
  f[0] = c /\ \A k \in 1..n : f[k] = Do(f[k - 1], commands[k])

LEMMA CommandByCommand ==
  ASSUME NEW c, NEW commands, Len(commands) \in Nat
  PROVE  \E f : Chain(f, c, commands, Len(commands)) /\ Run(c, commands) = f[Len(commands)]
<1> DEFINE Is(f) == f = [k \in 0..Len(commands) |-> IF k = 0 THEN c ELSE Do(f[k - 1], commands[k])]
           after == CHOOSE f : Is(f)
<1>1. Is(after)
  <2>1. \E f : Is(f)
    BY CommandsExist
  <2> HIDE DEF Is
  <2> QED BY <2>1
<1>2. Run(c, commands) = after[Len(commands)]
  BY DEF Run
<1> HIDE DEF after
<1>3. after[0] = c
  BY <1>1
<1>4. \A k \in 1..Len(commands) : after[k] = Do(after[k - 1], commands[k])
  <2> DEFINE Step(x, k) == Do(x, commands[k])
  <2>1. after = [k \in 0..Len(commands) |-> IF k = 0 THEN c ELSE Step(after[k - 1], k)]
    BY <1>1
  <2> HIDE DEF Step
  <2>2. \A k \in 1..Len(commands) : after[k] = Step(after[k - 1], k)
    BY <2>1
  <2> QED BY <2>2 DEF Step
<1> QED BY <1>2, <1>3, <1>4 DEF Chain

(* There is one chain only. *)
LEMMA SameChain ==
  ASSUME NEW n \in Nat, NEW c, NEW commands, NEW f, NEW g,
         Chain(f, c, commands, n), Chain(g, c, commands, n)
  PROVE  f[n] = g[n]
<1> DEFINE S == {k \in 0..n : f[k] = g[k]}
<1>1. 0 \in S
  BY DEF Chain
<1>2. ASSUME NEW k \in 1..n, k - 1 \in S PROVE k \in S
  <2>1. f[k] = Do(f[k - 1], commands[k]) /\ g[k] = Do(g[k - 1], commands[k])
    BY DEF Chain
  <2> QED BY <1>2, <2>1
<1>3. 0..n \subseteq S
  <2> HIDE DEF S
  <2> QED BY <1>1, <1>2, AllNumbers
<1> QED BY <1>3

LEMMA RunNothing == \A c : Run(c, <<>>) = c
<1> TAKE c
<1>1. Len(<<>>) = 0
  OBVIOUS
<1>2. PICK f : Chain(f, c, <<>>, 0) /\ Run(c, <<>>) = f[0]
  BY <1>1, CommandByCommand
<1> QED BY <1>2 DEF Chain

LEMMA RunOne == \A c, x : Run(c, <<x>>) = Do(c, x)
<1> TAKE c, x
<1>1. Len(<<x>>) = 1 /\ <<x>>[1] = x
  OBVIOUS
<1>2. PICK f : Chain(f, c, <<x>>, 1) /\ Run(c, <<x>>) = f[1]
  BY <1>1, CommandByCommand
<1>3. f[0] = c /\ f[1] = Do(f[1 - 1], <<x>>[1])
  BY <1>2 DEF Chain
<1> QED BY <1>1, <1>2, <1>3

(* A batch in two parts is the second part run on what the first left. *)
LEMMA RunParts ==
  ASSUME NEW c, NEW S, NEW s \in Seq(S), NEW t \in Seq(S)
  PROVE  Run(c, s \o t) = Run(Run(c, s), t)
<1> DEFINE m == Len(s)
           n == Len(t)
           u == s \o t
<1>1. /\ Len(u) = m + n /\ m \in Nat /\ n \in Nat
      /\ \A k \in 1..m : u[k] = s[k]
      /\ \A k \in 1..n : u[m + k] = t[k]
  OBVIOUS
<1> HIDE DEF u
<1>2. PICK f : Chain(f, c, u, m + n) /\ Run(c, u) = f[m + n]
  <2>1. Len(u) \in Nat
    BY <1>1
  <2>2. \E f : Chain(f, c, u, Len(u)) /\ Run(c, u) = f[Len(u)]
    BY <2>1, CommandByCommand
  <2> HIDE DEF m, n
  <2> QED BY <1>1, <2>2
<1>3. PICK g : Chain(g, c, s, m) /\ Run(c, s) = g[m]
  BY <1>1, CommandByCommand
<1> DEFINE d == Run(c, s)
<1> HIDE DEF d
<1>4. PICK h : Chain(h, d, t, n) /\ Run(d, t) = h[n]
  BY <1>1, CommandByCommand
<1> HIDE DEF m, n
<1>5. f[m] = d
  <2>1. f[0] = c
    BY <1>2 DEF Chain
  <2>2. ASSUME NEW k \in 1..m PROVE f[k] = Do(f[k - 1], s[k])
    <3>1. k \in 1..m + n
      BY <1>1
    <3> QED BY <1>1, <1>2, <3>1 DEF Chain
  <2>3. Chain(f, c, s, m)
    BY <2>1, <2>2 DEF Chain
  <2> QED BY <2>3, <1>1, <1>3, SameChain DEF d
<1> DEFINE e == [k \in 0..n |-> f[m + k]]
<1>6. e[0] = d
  BY <1>1, <1>5
<1>7. ASSUME NEW k \in 1..n PROVE e[k] = Do(e[k - 1], t[k])
  <2>1. m + k \in 1..m + n /\ (m + k) - 1 = m + (k - 1) /\ k - 1 \in 0..n /\ k \in 0..n
    BY <1>1
  <2>2. f[m + k] = Do(f[(m + k) - 1], u[m + k])
    BY <1>2, <2>1 DEF Chain
  <2>3. e[k] = f[m + k] /\ e[k - 1] = f[m + (k - 1)]
    BY <2>1
  <2> QED BY <1>1, <2>1, <2>2, <2>3
<1>8. e[n] = f[m + n]
  BY <1>1
<1> HIDE DEF e
<1>9. Chain(e, d, t, n)
  BY <1>6, <1>7 DEF Chain
<1>10. e[n] = h[n]
  BY <1>1, <1>4, <1>9, SameChain
<1> QED BY <1>2, <1>4, <1>8, <1>10 DEF u, d

(* What a batch cut after some of its commands may leave. *)
Cuts(c, batch) == {Run(c, SubSeq(batch, 1, n)) : n \in 0..Len(batch)}

LEMMA CutOne == \A c, x : Cuts(c, <<x>>) \subseteq {c, Do(c, x)}
<1> TAKE c, x
<1>1. SubSeq(<<x>>, 1, 0) = <<>> /\ SubSeq(<<x>>, 1, 1) = <<x>> /\ Len(<<x>>) = 1
  <2> DEFINE s == <<x>>
  <2>1. s \in Seq({x}) /\ Len(s) = 1 /\ s[1] = x
    OBVIOUS
  <2> HIDE DEF s
  <2>2. SubSeq(s, 1, 0) = <<>>
    BY <2>1
  <2>3. SubSeq(s, 1, 1) = s
    BY <2>1
  <2> QED BY <2>1, <2>2, <2>3 DEF s
<1>2. ASSUME NEW n \in 0..1 PROVE Run(c, SubSeq(<<x>>, 1, n)) \in {c, Do(c, x)}
  <2>1. n = 0 \/ n = 1
    OBVIOUS
  <2> QED BY <1>1, <2>1, RunNothing, RunOne
<1> QED BY <1>1, <1>2 DEF Cuts

LEMMA CutParts ==
  ASSUME NEW c, NEW S, NEW s \in Seq(S), NEW t \in Seq(S)
  PROVE  Cuts(c, s \o t) \subseteq Cuts(c, s) \cup Cuts(Run(c, s), t)
<1> SUFFICES ASSUME NEW n \in 0..Len(s \o t)
             PROVE  Run(c, SubSeq(s \o t, 1, n)) \in Cuts(c, s) \cup Cuts(Run(c, s), t)
  BY DEF Cuts
<1>1. CASE n <= Len(s)
  <2>1. SubSeq(s \o t, 1, n) = SubSeq(s, 1, n) /\ n \in 0..Len(s)
    BY <1>1
  <2> QED BY <2>1 DEF Cuts
<1>2. CASE n > Len(s)
  <2> DEFINE k == n - Len(s)
             z == SubSeq(t, 1, k)
  <2>1. SubSeq(s \o t, 1, n) = s \o z /\ k \in 0..Len(t)
    BY <1>2
  <2>2. z \in Seq(S)
    BY <2>1
  <2> HIDE DEF k, z
  <2>3. Run(c, s \o z) = Run(Run(c, s), z)
    BY <2>2, RunParts
  <2> QED BY <2>1, <2>3 DEF Cuts, z
<1> QED BY <1>1, <1>2

-----------------------------------------------------------------------------
(* Types *)

USE NumWordsAssumption, JunkAssumption, SeqNextAssumption

LEMMA SignalTypes ==
  /\ \A b \in {0, 1} : Bit(b) \in Signals
  /\ \A a \in Addr \cup {Junk}, k \in 1..32 : <<"addr", a, k>> \in Signals
  /\ \A w \in Value, k \in 1..32 : <<"word", w, k>> \in Signals
  /\ \A k \in 1..32 : <<"idcode", 0, k>> \in Signals
BY DEF Signals

(* A signal that says it is of a word is of one, and the same of addresses. *)
LEMMA SignalOfWord == \A s \in Signals : s[1] = "word" => s[2] \in Value
<1> TAKE s \in Signals
<1>1. CASE \E b \in {0, 1} : s = Bit(b)
  BY <1>1 DEF Bit
<1>2. CASE \E k \in 1..32 : s = <<"idcode", 0, k>>
  BY <1>2
<1>3. CASE \E a \in Addr \cup {Junk}, k \in 1..32 : s = <<"addr", a, k>>
  BY <1>3
<1>4. CASE \E w \in Value, k \in 1..32 : s = <<"word", w, k>>
  BY <1>4
<1> QED BY <1>1, <1>2, <1>3, <1>4 DEF Signals

LEMMA SignalOfAddress == \A s \in Signals : s[1] = "addr" => s[2] \in Addr \cup {Junk}
<1> TAKE s \in Signals
<1>1. CASE \E b \in {0, 1} : s = Bit(b)
  BY <1>1 DEF Bit
<1>2. CASE \E k \in 1..32 : s = <<"idcode", 0, k>>
  BY <1>2
<1>3. CASE \E a \in Addr \cup {Junk}, k \in 1..32 : s = <<"addr", a, k>>
  BY <1>3
<1>4. CASE \E w \in Value, k \in 1..32 : s = <<"word", w, k>>
  BY <1>4
<1> QED BY <1>1, <1>2, <1>3, <1>4 DEF Signals

LEMMA ReadTypes ==
  ASSUME NEW reg \in Registers
  PROVE  /\ ReadField("word", reg) \in Value
         /\ ReadField("addr", reg) \in Addr \cup {Junk}
<1>1. reg[1] \in Signals
  BY DEF Registers
<1>2. Junk \in Value
  BY DEF Value
<1> QED BY <1>1, <1>2, SignalOfWord, SignalOfAddress DEF ReadField

LEMMA FieldType ==
  ASSUME NEW tag, NEW v, \A k \in 1..32 : <<tag, v, k>> \in Signals
  PROVE  Field(tag, v) \in Seq(Signals) /\ Len(Field(tag, v)) = 32
<1> DEFINE s(k) == <<tag, v, k>>
<1>1. \A k \in 1..32 : s(k) \in Signals
  OBVIOUS
<1>2. Field(tag, v) = [k \in 1..32 |-> s(k)]
  BY DEF Field
<1> HIDE DEF s
<1> QED BY <1>1, <1>2

LEMMA RegisterTypes ==
  /\ \A n \in Nat : Zeros(n) \in Seq(Signals) /\ Len(Zeros(n)) = n
  /\ \A n \in 0..8, byte \in Int : Bits(n, byte) \in Seq(Signals) /\ Len(Bits(n, byte)) = n
  /\ \A a \in Addr \cup {Junk} : Field("addr", a) \in Seq(Signals) /\ Len(Field("addr", a)) = 32
  /\ \A w \in Value : Field("word", w) \in Seq(Signals) /\ Len(Field("word", w)) = 32
  /\ Field("idcode", 0) \in Seq(Signals) /\ Len(Field("idcode", 0)) = 32
<1>1. \A n \in Nat : Zeros(n) \in Seq(Signals) /\ Len(Zeros(n)) = n
  BY SignalTypes DEF Zeros
<1>2. \A n \in 0..8, byte \in Int : Bits(n, byte) \in Seq(Signals) /\ Len(Bits(n, byte)) = n
  <2> TAKE n \in 0..8, byte \in Int
  <2>1. ASSUME NEW k \in 1..n PROVE BitOf(byte, k) \in {0, 1}
    <3>1. Weight[k] \in Int /\ Weight[k] > 0
      BY DEF Weight
    <3>2. byte \div Weight[k] \in Int
      BY <3>1
    <3> QED BY <3>2 DEF BitOf
  <2>2. \A k \in 1..n : Bit(BitOf(byte, k)) \in Signals
    BY <2>1, SignalTypes
  <2> QED BY <2>2 DEF Bits
<1>3. \A a \in Addr \cup {Junk} : Field("addr", a) \in Seq(Signals) /\ Len(Field("addr", a)) = 32
  BY SignalTypes, FieldType
<1>4. \A w \in Value : Field("word", w) \in Seq(Signals) /\ Len(Field("word", w)) = 32
  BY SignalTypes, FieldType
<1>5. Field("idcode", 0) \in Seq(Signals) /\ Len(Field("idcode", 0)) = 32
  BY SignalTypes, FieldType
<1> QED BY <1>1, <1>2, <1>3, <1>4, <1>5

(* Shifting keeps the length; the bits move to the front. *)
LEMMA ShiftInType ==
  ASSUME NEW reg \in Seq(Signals), NEW bits \in Seq(Signals)
  PROVE  /\ ShiftIn(reg, bits) \in Seq(Signals) /\ Len(ShiftIn(reg, bits)) = Len(reg)
         /\ \A k \in 1..Len(reg) :
              ShiftIn(reg, bits)[k] = IF k + Len(bits) <= Len(reg) THEN reg[k + Len(bits)]
                                      ELSE bits[(k + Len(bits)) - Len(reg)]
<1> DEFINE n == Len(bits)
           l == Len(reg)
           s == reg \o bits
<1>1. /\ s \in Seq(Signals) /\ Len(s) = l + n /\ n \in Nat /\ l \in Nat
      /\ \A k \in 1..l : s[k] = reg[k]
      /\ \A k \in l + 1..l + n : s[k] = bits[k - l]
  OBVIOUS
<1>2. ShiftIn(reg, bits) = SubSeq(s, n + 1, n + l)
  BY DEF ShiftIn
<1> HIDE DEF s, n, l
<1>3. /\ SubSeq(s, n + 1, n + l) \in Seq(Signals)
      /\ Len(SubSeq(s, n + 1, n + l)) = l
      /\ \A k \in 1..l : SubSeq(s, n + 1, n + l)[k] = s[n + k]
  BY <1>1
<1>4. ASSUME NEW k \in 1..l
      PROVE  s[n + k] = IF k + n <= l THEN reg[k + n] ELSE bits[(k + n) - l]
  BY <1>1
<1> QED BY <1>2, <1>3, <1>4 DEF n, l

LEMMA ConcatType ==
  ASSUME NEW s \in Seq(Signals), NEW t \in Seq(Signals)
  PROVE  s \o t \in Seq(Signals) /\ Len(s \o t) = Len(s) + Len(t)
OBVIOUS

LEMMA OneSignal == \A s \in Signals : <<s>> \in Seq(Signals) /\ Len(<<s>>) = 1
OBVIOUS

LEMMA CapturedType ==
  ASSUME NEW c \in Chips
  PROVE  /\ CapturedDR(c) \in Registers
         /\ c.ir = "ADDR" => Len(CapturedDR(c)) = 35
         /\ c.ir = "DATA" => Len(CapturedDR(c)) = 33
<1> DEFINE b(x) == <<Bit(x)>>
<1>1. \A x \in {0, 1} : b(x) \in Seq(Signals) /\ Len(b(x)) = 1
  BY SignalTypes, OneSignal
<1> HIDE DEF b
<1>2. Bits(2, 2) \in Seq(Signals) /\ Len(Bits(2, 2)) = 2
  BY RegisterTypes
<1>3. CASE c.ir = "ADDR"
  <2> DEFINE f == Field("addr", c.cmd.addr)
             x == IF c.cmd.write THEN 1 ELSE 0
             t == Bits(2, 2)
             u == f \o t
  <2>1. CapturedDR(c) = u \o b(x)
    BY <1>3 DEF CapturedDR, b
  <2>2. f \in Seq(Signals) /\ Len(f) = 32
    BY RegisterTypes DEF Chips
  <2>3. b(x) \in Seq(Signals) /\ Len(b(x)) = 1
    BY <1>1
  <2> HIDE DEF f, x, t
  <2>4. u \in Seq(Signals) /\ Len(u) = 34
    <3>1. t \in Seq(Signals) /\ Len(t) = 2
      BY <1>2 DEF t
    <3> HIDE DEF t
    <3>2. f \o t \in Seq(Signals) /\ Len(f \o t) = Len(f) + Len(t)
      BY <3>1, <2>2, ConcatType
    <3> QED BY <3>1, <3>2, <2>2
  <2> HIDE DEF u
  <2>5. u \o b(x) \in Seq(Signals) /\ Len(u \o b(x)) = 35
    <3> DEFINE y == b(x)
    <3>1. y \in Seq(Signals) /\ Len(y) = 1
      BY <2>3
    <3> HIDE DEF y
    <3>2. u \o y \in Seq(Signals) /\ Len(u \o y) = Len(u) + Len(y)
      BY <3>1, <2>4, ConcatType
    <3> QED BY <3>1, <3>2, <2>4 DEF y
  <2> QED BY <1>3, <2>1, <2>5 DEF Registers
<1>4. CASE c.ir = "DATA"
  <2> DEFINE f == Field("word", c.rdata)
  <2>1. CapturedDR(c) = f \o b(1)
    BY <1>4 DEF CapturedDR, b
  <2>2. f \in Seq(Signals) /\ Len(f) = 32
    BY RegisterTypes DEF Chips
  <2>3. b(1) \in Seq(Signals) /\ Len(b(1)) = 1
    BY <1>1
  <2> HIDE DEF f
  <2>4. f \o b(1) \in Seq(Signals) /\ Len(f \o b(1)) = 33
    <3> DEFINE y == b(1)
    <3>1. y \in Seq(Signals) /\ Len(y) = 1
      BY <2>3
    <3> HIDE DEF y
    <3>2. f \o y \in Seq(Signals) /\ Len(f \o y) = Len(f) + Len(y)
      BY <3>1, <2>2, ConcatType
    <3>3. y = b(1)
      BY DEF y
    <3>4. f \o y \in Seq(Signals) /\ Len(f \o y) = 33
      BY <3>1, <3>2, <2>2
    <3> QED BY <3>3, <3>4
  <2> QED BY <1>4, <2>1, <2>4 DEF Registers
<1>5. CASE c.ir = "IDCODE"
  <2>1. CapturedDR(c) = Field("idcode", 0)
    BY <1>5 DEF CapturedDR
  <2>2. Field("idcode", 0) # <<>>
    <3> DEFINE f == Field("idcode", 0)
    <3>1. Len(f) = 32
      BY RegisterTypes
    <3> HIDE DEF f
    <3> QED BY <3>1 DEF f
  <2> QED BY <1>5, <2>1, <2>2, RegisterTypes DEF Registers
<1>6. CASE c.ir \notin {"ADDR", "DATA", "IDCODE"}
  <2>1. CapturedDR(c) = b(0)
    BY <1>6 DEF CapturedDR, b
  <2> QED BY <1>1, <1>6, <2>1 DEF Registers
<1> QED BY <1>3, <1>4, <1>5, <1>6

LEMMA ChipFields ==
  /\ \A c \in Chips, t \in TapStates : [c EXCEPT !.tap = t] \in Chips
  /\ \A c \in Chips, r \in {"IDCODE", "ADDR", "DATA", "BYPASS"} : [c EXCEPT !.ir = r] \in Chips
  /\ \A c \in Chips, x \in Registers :
       [c EXCEPT !.ireg = x] \in Chips /\ [c EXCEPT !.dreg = x] \in Chips
  /\ \A c \in Chips, x \in Seq(Seq(Signals)) : [c EXCEPT !.out = x] \in Chips
  /\ \A c \in Chips, d \in [addr : Addr \cup {Junk}, write : BOOLEAN], v \in Value :
       [c EXCEPT !.cmd = d, !.rdata = v] \in Chips
  /\ \A c \in Chips, d \in [addr : Addr \cup {Junk}, write : BOOLEAN],
        m \in [Addr -> Value], s \in BOOLEAN :
       [c EXCEPT !.cmd = d, !.mem = m, !.stray = s] \in Chips
<1> DEFINE M == [Addr -> Value]
           O == Seq(Seq(Signals))
           D == [addr : Addr \cup {Junk}, write : BOOLEAN]
           T == TapStates
           R == Registers
           V == Value
           I == {"IDCODE", "ADDR", "DATA", "BYPASS"}
           C == [tap : T, ir : I, ireg : R, dreg : R, cmd : D, mem : M, rdata : V, out : O,
                 stray : BOOLEAN]
<1>1. Chips = C
  BY DEF Chips
<1> HIDE DEF M, O, D, T, R, V, I
<1>2. \A c \in C, t \in T : [c EXCEPT !.tap = t] \in C
  OBVIOUS
<1>3. \A c \in C, r \in I : [c EXCEPT !.ir = r] \in C
  OBVIOUS
<1>4. \A c \in C, x \in R : [c EXCEPT !.ireg = x] \in C /\ [c EXCEPT !.dreg = x] \in C
  OBVIOUS
<1>5. \A c \in C, x \in O : [c EXCEPT !.out = x] \in C
  OBVIOUS
<1>6. \A c \in C, d \in D, v \in V : [c EXCEPT !.cmd = d, !.rdata = v] \in C
  OBVIOUS
<1>7. \A c \in C, d \in D, m \in M, s \in BOOLEAN :
        [c EXCEPT !.cmd = d, !.mem = m, !.stray = s] \in C
  OBVIOUS
<1> HIDE DEF C
<1> QED BY <1>1, <1>2, <1>3, <1>4, <1>5, <1>6, <1>7 DEF T, R, V, I, O, D, M

LEMMA UpdateTypes ==
  ASSUME NEW c \in Chips
  PROVE  UpdateADDR(c) \in Chips /\ UpdateDATA(c) \in Chips
<1>1. /\ ReadField("word", c.dreg) \in Value
      /\ ReadField("addr", c.dreg) \in Addr \cup {Junk}
  BY ReadTypes DEF Chips
<1>2. \A a : AhbRead(c, a) \in Value
  BY DEF AhbRead, Chips, Value
<1>3. \A s : \A a \in Addr \cup {Junk} : Following(a, s) \in Addr \cup {Junk}
  BY DEF Following
<1>4. UpdateADDR(c) \in Chips
  <2> DEFINE a == ReadField("addr", c.dreg)
             w == c.dreg[35] = Bit(1)
             r == IF w THEN c.rdata ELSE AhbRead(c, a)
             d == [addr |-> a, write |-> w]
  <2>1. UpdateADDR(c) = [c EXCEPT !.cmd = d, !.rdata = r]
    BY DEF UpdateADDR
  <2>2. a \in Addr \cup {Junk} /\ w \in BOOLEAN /\ r \in Value
    BY <1>1, <1>2 DEF Chips
  <2> HIDE DEF a, w, r
  <2>3. d \in [addr : Addr \cup {Junk}, write : BOOLEAN]
    BY <2>2
  <2> HIDE DEF d
  <2>4. [c EXCEPT !.cmd = d, !.rdata = r] \in Chips
    BY <2>2, <2>3, ChipFields, Zenon
  <2> QED BY <2>1, <2>4
<1>5. UpdateDATA(c) \in Chips
  <2> DEFINE a == c.cmd.addr
             s == c.dreg[33] = Bit(1)
             n == Following(a, s)
             v == ReadField("word", c.dreg)
             m == IF a \in Addr THEN [c.mem EXCEPT ![a] = v] ELSE c.mem
             t == c.stray \/ a \notin Addr
             r == IF s THEN AhbRead(c, n) ELSE c.rdata
             w == c.cmd.write
             d == [addr |-> n, write |-> w]
  <2>1. [c.cmd EXCEPT !.addr = n] = d
    BY DEF Chips
  <2>2. UpdateDATA(c) = IF w THEN [c EXCEPT !.cmd = d, !.mem = m, !.stray = t]
                             ELSE [c EXCEPT !.cmd = d, !.rdata = r]
    <3> HIDE DEF d
    <3> QED BY <2>1 DEF UpdateDATA, Chips
  <2>3. /\ n \in Addr \cup {Junk} /\ r \in Value /\ t \in BOOLEAN /\ w \in BOOLEAN
        /\ m \in [Addr -> Value]
    BY <1>1, <1>2, <1>3 DEF Chips
  <2> HIDE DEF a, s, n, v, m, t, r, w
  <2>4. d \in [addr : Addr \cup {Junk}, write : BOOLEAN]
    BY <2>3
  <2> HIDE DEF d
  <2>5. [c EXCEPT !.cmd = d, !.mem = m, !.stray = t] \in Chips
    BY <2>3, <2>4, ChipFields, Zenon
  <2>6. [c EXCEPT !.cmd = d, !.rdata = r] \in Chips
    BY <2>3, <2>4, ChipFields, Zenon
  <2> QED BY <2>2, <2>5, <2>6
<1> QED BY <1>4, <1>5

(* A clock takes a chip to a chip, from every state of the TAP. *)
LEMMA TapNextType ==
  \A t \in TapStates, tms \in {0, 1} : TapNext[t][tms + 1] \in TapStates
BY DEF TapStates, TapNext

LEMMA ShiftedType ==
  ASSUME NEW c \in Chips, NEW bits \in Seq(Signals)
  PROVE  /\ Shifted(c, bits) \in Chips
         /\ Shifted(c, bits).tap = c.tap /\ Shifted(c, bits).mem = c.mem
<1>1. ASSUME NEW reg \in Registers PROVE ShiftIn(reg, bits) \in Registers
  <2>1. reg \in Seq(Signals) /\ Len(reg) # 0
    BY DEF Registers
  <2>2. ShiftIn(reg, bits) \in Seq(Signals) /\ Len(ShiftIn(reg, bits)) # 0
    BY <2>1, ShiftInType
  <2> DEFINE s == ShiftIn(reg, bits)
  <2> HIDE DEF s
  <2>3. s \in Seq(Signals) /\ Len(s) # 0 => s # <<>>
    OBVIOUS
  <2> QED BY <2>2, <2>3 DEF Registers, s
<1>2. c.dreg \in Registers /\ c.ireg \in Registers
  BY DEF Chips
<1> DEFINE x == ShiftIn(c.dreg, bits)
           y == ShiftIn(c.ireg, bits)
<1>3. x \in Registers /\ y \in Registers
  BY <1>1, <1>2
<1>4. Shifted(c, bits) = IF c.tap = "ShiftDR" THEN [c EXCEPT !.dreg = x]
                         ELSE IF c.tap = "ShiftIR" THEN [c EXCEPT !.ireg = y] ELSE c
  BY DEF Shifted, Chips
<1> HIDE DEF x, y
<1>5. [c EXCEPT !.dreg = x] \in Chips /\ [c EXCEPT !.ireg = y] \in Chips
  BY <1>3, ChipFields, Zenon
<1> QED BY <1>4, <1>5 DEF Chips

LEMMA EnteredType ==
  ASSUME NEW c \in Chips
  PROVE  Entered(c) \in Chips
<1>1. CASE c.tap = "TestLogicReset"
  <2>1. Entered(c) = [c EXCEPT !.ir = "IDCODE"]
    BY <1>1 DEF Entered
  <2>2. [c EXCEPT !.ir = "IDCODE"] \in Chips
    BY ChipFields, Zenon
  <2> QED BY <2>1, <2>2
<1>2. CASE c.tap = "CaptureDR"
  <2> DEFINE x == CapturedDR(c)
  <2>1. Entered(c) = [c EXCEPT !.dreg = x]
    BY <1>2 DEF Entered
  <2>2. x \in Registers
    BY CapturedType
  <2> HIDE DEF x
  <2>3. [c EXCEPT !.dreg = x] \in Chips
    BY <2>2, ChipFields, Zenon
  <2> QED BY <2>1, <2>3
<1>3. CASE c.tap = "CaptureIR"
  <2> DEFINE x == Bits(6, 1)
  <2>1. Entered(c) = [c EXCEPT !.ireg = x]
    BY <1>3 DEF Entered
  <2>2. x \in Seq(Signals) /\ Len(x) = 6
    BY RegisterTypes
  <2> HIDE DEF x
  <2>3. x \in Registers
    BY <2>2 DEF Registers
  <2>4. [c EXCEPT !.ireg = x] \in Chips
    BY <2>3, ChipFields, Zenon
  <2> QED BY <2>1, <2>4
<1>4. CASE c.tap = "UpdateIR"
  <2> DEFINE r == Selected(c.ireg)
  <2>1. Entered(c) = [c EXCEPT !.ir = r]
    BY <1>4 DEF Entered
  <2>2. r \in {"IDCODE", "ADDR", "DATA", "BYPASS"}
    BY DEF Selected
  <2> HIDE DEF r
  <2>3. [c EXCEPT !.ir = r] \in Chips
    BY <2>2, ChipFields, Zenon
  <2> QED BY <2>1, <2>3
<1>5. CASE c.tap = "UpdateDR"
  <2>1. Entered(c) \in {UpdateADDR(c), UpdateDATA(c), c}
    BY <1>5 DEF Entered
  <2> QED BY <2>1, UpdateTypes
<1>6. CASE c.tap \notin {"TestLogicReset", "CaptureDR", "CaptureIR", "UpdateIR", "UpdateDR"}
  BY <1>6 DEF Entered
<1> QED BY <1>1, <1>2, <1>3, <1>4, <1>5, <1>6

LEMMA ClockType ==
  ASSUME NEW c \in Chips, NEW tms \in {0, 1}, NEW tdi \in Signals
  PROVE  Clock(c, tms, tdi) \in Chips
<1> DEFINE d == Shifted(c, <<tdi>>)
           t == TapNext[c.tap][tms + 1]
<1>1. d \in Chips
  BY OneSignal, ShiftedType
<1>2. t \in TapStates
  BY TapNextType DEF Chips
<1>3. Clock(c, tms, tdi) = Entered([d EXCEPT !.tap = t])
  BY DEF Clock
<1> HIDE DEF d, t
<1>4. [d EXCEPT !.tap = t] \in Chips
  BY <1>1, <1>2, ChipFields, Zenon
<1> QED BY <1>3, <1>4, EnteredType

LEMMA ClockedType ==
  ASSUME NEW c \in Chips, NEW edges, Len(edges) \in Nat,
         \A k \in 1..Len(edges) : edges[k][1] \in {0, 1} /\ edges[k][2] \in Signals
  PROVE  Clocked(c, edges) \in Chips
<1> DEFINE n == Len(edges)
<1>1. PICK f : /\ f[0] = c
               /\ \A k \in 1..n : f[k] = Clock(f[k - 1], edges[k][1], edges[k][2])
               /\ Clocked(c, edges) = f[n]
  BY ClockByClock
<1> DEFINE S == {k \in 0..n : f[k] \in Chips}
<1>2. 0 \in S
  BY <1>1
<1>3. ASSUME NEW k \in 1..n, k - 1 \in S PROVE k \in S
  <2>1. f[k - 1] \in Chips /\ f[k] = Clock(f[k - 1], edges[k][1], edges[k][2])
    BY <1>1, <1>3
  <2>2. f[k] \in Chips
    BY <2>1, ClockType
  <2> QED BY <2>2
<1>4. 0..n \subseteq S
  <2> HIDE DEF S
  <2> QED BY <1>2, <1>3, AllNumbers
<1> QED BY <1>1, <1>4

(* The clocks of a command to TMS. *)
TmsEdges(n, byte) == [k \in 1..n |-> <<BitOf(byte, k), Bit(byte \div 128)>>]

AreTmsEdges(e, n, byte) ==
  /\ Len(e) = n
  /\ \A k \in 1..n : /\ e[k][1] = BitOf(byte, k)
                     /\ e[k][2] = Bit(byte \div 128)
                     /\ BitOf(byte, k) \in {0, 1}
  /\ Bit(byte \div 128) \in Signals

LEMMA TmsEdgesType ==
  ASSUME NEW n \in 1..8, NEW byte \in 0..255
  PROVE  AreTmsEdges(TmsEdges(n, byte), n, byte)
<1>1. byte \div 128 \in {0, 1}
  OBVIOUS
<1>2. ASSUME NEW k \in 1..n PROVE BitOf(byte, k) \in {0, 1}
  <2>1. Weight[k] \in Int /\ Weight[k] > 0
    BY DEF Weight
  <2>2. byte \div Weight[k] \in Int
    BY <2>1
  <2> QED BY <2>2 DEF BitOf
<1>3. Bit(byte \div 128) \in Signals
  BY <1>1, SignalTypes
<1>4. /\ Len(TmsEdges(n, byte)) = n
      /\ \A k \in 1..n : TmsEdges(n, byte)[k] = <<BitOf(byte, k), Bit(byte \div 128)>>
  BY DEF TmsEdges
<1> QED BY <1>2, <1>3, <1>4 DEF AreTmsEdges

LEMMA DriftedType ==
  ASSUME NEW c \in Chips, NEW bits \in Seq(Signals)
  PROVE  Drifted(c, bits) \in Chips
<1> DEFINE n == IF Len(bits) < 2 THEN Len(bits) ELSE 2
           rest == SubSeq(bits, n + 1, Len(bits))
           e == [k \in 1..n |-> <<0, bits[k]>>]
           d == Clocked(c, e)
<1>1. Drifted(c, bits) = Shifted(d, rest)
  BY DEF Drifted
<1>2. n \in 0..Len(bits) /\ Len(bits) \in Nat /\ \A k \in 1..Len(bits) : bits[k] \in Signals
  OBVIOUS
<1>3. Len(e) \in Nat /\ \A k \in 1..Len(e) : e[k][1] \in {0, 1} /\ e[k][2] \in Signals
  <2> HIDE DEF n
  <2> QED BY <1>2
<1>4. rest \in Seq(Signals)
  <2> HIDE DEF n
  <2> QED BY <1>2
<1> HIDE DEF e, rest
<1>5. d \in Chips
  BY <1>3, ClockedType
<1> HIDE DEF d
<1> QED BY <1>1, <1>4, <1>5, ShiftedType

(* A chip that has sent something back is a chip. *)
LEMMA RepliedType ==
  ASSUME NEW d \in Chips, NEW b \in Seq(Signals)
  PROVE  [d EXCEPT !.out = Append(@, b)] \in Chips
<1> DEFINE x == Append(d.out, b)
<1>1. d.out \in Seq(Seq(Signals))
  BY DEF Chips
<1>2. x \in Seq(Seq(Signals))
  <2> DEFINE O == Seq(Signals)
  <2> HIDE DEF O
  <2>1. d.out \in Seq(O) /\ b \in O
    BY <1>1 DEF O
  <2>2. x \in Seq(O)
    BY <2>1
  <2> QED BY <2>2 DEF O
<1>3. [d EXCEPT !.out = Append(@, b)] = [d EXCEPT !.out = x]
  OBVIOUS
<1> HIDE DEF x
<1>4. [d EXCEPT !.out = x] \in Chips
  BY <1>2, ChipFields, Zenon
<1> QED BY <1>3, <1>4

LEMMA DoTms ==
  ASSUME NEW c, NEW n, NEW byte
  PROVE  Do(c, Tms(n, byte)) = Clocked(c, TmsEdges(n, byte))
BY DEF Do, Tms, TmsEdges

LEMMA DoType ==
  ASSUME NEW c \in Chips, NEW command \in Commands
  PROVE  Do(c, command) \in Chips
<1>1. CASE command.do = "tms"
  <2> DEFINE n == command.n
             byte == command.byte
  <2>1. n \in 1..8 /\ byte \in 0..255
    BY <1>1 DEF Commands
  <2>2. Do(c, command) = Clocked(c, TmsEdges(n, byte))
    BY <1>1 DEF Do, TmsEdges
  <2> HIDE DEF n, byte
  <2> DEFINE e == TmsEdges(n, byte)
  <2>3. Len(e) \in Nat /\ \A k \in 1..Len(e) : e[k][1] \in {0, 1} /\ e[k][2] \in Signals
    <3>1. AreTmsEdges(e, n, byte)
      BY <2>1, TmsEdgesType
    <3> HIDE DEF e
    <3> QED BY <2>1, <3>1 DEF AreTmsEdges
  <2> HIDE DEF e
  <2>4. Clocked(c, e) \in Chips
    BY <2>3, ClockedType
  <2> QED BY <2>2, <2>4 DEF e
<1> DEFINE bits == command.bits
           shifting == c.tap \in {"ShiftDR", "ShiftIR"}
<1>2. CASE command.do = "tdi"
  <2>1. bits \in Seq(Signals) /\ command.do # "tms" /\ command.do # "tdo"
    BY <1>2 DEF Commands
  <2>2. CASE shifting
    <3>1. Do(c, command) = Shifted(c, bits)
      BY <1>2, <2>2 DEF Do
    <3> QED BY <2>1, <3>1, ShiftedType
  <2>3. CASE ~shifting
    <3>1. Do(c, command) = Drifted(c, bits)
      BY <1>2, <2>3 DEF Do
    <3> QED BY <2>1, <3>1, DriftedType
  <2> QED BY <2>2, <2>3
<1>3. CASE command.do = "tdo"
  <2>1. bits \in Seq(Signals) /\ Len(bits) \in Nat
    BY <1>3 DEF Commands
  <2>2. CASE shifting
    <3> DEFINE reg == IF c.tap = "ShiftDR" THEN c.dreg ELSE c.ireg
               b == SubSeq(reg \o bits, 1, Len(bits))
               d == Shifted(c, bits)
    <3>1. Do(c, command) = [d EXCEPT !.out = Append(@, b)]
      BY <1>3, <2>2 DEF Do
    <3>2. reg \in Seq(Signals)
      BY DEF Chips, Registers
    <3> HIDE DEF reg, bits
    <3>3. b \in Seq(Signals)
      <4>1. reg \o bits \in Seq(Signals) /\ Len(reg \o bits) >= Len(bits)
        BY <2>1, <3>2
      <4> DEFINE s == reg \o bits
      <4> HIDE DEF s
      <4>2. s \in Seq(Signals) /\ Len(s) >= Len(bits)
        BY <4>1 DEF s
      <4>3. SubSeq(s, 1, Len(bits)) \in Seq(Signals)
        BY <2>1, <4>2
      <4> QED BY <4>3 DEF s
    <3>4. d \in Chips
      BY <2>1, ShiftedType
    <3> HIDE DEF b, d
    <3> QED BY <3>1, <3>3, <3>4, RepliedType
  <2>3. CASE ~shifting
    <3> DEFINE d == Drifted(c, bits)
               b == Zeros(Len(bits))
    <3>1. Do(c, command) = [d EXCEPT !.out = Append(@, b)]
      BY <1>3, <2>3 DEF Do
    <3> HIDE DEF bits
    <3>2. d \in Chips
      BY <2>1, DriftedType
    <3>3. b \in Seq(Signals)
      BY <2>1, RegisterTypes
    <3> HIDE DEF b, d
    <3> QED BY <3>1, <3>2, <3>3, RepliedType
  <2> QED BY <2>2, <2>3
<1> QED BY <1>1, <1>2, <1>3 DEF Commands

(* Any batch of commands takes a chip to a chip. *)
LEMMA RunType ==
  ASSUME NEW c \in Chips, NEW batch \in Seq(Commands)
  PROVE  Run(c, batch) \in Chips
<1> DEFINE n == Len(batch)
<1>1. n \in Nat /\ \A k \in 1..n : batch[k] \in Commands
  OBVIOUS
<1>2. PICK f : Chain(f, c, batch, n) /\ Run(c, batch) = f[n]
  BY CommandByCommand
<1> DEFINE S == {k \in 0..n : f[k] \in Chips}
<1>3. 0 \in S
  BY <1>2 DEF Chain
<1>4. ASSUME NEW k \in 1..n, k - 1 \in S PROVE k \in S
  <2>1. f[k - 1] \in Chips /\ f[k] = Do(f[k - 1], batch[k]) /\ batch[k] \in Commands
    BY <1>1, <1>2, <1>4 DEF Chain
  <2>2. f[k] \in Chips
    BY <2>1, DoType
  <2> QED BY <2>2
<1>5. 0..n \subseteq S
  <2> HIDE DEF S
  <2> QED BY <1>1, <1>3, <1>4, AllNumbers
<1> QED BY <1>2, <1>5

-----------------------------------------------------------------------------
(* Clocks *)

(* d is c with the TAP in t, other contents of its registers, and nothing  *)
(* else changed.                                                           *)
Moved(c, d, t, ir, ireg, dreg) ==
  /\ d \in Chips
  /\ d.tap = t /\ d.ir = ir /\ d.ireg = ireg /\ d.dreg = dreg
  /\ d.cmd = c.cmd /\ d.mem = c.mem /\ d.rdata = c.rdata
  /\ d.out = c.out /\ d.stray = c.stray

Acting == {"TestLogicReset", "CaptureDR", "CaptureIR", "UpdateIR", "UpdateDR"}

(* Clocks outside the shift states, by the state they lead to. *)
LEMMA ClockMoves ==
  ASSUME NEW c \in Chips, NEW tms \in {0, 1}, NEW tdi \in Signals,
         NEW t, t = TapNext[c.tap][tms + 1], c.tap \notin {"ShiftDR", "ShiftIR"}
  PROVE  LET d == Clock(c, tms, tdi)
         IN  /\ t \notin Acting => Moved(c, d, t, c.ir, c.ireg, c.dreg)
             /\ t = "TestLogicReset" => Moved(c, d, t, "IDCODE", c.ireg, c.dreg)
             /\ t = "CaptureDR" => Moved(c, d, t, c.ir, c.ireg, CapturedDR(c))
             /\ t = "CaptureIR" => Moved(c, d, t, c.ir, Bits(6, 1), c.dreg)
             /\ t = "UpdateIR" => Moved(c, d, t, Selected(c.ireg), c.ireg, c.dreg)
<1> DEFINE d == Clock(c, tms, tdi)
           e == [c EXCEPT !.tap = t]
<1>1. d \in Chips
  BY ClockType
<1>2. d = Entered(e)
  BY DEF Clock, Shifted
<1>3. /\ e.tap = t /\ e.ir = c.ir /\ e.ireg = c.ireg /\ e.dreg = c.dreg /\ e.cmd = c.cmd
      /\ e.mem = c.mem /\ e.rdata = c.rdata /\ e.out = c.out /\ e.stray = c.stray
  BY DEF Chips
<1>4. e \in Chips
  <2>1. t \in TapStates
    BY TapNextType DEF Chips
  <2> HIDE DEF e
  <2>2. [c EXCEPT !.tap = t] \in Chips
    BY <2>1, ChipFields, Zenon
  <2> QED BY <2>2 DEF e
<1>5. CapturedDR(e) = CapturedDR(c)
  BY <1>3 DEF CapturedDR
<1> HIDE DEF d, e
<1>6. ASSUME t \notin Acting PROVE Moved(c, d, t, c.ir, c.ireg, c.dreg)
  <2>1. d = e
    BY <1>2, <1>3, <1>6 DEF Entered, Acting
  <2> QED BY <2>1, <1>1, <1>3 DEF Moved
<1>7. ASSUME t = "TestLogicReset" PROVE Moved(c, d, t, "IDCODE", c.ireg, c.dreg)
  <2>1. d = [e EXCEPT !.ir = "IDCODE"]
    BY <1>2, <1>3, <1>7 DEF Entered
  <2> QED BY <2>1, <1>1, <1>3, <1>4 DEF Moved, Chips
<1>8. ASSUME t = "CaptureDR" PROVE Moved(c, d, t, c.ir, c.ireg, CapturedDR(c))
  <2>1. d = [e EXCEPT !.dreg = CapturedDR(c)]
    BY <1>2, <1>3, <1>5, <1>8 DEF Entered
  <2> QED BY <2>1, <1>1, <1>3, <1>4 DEF Moved, Chips
<1>9. ASSUME t = "CaptureIR" PROVE Moved(c, d, t, c.ir, Bits(6, 1), c.dreg)
  <2>1. d = [e EXCEPT !.ireg = Bits(6, 1)]
    BY <1>2, <1>3, <1>9 DEF Entered
  <2> QED BY <2>1, <1>1, <1>3, <1>4 DEF Moved, Chips
<1>10. ASSUME t = "UpdateIR" PROVE Moved(c, d, t, Selected(c.ireg), c.ireg, c.dreg)
  <2>1. d = [e EXCEPT !.ir = Selected(c.ireg)]
    BY <1>2, <1>3, <1>10 DEF Entered
  <2> QED BY <2>1, <1>1, <1>3, <1>4 DEF Moved, Chips
<1> QED BY <1>6, <1>7, <1>8, <1>9, <1>10 DEF d

(* The clock that leaves a shift state takes one more bit in. *)
LEMMA LeaveShiftDR ==
  ASSUME NEW c \in Chips, NEW tdi \in Signals, c.tap = "ShiftDR"
  PROVE  Moved(c, Clock(c, 1, tdi), "Exit1DR", c.ir, c.ireg, ShiftIn(c.dreg, <<tdi>>))
<1> DEFINE d == Clock(c, 1, tdi)
           x == ShiftIn(c.dreg, <<tdi>>)
<1>1. d \in Chips
  BY ClockType
<1>2. d = Entered([[c EXCEPT !.dreg = x] EXCEPT !.tap = "Exit1DR"])
  BY DEF Clock, Shifted, TapNext
<1> HIDE DEF d, x
<1>3. d = [[c EXCEPT !.dreg = x] EXCEPT !.tap = "Exit1DR"]
  BY <1>2 DEF Entered, Chips
<1> QED BY <1>1, <1>3 DEF Moved, Chips, d, x

LEMMA LeaveShiftIR ==
  ASSUME NEW c \in Chips, NEW tdi \in Signals, c.tap = "ShiftIR"
  PROVE  Moved(c, Clock(c, 1, tdi), "Exit1IR", c.ir, ShiftIn(c.ireg, <<tdi>>), c.dreg)
<1> DEFINE d == Clock(c, 1, tdi)
           x == ShiftIn(c.ireg, <<tdi>>)
<1>1. d \in Chips
  BY ClockType
<1>2. d = Entered([[c EXCEPT !.ireg = x] EXCEPT !.tap = "Exit1IR"])
  BY DEF Clock, Shifted, TapNext
<1> HIDE DEF d, x
<1>3. d = [[c EXCEPT !.ireg = x] EXCEPT !.tap = "Exit1IR"]
  BY <1>2 DEF Entered, Chips
<1> QED BY <1>1, <1>3 DEF Moved, Chips, d, x

(* What Update-DR does with the content x of the selected register. *)
HandedOver(x, c, d) ==
  /\ d.out = c.out
  /\ \/ /\ c.ir \notin {"ADDR", "DATA"}
        /\ d.cmd = c.cmd /\ d.mem = c.mem /\ d.rdata = c.rdata
     \/ /\ c.ir = "ADDR"
        /\ d.cmd = [addr |-> ReadField("addr", x), write |-> x[35] = Bit(1)]
        /\ d.rdata = IF x[35] = Bit(1) THEN c.rdata ELSE AhbRead(c, ReadField("addr", x))
        /\ d.mem = c.mem
     \/ /\ c.ir = "DATA" /\ c.cmd.write
        /\ d.cmd = [addr |-> Following(c.cmd.addr, x[33] = Bit(1)), write |-> TRUE]
        /\ d.mem = IF c.cmd.addr \in Addr THEN [c.mem EXCEPT ![c.cmd.addr] = ReadField("word", x)]
                                          ELSE c.mem
        /\ d.rdata = c.rdata
     \/ /\ c.ir = "DATA" /\ ~c.cmd.write
        /\ d.cmd = [addr |-> Following(c.cmd.addr, x[33] = Bit(1)), write |-> FALSE]
        /\ d.rdata = IF x[33] = Bit(1) THEN AhbRead(c, Following(c.cmd.addr, TRUE)) ELSE c.rdata
        /\ d.mem = c.mem

LEMMA OtherAddress ==
  ASSUME NEW S, NEW q \in [addr : S, write : BOOLEAN], NEW n
  PROVE  [q EXCEPT !.addr = n] = [addr |-> n, write |-> q.write]
OBVIOUS

LEMMA ClockUpdates ==
  ASSUME NEW c \in Chips, NEW tdi \in Signals, c.tap = "Exit1DR"
  PROVE  LET d == Clock(c, 1, tdi)
         IN  /\ d \in Chips /\ d.tap = "UpdateDR" /\ d.ir = c.ir
             /\ d.ireg = c.ireg /\ d.dreg = c.dreg
             /\ HandedOver(c.dreg, c, d)
<1> DEFINE d == Clock(c, 1, tdi)
           e == [c EXCEPT !.tap = "UpdateDR"]
<1>1. d \in Chips
  BY ClockType
<1>2. d = Entered(e)
  BY DEF Clock, Shifted, TapNext
<1>3. /\ e.tap = "UpdateDR" /\ e.ir = c.ir /\ e.ireg = c.ireg /\ e.dreg = c.dreg
      /\ e.cmd = c.cmd /\ e.mem = c.mem /\ e.rdata = c.rdata /\ e.out = c.out
  BY DEF Chips
<1>4. e \in Chips
  <2>1. "UpdateDR" \in TapStates
    BY DEF TapStates, TapNext
  <2> QED BY <2>1, ChipFields, Zenon
<1> HIDE DEF d, e
<1>5. CASE c.ir \notin {"ADDR", "DATA"}
  <2>1. d = e
    BY <1>2, <1>3, <1>5 DEF Entered
  <2> QED BY <2>1, <1>1, <1>3, <1>5 DEF HandedOver, d
<1>6. CASE c.ir = "ADDR"
  <2> DEFINE a == ReadField("addr", c.dreg)
             w == c.dreg[35] = Bit(1)
             r == IF w THEN c.rdata ELSE AhbRead(c, a)
  <2>1. AhbRead(e, a) = AhbRead(c, a)
    BY <1>3 DEF AhbRead
  <2>2. d = [e EXCEPT !.cmd = [addr |-> a, write |-> w], !.rdata = r]
    BY <1>2, <1>3, <1>6, <2>1 DEF Entered, UpdateADDR
  <2> DEFINE k == [addr |-> a, write |-> w]
  <2> HIDE DEF k, r
  <2>3. /\ d.tap = "UpdateDR" /\ d.ir = c.ir /\ d.ireg = c.ireg /\ d.dreg = c.dreg
        /\ d.out = c.out /\ d.mem = c.mem /\ d.cmd = k /\ d.rdata = r
    BY <2>2, <1>3, <1>4 DEF Chips, k
  <2> QED BY <1>1, <1>6, <2>3 DEF HandedOver, d, k, r
<1>7. CASE c.ir = "DATA" /\ c.cmd.write
  <2> DEFINE a == c.cmd.addr
             n == Following(a, c.dreg[33] = Bit(1))
             v == ReadField("word", c.dreg)
             m == IF a \in Addr THEN [c.mem EXCEPT ![a] = v] ELSE c.mem
             t == c.stray \/ a \notin Addr
             k == [addr |-> n, write |-> TRUE]
  <2>1. [c.cmd EXCEPT !.addr = n] = k
    <3> DEFINE q == c.cmd
    <3>1. q \in [addr : Addr \cup {Junk}, write : BOOLEAN]
      BY DEF Chips
    <3>2. q.write = TRUE
      BY <1>7, <3>1
    <3> HIDE DEF q, n
    <3>3. [q EXCEPT !.addr = n] = [addr |-> n, write |-> q.write]
      BY <3>1, OtherAddress
    <3> QED BY <3>2, <3>3 DEF q
  <2>2. e.stray = c.stray
    BY DEF e, Chips
  <2> HIDE DEF k, n
  <2>3. UpdateDATA(e) = [e EXCEPT !.cmd.addr = n, !.mem = m, !.stray = t]
    BY <1>3, <1>7, <2>2 DEF UpdateDATA, n
  <2>4. d = [e EXCEPT !.cmd = k, !.mem = m, !.stray = t]
    BY <1>2, <1>3, <1>7, <2>1, <2>3 DEF Entered
  <2> HIDE DEF m, t
  <2>5. /\ d.tap = "UpdateDR" /\ d.ir = c.ir /\ d.ireg = c.ireg /\ d.dreg = c.dreg
        /\ d.out = c.out /\ d.mem = m /\ d.cmd = k /\ d.rdata = c.rdata
    BY <2>4, <1>3, <1>4 DEF Chips
  <2> QED BY <1>1, <1>7, <2>5 DEF HandedOver, d, k, m, n
<1>8. CASE c.ir = "DATA" /\ ~c.cmd.write
  <2> DEFINE a == c.cmd.addr
             s == c.dreg[33] = Bit(1)
             n == Following(a, s)
             r == IF s THEN AhbRead(c, Following(a, TRUE)) ELSE c.rdata
             k == [addr |-> n, write |-> FALSE]
  <2>1. [c.cmd EXCEPT !.addr = n] = k
    <3> DEFINE q == c.cmd
    <3>1. q \in [addr : Addr \cup {Junk}, write : BOOLEAN]
      BY DEF Chips
    <3>2. q.write = FALSE
      BY <1>8, <3>1
    <3> HIDE DEF q, n
    <3>3. [q EXCEPT !.addr = n] = [addr |-> n, write |-> q.write]
      BY <3>1, OtherAddress
    <3> QED BY <3>2, <3>3 DEF q
  <2>2. s => n = Following(a, TRUE)
    BY DEF Following
  <2>3. \A b : AhbRead(e, b) = AhbRead(c, b)
    BY <1>3 DEF AhbRead
  <2> HIDE DEF k, n
  <2>4. UpdateDATA(e) = [e EXCEPT !.cmd.addr = n, !.rdata = r]
    <3> DEFINE x == IF s THEN AhbRead(e, n) ELSE e.rdata
    <3>1. x = r
      BY <1>3, <2>2, <2>3
    <3>2. e.cmd = c.cmd /\ e.dreg = c.dreg /\ e.cmd.write = FALSE /\ n = Following(a, s)
      BY <1>3, <1>8 DEF n, Chips
    <3> HIDE DEF r
    <3>3. UpdateDATA(e) = [e EXCEPT !.cmd.addr = n, !.rdata = x]
      BY <3>2 DEF UpdateDATA
    <3> QED BY <3>1, <3>3
  <2>5. d = [e EXCEPT !.cmd = k, !.rdata = r]
    BY <1>2, <1>3, <1>8, <2>1, <2>4 DEF Entered
  <2> HIDE DEF r
  <2>6. /\ d.tap = "UpdateDR" /\ d.ir = c.ir /\ d.ireg = c.ireg /\ d.dreg = c.dreg
        /\ d.out = c.out /\ d.mem = c.mem /\ d.cmd = k /\ d.rdata = r
    BY <2>5, <1>3, <1>4 DEF Chips
  <2> QED BY <1>1, <1>8, <2>6 DEF HandedOver, d, k, n, r
<1> QED BY <1>5, <1>6, <1>7, <1>8

-----------------------------------------------------------------------------
(* TMS patterns *)

LEMMA PatternBits ==
  /\ \A k \in 1..5 : BitOf(63, k) = 1
  /\ \A k \in 1..6 : BitOf(13, k) = IF k \in {1, 3, 4} THEN 1 ELSE 0
  /\ \A k \in 1..4 : BitOf(3, k) = IF k \in {1, 2} THEN 1 ELSE 0
  /\ \A k \in 1..5 : BitOf(7, k) = IF k \in {1, 2, 3} THEN 1 ELSE 0
  /\ \A k \in 1..5 : BitOf(135, k) = IF k \in {1, 2, 3} THEN 1 ELSE 0
<1>1. /\ Weight[1] = 1 /\ Weight[2] = 2 /\ Weight[3] = 4 /\ Weight[4] = 8
      /\ Weight[5] = 16 /\ Weight[6] = 32
  BY DEF Weight
<1>2. \A k \in 1..5 : BitOf(63, k) = 1
  <2>1. \A k \in 1..5 : k = 1 \/ k = 2 \/ k = 3 \/ k = 4 \/ k = 5
    OBVIOUS
  <2> QED BY <1>1, <2>1 DEF BitOf
<1>3. \A k \in 1..6 : BitOf(13, k) = IF k \in {1, 3, 4} THEN 1 ELSE 0
  <2>1. \A k \in 1..6 : k = 1 \/ k = 2 \/ k = 3 \/ k = 4 \/ k = 5 \/ k = 6
    OBVIOUS
  <2> QED BY <1>1, <2>1 DEF BitOf
<1>4. \A k \in 1..4 : BitOf(3, k) = IF k \in {1, 2} THEN 1 ELSE 0
  <2>1. \A k \in 1..4 : k = 1 \/ k = 2 \/ k = 3 \/ k = 4
    OBVIOUS
  <2> QED BY <1>1, <2>1 DEF BitOf
<1>5. \A k \in 1..5 : BitOf(7, k) = IF k \in {1, 2, 3} THEN 1 ELSE 0
  <2>1. \A k \in 1..5 : k = 1 \/ k = 2 \/ k = 3 \/ k = 4 \/ k = 5
    OBVIOUS
  <2> QED BY <1>1, <2>1 DEF BitOf
<1>6. \A k \in 1..5 : BitOf(135, k) = IF k \in {1, 2, 3} THEN 1 ELSE 0
  <2>1. \A k \in 1..5 : k = 1 \/ k = 2 \/ k = 3 \/ k = 4 \/ k = 5
    OBVIOUS
  <2> QED BY <1>1, <2>1 DEF BitOf
<1> QED BY <1>2, <1>3, <1>4, <1>5, <1>6

(* A TMS command, clock by clock. *)
TmsWalk(f, c, n, byte) ==
  /\ f[0] = c
  /\ \A k \in 1..n : f[k] = Clock(f[k - 1], BitOf(byte, k), Bit(byte \div 128))
  /\ Do(c, Tms(n, byte)) = f[n]

LEMMA WalkOfTms ==
  ASSUME NEW c \in Chips, NEW n \in 1..8, NEW byte \in 0..255
  PROVE  \E f : TmsWalk(f, c, n, byte)
<1> DEFINE e == TmsEdges(n, byte)
<1>1. AreTmsEdges(e, n, byte)
  BY TmsEdgesType
<1>2. Do(c, Tms(n, byte)) = Clocked(c, e)
  BY DoTms
<1> HIDE DEF e
<1>3. Len(e) = n
  BY <1>1 DEF AreTmsEdges
<1>4. PICK f : /\ f[0] = c
               /\ \A k \in 1..Len(e) : f[k] = Clock(f[k - 1], e[k][1], e[k][2])
               /\ Clocked(c, e) = f[Len(e)]
  <2>1. Len(e) \in Nat
    BY <1>3
  <2> QED BY <2>1, ClockByClock
<1>5. ASSUME NEW k \in 1..n
      PROVE  f[k] = Clock(f[k - 1], BitOf(byte, k), Bit(byte \div 128))
  <2>1. f[k] = Clock(f[k - 1], e[k][1], e[k][2])
    BY <1>3, <1>4
  <2>2. e[k][1] = BitOf(byte, k) /\ e[k][2] = Bit(byte \div 128)
    BY <1>1 DEF AreTmsEdges
  <2> QED BY <2>1, <2>2
<1>6. TmsWalk(f, c, n, byte)
  BY <1>2, <1>3, <1>4, <1>5 DEF TmsWalk
<1> QED BY <1>6

(* The clocks of the patterns of the source, one by one. *)
LEMMA WalkOfReset ==
  ASSUME NEW c \in Chips
  PROVE  \E f : /\ f[0] = c /\ Do(c, Tms(5, 63)) = f[5]
                /\ f[1] = Clock(f[0], 1, Bit(0)) /\ f[2] = Clock(f[1], 1, Bit(0))
                /\ f[3] = Clock(f[2], 1, Bit(0)) /\ f[4] = Clock(f[3], 1, Bit(0))
                /\ f[5] = Clock(f[4], 1, Bit(0))
<1>1. PICK f : TmsWalk(f, c, 5, 63)
  BY WalkOfTms
<1>2. 63 \div 128 = 0
  OBVIOUS
<1>3. \A k \in 1..5 : f[k] = Clock(f[k - 1], BitOf(63, k), Bit(0))
  BY <1>1, <1>2 DEF TmsWalk
<1>4. /\ BitOf(63, 1) = 1 /\ BitOf(63, 2) = 1 /\ BitOf(63, 3) = 1
      /\ BitOf(63, 4) = 1 /\ BitOf(63, 5) = 1
  BY PatternBits
<1>5. /\ f[1] = Clock(f[1 - 1], BitOf(63, 1), Bit(0))
      /\ f[2] = Clock(f[2 - 1], BitOf(63, 2), Bit(0))
      /\ f[3] = Clock(f[3 - 1], BitOf(63, 3), Bit(0))
      /\ f[4] = Clock(f[4 - 1], BitOf(63, 4), Bit(0))
      /\ f[5] = Clock(f[5 - 1], BitOf(63, 5), Bit(0))
  BY <1>3
<1>6. f[0] = c /\ Do(c, Tms(5, 63)) = f[5]
  BY <1>1 DEF TmsWalk
<1>7. 1 - 1 = 0 /\ 2 - 1 = 1 /\ 3 - 1 = 2 /\ 4 - 1 = 3 /\ 5 - 1 = 4
  OBVIOUS
<1> QED BY <1>4, <1>5, <1>6, <1>7

LEMMA WalkOfToShiftIR ==
  ASSUME NEW c \in Chips
  PROVE  \E f : /\ f[0] = c /\ Do(c, Tms(6, 13)) = f[6]
                /\ f[1] = Clock(f[0], 1, Bit(0)) /\ f[2] = Clock(f[1], 0, Bit(0))
                /\ f[3] = Clock(f[2], 1, Bit(0)) /\ f[4] = Clock(f[3], 1, Bit(0))
                /\ f[5] = Clock(f[4], 0, Bit(0)) /\ f[6] = Clock(f[5], 0, Bit(0))
<1>1. PICK f : TmsWalk(f, c, 6, 13)
  BY WalkOfTms
<1>2. 13 \div 128 = 0
  OBVIOUS
<1>3. \A k \in 1..6 : f[k] = Clock(f[k - 1], BitOf(13, k), Bit(0))
  BY <1>1, <1>2 DEF TmsWalk
<1>4. /\ BitOf(13, 1) = 1 /\ BitOf(13, 2) = 0 /\ BitOf(13, 3) = 1
      /\ BitOf(13, 4) = 1 /\ BitOf(13, 5) = 0 /\ BitOf(13, 6) = 0
  BY PatternBits
<1>5. /\ f[1] = Clock(f[1 - 1], BitOf(13, 1), Bit(0))
      /\ f[2] = Clock(f[2 - 1], BitOf(13, 2), Bit(0))
      /\ f[3] = Clock(f[3 - 1], BitOf(13, 3), Bit(0))
      /\ f[4] = Clock(f[4 - 1], BitOf(13, 4), Bit(0))
      /\ f[5] = Clock(f[5 - 1], BitOf(13, 5), Bit(0))
      /\ f[6] = Clock(f[6 - 1], BitOf(13, 6), Bit(0))
  BY <1>3
<1>6. f[0] = c /\ Do(c, Tms(6, 13)) = f[6]
  BY <1>1 DEF TmsWalk
<1>7. 1 - 1 = 0 /\ 2 - 1 = 1 /\ 3 - 1 = 2 /\ 4 - 1 = 3 /\ 5 - 1 = 4 /\ 6 - 1 = 5
  OBVIOUS
<1> QED BY <1>4, <1>5, <1>6, <1>7

LEMMA WalkOfToShiftDR ==
  ASSUME NEW c \in Chips
  PROVE  \E f : /\ f[0] = c /\ Do(c, Tms(4, 3)) = f[4]
                /\ f[1] = Clock(f[0], 1, Bit(0)) /\ f[2] = Clock(f[1], 1, Bit(0))
                /\ f[3] = Clock(f[2], 0, Bit(0)) /\ f[4] = Clock(f[3], 0, Bit(0))
<1>1. PICK f : TmsWalk(f, c, 4, 3)
  BY WalkOfTms
<1>2. 3 \div 128 = 0
  OBVIOUS
<1>3. \A k \in 1..4 : f[k] = Clock(f[k - 1], BitOf(3, k), Bit(0))
  BY <1>1, <1>2 DEF TmsWalk
<1>4. /\ BitOf(3, 1) = 1 /\ BitOf(3, 2) = 1 /\ BitOf(3, 3) = 0
      /\ BitOf(3, 4) = 0
  BY PatternBits
<1>5. /\ f[1] = Clock(f[1 - 1], BitOf(3, 1), Bit(0))
      /\ f[2] = Clock(f[2 - 1], BitOf(3, 2), Bit(0))
      /\ f[3] = Clock(f[3 - 1], BitOf(3, 3), Bit(0))
      /\ f[4] = Clock(f[4 - 1], BitOf(3, 4), Bit(0))
  BY <1>3
<1>6. f[0] = c /\ Do(c, Tms(4, 3)) = f[4]
  BY <1>1 DEF TmsWalk
<1>7. 1 - 1 = 0 /\ 2 - 1 = 1 /\ 3 - 1 = 2 /\ 4 - 1 = 3
  OBVIOUS
<1> QED BY <1>4, <1>5, <1>6, <1>7

LEMMA WalkOfBackToShiftIR ==
  ASSUME NEW c \in Chips
  PROVE  \E f : /\ f[0] = c /\ Do(c, Tms(5, 7)) = f[5]
                /\ f[1] = Clock(f[0], 1, Bit(0)) /\ f[2] = Clock(f[1], 1, Bit(0))
                /\ f[3] = Clock(f[2], 1, Bit(0)) /\ f[4] = Clock(f[3], 0, Bit(0))
                /\ f[5] = Clock(f[4], 0, Bit(0))
<1>1. PICK f : TmsWalk(f, c, 5, 7)
  BY WalkOfTms
<1>2. 7 \div 128 = 0
  OBVIOUS
<1>3. \A k \in 1..5 : f[k] = Clock(f[k - 1], BitOf(7, k), Bit(0))
  BY <1>1, <1>2 DEF TmsWalk
<1>4. /\ BitOf(7, 1) = 1 /\ BitOf(7, 2) = 1 /\ BitOf(7, 3) = 1
      /\ BitOf(7, 4) = 0 /\ BitOf(7, 5) = 0
  BY PatternBits
<1>5. /\ f[1] = Clock(f[1 - 1], BitOf(7, 1), Bit(0))
      /\ f[2] = Clock(f[2 - 1], BitOf(7, 2), Bit(0))
      /\ f[3] = Clock(f[3 - 1], BitOf(7, 3), Bit(0))
      /\ f[4] = Clock(f[4 - 1], BitOf(7, 4), Bit(0))
      /\ f[5] = Clock(f[5 - 1], BitOf(7, 5), Bit(0))
  BY <1>3
<1>6. f[0] = c /\ Do(c, Tms(5, 7)) = f[5]
  BY <1>1 DEF TmsWalk
<1>7. 1 - 1 = 0 /\ 2 - 1 = 1 /\ 3 - 1 = 2 /\ 4 - 1 = 3 /\ 5 - 1 = 4
  OBVIOUS
<1> QED BY <1>4, <1>5, <1>6, <1>7

LEMMA WalkOfLoopAfterRead ==
  ASSUME NEW c \in Chips
  PROVE  \E f : /\ f[0] = c /\ Do(c, Tms(5, 135)) = f[5]
                /\ f[1] = Clock(f[0], 1, Bit(1)) /\ f[2] = Clock(f[1], 1, Bit(1))
                /\ f[3] = Clock(f[2], 1, Bit(1)) /\ f[4] = Clock(f[3], 0, Bit(1))
                /\ f[5] = Clock(f[4], 0, Bit(1))
<1>1. PICK f : TmsWalk(f, c, 5, 135)
  BY WalkOfTms
<1>2. 135 \div 128 = 1
  OBVIOUS
<1>3. \A k \in 1..5 : f[k] = Clock(f[k - 1], BitOf(135, k), Bit(1))
  BY <1>1, <1>2 DEF TmsWalk
<1>4. /\ BitOf(135, 1) = 1 /\ BitOf(135, 2) = 1 /\ BitOf(135, 3) = 1
      /\ BitOf(135, 4) = 0 /\ BitOf(135, 5) = 0
  BY PatternBits
<1>5. /\ f[1] = Clock(f[1 - 1], BitOf(135, 1), Bit(1))
      /\ f[2] = Clock(f[2 - 1], BitOf(135, 2), Bit(1))
      /\ f[3] = Clock(f[3 - 1], BitOf(135, 3), Bit(1))
      /\ f[4] = Clock(f[4 - 1], BitOf(135, 4), Bit(1))
      /\ f[5] = Clock(f[5 - 1], BitOf(135, 5), Bit(1))
  BY <1>3
<1>6. f[0] = c /\ Do(c, Tms(5, 135)) = f[5]
  BY <1>1 DEF TmsWalk
<1>7. 1 - 1 = 0 /\ 2 - 1 = 1 /\ 3 - 1 = 2 /\ 4 - 1 = 3 /\ 5 - 1 = 4
  OBVIOUS
<1> QED BY <1>4, <1>5, <1>6, <1>7

(* One clock with TMS high. *)
LEMMA WalkOfOne ==
  ASSUME NEW c \in Chips, NEW byte \in 0..255, byte % 2 = 1
  PROVE  Do(c, Tms(1, byte)) = Clock(c, 1, Bit(byte \div 128))
<1>1. PICK f : TmsWalk(f, c, 1, byte)
  BY WalkOfTms
<1>2. BitOf(byte, 1) = 1
  <2>1. Weight[1] = 1 /\ byte \div 1 = byte
    BY DEF Weight
  <2> QED BY <2>1 DEF BitOf
<1>3. f[1] = Clock(f[1 - 1], BitOf(byte, 1), Bit(byte \div 128)) /\ f[0] = c
  BY <1>1 DEF TmsWalk
<1>4. Do(c, Tms(1, byte)) = f[1]
  BY <1>1 DEF TmsWalk
<1> QED BY <1>2, <1>3, <1>4

-----------------------------------------------------------------------------
(* Walks through the TAP *)

LEMMA Lows == Bit(0) \in Signals /\ Bit(1) \in Signals /\ 0 \in {0, 1} /\ 1 \in {0, 1}
BY SignalTypes

LEMMA MovedTwice ==
  ASSUME NEW c, NEW d, NEW e, NEW t, NEW ir, NEW ireg, NEW dreg,
         NEW u, NEW jr, NEW jreg, NEW ereg,
         Moved(c, d, t, ir, ireg, dreg), Moved(d, e, u, jr, jreg, ereg)
  PROVE  Moved(c, e, u, jr, jreg, ereg)
BY DEF Moved

(* One edge of the TAP, for each kind of state it leads to. *)
LEMMA EdgeQuiet ==
  ASSUME NEW c \in Chips, NEW tms \in {0, 1}, NEW tdi \in Signals, NEW t,
         t = TapNext[c.tap][tms + 1], c.tap \notin {"ShiftDR", "ShiftIR"}, t \notin Acting
  PROVE  Moved(c, Clock(c, tms, tdi), t, c.ir, c.ireg, c.dreg)
BY ClockMoves

LEMMA EdgeReset ==
  ASSUME NEW c \in Chips, NEW tdi \in Signals,
         TapNext[c.tap][2] = "TestLogicReset", c.tap \notin {"ShiftDR", "ShiftIR"}
  PROVE  Moved(c, Clock(c, 1, tdi), "TestLogicReset", "IDCODE", c.ireg, c.dreg)
BY Lows, ClockMoves

LEMMA EdgeCaptureDR ==
  ASSUME NEW c \in Chips, NEW tdi \in Signals, c.tap = "SelectDR"
  PROVE  Moved(c, Clock(c, 0, tdi), "CaptureDR", c.ir, c.ireg, CapturedDR(c))
<1>1. TapNext[c.tap][0 + 1] = "CaptureDR"
  BY DEF TapNext
<1> QED BY <1>1, Lows, ClockMoves

LEMMA EdgeCaptureIR ==
  ASSUME NEW c \in Chips, NEW tdi \in Signals, c.tap = "SelectIR"
  PROVE  Moved(c, Clock(c, 0, tdi), "CaptureIR", c.ir, Bits(6, 1), c.dreg)
<1>1. TapNext[c.tap][0 + 1] = "CaptureIR"
  BY DEF TapNext
<1> QED BY <1>1, Lows, ClockMoves

LEMMA EdgeUpdateIR ==
  ASSUME NEW c \in Chips, NEW tdi \in Signals, c.tap = "Exit1IR"
  PROVE  Moved(c, Clock(c, 1, tdi), "UpdateIR", Selected(c.ireg), c.ireg, c.dreg)
<1>1. TapNext[c.tap][1 + 1] = "UpdateIR"
  BY DEF TapNext
<1> QED BY <1>1, Lows, ClockMoves

(* From Test-Logic-Reset to Shift-IR. *)
LEMMA ToShiftIRWalks ==
  ASSUME NEW c \in Chips, c.tap = "TestLogicReset"
  PROVE  Moved(c, Do(c, ToShiftIR), "ShiftIR", "IDCODE", Bits(6, 1), c.dreg)
<1>1. PICK f : /\ f[0] = c /\ Do(c, Tms(6, 13)) = f[6]
               /\ f[1] = Clock(f[0], 1, Bit(0)) /\ f[2] = Clock(f[1], 0, Bit(0))
               /\ f[3] = Clock(f[2], 1, Bit(0)) /\ f[4] = Clock(f[3], 1, Bit(0))
               /\ f[5] = Clock(f[4], 0, Bit(0)) /\ f[6] = Clock(f[5], 0, Bit(0))
  BY WalkOfToShiftIR
<1>2. Moved(c, f[1], "TestLogicReset", "IDCODE", c.ireg, c.dreg)
  BY <1>1, Lows, EdgeReset DEF TapNext
<1>3. Moved(f[1], f[2], "RunTestIdle", f[1].ir, f[1].ireg, f[1].dreg)
  BY <1>1, <1>2, Lows, EdgeQuiet DEF TapNext, Acting, Moved
<1>4. Moved(f[2], f[3], "SelectDR", f[2].ir, f[2].ireg, f[2].dreg)
  BY <1>1, <1>3, Lows, EdgeQuiet DEF TapNext, Acting, Moved
<1>5. Moved(f[3], f[4], "SelectIR", f[3].ir, f[3].ireg, f[3].dreg)
  BY <1>1, <1>4, Lows, EdgeQuiet DEF TapNext, Acting, Moved
<1>6. Moved(f[4], f[5], "CaptureIR", f[4].ir, Bits(6, 1), f[4].dreg)
  BY <1>1, <1>5, Lows, EdgeCaptureIR DEF Moved
<1>7. Moved(f[5], f[6], "ShiftIR", f[5].ir, f[5].ireg, f[5].dreg)
  BY <1>1, <1>6, Lows, EdgeQuiet DEF TapNext, Acting, Moved
<1> QED BY <1>1, <1>2, <1>3, <1>4, <1>5, <1>6, <1>7 DEF Moved, ToShiftIR

-----------------------------------------------------------------------------
(* Batches of two and of three commands *)

LEMMA TwoParts == \A x, y : <<x>> \o <<y>> = <<x, y>>
<1> TAKE x, y
<1> DEFINE s == <<x>>
           t == <<y>>
           u == <<x, y>>
<1>1. /\ s \in Seq({x, y}) /\ Len(s) = 1 /\ s[1] = x
      /\ t \in Seq({x, y}) /\ Len(t) = 1 /\ t[1] = y
      /\ u \in Seq({x, y}) /\ Len(u) = 2 /\ u[1] = x /\ u[2] = y
  OBVIOUS
<1> HIDE DEF s, t, u
<1>2. /\ s \o t \in Seq({x, y}) /\ Len(s \o t) = 2
      /\ (s \o t)[1] = x /\ (s \o t)[2] = y
  <2>1. /\ s \o t \in Seq({x, y}) /\ Len(s \o t) = Len(s) + Len(t)
        /\ \A k \in 1..Len(s) + Len(t) :
             (s \o t)[k] = IF k <= Len(s) THEN s[k] ELSE t[k - Len(s)]
    <3>1. s \in Seq({x, y}) /\ t \in Seq({x, y})
      BY <1>1
    <3> QED BY <3>1, ConcatProperties
  <2>2. 1 \in 1..2 /\ 2 \in 1..2 /\ 2 - 1 = 1
    OBVIOUS
  <2> QED BY <1>1, <2>1, <2>2
<1>3. \A k \in 1..2 : k = 1 \/ k = 2
  OBVIOUS
<1>4. s \o t = u
  <2> DEFINE w == s \o t
  <2>1. w \in Seq({x, y}) /\ Len(w) = 2 /\ \A k \in 1..2 : w[k] = u[k]
    BY <1>1, <1>2, <1>3
  <2> HIDE DEF w
  <2>2. w = u
    BY <1>1, <2>1
  <2> QED BY <2>2 DEF w
<1> QED BY <1>4 DEF s, t, u

LEMMA ThreeParts == \A x, y, z : <<x, y>> \o <<z>> = <<x, y, z>>
<1> TAKE x, y, z
<1> DEFINE s == <<x, y>>
           t == <<z>>
           u == <<x, y, z>>
           S == {x, y, z}
<1>1. /\ s \in Seq(S) /\ Len(s) = 2 /\ s[1] = x /\ s[2] = y
      /\ t \in Seq(S) /\ Len(t) = 1 /\ t[1] = z
      /\ u \in Seq(S) /\ Len(u) = 3 /\ u[1] = x /\ u[2] = y /\ u[3] = z
  OBVIOUS
<1> HIDE DEF s, t, u, S
<1>2. /\ s \o t \in Seq(S) /\ Len(s \o t) = 3
      /\ (s \o t)[1] = x /\ (s \o t)[2] = y /\ (s \o t)[3] = z
  <2>1. /\ s \o t \in Seq(S) /\ Len(s \o t) = Len(s) + Len(t)
        /\ \A k \in 1..Len(s) + Len(t) :
             (s \o t)[k] = IF k <= Len(s) THEN s[k] ELSE t[k - Len(s)]
    <3>1. s \in Seq(S) /\ t \in Seq(S)
      BY <1>1
    <3> QED BY <3>1, ConcatProperties
  <2>2. 1 \in 1..3 /\ 2 \in 1..3 /\ 3 \in 1..3 /\ 3 - 2 = 1
    OBVIOUS
  <2> QED BY <1>1, <2>1, <2>2
<1>3. \A k \in 1..3 : k = 1 \/ k = 2 \/ k = 3
  OBVIOUS
<1>4. s \o t = u
  <2> DEFINE w == s \o t
  <2>1. w \in Seq(S) /\ Len(w) = 3 /\ \A k \in 1..3 : w[k] = u[k]
    BY <1>1, <1>2, <1>3
  <2> HIDE DEF w
  <2>2. w = u
    BY <1>1, <2>1
  <2> QED BY <2>2 DEF w
<1> QED BY <1>4 DEF s, t, u

(* A batch takes c to d, or, if it is cut short, to one of C. *)
Does(c, batch, d, C) == Run(c, batch) = d /\ Cuts(c, batch) \subseteq C

LEMMA DoesBoth ==
  ASSUME NEW c, NEW d, NEW e, NEW S, NEW s \in Seq(S), NEW t \in Seq(S), NEW C, NEW D,
         Does(c, s, d, C), Does(d, t, e, D)
  PROVE  Does(c, s \o t, e, C \cup D)
<1>1. Run(c, s \o t) = Run(Run(c, s), t)
  BY RunParts
<1>2. Cuts(c, s \o t) \subseteq Cuts(c, s) \cup Cuts(Run(c, s), t)
  BY CutParts
<1> QED BY <1>1, <1>2 DEF Does

LEMMA DoesOne == \A c, x : Does(c, <<x>>, Do(c, x), {c, Do(c, x)})
BY RunOne, CutOne DEF Does

LEMMA CutTwo ==
  ASSUME NEW c, NEW x, NEW y
  PROVE  /\ Run(c, <<x, y>>) = Do(Do(c, x), y)
         /\ Cuts(c, <<x, y>>) \subseteq {c, Do(c, x), Do(Do(c, x), y)}
<1> DEFINE s == <<x>>
           t == <<y>>
           S == {x, y}
<1>1. s \in Seq(S) /\ t \in Seq(S) /\ s \o t = <<x, y>>
  BY TwoParts
<1>2. Run(c, s) = Do(c, x) /\ \A d : Run(d, t) = Do(d, y)
  BY RunOne
<1>3. Cuts(c, s) \subseteq {c, Do(c, x)} /\ \A d : Cuts(d, t) \subseteq {d, Do(d, y)}
  BY CutOne
<1> HIDE DEF s, t, S
<1>4. Run(c, s \o t) = Run(Run(c, s), t)
  <2>1. s \in Seq(S) /\ t \in Seq(S)
    BY <1>1
  <2> QED BY <2>1, RunParts
<1>5. Cuts(c, s \o t) \subseteq Cuts(c, s) \cup Cuts(Run(c, s), t)
  BY <1>1, CutParts
<1> QED BY <1>1, <1>2, <1>3, <1>4, <1>5

LEMMA CutThree ==
  ASSUME NEW c, NEW x, NEW y, NEW z
  PROVE  /\ Run(c, <<x, y, z>>) = Do(Do(Do(c, x), y), z)
         /\ Cuts(c, <<x, y, z>>) \subseteq {c, Do(c, x), Do(Do(c, x), y), Do(Do(Do(c, x), y), z)}
<1> DEFINE s == <<x, y>>
           t == <<z>>
           S == {x, y, z}
<1>1. s \in Seq(S) /\ t \in Seq(S) /\ s \o t = <<x, y, z>>
  BY ThreeParts
<1>2. Run(c, s) = Do(Do(c, x), y) /\ \A d : Run(d, t) = Do(d, z)
  BY CutTwo, RunOne
<1>3. /\ Cuts(c, s) \subseteq {c, Do(c, x), Do(Do(c, x), y)}
      /\ \A d : Cuts(d, t) \subseteq {d, Do(d, z)}
  BY CutTwo, CutOne
<1> HIDE DEF s, t, S
<1>4. Run(c, s \o t) = Run(Run(c, s), t)
  <2>1. s \in Seq(S) /\ t \in Seq(S)
    BY <1>1
  <2> QED BY <2>1, RunParts
<1>5. Cuts(c, s \o t) \subseteq Cuts(c, s) \cup Cuts(Run(c, s), t)
  BY <1>1, CutParts
<1> QED BY <1>1, <1>2, <1>3, <1>4, <1>5

LEMMA DoesTwo == \A c, x, y : Does(c, <<x, y>>, Do(Do(c, x), y), {c, Do(c, x), Do(Do(c, x), y)})
BY CutTwo DEF Does

LEMMA DoesThree ==
  \A c, x, y, z : Does(c, <<x, y, z>>, Do(Do(Do(c, x), y), z),
                       {c, Do(c, x), Do(Do(c, x), y), Do(Do(Do(c, x), y), z)})
BY CutThree DEF Does

-----------------------------------------------------------------------------
(* Contents of the data register *)

(* From bit off + 1 on, the register holds the 32 bits of v. *)
Carries(reg, off, tag, v) == \A k \in 1..32 : reg[off + k] = <<tag, v, k>>

LEMMA ReadsField ==
  ASSUME NEW reg \in Seq(Signals), Len(reg) >= 32, NEW tag, NEW v, Carries(reg, 0, tag, v)
  PROVE  ReadField(tag, reg) = v
<1> DEFINE b(k) == <<tag, v, k>>
<1>1. \A k \in 1..32 : reg[k] = b(k)
  <2>1. \A k \in 1..32 : 0 + k = k
    OBVIOUS
  <2> QED BY <2>1 DEF Carries
<1>2. Field(tag, v) = [k \in 1..32 |-> b(k)]
  BY DEF Field
<1>3. b(1)[1] = tag /\ b(1)[2] = v
  OBVIOUS
<1> HIDE DEF b
<1>4. SubSeq(reg, 1, 32) = [k \in 1..32 |-> b(k)]
  <2>1. SubSeq(reg, 1, 32) = [k \in 1..32 |-> reg[k]]
    OBVIOUS
  <2> QED BY <1>1, <2>1
<1>5. reg[1] = b(1)
  BY <1>1
<1> QED BY <1>2, <1>3, <1>4, <1>5 DEF ReadField

LEMMA ReadsJunk ==
  ASSUME NEW reg \in Seq(Signals), Len(reg) >= 32, NEW tag, \A v : reg[1] # <<tag, v, 1>>
  PROVE  ReadField(tag, reg) = Junk
<1> SUFFICES ASSUME SubSeq(reg, 1, 32) = Field(tag, reg[1][2])
             PROVE  FALSE
  BY DEF ReadField
<1> DEFINE v == reg[1][2]
           f == Field(tag, v)
<1>1. f[1] = <<tag, v, 1>>
  BY DEF Field
<1>2. SubSeq(reg, 1, 32)[1] = reg[1]
  OBVIOUS
<1> HIDE DEF f, v
<1>3. reg[1] # <<tag, v, 1>>
  OBVIOUS
<1>4. SubSeq(reg, 1, 32) = f
  BY DEF f, v
<1> QED BY <1>1, <1>2, <1>3, <1>4

LEMMA IsRegister ==
  ASSUME NEW reg \in Seq(Signals), Len(reg) # 0
  PROVE  reg \in Registers
<1>1. reg # <<>>
  OBVIOUS
<1> QED BY <1>1 DEF Registers

LEMMA ShiftInOne ==
  ASSUME NEW reg \in Registers, NEW s \in Signals
  PROVE  /\ ShiftIn(reg, <<s>>) \in Registers /\ Len(ShiftIn(reg, <<s>>)) = Len(reg)
         /\ \A k \in 1..Len(reg) - 1 : ShiftIn(reg, <<s>>)[k] = reg[k + 1]
         /\ ShiftIn(reg, <<s>>)[Len(reg)] = s
<1> DEFINE y == <<s>>
           z == ShiftIn(reg, y)
           n == Len(reg)
<1>1. y \in Seq(Signals) /\ Len(y) = 1 /\ y[1] = s
  OBVIOUS
<1>2. reg \in Seq(Signals) /\ n \in Nat \ {0}
  BY DEF Registers
<1> HIDE DEF y
<1>3. /\ z \in Seq(Signals) /\ Len(z) = n
      /\ \A k \in 1..n : z[k] = IF k + Len(y) <= n THEN reg[k + Len(y)] ELSE y[(k + Len(y)) - n]
  BY <1>1, <1>2, ShiftInType
<1> HIDE DEF z, n
<1>4. z \in Registers
  <2>1. z # <<>>
    BY <1>2, <1>3
  <2> QED BY <1>3, <2>1 DEF Registers
<1>5. \A k \in 1..n - 1 : z[k] = reg[k + 1]
  BY <1>1, <1>2, <1>3
<1>6. z[n] = s
  BY <1>1, <1>2, <1>3
<1> QED BY <1>3, <1>4, <1>5, <1>6 DEF y, z, n

LEMMA ShiftInMany ==
  ASSUME NEW reg \in Registers, NEW bits \in Seq(Signals), Len(bits) <= Len(reg)
  PROVE  /\ ShiftIn(reg, bits) \in Registers /\ Len(ShiftIn(reg, bits)) = Len(reg)
         /\ \A k \in 1..Len(reg) - Len(bits) : ShiftIn(reg, bits)[k] = reg[k + Len(bits)]
         /\ \A k \in 1..Len(bits) : ShiftIn(reg, bits)[(Len(reg) - Len(bits)) + k] = bits[k]
<1> DEFINE z == ShiftIn(reg, bits)
           n == Len(reg)
           m == Len(bits)
<1>1. reg \in Seq(Signals) /\ n \in Nat \ {0} /\ m \in Nat /\ m <= n
  BY DEF Registers
<1>2. /\ z \in Seq(Signals) /\ Len(z) = n
      /\ \A k \in 1..n : z[k] = IF k + m <= n THEN reg[k + m] ELSE bits[(k + m) - n]
  BY <1>1, ShiftInType
<1> HIDE DEF z, n, m
<1>3. z \in Registers
  <2>1. z # <<>>
    BY <1>1, <1>2
  <2> QED BY <1>2, <2>1 DEF Registers
<1>4. ASSUME NEW k \in 1..n - m PROVE z[k] = reg[k + m]
  <2>1. k \in 1..n /\ k + m <= n
    BY <1>1
  <2> QED BY <1>2, <2>1
<1>5. ASSUME NEW k \in 1..m PROVE z[(n - m) + k] = bits[k]
  <2>1. (n - m) + k \in 1..n /\ ~(((n - m) + k) + m <= n) /\ (((n - m) + k) + m) - n = k
    BY <1>1
  <2> QED BY <1>2, <2>1
<1> QED BY <1>2, <1>3, <1>4, <1>5 DEF z, n, m

(* Data clocks in the shift states *)
LEMMA TdiInShiftDR ==
  ASSUME NEW c \in Chips, NEW bits \in Seq(Signals), c.tap = "ShiftDR"
  PROVE  Moved(c, Do(c, Tdi(bits)), "ShiftDR", c.ir, c.ireg, ShiftIn(c.dreg, bits))
<1> DEFINE x == ShiftIn(c.dreg, bits)
<1>1. Do(c, Tdi(bits)) = Shifted(c, bits)
  BY DEF Do, Tdi
<1>2. Shifted(c, bits) = [c EXCEPT !.dreg = x]
  BY DEF Shifted, Chips
<1>3. Shifted(c, bits) \in Chips
  BY ShiftedType
<1> HIDE DEF x
<1> QED BY <1>1, <1>2, <1>3 DEF Moved, Chips, x

LEMMA TdiInShiftIR ==
  ASSUME NEW c \in Chips, NEW bits \in Seq(Signals), c.tap = "ShiftIR"
  PROVE  Moved(c, Do(c, Tdi(bits)), "ShiftIR", c.ir, ShiftIn(c.ireg, bits), c.dreg)
<1> DEFINE x == ShiftIn(c.ireg, bits)
<1>1. Do(c, Tdi(bits)) = Shifted(c, bits)
  BY DEF Do, Tdi
<1>2. Shifted(c, bits) = [c EXCEPT !.ireg = x]
  BY DEF Shifted, Chips
<1>3. Shifted(c, bits) \in Chips
  BY ShiftedType
<1> HIDE DEF x
<1> QED BY <1>1, <1>2, <1>3 DEF Moved, Chips, x

LEMMA TdoInShiftDR ==
  ASSUME NEW c \in Chips, NEW bits \in Seq(Signals), c.tap = "ShiftDR"
  PROVE  LET d == Do(c, Tdo(bits))
         IN  /\ d \in Chips /\ d.tap = "ShiftDR" /\ d.ir = c.ir /\ d.ireg = c.ireg
             /\ d.dreg = ShiftIn(c.dreg, bits)
             /\ d.cmd = c.cmd /\ d.mem = c.mem /\ d.rdata = c.rdata
             /\ d.out = Append(c.out, SubSeq(c.dreg \o bits, 1, Len(bits)))
<1> DEFINE x == ShiftIn(c.dreg, bits)
           y == SubSeq(c.dreg \o bits, 1, Len(bits))
           d == Do(c, Tdo(bits))
<1>1. d \in Chips
  <2>1. Tdo(bits) \in Commands
    BY DEF Commands, Tdo
  <2> QED BY <2>1, DoType
<1>2. d = [Shifted(c, bits) EXCEPT !.out = Append(@, y)]
  BY DEF Do, Tdo
<1>3. Shifted(c, bits) = [c EXCEPT !.dreg = x]
  BY DEF Shifted, Chips
<1> HIDE DEF d, x, y
<1>4. d = [[c EXCEPT !.dreg = x] EXCEPT !.out = Append(@, y)]
  BY <1>2, <1>3
<1>5. /\ d.tap = "ShiftDR" /\ d.ir = c.ir /\ d.ireg = c.ireg /\ d.dreg = x
      /\ d.cmd = c.cmd /\ d.mem = c.mem /\ d.rdata = c.rdata /\ d.out = Append(c.out, y)
  BY <1>4 DEF Chips
<1> QED BY <1>1, <1>5 DEF d, x, y

-----------------------------------------------------------------------------
(* The word level *)

(* What is parked in the selected register, as DebugLink calls it, and what *)
(* the next reset, whose TDI is low, hands over.                            *)
Content(ir, x) ==
  CASE ir = "ADDR" -> [reg |-> "ADDR", addr |-> ReadField("addr", x), write |-> x[35] = Bit(1)]
    [] ir = "DATA" -> [reg |-> "DATA", data |-> ReadField("word", x), seq |-> x[33] = Bit(1)]
    [] OTHER -> [reg |-> "NONE"]

ParkedIn(c) ==
  CASE c.tap = "Exit1DR" -> Content(c.ir, c.dreg)
    [] c.tap = "ShiftDR" -> Content(c.ir, ShiftIn(c.dreg, <<Bit(0)>>))
    [] OTHER -> [reg |-> "NONE"]

Parking ==
  {"TestLogicReset", "RunTestIdle", "ShiftIR", "Exit1IR", "ShiftDR", "Exit1DR"}

(* The bus behind the link has seen nothing, or a pass through Update-DR. *)
SameBus(c, d) == d.cmd = c.cmd /\ d.mem = c.mem /\ d.rdata = c.rdata

Passed(s, c, d) ==
  \/ s.reg = "NONE" /\ SameBus(c, d)
  \/ /\ s.reg = "ADDR"
     /\ d.cmd = [addr |-> s.addr, write |-> s.write]
     /\ d.rdata = IF s.write THEN c.rdata ELSE AhbRead(c, s.addr)
     /\ d.mem = c.mem
  \/ /\ s.reg = "DATA" /\ c.cmd.write
     /\ d.cmd = [addr |-> Following(c.cmd.addr, s.seq), write |-> TRUE]
     /\ d.mem = IF c.cmd.addr \in Addr THEN [c.mem EXCEPT ![c.cmd.addr] = s.data] ELSE c.mem
     /\ d.rdata = c.rdata
  \/ /\ s.reg = "DATA" /\ ~c.cmd.write
     /\ d.cmd = [addr |-> Following(c.cmd.addr, s.seq), write |-> FALSE]
     /\ d.rdata = IF s.seq THEN AhbRead(c, Following(c.cmd.addr, TRUE)) ELSE c.rdata
     /\ d.mem = c.mem

LEMMA HandedOverPasses ==
  ASSUME NEW x, NEW c, NEW d, HandedOver(x, c, d)
  PROVE  Passed(Content(c.ir, x), c, d) /\ d.out = c.out
<1> DEFINE s == Content(c.ir, x)
<1>1. CASE c.ir \notin {"ADDR", "DATA"}
  <2>1. s = [reg |-> "NONE"]
    BY <1>1 DEF Content
  <2>2. SameBus(c, d) /\ d.out = c.out
    BY <1>1 DEF HandedOver, SameBus
  <2>3. s.reg = "NONE"
    BY <2>1
  <2> HIDE DEF s
  <2>4. Passed(s, c, d)
    BY <2>2, <2>3 DEF Passed
  <2> QED BY <2>2, <2>4 DEF s
<1>2. CASE c.ir = "ADDR"
  <2>1. s.reg = "ADDR" /\ s.addr = ReadField("addr", x) /\ s.write = (x[35] = Bit(1))
    BY <1>2 DEF Content
  <2> HIDE DEF s
  <2> QED BY <1>2, <2>1 DEF HandedOver, Passed, s
<1>3. CASE c.ir = "DATA"
  <2>1. s.reg = "DATA" /\ s.data = ReadField("word", x) /\ s.seq = (x[33] = Bit(1))
    BY <1>3 DEF Content
  <2> HIDE DEF s
  <2> QED BY <1>3, <2>1 DEF HandedOver, Passed, s
<1> QED BY <1>1, <1>2, <1>3

LEMMA SamePass ==
  ASSUME NEW s, NEW c, NEW d, NEW e, NEW f, Passed(s, c, d), SameBus(c, e), SameBus(d, f)
  PROVE  Passed(s, e, f)
<1>1. \A a : AhbRead(c, a) = AhbRead(e, a)
  BY DEF AhbRead, SameBus
<1> QED BY <1>1 DEF Passed, SameBus

LEMMA NothingPasses ==
  ASSUME NEW c, NEW d, SameBus(c, d) PROVE Passed([reg |-> "NONE"], c, d)
BY DEF Passed

(* The reset of the source takes the TAP from every parking place to       *)
(* Test-Logic-Reset, and hands over what was parked there.                 *)
THEOREM ResetHandsOver ==
  ASSUME NEW c \in Chips, c.tap \in Parking
  PROVE  LET d == Do(c, Tms(5, 63))
         IN  /\ d \in Chips /\ d.tap = "TestLogicReset" /\ d.ir = "IDCODE"
             /\ d.out = c.out /\ Passed(ParkedIn(c), c, d)
<1>1. PICK f : /\ f[0] = c /\ Do(c, Tms(5, 63)) = f[5]
               /\ f[1] = Clock(f[0], 1, Bit(0)) /\ f[2] = Clock(f[1], 1, Bit(0))
               /\ f[3] = Clock(f[2], 1, Bit(0)) /\ f[4] = Clock(f[3], 1, Bit(0))
               /\ f[5] = Clock(f[4], 1, Bit(0))
  BY WalkOfReset
<1>2. CASE c.tap = "TestLogicReset"
  <2>1. Moved(c, f[1], "TestLogicReset", "IDCODE", c.ireg, c.dreg)
    BY <1>1, <1>2, Lows, EdgeReset DEF TapNext
  <2>2. Moved(f[1], f[2], "TestLogicReset", "IDCODE", f[1].ireg, f[1].dreg)
    BY <1>1, <2>1, Lows, EdgeReset DEF TapNext, Moved
  <2>3. Moved(f[2], f[3], "TestLogicReset", "IDCODE", f[2].ireg, f[2].dreg)
    BY <1>1, <2>2, Lows, EdgeReset DEF TapNext, Moved
  <2>4. Moved(f[3], f[4], "TestLogicReset", "IDCODE", f[3].ireg, f[3].dreg)
    BY <1>1, <2>3, Lows, EdgeReset DEF TapNext, Moved
  <2>5. Moved(f[4], f[5], "TestLogicReset", "IDCODE", f[4].ireg, f[4].dreg)
    BY <1>1, <2>4, Lows, EdgeReset DEF TapNext, Moved
  <2>6. SameBus(c, f[5]) /\ f[5].out = c.out
    BY <2>1, <2>2, <2>3, <2>4, <2>5 DEF Moved, SameBus
  <2>7. ParkedIn(c) = [reg |-> "NONE"]
    BY <1>2 DEF ParkedIn
  <2> QED BY <1>1, <2>5, <2>6, <2>7, NothingPasses DEF Moved
<1>3. CASE c.tap = "RunTestIdle"
  <2>1. Moved(c, f[1], "SelectDR", c.ir, c.ireg, c.dreg)
    BY <1>1, <1>3, Lows, EdgeQuiet DEF TapNext, Acting
  <2>2. Moved(f[1], f[2], "SelectIR", f[1].ir, f[1].ireg, f[1].dreg)
    BY <1>1, <2>1, Lows, EdgeQuiet DEF TapNext, Acting, Moved
  <2>3. Moved(f[2], f[3], "TestLogicReset", "IDCODE", f[2].ireg, f[2].dreg)
    BY <1>1, <2>2, Lows, EdgeReset DEF TapNext, Moved
  <2>4. Moved(f[3], f[4], "TestLogicReset", "IDCODE", f[3].ireg, f[3].dreg)
    BY <1>1, <2>3, Lows, EdgeReset DEF TapNext, Moved
  <2>5. Moved(f[4], f[5], "TestLogicReset", "IDCODE", f[4].ireg, f[4].dreg)
    BY <1>1, <2>4, Lows, EdgeReset DEF TapNext, Moved
  <2>6. SameBus(c, f[5]) /\ f[5].out = c.out
    BY <2>1, <2>2, <2>3, <2>4, <2>5 DEF Moved, SameBus
  <2>7. ParkedIn(c) = [reg |-> "NONE"]
    BY <1>3 DEF ParkedIn
  <2> QED BY <1>1, <2>5, <2>6, <2>7, NothingPasses DEF Moved
<1>4. CASE c.tap = "ShiftIR"
  <2>1. Moved(c, f[1], "Exit1IR", c.ir, ShiftIn(c.ireg, <<Bit(0)>>), c.dreg)
    BY <1>1, <1>4, Lows, LeaveShiftIR
  <2>2. Moved(f[1], f[2], "UpdateIR", Selected(f[1].ireg), f[1].ireg, f[1].dreg)
    BY <1>1, <2>1, Lows, EdgeUpdateIR DEF Moved
  <2>3. Moved(f[2], f[3], "SelectDR", f[2].ir, f[2].ireg, f[2].dreg)
    BY <1>1, <2>2, Lows, EdgeQuiet DEF TapNext, Acting, Moved
  <2>4. Moved(f[3], f[4], "SelectIR", f[3].ir, f[3].ireg, f[3].dreg)
    BY <1>1, <2>3, Lows, EdgeQuiet DEF TapNext, Acting, Moved
  <2>5. Moved(f[4], f[5], "TestLogicReset", "IDCODE", f[4].ireg, f[4].dreg)
    BY <1>1, <2>4, Lows, EdgeReset DEF TapNext, Moved
  <2>6. SameBus(c, f[5]) /\ f[5].out = c.out
    BY <2>1, <2>2, <2>3, <2>4, <2>5 DEF Moved, SameBus
  <2>7. ParkedIn(c) = [reg |-> "NONE"]
    BY <1>4 DEF ParkedIn
  <2> QED BY <1>1, <2>5, <2>6, <2>7, NothingPasses DEF Moved
<1>5. CASE c.tap = "Exit1IR"
  <2>1. Moved(c, f[1], "UpdateIR", Selected(c.ireg), c.ireg, c.dreg)
    BY <1>1, <1>5, Lows, EdgeUpdateIR
  <2>2. Moved(f[1], f[2], "SelectDR", f[1].ir, f[1].ireg, f[1].dreg)
    BY <1>1, <2>1, Lows, EdgeQuiet DEF TapNext, Acting, Moved
  <2>3. Moved(f[2], f[3], "SelectIR", f[2].ir, f[2].ireg, f[2].dreg)
    BY <1>1, <2>2, Lows, EdgeQuiet DEF TapNext, Acting, Moved
  <2>4. Moved(f[3], f[4], "TestLogicReset", "IDCODE", f[3].ireg, f[3].dreg)
    BY <1>1, <2>3, Lows, EdgeReset DEF TapNext, Moved
  <2>5. Moved(f[4], f[5], "TestLogicReset", "IDCODE", f[4].ireg, f[4].dreg)
    BY <1>1, <2>4, Lows, EdgeReset DEF TapNext, Moved
  <2>6. SameBus(c, f[5]) /\ f[5].out = c.out
    BY <2>1, <2>2, <2>3, <2>4, <2>5 DEF Moved, SameBus
  <2>7. ParkedIn(c) = [reg |-> "NONE"]
    BY <1>5 DEF ParkedIn
  <2> QED BY <1>1, <2>5, <2>6, <2>7, NothingPasses DEF Moved
<1>6. CASE c.tap = "ShiftDR"
  <2>1. Moved(c, f[1], "Exit1DR", c.ir, c.ireg, ShiftIn(c.dreg, <<Bit(0)>>))
    BY <1>1, <1>6, Lows, LeaveShiftDR
  <2>2. f[2] \in Chips /\ f[2].tap = "UpdateDR" /\ HandedOver(f[1].dreg, f[1], f[2])
    BY <1>1, <2>1, Lows, ClockUpdates DEF Moved
  <2>3. Moved(f[2], f[3], "SelectDR", f[2].ir, f[2].ireg, f[2].dreg)
    BY <1>1, <2>2, Lows, EdgeQuiet DEF TapNext, Acting, Moved
  <2>4. Moved(f[3], f[4], "SelectIR", f[3].ir, f[3].ireg, f[3].dreg)
    BY <1>1, <2>3, Lows, EdgeQuiet DEF TapNext, Acting, Moved
  <2>5. Moved(f[4], f[5], "TestLogicReset", "IDCODE", f[4].ireg, f[4].dreg)
    BY <1>1, <2>4, Lows, EdgeReset DEF TapNext, Moved
  <2>6. SameBus(f[1], c) /\ SameBus(f[2], f[5]) /\ f[1].out = c.out /\ f[5].out = f[2].out
    BY <2>1, <2>3, <2>4, <2>5 DEF Moved, SameBus
  <2>7. Passed(Content(f[1].ir, f[1].dreg), f[1], f[2]) /\ f[2].out = f[1].out
    BY <2>2, HandedOverPasses
  <2>8. Content(f[1].ir, f[1].dreg) = ParkedIn(c)
    BY <1>6, <2>1 DEF ParkedIn, Moved
  <2>9. Passed(ParkedIn(c), c, f[5])
    BY <2>6, <2>7, <2>8, SamePass
  <2> QED BY <1>1, <2>5, <2>6, <2>7, <2>9 DEF Moved
<1>7. CASE c.tap = "Exit1DR"
  <2>1. f[1] \in Chips /\ f[1].tap = "UpdateDR" /\ HandedOver(c.dreg, c, f[1])
    BY <1>1, <1>7, Lows, ClockUpdates
  <2>2. Moved(f[1], f[2], "SelectDR", f[1].ir, f[1].ireg, f[1].dreg)
    BY <1>1, <2>1, Lows, EdgeQuiet DEF TapNext, Acting, Moved
  <2>3. Moved(f[2], f[3], "SelectIR", f[2].ir, f[2].ireg, f[2].dreg)
    BY <1>1, <2>2, Lows, EdgeQuiet DEF TapNext, Acting, Moved
  <2>4. Moved(f[3], f[4], "TestLogicReset", "IDCODE", f[3].ireg, f[3].dreg)
    BY <1>1, <2>3, Lows, EdgeReset DEF TapNext, Moved
  <2>5. Moved(f[4], f[5], "TestLogicReset", "IDCODE", f[4].ireg, f[4].dreg)
    BY <1>1, <2>4, Lows, EdgeReset DEF TapNext, Moved
  <2>6. SameBus(f[1], f[5]) /\ f[5].out = f[1].out
    BY <2>2, <2>3, <2>4, <2>5 DEF Moved, SameBus
  <2>7. Passed(Content(c.ir, c.dreg), c, f[1]) /\ f[1].out = c.out
    BY <2>1, HandedOverPasses
  <2>8. Content(c.ir, c.dreg) = ParkedIn(c)
    BY <1>7 DEF ParkedIn
  <2>9. Passed(ParkedIn(c), c, f[5])
    BY <2>6, <2>7, <2>8, SamePass DEF SameBus
  <2> QED BY <1>1, <2>5, <2>6, <2>7, <2>9 DEF Moved
<1> QED BY <1>2, <1>3, <1>4, <1>5, <1>6, <1>7 DEF Parking

-----------------------------------------------------------------------------
(* Instructions *)

LEMMA BitsAre ==
  ASSUME NEW n \in 0..8, NEW byte \in Int
  PROVE  /\ Bits(n, byte) \in Seq(Signals) /\ Len(Bits(n, byte)) = n
         /\ \A k \in 1..n : Bits(n, byte)[k] = Bit(BitOf(byte, k))
BY RegisterTypes DEF Bits

LEMMA SameRegister ==
  ASSUME NEW s \in Seq(Signals), NEW t \in Seq(Signals), Len(s) = Len(t),
         \A k \in 1..Len(s) : s[k] = t[k]
  PROVE  s = t
OBVIOUS

(* The sixth bit of an opcode is what the byte of the last clock has for it *)
(* on TDI.                                                                  *)
LEMMA LastBit ==
  ASSUME NEW code \in 0..63
  PROVE  LET byte == ((code * 4) % 256) + 1
         IN  byte \in 0..255 /\ byte % 2 = 1 /\ byte \div 128 = BitOf(code, 6)
<1>1. (code * 4) % 256 = code * 4
  OBVIOUS
<1>2. Weight[6] = 32
  BY DEF Weight
<1>3. (code * 4 + 1) \div 128 = code \div 32 /\ (code \div 32) % 2 = code \div 32
  OBVIOUS
<1>4. (code * 4 + 1) % 2 = 1 /\ code * 4 + 1 \in 0..255
  OBVIOUS
<1> QED BY <1>1, <1>2, <1>3, <1>4 DEF BitOf

(* Two opcodes with the same six bits are the same. *)
LEMMA SameBits ==
  ASSUME NEW a \in 0..63, NEW b \in 0..63, Bits(6, a) = Bits(6, b)
  PROVE  a = b
<1>1. \A k \in 1..6 : Bit(BitOf(a, k)) = Bit(BitOf(b, k))
  <2>1. \A k \in 1..6 : Bits(6, a)[k] = Bit(BitOf(a, k)) /\ Bits(6, b)[k] = Bit(BitOf(b, k))
    BY DEF Bits
  <2> QED BY <2>1
<1>2. \A k \in 1..6 : BitOf(a, k) = BitOf(b, k)
  BY <1>1 DEF Bit
<1>3. /\ Weight[1] = 1 /\ Weight[2] = 2 /\ Weight[3] = 4 /\ Weight[4] = 8
      /\ Weight[5] = 16 /\ Weight[6] = 32
  BY DEF Weight
<1>4. /\ a % 2 = b % 2 /\ (a \div 2) % 2 = (b \div 2) % 2
      /\ (a \div 4) % 2 = (b \div 4) % 2 /\ (a \div 8) % 2 = (b \div 8) % 2
      /\ (a \div 16) % 2 = (b \div 16) % 2 /\ (a \div 32) % 2 = (b \div 32) % 2
  <2>1. a \div 1 = a /\ b \div 1 = b
    OBVIOUS
  <2>2. /\ BitOf(a, 1) = BitOf(b, 1) /\ BitOf(a, 2) = BitOf(b, 2) /\ BitOf(a, 3) = BitOf(b, 3)
        /\ BitOf(a, 4) = BitOf(b, 4) /\ BitOf(a, 5) = BitOf(b, 5) /\ BitOf(a, 6) = BitOf(b, 6)
    BY <1>2
  <2> QED BY <1>3, <2>1, <2>2 DEF BitOf
<1>5. ASSUME NEW n \in 0..63
      PROVE  n = (n % 2) + 2 * ((n \div 2) % 2) + 4 * ((n \div 4) % 2) + 8 * ((n \div 8) % 2)
                   + 16 * ((n \div 16) % 2) + 32 * ((n \div 32) % 2)
  BY SMTT(30)
<1>6. a = (a % 2) + 2 * ((a \div 2) % 2) + 4 * ((a \div 4) % 2) + 8 * ((a \div 8) % 2)
            + 16 * ((a \div 16) % 2) + 32 * ((a \div 32) % 2)
  BY <1>5
<1>7. b = (b % 2) + 2 * ((b \div 2) % 2) + 4 * ((b \div 4) % 2) + 8 * ((b \div 8) % 2)
            + 16 * ((b \div 16) % 2) + 32 * ((b \div 32) % 2)
  BY <1>5
<1> QED BY <1>4, <1>6, <1>7

LEMMA SelectedBy ==
  /\ Selected(Bits(6, CODE_ADDR_COMM)) = "ADDR"
  /\ Selected(Bits(6, CODE_DATA)) = "DATA"
BY CodesAssumption, SameBits DEF Selected

LEMMA OpcodeShifted ==
  ASSUME NEW c \in Chips, NEW code \in 0..63, c.tap = "ShiftIR", Len(c.ireg) = 6
  PROVE  LET d == Do(c, Tdi(Bits(5, code)))
             e == Do(d, Tms(1, ((code * 4) % 256) + 1))
         IN  /\ Moved(c, d, "ShiftIR", c.ir, d.ireg, c.dreg)
             /\ Moved(c, e, "Exit1IR", c.ir, Bits(6, code), c.dreg)
<1> DEFINE b == Bits(5, code)
           x == ShiftIn(c.ireg, b)
           byte == ((code * 4) % 256) + 1
           s == Bit(byte \div 128)
           y == ShiftIn(x, <<s>>)
           d == Do(c, Tdi(b))
           e == Do(d, Tms(1, byte))
<1>1. b \in Seq(Signals) /\ Len(b) = 5 /\ \A k \in 1..5 : b[k] = Bit(BitOf(code, k))
  <2>1. 5 \in 0..8 /\ code \in Int
    OBVIOUS
  <2> QED BY <2>1, BitsAre
<1>2. byte \in 0..255 /\ byte % 2 = 1 /\ s = Bit(BitOf(code, 6)) /\ s \in Signals
  <2>1. byte \in 0..255 /\ byte % 2 = 1 /\ byte \div 128 = BitOf(code, 6)
    BY LastBit
  <2>2. byte \div 128 \in {0, 1}
    BY <2>1
  <2> QED BY <2>1, <2>2, SignalTypes
<1> HIDE DEF b, s, byte
<1>3. /\ x \in Registers /\ Len(x) = 6
      /\ \A k \in 1..5 : x[(6 - 5) + k] = b[k]
  <2>1. c.ireg \in Registers /\ Len(b) <= Len(c.ireg)
    BY <1>1 DEF Chips
  <2>2. /\ x \in Registers /\ Len(x) = Len(c.ireg)
        /\ \A k \in 1..Len(b) : x[(Len(c.ireg) - Len(b)) + k] = b[k]
    BY <1>1, <2>1, ShiftInMany
  <2> HIDE DEF x
  <2> QED BY <1>1, <2>2
<1>4. Moved(c, d, "ShiftIR", c.ir, x, c.dreg)
  BY <1>1, TdiInShiftIR
<1> HIDE DEF d, x
<1>5. e = Clock(d, 1, s)
  <2>1. d \in Chips
    BY <1>4 DEF Moved
  <2> QED BY <1>2, <2>1, WalkOfOne DEF s
<1>6. Moved(d, e, "Exit1IR", d.ir, ShiftIn(d.ireg, <<s>>), d.dreg)
  <2>1. d \in Chips /\ d.tap = "ShiftIR"
    BY <1>4 DEF Moved
  <2> HIDE DEF e
  <2> QED BY <1>2, <1>5, <2>1, LeaveShiftIR
<1>7. y = Bits(6, code)
  <2>1. /\ y \in Registers /\ Len(y) = 6
        /\ \A k \in 1..5 : y[k] = x[k + 1]
        /\ y[6] = s
    BY <1>2, <1>3, ShiftInOne
  <2>2. /\ Bits(6, code) \in Seq(Signals) /\ Len(Bits(6, code)) = 6
        /\ \A k \in 1..6 : Bits(6, code)[k] = Bit(BitOf(code, k))
    <3>1. 6 \in 0..8 /\ code \in Int
      OBVIOUS
    <3> QED BY <3>1, BitsAre
  <2> HIDE DEF y
  <2>3. ASSUME NEW k \in 1..6 PROVE y[k] = Bits(6, code)[k]
    <3>1. CASE k = 6
      BY <1>2, <2>1, <2>2, <3>1
    <3>2. CASE k # 6
      <4>1. k \in 1..5 /\ (6 - 5) + k = k + 1
        BY <3>2
      <4> QED BY <1>1, <1>3, <2>1, <2>2, <4>1
    <3> QED BY <3>1, <3>2
  <2>4. y \in Seq(Signals)
    BY <2>1 DEF Registers
  <2> QED BY <2>1, <2>2, <2>3, <2>4, SameRegister
<1>8. Moved(c, e, "Exit1IR", c.ir, y, c.dreg)
  <2>1. d.ireg = x /\ d.ir = c.ir /\ d.dreg = c.dreg
    BY <1>4 DEF Moved
  <2> HIDE DEF e
  <2> QED BY <1>4, <1>6, <2>1, MovedTwice
<1>9. Moved(c, d, "ShiftIR", c.ir, d.ireg, c.dreg)
  BY <1>4 DEF Moved
<1> QED BY <1>7, <1>8, <1>9 DEF b, d, byte

-----------------------------------------------------------------------------
(* From one shift state to another *)

(* A data register that reads as junk, whatever the next bit is. *)
BlankAddress(reg) ==
  /\ reg \in Registers /\ Len(reg) = 35
  /\ \A v : reg[2] # <<"addr", v, 1>> /\ reg[34] # <<"addr", v, 1>>

BlankWord(reg) ==
  /\ reg \in Registers /\ Len(reg) = 33
  /\ \A v : reg[2] # <<"word", v, 1>>

(* u is s and t, one after the other. *)
Joined(u, s, m, t, n) ==
  /\ u \in Seq(Signals) /\ Len(u) = m + n
  /\ \A k \in 1..m : u[k] = s[k]
  /\ \A k \in 1..n : u[m + k] = t[k]

LEMMA JoinedAt ==
  ASSUME NEW s \in Seq(Signals), NEW t \in Seq(Signals)
  PROVE  Joined(s \o t, s, Len(s), t, Len(t))
BY DEF Joined

LEMMA CapturedAddress ==
  ASSUME NEW c \in Chips, c.ir = "ADDR"
  PROVE  BlankAddress(CapturedDR(c))
<1> DEFINE f == Field("addr", c.cmd.addr)
           b == Bits(2, 2)
           w == <<Bit(IF c.cmd.write THEN 1 ELSE 0)>>
           g == f \o b
           r == CapturedDR(c)
<1>1. r = g \o w
  BY DEF CapturedDR
<1>2. f \in Seq(Signals) /\ Len(f) = 32 /\ f[2] = <<"addr", c.cmd.addr, 2>>
  <2>1. c.cmd.addr \in Addr \cup {Junk}
    BY DEF Chips
  <2>2. f \in Seq(Signals) /\ Len(f) = 32
    BY <2>1, RegisterTypes
  <2>3. f[2] = <<"addr", c.cmd.addr, 2>>
    BY DEF Field
  <2> QED BY <2>2, <2>3
<1>3. b \in Seq(Signals) /\ Len(b) = 2 /\ b[2] = Bit(BitOf(2, 2))
  BY BitsAre
<1>4. w \in Seq(Signals) /\ Len(w) = 1
  BY SignalTypes, OneSignal
<1>5. r \in Registers /\ Len(r) = 35
  BY CapturedType
<1> HIDE DEF f, b, w, r
<1>6. g \in Seq(Signals) /\ Len(g) = 34 /\ g[2] = f[2] /\ g[34] = b[2]
  <2>1. f \in Seq(Signals) /\ b \in Seq(Signals)
    BY <1>2, <1>3
  <2>2. Joined(g, f, 32, b, 2)
    BY <1>2, <1>3, <2>1, JoinedAt
  <2> HIDE DEF g
  <2>3. 2 \in 1..32 /\ 2 \in 1..2 /\ 32 + 2 = 34
    OBVIOUS
  <2> QED BY <2>2, <2>3 DEF Joined
<1> HIDE DEF g
<1>7. r[2] = g[2] /\ r[34] = g[34]
  <2>1. g \in Seq(Signals) /\ w \in Seq(Signals)
    BY <1>4, <1>6
  <2>2. Joined(r, g, 34, w, 1)
    BY <1>1, <1>4, <1>6, <2>1, JoinedAt
  <2>3. 2 \in 1..34 /\ 34 \in 1..34
    OBVIOUS
  <2> QED BY <2>2, <2>3 DEF Joined
<1>8. \A v : f[2] # <<"addr", v, 1>>
  BY <1>2
<1>9. \A v : b[2] # <<"addr", v, 1>>
  BY <1>3 DEF Bit
<1> QED BY <1>5, <1>6, <1>7, <1>8, <1>9 DEF BlankAddress, r

LEMMA CapturedWord ==
  ASSUME NEW c \in Chips, c.ir = "DATA"
  PROVE  /\ BlankWord(CapturedDR(c)) /\ Carries(CapturedDR(c), 0, "word", c.rdata)
         /\ CapturedDR(c)[33] = Bit(1)
<1> DEFINE f == Field("word", c.rdata)
           w == <<Bit(1)>>
           r == CapturedDR(c)
<1>1. r = f \o w
  BY DEF CapturedDR
<1>2. f \in Seq(Signals) /\ Len(f) = 32 /\ \A k \in 1..32 : f[k] = <<"word", c.rdata, k>>
  BY RegisterTypes DEF Chips, Field
<1>3. w \in Seq(Signals) /\ Len(w) = 1 /\ w[1] = Bit(1)
  BY SignalTypes, OneSignal
<1>4. r \in Registers /\ Len(r) = 33
  BY CapturedType
<1> HIDE DEF f, w, r
<1>5. r[33] = Bit(1) /\ \A k \in 1..32 : r[k] = <<"word", c.rdata, k>>
  <2>1. f \in Seq(Signals) /\ w \in Seq(Signals)
    BY <1>2, <1>3
  <2>2. Joined(r, f, 32, w, 1)
    BY <1>1, <1>2, <1>3, <2>1, JoinedAt
  <2>3. \A k \in 1..32 : r[k] = f[k]
    BY <2>2 DEF Joined
  <2>4. r[33] = w[1]
    <3>1. 32 + 1 = 33 /\ 1 \in 1..1
      OBVIOUS
    <3> QED BY <2>2, <3>1 DEF Joined
  <2> QED BY <1>2, <1>3, <2>3, <2>4
<1>6. \A k \in 1..32 : 0 + k = k
  OBVIOUS
<1>7. r[2] = <<"word", c.rdata, 2>>
  BY <1>5
<1>8. \A v : r[2] # <<"word", v, 1>>
  BY <1>7
<1> QED BY <1>4, <1>5, <1>6, <1>8 DEF BlankWord, Carries, r

(* From Exit1-IR to Shift-DR: the new register is selected and captured. *)
LEMMA SelectsRegister ==
  ASSUME NEW c \in Chips, c.tap = "Exit1IR"
  PROVE  LET d == Do(c, Tms(4, 3))
         IN  \E e \in Chips : /\ Moved(c, e, "SelectDR", Selected(c.ireg), c.ireg, c.dreg)
                              /\ Moved(c, d, "ShiftDR", Selected(c.ireg), c.ireg, CapturedDR(e))
<1>1. PICK f : /\ f[0] = c /\ Do(c, Tms(4, 3)) = f[4]
               /\ f[1] = Clock(f[0], 1, Bit(0)) /\ f[2] = Clock(f[1], 1, Bit(0))
               /\ f[3] = Clock(f[2], 0, Bit(0)) /\ f[4] = Clock(f[3], 0, Bit(0))
  BY WalkOfToShiftDR
<1>2. Moved(c, f[1], "UpdateIR", Selected(c.ireg), c.ireg, c.dreg)
  BY <1>1, Lows, EdgeUpdateIR
<1>3. Moved(f[1], f[2], "SelectDR", f[1].ir, f[1].ireg, f[1].dreg)
  BY <1>1, <1>2, Lows, EdgeQuiet DEF TapNext, Acting, Moved
<1>4. Moved(f[2], f[3], "CaptureDR", f[2].ir, f[2].ireg, CapturedDR(f[2]))
  BY <1>1, <1>3, Lows, EdgeCaptureDR DEF Moved
<1>5. Moved(f[3], f[4], "ShiftDR", f[3].ir, f[3].ireg, f[3].dreg)
  BY <1>1, <1>4, Lows, EdgeQuiet DEF TapNext, Acting, Moved
<1>6. f[2] \in Chips /\ Moved(c, f[2], "SelectDR", Selected(c.ireg), c.ireg, c.dreg)
  BY <1>2, <1>3 DEF Moved
<1>7. Moved(c, f[4], "ShiftDR", Selected(c.ireg), c.ireg, CapturedDR(f[2]))
  BY <1>2, <1>3, <1>4, <1>5 DEF Moved
<1> QED BY <1>1, <1>6, <1>7

(* From Exit1-DR back to Shift-DR, through Update-DR. *)
LEMMA LoopsToShiftDR ==
  ASSUME NEW c \in Chips, c.tap = "Exit1DR"
  PROVE  LET d == Do(c, Tms(4, 3))
         IN  /\ d \in Chips /\ d.tap = "ShiftDR" /\ d.ir = c.ir /\ d.out = c.out
             /\ Passed(Content(c.ir, c.dreg), c, d)
             /\ \E e \in Chips : /\ e.ir = c.ir /\ SameBus(e, d)
                                 /\ d.dreg = CapturedDR(e)
<1>1. PICK f : /\ f[0] = c /\ Do(c, Tms(4, 3)) = f[4]
               /\ f[1] = Clock(f[0], 1, Bit(0)) /\ f[2] = Clock(f[1], 1, Bit(0))
               /\ f[3] = Clock(f[2], 0, Bit(0)) /\ f[4] = Clock(f[3], 0, Bit(0))
  BY WalkOfToShiftDR
<1>2. /\ f[1] \in Chips /\ f[1].tap = "UpdateDR" /\ f[1].ir = c.ir
      /\ HandedOver(c.dreg, c, f[1])
  BY <1>1, Lows, ClockUpdates
<1>3. Moved(f[1], f[2], "SelectDR", f[1].ir, f[1].ireg, f[1].dreg)
  BY <1>1, <1>2, Lows, EdgeQuiet DEF TapNext, Acting
<1>4. Moved(f[2], f[3], "CaptureDR", f[2].ir, f[2].ireg, CapturedDR(f[2]))
  BY <1>1, <1>3, Lows, EdgeCaptureDR DEF Moved
<1>5. Moved(f[3], f[4], "ShiftDR", f[3].ir, f[3].ireg, f[3].dreg)
  BY <1>1, <1>4, Lows, EdgeQuiet DEF TapNext, Acting, Moved
<1>6. /\ f[2] \in Chips /\ f[2].ir = c.ir /\ SameBus(f[2], f[4]) /\ f[4].dreg = CapturedDR(f[2])
      /\ SameBus(f[1], f[4]) /\ f[4].out = f[1].out
      /\ f[4] \in Chips /\ f[4].tap = "ShiftDR" /\ f[4].ir = c.ir
  BY <1>2, <1>3, <1>4, <1>5 DEF Moved, SameBus
<1>7. Passed(Content(c.ir, c.dreg), c, f[1]) /\ f[1].out = c.out
  BY <1>2, HandedOverPasses
<1>8. Passed(Content(c.ir, c.dreg), c, f[4])
  BY <1>6, <1>7, SamePass DEF SameBus
<1> QED BY <1>1, <1>6, <1>7, <1>8

(* From Shift-DR back to it, with a last bit of 1. *)
LEMMA LoopsWithOne ==
  ASSUME NEW c \in Chips, c.tap = "ShiftDR"
  PROVE  LET d == Do(c, Tms(5, 135))
         IN  /\ d \in Chips /\ d.tap = "ShiftDR" /\ d.ir = c.ir /\ d.out = c.out
             /\ Passed(Content(c.ir, ShiftIn(c.dreg, <<Bit(1)>>)), c, d)
             /\ \E e \in Chips : /\ e.ir = c.ir /\ SameBus(e, d)
                                 /\ d.dreg = CapturedDR(e)
<1>1. PICK f : /\ f[0] = c /\ Do(c, Tms(5, 135)) = f[5]
               /\ f[1] = Clock(f[0], 1, Bit(1)) /\ f[2] = Clock(f[1], 1, Bit(1))
               /\ f[3] = Clock(f[2], 1, Bit(1)) /\ f[4] = Clock(f[3], 0, Bit(1))
               /\ f[5] = Clock(f[4], 0, Bit(1))
  BY WalkOfLoopAfterRead
<1> DEFINE x == ShiftIn(c.dreg, <<Bit(1)>>)
<1>2. Moved(c, f[1], "Exit1DR", c.ir, c.ireg, x)
  BY <1>1, Lows, LeaveShiftDR
<1> HIDE DEF x
<1>3. /\ f[2] \in Chips /\ f[2].tap = "UpdateDR" /\ f[2].ir = f[1].ir
      /\ HandedOver(f[1].dreg, f[1], f[2])
  BY <1>1, <1>2, Lows, ClockUpdates DEF Moved
<1>4. Moved(f[2], f[3], "SelectDR", f[2].ir, f[2].ireg, f[2].dreg)
  BY <1>1, <1>3, Lows, EdgeQuiet DEF TapNext, Acting
<1>5. Moved(f[3], f[4], "CaptureDR", f[3].ir, f[3].ireg, CapturedDR(f[3]))
  BY <1>1, <1>4, Lows, EdgeCaptureDR DEF Moved
<1>6. Moved(f[4], f[5], "ShiftDR", f[4].ir, f[4].ireg, f[4].dreg)
  BY <1>1, <1>5, Lows, EdgeQuiet DEF TapNext, Acting, Moved
<1>7. /\ f[3] \in Chips /\ f[3].ir = c.ir /\ SameBus(f[3], f[5]) /\ f[5].dreg = CapturedDR(f[3])
      /\ SameBus(f[1], c) /\ SameBus(f[2], f[5]) /\ f[5].out = f[2].out /\ f[1].out = c.out
      /\ f[5] \in Chips /\ f[5].tap = "ShiftDR" /\ f[5].ir = c.ir
      /\ f[1].ir = c.ir /\ f[1].dreg = x
  BY <1>2, <1>3, <1>4, <1>5, <1>6 DEF Moved, SameBus
<1>8. Passed(Content(c.ir, x), f[1], f[2]) /\ f[2].out = f[1].out
  BY <1>3, <1>7, HandedOverPasses
<1>9. Passed(Content(c.ir, x), c, f[5])
  BY <1>7, <1>8, SamePass
<1> QED BY <1>1, <1>7, <1>8, <1>9 DEF x

(* From Exit1-DR to Shift-IR, through Update-DR. *)
LEMMA BackToInstructions ==
  ASSUME NEW c \in Chips, c.tap = "Exit1DR"
  PROVE  LET d == Do(c, Tms(5, 7))
         IN  /\ d \in Chips /\ d.tap = "ShiftIR" /\ d.ireg = Bits(6, 1) /\ d.out = c.out
             /\ Passed(Content(c.ir, c.dreg), c, d)
<1>1. PICK f : /\ f[0] = c /\ Do(c, Tms(5, 7)) = f[5]
               /\ f[1] = Clock(f[0], 1, Bit(0)) /\ f[2] = Clock(f[1], 1, Bit(0))
               /\ f[3] = Clock(f[2], 1, Bit(0)) /\ f[4] = Clock(f[3], 0, Bit(0))
               /\ f[5] = Clock(f[4], 0, Bit(0))
  BY WalkOfBackToShiftIR
<1>2. /\ f[1] \in Chips /\ f[1].tap = "UpdateDR" /\ f[1].ir = c.ir
      /\ HandedOver(c.dreg, c, f[1])
  BY <1>1, Lows, ClockUpdates
<1>3. Moved(f[1], f[2], "SelectDR", f[1].ir, f[1].ireg, f[1].dreg)
  BY <1>1, <1>2, Lows, EdgeQuiet DEF TapNext, Acting
<1>4. Moved(f[2], f[3], "SelectIR", f[2].ir, f[2].ireg, f[2].dreg)
  BY <1>1, <1>3, Lows, EdgeQuiet DEF TapNext, Acting, Moved
<1>5. Moved(f[3], f[4], "CaptureIR", f[3].ir, Bits(6, 1), f[3].dreg)
  BY <1>1, <1>4, Lows, EdgeCaptureIR DEF Moved
<1>6. Moved(f[4], f[5], "ShiftIR", f[4].ir, f[4].ireg, f[4].dreg)
  BY <1>1, <1>5, Lows, EdgeQuiet DEF TapNext, Acting, Moved
<1>7. /\ SameBus(f[1], f[5]) /\ f[5].out = f[1].out
      /\ f[5] \in Chips /\ f[5].tap = "ShiftIR" /\ f[5].ireg = Bits(6, 1)
  BY <1>3, <1>4, <1>5, <1>6 DEF Moved, SameBus
<1>8. Passed(Content(c.ir, c.dreg), c, f[1]) /\ f[1].out = c.out
  BY <1>2, HandedOverPasses
<1>9. Passed(Content(c.ir, c.dreg), c, f[5])
  BY <1>7, <1>8, SamePass DEF SameBus
<1> QED BY <1>1, <1>7, <1>8, <1>9

-----------------------------------------------------------------------------
(* Shifting fields *)

NoShift == [reg |-> "NONE"]
Address(a, w) == [reg |-> "ADDR", addr |-> a, write |-> w]
Datum(v, s) == [reg |-> "DATA", data |-> v, seq |-> s]

(* What one more bit makes of a register. *)
LEMMA OneMoreJunk ==
  ASSUME NEW reg \in Registers, Len(reg) >= 33, NEW s \in Signals, NEW tag,
         \A v : reg[2] # <<tag, v, 1>>
  PROVE  ReadField(tag, ShiftIn(reg, <<s>>)) = Junk
<1> DEFINE z == ShiftIn(reg, <<s>>)
<1>1. /\ z \in Registers /\ Len(z) = Len(reg)
      /\ \A k \in 1..Len(reg) - 1 : z[k] = reg[k + 1]
  BY ShiftInOne
<1> HIDE DEF z
<1>2. z \in Seq(Signals) /\ Len(z) >= 32 /\ Len(reg) \in Nat
  BY <1>1 DEF Registers
<1>3. z[1] = reg[2]
  <2>1. 1 \in 1..Len(reg) - 1 /\ 1 + 1 = 2
    BY <1>2
  <2> QED BY <1>1, <2>1
<1>4. \A v : z[1] # <<tag, v, 1>>
  BY <1>3
<1>5. ReadField(tag, z) = Junk
  BY <1>2, <1>4, ReadsJunk
<1> QED BY <1>5 DEF z

LEMMA OneMoreField ==
  ASSUME NEW reg \in Registers, Len(reg) >= 33, NEW s \in Signals, NEW tag, NEW v,
         Carries(reg, 1, tag, v)
  PROVE  Carries(ShiftIn(reg, <<s>>), 0, tag, v) /\ ReadField(tag, ShiftIn(reg, <<s>>)) = v
<1> DEFINE z == ShiftIn(reg, <<s>>)
<1>1. /\ z \in Registers /\ Len(z) = Len(reg)
      /\ \A k \in 1..Len(reg) - 1 : z[k] = reg[k + 1]
  BY ShiftInOne
<1> HIDE DEF z
<1>2. z \in Seq(Signals) /\ Len(z) >= 32 /\ Len(reg) \in Nat
  BY <1>1 DEF Registers
<1>3. ASSUME NEW k \in 1..32 PROVE z[0 + k] = <<tag, v, k>>
  <2>1. z[k] = reg[k + 1]
    BY <1>1, <1>2
  <2>2. reg[1 + k] = <<tag, v, k>>
    BY DEF Carries
  <2>3. 1 + k = k + 1 /\ 0 + k = k
    OBVIOUS
  <2> QED BY <2>1, <2>2, <2>3
<1>4. Carries(z, 0, tag, v)
  BY <1>3 DEF Carries
<1>5. ReadField(tag, z) = v
  BY <1>2, <1>4, ReadsField
<1> QED BY <1>4, <1>5 DEF z

LEMMA BitsDiffer == Bit(0) # Bit(1)
BY DEF Bit

(* A whole field behind what was there. *)
LEMMA FieldShifted ==
  ASSUME NEW reg \in Registers, NEW n \in 32..35, Len(reg) = n, NEW tag, NEW v,
         Field(tag, v) \in Seq(Signals), Len(Field(tag, v)) = 32
  PROVE  LET z == ShiftIn(reg, Field(tag, v))
         IN  /\ z \in Registers /\ Len(z) = n /\ Carries(z, n - 32, tag, v)
             /\ \A k \in 1..n - 32 : z[k] = reg[k + 32]
<1> DEFINE f == Field(tag, v)
           b(k) == <<tag, v, k>>
           z == ShiftIn(reg, f)
<1>1. f \in Seq(Signals) /\ Len(f) = 32 /\ \A k \in 1..32 : f[k] = b(k)
  BY DEF Field
<1> HIDE DEF f, b
<1>2. /\ z \in Registers /\ Len(z) = n
      /\ \A k \in 1..n - 32 : z[k] = reg[k + 32]
      /\ \A k \in 1..32 : z[(n - 32) + k] = f[k]
  <2>1. Len(f) <= Len(reg)
    BY <1>1
  <2>2. /\ z \in Registers /\ Len(z) = Len(reg)
        /\ \A k \in 1..Len(reg) - Len(f) : z[k] = reg[k + Len(f)]
        /\ \A k \in 1..Len(f) : z[(Len(reg) - Len(f)) + k] = f[k]
    BY <1>1, <2>1, ShiftInMany
  <2> HIDE DEF z
  <2> QED BY <1>1, <2>2
<1> HIDE DEF z
<1>3. Carries(z, n - 32, tag, v)
  BY <1>1, <1>2 DEF Carries, b
<1> QED BY <1>2, <1>3 DEF z, f

LEMMA SizeShifted ==
  ASSUME NEW reg \in Registers, Len(reg) = 35, NEW size \in 0..3, NEW a,
         Carries(reg, 3, "addr", a)
  PROVE  LET z == ShiftIn(reg, Bits(2, size))
         IN  z \in Registers /\ Len(z) = 35 /\ Carries(z, 1, "addr", a)
<1> DEFINE b == Bits(2, size)
           z == ShiftIn(reg, b)
<1>1. b \in Seq(Signals) /\ Len(b) = 2
  <2>1. 2 \in 0..8 /\ size \in Int
    OBVIOUS
  <2> QED BY <2>1, BitsAre
<1> HIDE DEF b
<1>2. z \in Registers /\ Len(z) = 35 /\ \A k \in 1..33 : z[k] = reg[k + 2]
  <2>1. Len(b) <= Len(reg)
    BY <1>1
  <2>2. /\ z \in Registers /\ Len(z) = Len(reg)
        /\ \A k \in 1..Len(reg) - Len(b) : z[k] = reg[k + Len(b)]
    BY <1>1, <2>1, ShiftInMany
  <2> HIDE DEF z
  <2> QED BY <1>1, <2>2
<1> HIDE DEF z
<1>3. ASSUME NEW k \in 1..32 PROVE z[1 + k] = <<"addr", a, k>>
  <2>1. 1 + k \in 1..33 /\ (1 + k) + 2 = 3 + k
    OBVIOUS
  <2>2. reg[3 + k] = <<"addr", a, k>>
    BY DEF Carries
  <2> QED BY <1>2, <2>1, <2>2
<1> QED BY <1>2, <1>3 DEF Carries, z, b

(* Zeros, so many that nothing is left of what was there, or more of them. *)
Cleared(reg) == reg \in Registers /\ Len(reg) = 35 /\ \A k \in 1..35 : reg[k] = Bit(0)

LEMMA ZerosShifted ==
  ASSUME NEW reg \in Registers, Len(reg) = 35, NEW n \in Nat, n >= 35 \/ Cleared(reg)
  PROVE  Cleared(ShiftIn(reg, Zeros(n)))
<1> DEFINE b == Zeros(n)
           z == ShiftIn(reg, b)
<1>1. b \in Seq(Signals) /\ Len(b) = n /\ \A k \in 1..n : b[k] = Bit(0)
  BY RegisterTypes DEF Zeros
<1> HIDE DEF b
<1>2. reg \in Seq(Signals)
  BY DEF Registers
<1>3. /\ z \in Seq(Signals) /\ Len(z) = 35
      /\ \A k \in 1..35 : z[k] = IF k + n <= 35 THEN reg[k + n] ELSE b[(k + n) - 35]
  <2>1. /\ z \in Seq(Signals) /\ Len(z) = Len(reg)
        /\ \A k \in 1..Len(reg) : z[k] = IF k + Len(b) <= Len(reg) THEN reg[k + Len(b)]
                                         ELSE b[(k + Len(b)) - Len(reg)]
    BY <1>1, <1>2, ShiftInType
  <2> HIDE DEF z
  <2> QED BY <1>1, <2>1
<1> HIDE DEF z
<1>4. ASSUME NEW k \in 1..35 PROVE z[k] = Bit(0)
  <2>1. CASE k + n <= 35
    <3>1. n < 35 /\ k + n \in 1..35
      BY <2>1
    <3>2. Cleared(reg)
      BY <3>1
    <3>3. reg[k + n] = Bit(0)
      BY <3>1, <3>2 DEF Cleared
    <3>4. z[k] = reg[k + n]
      BY <1>3, <2>1
    <3> QED BY <3>3, <3>4
  <2>2. CASE ~(k + n <= 35)
    <3>1. (k + n) - 35 \in 1..n
      BY <2>2
    <3> QED BY <1>1, <1>3, <2>2, <3>1
  <2> QED BY <2>1, <2>2
<1>5. z \in Registers
  <2>1. z \in Seq(Signals) /\ Len(z) # 0
    BY <1>3
  <2> QED BY <2>1, IsRegister
<1> QED BY <1>3, <1>4, <1>5 DEF Cleared, z, b

LEMMA ClearedIsBlank ==
  ASSUME NEW reg, Cleared(reg)
  PROVE  BlankAddress(reg)
<1>1. reg[2] = Bit(0) /\ reg[34] = Bit(0)
  BY DEF Cleared
<1>2. \A v : Bit(0) # <<"addr", v, 1>>
  BY DEF Bit
<1> QED BY <1>1, <1>2 DEF Cleared, BlankAddress

-----------------------------------------------------------------------------
(* Batches *)

(* Where a batch that has clocked nothing through Update-DR leaves a chip. *)
Left(c, S) ==
  {d \in Chips : d.tap \in Parking /\ ParkedIn(d) \in S /\ SameBus(c, d) /\ d.out = c.out}

LEMMA LeftMoved ==
  ASSUME NEW c, NEW d, NEW t, NEW ir, NEW ireg, NEW dreg, Moved(c, d, t, ir, ireg, dreg),
         t \in Parking \ {"ShiftDR", "Exit1DR"}, NEW S, NoShift \in S
  PROVE  d \in Left(c, S)
<1>1. ParkedIn(d) = NoShift
  BY DEF Moved, ParkedIn, NoShift
<1> QED BY <1>1 DEF Moved, Left, SameBus

LEMMA LeftTwice ==
  ASSUME NEW c, NEW d, SameBus(c, d), d.out = c.out, NEW S, NEW T, S \subseteq T
  PROVE  Left(d, S) \subseteq Left(c, T)
BY DEF Left, SameBus

(* What is parked in Shift-DR, by the content of the register. *)
LEMMA ParkedAddress ==
  ASSUME NEW d, d.tap = "ShiftDR", d.ir = "ADDR", d.dreg \in Registers, Len(d.dreg) = 35
  PROVE  /\ (\A v : d.dreg[2] # <<"addr", v, 1>>) => ParkedIn(d) = Address(Junk, FALSE)
         /\ \A a : Carries(d.dreg, 1, "addr", a) => ParkedIn(d) = Address(a, FALSE)
<1> DEFINE reg == d.dreg
           b == Bit(0)
           z == ShiftIn(reg, <<b>>)
<1>1. /\ z[35] = b
      /\ (\A v : reg[2] # <<"addr", v, 1>>) => ReadField("addr", z) = Junk
      /\ \A v : Carries(reg, 1, "addr", v) => ReadField("addr", z) = v
  <2>1. reg \in Registers /\ Len(reg) = 35 /\ Len(reg) >= 33
    OBVIOUS
  <2>2. b \in Signals
    BY Lows
  <2> HIDE DEF reg, b
  <2>3. z[Len(reg)] = b
    BY <2>1, <2>2, ShiftInOne
  <2>4. ASSUME \A v : reg[2] # <<"addr", v, 1>> PROVE ReadField("addr", z) = Junk
    BY <2>1, <2>2, <2>4, OneMoreJunk
  <2>5. ASSUME NEW v, Carries(reg, 1, "addr", v) PROVE ReadField("addr", z) = v
    BY <2>1, <2>2, <2>5, OneMoreField
  <2> QED BY <2>1, <2>3, <2>4, <2>5
<1>2. ParkedIn(d) = Content("ADDR", z)
  BY DEF ParkedIn
<1> HIDE DEF z
<1>3. Content("ADDR", z) = Address(ReadField("addr", z), z[35] = Bit(1))
  BY DEF Content, Address
<1>4. (z[35] = Bit(1)) = FALSE
  BY <1>1, BitsDiffer
<1> QED BY <1>1, <1>2, <1>3, <1>4

LEMMA ParkedWord ==
  ASSUME NEW d, d.tap = "ShiftDR", d.ir = "DATA", d.dreg \in Registers, Len(d.dreg) = 33
  PROVE  /\ (\A v : d.dreg[2] # <<"word", v, 1>>) => ParkedIn(d) = Datum(Junk, FALSE)
         /\ \A w : Carries(d.dreg, 1, "word", w) => ParkedIn(d) = Datum(w, FALSE)
<1> DEFINE reg == d.dreg
           b == Bit(0)
           z == ShiftIn(reg, <<b>>)
<1>1. /\ z[33] = b
      /\ (\A v : reg[2] # <<"word", v, 1>>) => ReadField("word", z) = Junk
      /\ \A v : Carries(reg, 1, "word", v) => ReadField("word", z) = v
  <2>1. reg \in Registers /\ Len(reg) = 33 /\ Len(reg) >= 33
    OBVIOUS
  <2>2. b \in Signals
    BY Lows
  <2> HIDE DEF reg, b
  <2>3. z[Len(reg)] = b
    BY <2>1, <2>2, ShiftInOne
  <2>4. ASSUME \A v : reg[2] # <<"word", v, 1>> PROVE ReadField("word", z) = Junk
    BY <2>1, <2>2, <2>4, OneMoreJunk
  <2>5. ASSUME NEW v, Carries(reg, 1, "word", v) PROVE ReadField("word", z) = v
    BY <2>1, <2>2, <2>5, OneMoreField
  <2> QED BY <2>1, <2>3, <2>4, <2>5
<1>2. ParkedIn(d) = Content("DATA", z)
  BY DEF ParkedIn
<1> HIDE DEF z
<1>3. Content("DATA", z) = Datum(ReadField("word", z), z[33] = Bit(1))
  BY DEF Content, Datum
<1>4. (z[33] = Bit(1)) = FALSE
  BY <1>1, BitsDiffer
<1> QED BY <1>1, <1>2, <1>3, <1>4

(* The address register is selected, and nothing has been put in it. *)
AddressOpen(c) == c.tap = "ShiftDR" /\ c.ir = "ADDR" /\ BlankAddress(c.dreg)

LEMMA OpenAddressParks ==
  ASSUME NEW d, AddressOpen(d)
  PROVE  ParkedIn(d) = Address(Junk, FALSE)
BY ParkedAddress DEF AddressOpen, BlankAddress

LEMMA Tapped == /\ "ShiftDR" \in Parking /\ "Exit1DR" \in Parking /\ "ShiftIR" \in Parking
                /\ "Exit1IR" \in Parking /\ "TestLogicReset" \in Parking
BY DEF Parking

LEMMA SelectsAddress ==
  ASSUME NEW c \in Chips, c.tap = "TestLogicReset"
  PROVE  LET d == Run(c, SelectAddress)
         IN  /\ d \in Chips /\ AddressOpen(d) /\ SameBus(c, d) /\ d.out = c.out
             /\ Cuts(c, SelectAddress) \subseteq Left(c, {NoShift, Address(Junk, FALSE)})
<1> DEFINE x == Tdi(Bits(5, CODE_ADDR_COMM))
           y == Tms(1, ((CODE_ADDR_COMM * 4) % 256) + 1)
           s == <<ToShiftIR>>
           t == <<x, y>>
           u == <<ToShiftDR>>
           c1 == Do(c, ToShiftIR)
           c2 == Do(c1, x)
           c3 == Do(c2, y)
           d == Do(c3, ToShiftDR)
           S == {ToShiftIR, x, y, ToShiftDR}
           L == Left(c, {NoShift, Address(Junk, FALSE)})
<1>1. SelectAddress = (s \o t) \o u
  BY DEF SelectAddress, Opcode
<1>2. s \in Seq(S) /\ t \in Seq(S) /\ u \in Seq(S)
  OBVIOUS
<1>3. Moved(c, c1, "ShiftIR", "IDCODE", Bits(6, 1), c.dreg)
  BY ToShiftIRWalks
<1>4. Moved(c1, c2, "ShiftIR", c1.ir, c2.ireg, c1.dreg)
      /\ Moved(c1, c3, "Exit1IR", c1.ir, Bits(6, CODE_ADDR_COMM), c1.dreg)
  <2>1. c1 \in Chips /\ c1.tap = "ShiftIR" /\ Len(c1.ireg) = 6
    BY <1>3, BitsAre DEF Moved
  <2> HIDE DEF c1
  <2> QED BY <2>1, CodesAssumption, OpcodeShifted
<1>5. PICK e \in Chips : /\ Moved(c3, e, "SelectDR", "ADDR", c3.ireg, c3.dreg)
                         /\ Moved(c3, d, "ShiftDR", "ADDR", c3.ireg, CapturedDR(e))
  <2>1. c3 \in Chips /\ c3.tap = "Exit1IR" /\ Selected(c3.ireg) = "ADDR"
    BY <1>4, SelectedBy DEF Moved
  <2> HIDE DEF c3
  <2> QED BY <2>1, SelectsRegister DEF ToShiftDR
<1>6. Does(c, s, c1, {c, c1}) /\ Does(c1, t, c3, {c1, c2, c3}) /\ Does(c3, u, d, {c3, d})
  BY DoesOne, DoesTwo
<1> HIDE DEF s, t, u, c1, c2, c3, d, x, y, S
<1> DEFINE v == s \o t
<1>7. v \in Seq(S)
  BY <1>2
<1>8. Does(c, v, c3, {c, c1} \cup {c1, c2, c3})
  BY <1>2, <1>6, DoesBoth
<1> HIDE DEF v
<1>9. Does(c, v \o u, d, ({c, c1} \cup {c1, c2, c3}) \cup {c3, d})
  BY <1>2, <1>6, <1>7, <1>8, DoesBoth
<1>10. Run(c, SelectAddress) = d /\ Cuts(c, SelectAddress) \subseteq {c, c1, c2, c3, d}
  BY <1>1, <1>9 DEF v, Does
<1>11. Moved(c, c2, "ShiftIR", c1.ir, c2.ireg, c1.dreg)
  BY <1>3, <1>4, MovedTwice
<1>12. Moved(c, c3, "Exit1IR", c1.ir, Bits(6, CODE_ADDR_COMM), c1.dreg)
  BY <1>3, <1>4, MovedTwice
<1>13. d \in Chips /\ AddressOpen(d) /\ SameBus(c, d) /\ d.out = c.out
  <2>1. BlankAddress(CapturedDR(e))
    BY <1>5, CapturedAddress DEF Moved
  <2> QED BY <1>5, <1>12, <2>1 DEF Moved, AddressOpen, SameBus
<1>14. c \in L
  <2>1. ParkedIn(c) = NoShift
    BY DEF ParkedIn, NoShift
  <2> QED BY <2>1, Tapped DEF Left, SameBus
<1>15. c1 \in L /\ c2 \in L /\ c3 \in L
  <2>1. "ShiftIR" \in Parking \ {"ShiftDR", "Exit1DR"} /\ "Exit1IR" \in Parking \ {"ShiftDR", "Exit1DR"}
    BY Tapped
  <2> QED BY <1>3, <1>11, <1>12, <2>1, LeftMoved
<1>16. d \in L
  <2>1. ParkedIn(d) = Address(Junk, FALSE)
    BY <1>13, OpenAddressParks
  <2> QED BY <1>13, <2>1, Tapped DEF Left, AddressOpen
<1> QED BY <1>10, <1>13, <1>14, <1>15, <1>16

LEMMA LeftOpen ==
  ASSUME NEW c, NEW d \in Chips, d.tap \in {"ShiftDR", "Exit1DR"}, SameBus(c, d), d.out = c.out,
         NEW S, ParkedIn(d) \in S
  PROVE  d \in Left(c, S)
BY Tapped DEF Left

(* The address is shifted in, and parked with the RW bit. *)
LEMMA ParksAddress ==
  ASSUME NEW c \in Chips, AddressOpen(c), NEW a \in Addr, NEW size \in 0..3, NEW rw \in {0, 1}
  PROVE  \E d \in Chips :
           /\ d.tap = "Exit1DR" /\ d.ir = "ADDR" /\ SameBus(c, d) /\ d.out = c.out
           /\ Content("ADDR", d.dreg) = Address(a, rw = 1)
           /\ Does(c, AddressPhase(a, size, rw), d,
                   Left(c, {Address(Junk, FALSE), Address(a, FALSE), Address(a, rw = 1)}))
<1> DEFINE f == Field("addr", a)
           b == Bits(2, size)
           byte == 1 + 128 * rw
           c1 == Do(c, Tdi(f))
           c2 == Do(c1, Tdi(b))
           d == Do(c2, Tms(1, byte))
           L == Left(c, {Address(Junk, FALSE), Address(a, FALSE), Address(a, rw = 1)})
<1>1. f \in Seq(Signals) /\ Len(f) = 32
  BY RegisterTypes
<1>2. b \in Seq(Signals)
  <2>1. 2 \in 0..8 /\ size \in Int
    OBVIOUS
  <2> QED BY <2>1, BitsAre
<1>3. byte \in 0..255 /\ byte % 2 = 1 /\ byte \div 128 = rw
  OBVIOUS
<1>4. c.dreg \in Registers /\ Len(c.dreg) = 35 /\ c.tap = "ShiftDR" /\ c.ir = "ADDR"
  BY DEF AddressOpen, BlankAddress
<1> DEFINE x == ShiftIn(c.dreg, f)
           y == ShiftIn(x, b)
           z == ShiftIn(y, <<Bit(rw)>>)
<1>5. x \in Registers /\ Len(x) = 35 /\ Carries(x, 3, "addr", a) /\ x[2] = c.dreg[34]
  <2>1. 35 - 32 = 3 /\ 35 \in 32..35 /\ 2 \in 1..3 /\ 2 + 32 = 34
    OBVIOUS
  <2>2. /\ x \in Registers /\ Len(x) = 35 /\ Carries(x, 35 - 32, "addr", a)
        /\ \A k \in 1..35 - 32 : x[k] = c.dreg[k + 32]
    BY <1>1, <1>4, <2>1, FieldShifted
  <2> HIDE DEF x
  <2> QED BY <2>1, <2>2
<1>6. y \in Registers /\ Len(y) = 35 /\ Carries(y, 1, "addr", a)
  <2> HIDE DEF x
  <2> QED BY <1>5, SizeShifted
<1>7. Carries(z, 0, "addr", a) /\ ReadField("addr", z) = a /\ z[35] = Bit(rw) /\ z \in Registers
  <2>1. Bit(rw) \in Signals
    BY SignalTypes
  <2> HIDE DEF y
  <2>2. Len(y) >= 33
    BY <1>6
  <2>3. Carries(z, 0, "addr", a) /\ ReadField("addr", z) = a
    BY <1>6, <2>1, <2>2, OneMoreField
  <2>4. z[Len(y)] = Bit(rw) /\ z \in Registers
    BY <1>6, <2>1, ShiftInOne
  <2> QED BY <1>6, <2>3, <2>4
<1>8. Moved(c, c1, "ShiftDR", "ADDR", c.ireg, x)
  <2> HIDE DEF f
  <2> QED BY <1>1, <1>4, TdiInShiftDR
<1> HIDE DEF f, b, byte, c1
<1>9. Moved(c1, c2, "ShiftDR", "ADDR", c1.ireg, y)
  <2>1. c1 \in Chips /\ c1.tap = "ShiftDR" /\ c1.ir = "ADDR" /\ c1.dreg = x
    BY <1>8 DEF Moved
  <2> HIDE DEF x
  <2>2. Moved(c1, c2, "ShiftDR", c1.ir, c1.ireg, ShiftIn(c1.dreg, b))
    BY <1>2, <2>1, TdiInShiftDR
  <2> QED BY <2>1, <2>2
<1> HIDE DEF c2
<1>10. Moved(c2, d, "Exit1DR", "ADDR", c2.ireg, z)
  <2>1. c2 \in Chips /\ c2.tap = "ShiftDR" /\ c2.ir = "ADDR" /\ c2.dreg = y
    BY <1>9 DEF Moved
  <2> HIDE DEF x, y
  <2>2. d = Clock(c2, 1, Bit(rw))
    BY <1>3, <2>1, WalkOfOne
  <2>3. Bit(rw) \in Signals
    BY SignalTypes
  <2> HIDE DEF d
  <2>4. Moved(c2, d, "Exit1DR", c2.ir, c2.ireg, ShiftIn(c2.dreg, <<Bit(rw)>>))
    BY <2>1, <2>2, <2>3, LeaveShiftDR
  <2> QED BY <2>1, <2>4
<1> HIDE DEF x, y, z, d
<1>11. c \in L
  <2>1. ParkedIn(c) = Address(Junk, FALSE)
    BY OpenAddressParks
  <2> QED BY <1>4, <2>1, LeftOpen DEF SameBus
<1>12. c1 \in L
  <2>1. c1 \in Chips /\ c1.tap = "ShiftDR" /\ c1.ir = "ADDR" /\ c1.dreg = x
        /\ SameBus(c, c1) /\ c1.out = c.out
    BY <1>8 DEF Moved, SameBus
  <2>2. \A v : x[2] # <<"addr", v, 1>>
    BY <1>5 DEF AddressOpen, BlankAddress
  <2>3. ParkedIn(c1) = Address(Junk, FALSE)
    BY <1>5, <2>1, <2>2, ParkedAddress
  <2> QED BY <2>1, <2>3, LeftOpen
<1>13. c2 \in L
  <2>1. c2 \in Chips /\ c2.tap = "ShiftDR" /\ c2.ir = "ADDR" /\ c2.dreg = y
        /\ SameBus(c, c2) /\ c2.out = c.out
    BY <1>8, <1>9 DEF Moved, SameBus
  <2>2. ParkedIn(c2) = Address(a, FALSE)
    BY <1>6, <2>1, ParkedAddress
  <2> QED BY <2>1, <2>2, LeftOpen
<1>14. /\ d \in Chips /\ d.tap = "Exit1DR" /\ d.ir = "ADDR" /\ d.dreg = z
       /\ SameBus(c, d) /\ d.out = c.out
  BY <1>8, <1>9, <1>10 DEF Moved, SameBus
<1>15. Content("ADDR", d.dreg) = Address(a, rw = 1)
  <2>1. (z[35] = Bit(1)) = (rw = 1)
    BY <1>7, BitsDiffer
  <2> QED BY <1>7, <1>14, <2>1 DEF Content, Address
<1>16. d \in L
  <2>1. ParkedIn(d) = Address(a, rw = 1)
    BY <1>14, <1>15 DEF ParkedIn
  <2> QED BY <1>14, <2>1, LeftOpen
<1>17. Does(c, AddressPhase(a, size, rw), d, L)
  <2>1. Does(c, AddressPhase(a, size, rw), d, {c, c1, c2, d})
    BY DoesThree DEF AddressPhase, f, b, byte, c1, c2, d
  <2> QED BY <1>11, <1>12, <1>13, <1>16, <2>1 DEF Does
<1> QED BY <1>14, <1>15, <1>17

(* The flush leaves nothing but zeros. *)
LEMMA Flushes ==
  ASSUME NEW c \in Chips, AddressOpen(c)
  PROVE  \E d \in Chips :
           /\ AddressOpen(d) /\ SameBus(c, d) /\ d.out = c.out
           /\ Does(c, FlushZeros, d, Left(c, {Address(Junk, FALSE)}))
<1> DEFINE x == Zeros(48)
           y == Zeros(8)
           c1 == Do(c, Tdi(x))
           d == Do(c1, Tdi(y))
           L == Left(c, {Address(Junk, FALSE)})
<1>1. x \in Seq(Signals) /\ y \in Seq(Signals)
  BY RegisterTypes
<1>2. c.dreg \in Registers /\ Len(c.dreg) = 35 /\ c.tap = "ShiftDR" /\ c.ir = "ADDR"
  BY DEF AddressOpen, BlankAddress
<1>3. Moved(c, c1, "ShiftDR", "ADDR", c.ireg, ShiftIn(c.dreg, x))
  <2> HIDE DEF x
  <2> QED BY <1>1, <1>2, TdiInShiftDR
<1>4. Cleared(c1.dreg)
  <2>1. Cleared(ShiftIn(c.dreg, x))
    BY <1>2, ZerosShifted
  <2> HIDE DEF x
  <2> QED BY <1>3, <2>1 DEF Moved
<1> HIDE DEF c1
<1>5. Moved(c1, d, "ShiftDR", "ADDR", c1.ireg, ShiftIn(c1.dreg, y))
  <2>1. c1 \in Chips /\ c1.tap = "ShiftDR" /\ c1.ir = "ADDR"
    BY <1>3 DEF Moved
  <2> HIDE DEF y
  <2>2. Moved(c1, d, "ShiftDR", c1.ir, c1.ireg, ShiftIn(c1.dreg, y))
    BY <1>1, <2>1, TdiInShiftDR
  <2> QED BY <2>1, <2>2
<1>6. Cleared(d.dreg)
  <2>1. c1.dreg \in Registers /\ Len(c1.dreg) = 35
    BY <1>4 DEF Cleared
  <2>2. Cleared(ShiftIn(c1.dreg, y))
    BY <1>4, <2>1, ZerosShifted
  <2> HIDE DEF y, d
  <2> QED BY <1>5, <2>2 DEF Moved
<1> HIDE DEF d, x, y
<1>7. c1 \in Chips /\ AddressOpen(c1) /\ SameBus(c, c1) /\ c1.out = c.out
  BY <1>3, <1>4, ClearedIsBlank DEF Moved, AddressOpen, SameBus
<1>8. d \in Chips /\ AddressOpen(d) /\ SameBus(c, d) /\ d.out = c.out
  BY <1>3, <1>5, <1>6, ClearedIsBlank DEF Moved, AddressOpen, SameBus
<1>9. ASSUME NEW e \in Chips, AddressOpen(e), SameBus(c, e), e.out = c.out PROVE e \in L
  <2>1. ParkedIn(e) = Address(Junk, FALSE)
    BY <1>9, OpenAddressParks
  <2> QED BY <1>9, <2>1, LeftOpen DEF AddressOpen
<1>10. c \in L /\ c1 \in L /\ d \in L
  BY <1>7, <1>8, <1>9 DEF SameBus
<1>11. Does(c, FlushZeros, d, {c, c1, d})
  BY DoesTwo DEF FlushZeros, x, y, c1, d
<1>12. Does(c, FlushZeros, d, L)
  BY <1>10, <1>11 DEF Does
<1> QED BY <1>8, <1>12

(* The data register is selected; nothing has been put in it yet.  It holds *)
(* the word the bus has read, or only what is left behind it.               *)
WordOpen(c) == c.tap = "ShiftDR" /\ c.ir = "DATA" /\ BlankWord(c.dreg)
Fresh(c) == WordOpen(c) /\ Carries(c.dreg, 0, "word", c.rdata) /\ c.dreg[33] = Bit(1)
Spent(c) ==
  /\ c.tap = "ShiftDR" /\ c.ir = "DATA" /\ c.dreg \in Registers /\ Len(c.dreg) = 33
  /\ \A k \in 2..33 : c.dreg[k] = Bit(0)

LEMMA SpentIsOpen ==
  ASSUME NEW c, Spent(c)
  PROVE  WordOpen(c)
<1>1. c.dreg[2] = Bit(0)
  BY DEF Spent
<1>2. \A v : Bit(0) # <<"word", v, 1>>
  BY DEF Bit
<1> QED BY <1>1, <1>2 DEF Spent, WordOpen, BlankWord

LEMMA OpenWordParks ==
  ASSUME NEW d, WordOpen(d)
  PROVE  ParkedIn(d) = Datum(Junk, FALSE)
BY ParkedWord DEF WordOpen, BlankWord

LEMMA CapturedIsFresh ==
  ASSUME NEW d, NEW e \in Chips, e.ir = "DATA", SameBus(e, d), d.dreg = CapturedDR(e),
         d.tap = "ShiftDR", d.ir = "DATA"
  PROVE  Fresh(d)
<1>1. /\ BlankWord(d.dreg) /\ Carries(d.dreg, 0, "word", e.rdata) /\ d.dreg[33] = Bit(1)
  BY CapturedWord
<1> QED BY <1>1 DEF Fresh, WordOpen, SameBus

(* Where a batch leaves a chip that has clocked s through Update-DR. *)
After(s, c, S) ==
  {d \in Chips : d.tap \in Parking /\ ParkedIn(d) \in S /\ Passed(s, c, d) /\ d.out = c.out}

(* The change of register hands over what was parked in Exit1-DR. *)
SelectsWord(s, c, d) ==
  /\ d \in Chips /\ Fresh(d) /\ Passed(s, c, d) /\ d.out = c.out
  /\ Does(c, SelectDataReg, d, {c} \cup After(s, c, {NoShift, Datum(Junk, FALSE)}))

LEMMA SelectsData ==
  ASSUME NEW c \in Chips, c.tap = "Exit1DR"
  PROVE  \E d : SelectsWord(Content(c.ir, c.dreg), c, d)
<1> DEFINE x == Tdi(Bits(5, CODE_DATA))
           y == Tms(1, ((CODE_DATA * 4) % 256) + 1)
           s == <<BackToShiftIR>>
           t == <<x, y>>
           u == <<ToShiftDR>>
           c1 == Do(c, BackToShiftIR)
           c2 == Do(c1, x)
           c3 == Do(c2, y)
           d == Do(c3, ToShiftDR)
           S == {BackToShiftIR, x, y, ToShiftDR}
           p == Content(c.ir, c.dreg)
           A == After(p, c, {NoShift, Datum(Junk, FALSE)})
<1>1. SelectDataReg = (s \o t) \o u
  BY DEF SelectDataReg, Opcode
<1>2. s \in Seq(S) /\ t \in Seq(S) /\ u \in Seq(S)
  OBVIOUS
<1>3. /\ c1 \in Chips /\ c1.tap = "ShiftIR" /\ c1.ireg = Bits(6, 1) /\ c1.out = c.out
      /\ Passed(p, c, c1)
  BY BackToInstructions DEF BackToShiftIR
<1> HIDE DEF p
<1>4. Moved(c1, c2, "ShiftIR", c1.ir, c2.ireg, c1.dreg)
      /\ Moved(c1, c3, "Exit1IR", c1.ir, Bits(6, CODE_DATA), c1.dreg)
  <2>1. c1 \in Chips /\ c1.tap = "ShiftIR" /\ Len(c1.ireg) = 6
    BY <1>3, BitsAre
  <2> HIDE DEF c1
  <2> QED BY <2>1, CodesAssumption, OpcodeShifted
<1>5. PICK e \in Chips : /\ Moved(c3, e, "SelectDR", "DATA", c3.ireg, c3.dreg)
                         /\ Moved(c3, d, "ShiftDR", "DATA", c3.ireg, CapturedDR(e))
  <2>1. c3 \in Chips /\ c3.tap = "Exit1IR" /\ Selected(c3.ireg) = "DATA"
    BY <1>4, SelectedBy DEF Moved
  <2> HIDE DEF c3
  <2> QED BY <2>1, SelectsRegister DEF ToShiftDR
<1>6. Does(c, s, c1, {c, c1}) /\ Does(c1, t, c3, {c1, c2, c3}) /\ Does(c3, u, d, {c3, d})
  BY DoesOne, DoesTwo
<1> HIDE DEF s, t, u, c1, c2, c3, d, x, y, S
<1> DEFINE v == s \o t
<1>7. v \in Seq(S)
  BY <1>2
<1>8. Does(c, v, c3, {c, c1} \cup {c1, c2, c3})
  BY <1>2, <1>6, DoesBoth
<1> HIDE DEF v
<1>9. Does(c, v \o u, d, ({c, c1} \cup {c1, c2, c3}) \cup {c3, d})
  BY <1>2, <1>6, <1>7, <1>8, DoesBoth
<1>10. SameBus(c1, c2) /\ SameBus(c1, c3) /\ SameBus(c1, d) /\ SameBus(e, d)
       /\ c2.out = c.out /\ c3.out = c.out /\ d.out = c.out
  BY <1>3, <1>4, <1>5 DEF Moved, SameBus
<1>11. Passed(p, c, c2) /\ Passed(p, c, c3) /\ Passed(p, c, d)
  <2>1. SameBus(c, c)
    BY DEF SameBus
  <2> QED BY <1>3, <1>10, <2>1, SamePass
<1>12. d \in Chips /\ Fresh(d)
  BY <1>5, <1>10, CapturedIsFresh DEF Moved
<1>13. c1 \in A
  <2>1. ParkedIn(c1) = NoShift
    BY <1>3 DEF ParkedIn, NoShift
  <2> QED BY <1>3, <2>1, Tapped DEF After
<1>14. c2 \in A
  <2>1. c2 \in Chips /\ c2.tap = "ShiftIR"
    BY <1>4 DEF Moved
  <2>2. ParkedIn(c2) = NoShift
    BY <2>1 DEF ParkedIn, NoShift
  <2> QED BY <1>10, <1>11, <2>1, <2>2, Tapped DEF After
<1>15. c3 \in A
  <2>1. c3 \in Chips /\ c3.tap = "Exit1IR"
    BY <1>4 DEF Moved
  <2>2. ParkedIn(c3) = NoShift
    BY <2>1 DEF ParkedIn, NoShift
  <2> QED BY <1>10, <1>11, <2>1, <2>2, Tapped DEF After
<1>16. d \in A
  <2>1. WordOpen(d)
    BY <1>12 DEF Fresh
  <2>2. ParkedIn(d) = Datum(Junk, FALSE)
    BY <2>1, OpenWordParks
  <2> QED BY <1>10, <1>11, <1>12, <2>1, <2>2, Tapped DEF After, WordOpen
<1> HIDE DEF A
<1>17. Does(c, SelectDataReg, d, {c} \cup A)
  BY <1>1, <1>9, <1>13, <1>14, <1>15, <1>16 DEF Does, v
<1> QED BY <1>10, <1>11, <1>12, <1>17 DEF SelectsWord, A, p

LEMMA FrontOf ==
  ASSUME NEW w \in Seq(Signals), Len(w) >= 32
  PROVE  /\ SubSeq(w, 1, 32) \in Seq(Signals) /\ Len(SubSeq(w, 1, 32)) = 32
         /\ \A k \in 1..32 : SubSeq(w, 1, 32)[k] = w[k]
<1> DEFINE x == SubSeq(w, 1, 32)
<1>1. x = [k \in 1..32 |-> w[k]]
  OBVIOUS
<1>2. \A k \in 1..32 : w[k] \in Signals
  OBVIOUS
<1> HIDE DEF x
<1> QED BY <1>1, <1>2 DEF x

(* The word read comes out, and is in the register no more. *)
Fetches(c, d, x) ==
  /\ d \in Chips /\ Spent(d) /\ SameBus(c, d)
  /\ d.out = Append(c.out, x) /\ ReadField("word", x) = c.rdata
  /\ Does(c, ReadData, d, {c, d})

LEMMA FetchesWord ==
  ASSUME NEW c \in Chips, Fresh(c)
  PROVE  \E d, x : Fetches(c, d, x)
<1> DEFINE b == Zeros(32)
           d == Do(c, Tdo(b))
           r == c.dreg
           w == r \o b
           x == SubSeq(w, 1, 32)
           z == ShiftIn(r, b)
<1>1. b \in Seq(Signals) /\ Len(b) = 32 /\ \A k \in 1..32 : b[k] = Bit(0)
  BY RegisterTypes DEF Zeros
<1>2. r \in Registers /\ r \in Seq(Signals) /\ Len(r) = 33
  BY DEF Fresh, WordOpen, BlankWord, Registers
<1>3. Carries(r, 0, "word", c.rdata) /\ c.tap = "ShiftDR" /\ c.ir = "DATA"
  BY DEF Fresh, WordOpen
<1> HIDE DEF r, b
<1>4. z \in Registers /\ Len(z) = 33 /\ \A k \in 2..33 : z[k] = Bit(0)
  <2>1. Len(b) <= Len(r)
    BY <1>1, <1>2
  <2>2. /\ z \in Registers /\ Len(z) = Len(r)
        /\ \A k \in 1..Len(b) : z[(Len(r) - Len(b)) + k] = b[k]
    BY <1>1, <1>2, <2>1, ShiftInMany
  <2> HIDE DEF z
  <2>3. \A j \in 1..32 : z[(33 - 32) + j] = Bit(0)
    BY <1>1, <1>2, <2>2
  <2>4. ASSUME NEW k \in 2..33 PROVE z[k] = Bit(0)
    <3>1. k - 1 \in 1..32 /\ (33 - 32) + (k - 1) = k
      OBVIOUS
    <3> QED BY <2>3, <3>1
  <2> QED BY <1>2, <2>2, <2>4
<1>5. Joined(w, r, 33, b, 32)
  BY <1>1, <1>2, JoinedAt
<1> HIDE DEF w
<1>6. x \in Seq(Signals) /\ Len(x) = 32 /\ \A k \in 1..32 : x[k] = w[k]
  <2>1. w \in Seq(Signals) /\ Len(w) >= 32
    BY <1>5 DEF Joined
  <2> QED BY <2>1, FrontOf
<1> HIDE DEF x
<1>7. ReadField("word", x) = c.rdata
  <2>1. ASSUME NEW k \in 1..32 PROVE x[0 + k] = <<"word", c.rdata, k>>
    <3>1. 0 + k = k /\ k \in 1..33
      OBVIOUS
    <3>2. r[k] = <<"word", c.rdata, k>>
      BY <1>3, <3>1 DEF Carries
    <3>3. w[k] = r[k]
      BY <1>5, <3>1 DEF Joined
    <3> QED BY <1>6, <3>1, <3>2, <3>3
  <2>2. Carries(x, 0, "word", c.rdata)
    BY <2>1 DEF Carries
  <2>3. x \in Seq(Signals) /\ Len(x) >= 32
    BY <1>6
  <2> QED BY <2>2, <2>3, ReadsField
<1>8. /\ d \in Chips /\ d.tap = "ShiftDR" /\ d.ir = c.ir /\ d.dreg = z
      /\ d.cmd = c.cmd /\ d.mem = c.mem /\ d.rdata = c.rdata
      /\ d.out = Append(c.out, SubSeq(w, 1, Len(b)))
  BY <1>1, <1>3, TdoInShiftDR DEF r, w
<1>9. Does(c, ReadData, d, {c, d})
  BY DoesOne DEF ReadData, b
<1> HIDE DEF d, z
<1>10. d.out = Append(c.out, x)
  BY <1>1, <1>8 DEF x
<1>11. Spent(d) /\ SameBus(c, d)
  BY <1>3, <1>4, <1>8 DEF Spent, SameBus
<1> QED BY <1>7, <1>8, <1>9, <1>10, <1>11 DEF Fetches

(* The loop of a read goes through Update-DR with SEQ high. *)
Loops(s, batch, c, d) ==
  d \in Chips /\ Fresh(d) /\ Passed(s, c, d) /\ d.out = c.out /\ Does(c, batch, d, {c, d})

LEMMA LoopsAfterRead ==
  ASSUME NEW c \in Chips, Spent(c)
  PROVE  \E d : Loops(Datum(Junk, TRUE), LoopAfterRead, c, d)
<1> DEFINE b == Bit(1)
           r == c.dreg
           z == ShiftIn(r, <<b>>)
           d == Do(c, Tms(5, 135))
<1>1. /\ d \in Chips /\ d.tap = "ShiftDR" /\ d.ir = c.ir /\ d.out = c.out
      /\ Passed(Content(c.ir, z), c, d)
      /\ \E e \in Chips : e.ir = c.ir /\ SameBus(e, d) /\ d.dreg = CapturedDR(e)
  BY LoopsWithOne DEF Spent
<1>2. Does(c, LoopAfterRead, d, {c, d})
  BY DoesOne DEF LoopAfterRead
<1> HIDE DEF d
<1>3. c.ir = "DATA"
  BY DEF Spent
<1>4. Fresh(d)
  BY <1>1, <1>3, CapturedIsFresh
<1>5. Content(c.ir, z) = Datum(Junk, TRUE)
  <2>1. r \in Registers /\ Len(r) = 33 /\ r[2] = Bit(0)
    BY DEF Spent
  <2>2. \A v : r[2] # <<"word", v, 1>>
    BY <2>1 DEF Bit
  <2> HIDE DEF r
  <2>3. b \in Signals /\ Len(r) >= 33
    BY <2>1, Lows
  <2> HIDE DEF b
  <2>4. ReadField("word", z) = Junk
    BY <2>1, <2>2, <2>3, OneMoreJunk
  <2>7. z[Len(r)] = b
    BY <2>1, <2>3, ShiftInOne
  <2> HIDE DEF z
  <2>5. (z[33] = Bit(1)) = TRUE
    BY <2>1, <2>7 DEF b
  <2>6. Content("DATA", z) = Datum(ReadField("word", z), z[33] = Bit(1))
    BY DEF Content, Datum
  <2> QED BY <1>3, <2>4, <2>5, <2>6
<1> QED BY <1>1, <1>2, <1>4, <1>5 DEF Loops

LEMMA LoopsAfterWrite ==
  ASSUME NEW c \in Chips, c.tap = "Exit1DR", c.ir = "DATA"
  PROVE  \E d : Loops(Content("DATA", c.dreg), LoopAfterWrite, c, d)
<1> DEFINE d == Do(c, Tms(4, 3))
<1>1. /\ d \in Chips /\ d.tap = "ShiftDR" /\ d.ir = c.ir /\ d.out = c.out
      /\ Passed(Content(c.ir, c.dreg), c, d)
      /\ \E e \in Chips : e.ir = c.ir /\ SameBus(e, d) /\ d.dreg = CapturedDR(e)
  BY LoopsToShiftDR
<1>2. Does(c, LoopAfterWrite, d, {c, d})
  BY DoesOne DEF LoopAfterWrite
<1> HIDE DEF d
<1>3. Fresh(d)
  BY <1>1, CapturedIsFresh
<1> QED BY <1>1, <1>2, <1>3 DEF Loops

(* A word is shifted in, and parked with the SEQ bit. *)
ParksDatum(c, w, seq, d) ==
  /\ d \in Chips /\ d.tap = "Exit1DR" /\ d.ir = "DATA" /\ SameBus(c, d) /\ d.out = c.out
  /\ Content("DATA", d.dreg) = Datum(w, seq = 1)
  /\ Does(c, DataPhase(w, seq), d,
          Left(c, {Datum(Junk, FALSE), Datum(w, FALSE), Datum(w, seq = 1)}))

(* The data phase of a write: after 32 clocks and the one that leaves      *)
(* Shift-DR the word is parked whole, with its SEQ bit, whatever was in    *)
(* the register; cut between them it is parked without.                    *)
THEOREM ParksWord ==
  ASSUME NEW c \in Chips, WordOpen(c), NEW w \in Words, NEW seq \in {0, 1}
  PROVE  \E d : ParksDatum(c, w, seq, d)
<1> DEFINE f == Field("word", w)
           byte == 1 + 128 * seq
           c1 == Do(c, Tdi(f))
           d == Do(c1, Tms(1, byte))
           L == Left(c, {Datum(Junk, FALSE), Datum(w, FALSE), Datum(w, seq = 1)})
           b == Bit(seq)
<1>1. f \in Seq(Signals) /\ Len(f) = 32
  BY RegisterTypes DEF Value
<1>2. byte \in 0..255 /\ byte % 2 = 1 /\ byte \div 128 = seq
  OBVIOUS
<1>3. c.dreg \in Registers /\ Len(c.dreg) = 33 /\ c.tap = "ShiftDR" /\ c.ir = "DATA"
  BY DEF WordOpen, BlankWord
<1>4. b \in Signals
  BY SignalTypes
<1> DEFINE x == ShiftIn(c.dreg, f)
           z == ShiftIn(x, <<b>>)
<1>5. x \in Registers /\ Len(x) = 33 /\ Carries(x, 1, "word", w)
  <2>1. 33 - 32 = 1 /\ 33 \in 32..35
    OBVIOUS
  <2>2. x \in Registers /\ Len(x) = 33 /\ Carries(x, 33 - 32, "word", w)
    BY <1>1, <1>3, <2>1, FieldShifted
  <2> HIDE DEF x
  <2> QED BY <2>1, <2>2
<1>6. ReadField("word", z) = w /\ z[33] = b
  <2> HIDE DEF x, b
  <2>1. Len(x) >= 33
    BY <1>5
  <2>2. ReadField("word", z) = w
    BY <1>4, <1>5, <2>1, OneMoreField
  <2>3. z[Len(x)] = b
    BY <1>4, <1>5, ShiftInOne
  <2> QED BY <1>5, <2>2, <2>3
<1>7. Moved(c, c1, "ShiftDR", "DATA", c.ireg, x)
  <2> HIDE DEF f
  <2> QED BY <1>1, <1>3, TdiInShiftDR
<1> HIDE DEF f, byte, c1
<1>8. Moved(c1, d, "Exit1DR", "DATA", c1.ireg, z)
  <2>1. c1 \in Chips /\ c1.tap = "ShiftDR" /\ c1.ir = "DATA" /\ c1.dreg = x
    BY <1>7 DEF Moved
  <2>2. d = Clock(c1, 1, b)
    BY <1>2, <2>1, WalkOfOne
  <2> HIDE DEF x, d, b
  <2>3. Moved(c1, d, "Exit1DR", c1.ir, c1.ireg, ShiftIn(c1.dreg, <<b>>))
    BY <1>4, <2>1, <2>2, LeaveShiftDR
  <2> QED BY <2>1, <2>3
<1> HIDE DEF x, z, d
<1>9. c \in L
  <2>1. ParkedIn(c) = Datum(Junk, FALSE)
    BY OpenWordParks
  <2> QED BY <1>3, <2>1, LeftOpen DEF SameBus
<1>10. c1 \in L
  <2>1. c1 \in Chips /\ c1.tap = "ShiftDR" /\ c1.ir = "DATA" /\ c1.dreg = x
        /\ SameBus(c, c1) /\ c1.out = c.out
    BY <1>7 DEF Moved, SameBus
  <2>2. ParkedIn(c1) = Datum(w, FALSE)
    BY <1>5, <2>1, ParkedWord
  <2> QED BY <2>1, <2>2, LeftOpen
<1>11. /\ d \in Chips /\ d.tap = "Exit1DR" /\ d.ir = "DATA" /\ d.dreg = z
       /\ SameBus(c, d) /\ d.out = c.out
  BY <1>7, <1>8 DEF Moved, SameBus
<1>12. Content("DATA", d.dreg) = Datum(w, seq = 1)
  <2>1. (z[33] = Bit(1)) = (seq = 1)
    BY <1>6, BitsDiffer
  <2> QED BY <1>6, <1>11, <2>1 DEF Content, Datum
<1>13. d \in L
  <2>1. ParkedIn(d) = Datum(w, seq = 1)
    BY <1>11, <1>12 DEF ParkedIn
  <2> QED BY <1>11, <2>1, LeftOpen
<1>14. Does(c, DataPhase(w, seq), d, L)
  <2>1. Does(c, DataPhase(w, seq), d, {c, c1, d})
    BY DoesTwo DEF DataPhase, f, byte, c1, d
  <2> QED BY <1>9, <1>10, <1>13, <2>1 DEF Does
<1> QED BY <1>11, <1>12, <1>14 DEF ParksDatum

-----------------------------------------------------------------------------
(* Whole accesses *)

LEMMA CommandTypes ==
  /\ \A n \in 1..8, byte \in 0..255 : Tms(n, byte) \in Commands
  /\ \A bits \in Seq(Signals) : Tdi(bits) \in Commands /\ Tdo(bits) \in Commands
BY DEF Tms, Tdi, Tdo, Commands

LEMMA TuplesOfCommands ==
  /\ \A x \in Commands : <<x>> \in Seq(Commands)
  /\ \A x, y \in Commands : <<x, y>> \in Seq(Commands)
  /\ \A x, y, z \in Commands : <<x, y, z>> \in Seq(Commands)
OBVIOUS

LEMMA JoinedCommands ==
  ASSUME NEW s \in Seq(Commands), NEW t \in Seq(Commands)
  PROVE  s \o t \in Seq(Commands)
OBVIOUS

LEMMA OpcodeType ==
  ASSUME NEW code \in 0..63
  PROVE  Opcode(code) \in Seq(Commands)
<1> DEFINE b == Bits(5, code)
           byte == ((code * 4) % 256) + 1
           x == Tdi(b)
           y == Tms(1, byte)
<1>1. b \in Seq(Signals)
  BY BitsAre
<1>2. byte \in 0..255
  BY LastBit
<1> HIDE DEF b, byte
<1>3. x \in Commands /\ y \in Commands
  <2>1. x \in Commands
    BY <1>1, CommandTypes
  <2>2. 1 \in 1..8
    OBVIOUS
  <2>3. y \in Commands
    BY <1>2, <2>2, CommandTypes
  <2> QED BY <2>1, <2>3
<1> HIDE DEF x, y
<1>4. <<x, y>> \in Seq(Commands)
  BY <1>3, TuplesOfCommands
<1> QED BY <1>4 DEF Opcode, x, y, b, byte

LEMMA SelectionTypes == SelectAddress \in Seq(Commands) /\ SelectDataReg \in Seq(Commands)
<1>1. <<ToShiftIR>> \in Seq(Commands) /\ <<ToShiftDR>> \in Seq(Commands)
      /\ <<BackToShiftIR>> \in Seq(Commands)
  BY CommandTypes, TuplesOfCommands DEF ToShiftIR, ToShiftDR, BackToShiftIR
<1>2. Opcode(CODE_ADDR_COMM) \in Seq(Commands) /\ Opcode(CODE_DATA) \in Seq(Commands)
  BY CodesAssumption, OpcodeType
<1> DEFINE s == <<ToShiftIR>>
           t == <<ToShiftDR>>
           u == <<BackToShiftIR>>
           x == Opcode(CODE_ADDR_COMM)
           y == Opcode(CODE_DATA)
<1> HIDE DEF s, t, u, x, y
<1>3. s \in Seq(Commands) /\ t \in Seq(Commands) /\ u \in Seq(Commands)
      /\ x \in Seq(Commands) /\ y \in Seq(Commands)
  BY <1>1, <1>2 DEF s, t, u, x, y
<1>4. s \o x \in Seq(Commands) /\ u \o y \in Seq(Commands)
  BY <1>3, JoinedCommands
<1>5. (s \o x) \o t \in Seq(Commands) /\ (u \o y) \o t \in Seq(Commands)
  BY <1>3, <1>4, JoinedCommands
<1> QED BY <1>5 DEF SelectAddress, SelectDataReg, s, t, u, x, y

LEMMA AddressPhaseType ==
  ASSUME NEW a \in Addr, NEW size \in 0..3, NEW rw \in {0, 1}
  PROVE  AddressPhase(a, size, rw) \in Seq(Commands)
<1> DEFINE f == Field("addr", a)
           b == Bits(2, size)
           byte == 1 + 128 * rw
           x == Tdi(f)
           y == Tdi(b)
           z == Tms(1, byte)
<1>1. f \in Seq(Signals)
  BY RegisterTypes
<1>2. b \in Seq(Signals)
  <2>1. 2 \in 0..8 /\ size \in Int
    OBVIOUS
  <2> QED BY <2>1, BitsAre
<1>3. byte \in 0..255
  OBVIOUS
<1> HIDE DEF f, b, byte
<1>4. x \in Commands /\ y \in Commands /\ z \in Commands
  <2>1. x \in Commands /\ y \in Commands
    BY <1>1, <1>2, CommandTypes
  <2>2. 1 \in 1..8
    OBVIOUS
  <2>3. z \in Commands
    BY <1>3, <2>2, CommandTypes
  <2> QED BY <2>1, <2>3
<1> HIDE DEF x, y, z
<1>5. <<x, y, z>> \in Seq(Commands)
  BY <1>4, TuplesOfCommands
<1> QED BY <1>5 DEF AddressPhase, x, y, z, f, b, byte

LEMMA DataPhaseType ==
  ASSUME NEW w \in Words, NEW seq \in {0, 1}
  PROVE  DataPhase(w, seq) \in Seq(Commands)
<1> DEFINE f == Field("word", w)
           byte == 1 + 128 * seq
           x == Tdi(f)
           z == Tms(1, byte)
<1>1. f \in Seq(Signals)
  BY RegisterTypes DEF Value
<1>2. byte \in 0..255
  OBVIOUS
<1> HIDE DEF f, byte
<1>3. x \in Commands /\ z \in Commands
  <2>1. x \in Commands
    BY <1>1, CommandTypes
  <2>2. 1 \in 1..8
    OBVIOUS
  <2>3. z \in Commands
    BY <1>2, <2>2, CommandTypes
  <2> QED BY <2>1, <2>3
<1> HIDE DEF x, z
<1>4. <<x, z>> \in Seq(Commands)
  BY <1>3, TuplesOfCommands
<1> QED BY <1>4 DEF DataPhase, x, z, f, byte

LEMMA SmallBatchTypes ==
  /\ ResetBatch \in Seq(Commands) /\ FlushZeros \in Seq(Commands) /\ ReadData \in Seq(Commands)
  /\ LoopAfterRead \in Seq(Commands) /\ LoopAfterWrite \in Seq(Commands)
<1>1. Tdi(Zeros(48)) \in Commands /\ Tdi(Zeros(8)) \in Commands /\ Tdo(Zeros(32)) \in Commands
  BY RegisterTypes, CommandTypes
<1>2. FlushZeros \in Seq(Commands) /\ ReadData \in Seq(Commands)
  <2> DEFINE x == Tdi(Zeros(48))
             y == Tdi(Zeros(8))
             z == Tdo(Zeros(32))
  <2> HIDE DEF x, y, z
  <2>1. <<x, y>> \in Seq(Commands) /\ <<z>> \in Seq(Commands)
    BY <1>1, TuplesOfCommands DEF x, y, z
  <2> QED BY <2>1 DEF FlushZeros, ReadData, x, y, z
<1>3. ResetBatch \in Seq(Commands) /\ LoopAfterRead \in Seq(Commands)
      /\ LoopAfterWrite \in Seq(Commands)
  BY CommandTypes, TuplesOfCommands DEF ResetBatch, LoopAfterRead, LoopAfterWrite
<1> QED BY <1>2, <1>3

(* A write's address phase. *)
SendsCommand(a, c, d) ==
  /\ d \in Chips /\ d.tap = "Exit1DR" /\ d.ir = "ADDR" /\ SameBus(c, d) /\ d.out = c.out
  /\ Content("ADDR", d.dreg) = Address(a, TRUE)
  /\ Does(c, SelectAddress \o AddressPhase(a, RW_DWORD, 1), d,
          Left(c, {NoShift, Address(Junk, FALSE), Address(a, FALSE), Address(a, TRUE)}))

(* The first batch of iowrite32, from the place the reset has left: the    *)
(* command of a write to that address is parked in the address register,   *)
(* nothing has moved on the bus, and a batch cut after any of its commands *)
(* has parked a part of it that no later reset takes for another address.  *)
THEOREM WriteCommand ==
  ASSUME NEW c \in Chips, c.tap = "TestLogicReset", NEW a \in Addr
  PROVE  \E d : SendsCommand(a, c, d)
<1> DEFINE s == SelectAddress
           t == AddressPhase(a, RW_DWORD, 1)
           c1 == Run(c, s)
           K == {NoShift, Address(Junk, FALSE)}
           M == {Address(Junk, FALSE), Address(a, FALSE), Address(a, 1 = 1)}
           L == {NoShift, Address(Junk, FALSE), Address(a, FALSE), Address(a, TRUE)}
<1>1. /\ c1 \in Chips /\ AddressOpen(c1) /\ SameBus(c, c1) /\ c1.out = c.out
      /\ Does(c, s, c1, Left(c, K))
  BY SelectsAddress DEF Does
<1> HIDE DEF c1, s
<1>2. PICK d \in Chips :
        /\ d.tap = "Exit1DR" /\ d.ir = "ADDR" /\ SameBus(c1, d) /\ d.out = c1.out
        /\ Content("ADDR", d.dreg) = Address(a, 1 = 1)
        /\ Does(c1, t, d, Left(c1, M))
  BY <1>1, CodesAssumption, ParksAddress
<1>3. s \in Seq(Commands) /\ t \in Seq(Commands)
  BY CodesAssumption, SelectionTypes, AddressPhaseType DEF s
<1> HIDE DEF t
<1>4. Does(c, s \o t, d, Left(c, K) \cup Left(c1, M))
  BY <1>1, <1>2, <1>3, DoesBoth
<1>5. (1 = 1) = TRUE
  OBVIOUS
<1>6. Left(c, K) \cup Left(c1, M) \subseteq Left(c, L)
  <2>1. SameBus(c, c) /\ c.out = c.out
    BY DEF SameBus
  <2>2. K \subseteq L /\ M \subseteq L
    BY <1>5
  <2> HIDE DEF K, L, M
  <2> QED BY <1>1, <2>1, <2>2, LeftTwice
<1> HIDE DEF K, M, L
<1>7. Does(c, s \o t, d, Left(c, L))
  BY <1>4, <1>6 DEF Does
<1>8. SameBus(c, d) /\ d.out = c.out
  BY <1>1, <1>2 DEF SameBus
<1> QED BY <1>2, <1>5, <1>7, <1>8 DEF SendsCommand, s, t, L

(* A read's, with the change of register; a single read fetches as well. *)
PartOfRead(a, c) ==
  Left(c, {NoShift, Address(Junk, FALSE), Address(a, FALSE)})
    \cup After(Address(a, FALSE), c, {NoShift, Datum(Junk, FALSE)})

OpensRead(a, c, d) ==
  /\ d \in Chips /\ Fresh(d) /\ Passed(Address(a, FALSE), c, d) /\ d.out = c.out
  /\ Does(c, SelectAddress \o FlushZeros \o AddressPhase(a, RW_DWORD, 0) \o SelectDataReg, d,
          PartOfRead(a, c))

ReadsWord(a, c, d, x) ==
  /\ d \in Chips /\ Spent(d) /\ Passed(Address(a, FALSE), c, d)
  /\ d.out = Append(c.out, x) /\ ReadField("word", x) = d.rdata
  /\ Does(c, SelectAddress \o FlushZeros \o AddressPhase(a, RW_DWORD, 0) \o SelectDataReg
               \o ReadData, d,
          PartOfRead(a, c) \cup {d})

(* The batch of a read, up to the data register (ioread32raw) or with the  *)
(* read-back (ioread32): the bus is read at that address and no other, and *)
(* the 32 bits that come back are the word read, bit by bit; cut short, it *)
(* has read nothing or that word.                                          *)
THEOREM ReadCommand ==
  ASSUME NEW c \in Chips, c.tap = "TestLogicReset", NEW a \in Addr
  PROVE  (\E d : OpensRead(a, c, d)) /\ (\E d, x : ReadsWord(a, c, d, x))
<1> DEFINE s == SelectAddress
           t == FlushZeros
           u == AddressPhase(a, RW_DWORD, 0)
           v == SelectDataReg
           w == ReadData
           c1 == Run(c, s)
           K == {NoShift, Address(Junk, FALSE)}
           J == {Address(Junk, FALSE)}
           M == {Address(Junk, FALSE), Address(a, FALSE), Address(a, 0 = 1)}
           L == {NoShift, Address(Junk, FALSE), Address(a, FALSE)}
           P == Address(a, FALSE)
           Q == {NoShift, Datum(Junk, FALSE)}
<1>1. /\ c1 \in Chips /\ AddressOpen(c1) /\ SameBus(c, c1) /\ c1.out = c.out
      /\ Does(c, s, c1, Left(c, K))
  BY SelectsAddress DEF Does
<1> HIDE DEF c1, s
<1>2. PICK c2 \in Chips :
        /\ AddressOpen(c2) /\ SameBus(c1, c2) /\ c2.out = c1.out
        /\ Does(c1, t, c2, Left(c1, J))
  BY <1>1, Flushes
<1> HIDE DEF t
<1>3. PICK c3 \in Chips :
        /\ c3.tap = "Exit1DR" /\ c3.ir = "ADDR" /\ SameBus(c2, c3) /\ c3.out = c2.out
        /\ Content("ADDR", c3.dreg) = Address(a, 0 = 1)
        /\ Does(c2, u, c3, Left(c2, M))
  BY <1>2, CodesAssumption, ParksAddress
<1>4. (0 = 1) = FALSE
  OBVIOUS
<1>5. Content(c3.ir, c3.dreg) = P
  BY <1>3, <1>4
<1>6. PICK d : SelectsWord(P, c3, d)
  BY <1>3, <1>5, SelectsData
<1>7. PICK e, x : Fetches(d, e, x)
  BY <1>6, FetchesWord DEF SelectsWord
<1>8. s \in Seq(Commands) /\ t \in Seq(Commands) /\ u \in Seq(Commands)
      /\ v \in Seq(Commands) /\ w \in Seq(Commands)
  BY CodesAssumption, SelectionTypes, AddressPhaseType, SmallBatchTypes DEF s, t
<1>9. Does(c3, v, d, {c3} \cup After(P, c3, Q)) /\ Does(d, w, e, {d, e})
  BY <1>6, <1>7 DEF SelectsWord, Fetches
<1> HIDE DEF u, v, w
<1>10. Does(c, s \o t, c2, Left(c, K) \cup Left(c1, J))
  BY <1>1, <1>2, <1>8, DoesBoth
<1> DEFINE s2 == s \o t
           s3 == s2 \o u
           s4 == s3 \o v
<1>11. s2 \in Seq(Commands)
  BY <1>8, JoinedCommands
<1> HIDE DEF s2
<1>12. Does(c, s2, c2, Left(c, K) \cup Left(c1, J))
  BY <1>10 DEF s2
<1>13. Does(c, s3, c3, (Left(c, K) \cup Left(c1, J)) \cup Left(c2, M))
  BY <1>3, <1>8, <1>11, <1>12, DoesBoth
<1>14. s3 \in Seq(Commands)
  BY <1>8, <1>11, JoinedCommands
<1> HIDE DEF s3
<1>15. Does(c, s4, d, ((Left(c, K) \cup Left(c1, J)) \cup Left(c2, M))
                        \cup ({c3} \cup After(P, c3, Q)))
  BY <1>8, <1>9, <1>13, <1>14, DoesBoth
<1>16. s4 \in Seq(Commands)
  BY <1>8, <1>14, JoinedCommands
<1> HIDE DEF s4
<1>17. SameBus(c, c2) /\ SameBus(c, c3) /\ c2.out = c.out /\ c3.out = c.out
  BY <1>1, <1>2, <1>3 DEF SameBus
<1>18. /\ Left(c, K) \subseteq Left(c, L) /\ Left(c1, J) \subseteq Left(c, L)
       /\ Left(c2, M) \subseteq Left(c, L)
  <2>1. SameBus(c, c) /\ c.out = c.out
    BY DEF SameBus
  <2>2. K \subseteq L /\ J \subseteq L /\ M \subseteq L
    BY <1>4
  <2> HIDE DEF K, J, L, M
  <2> QED BY <1>1, <1>17, <2>1, <2>2, LeftTwice
<1>19. c3 \in Left(c, L)
  <2>1. ParkedIn(c3) = P
    BY <1>3, <1>5 DEF ParkedIn
  <2>2. P \in L
    OBVIOUS
  <2> HIDE DEF P, L
  <2> QED BY <1>3, <1>17, <2>1, <2>2, LeftOpen
<1> HIDE DEF K, J, M, L, P
<1>20. After(P, c3, Q) \subseteq After(P, c, Q)
  <2>1. SameBus(c3, c)
    BY <1>17 DEF SameBus
  <2>2. \A z : Passed(P, c3, z) => Passed(P, c, z)
    <3>1. \A z : SameBus(z, z)
      BY DEF SameBus
    <3> QED BY <2>1, <3>1, SamePass
  <2> HIDE DEF Q
  <2> QED BY <1>17, <2>2 DEF After
<1>21. Passed(P, c, d) /\ Passed(P, c, e) /\ d.out = c.out /\ e.out = Append(c.out, x)
       /\ ReadField("word", x) = e.rdata /\ d \in Chips /\ Fresh(d) /\ e \in Chips /\ Spent(e)
  <2>1. /\ Passed(P, c3, d) /\ SameBus(d, e) /\ SameBus(d, d) /\ SameBus(c3, c)
        /\ d.out = c3.out /\ e.out = Append(d.out, x) /\ ReadField("word", x) = d.rdata
        /\ d \in Chips /\ Fresh(d) /\ e \in Chips /\ Spent(e)
    BY <1>6, <1>7, <1>17 DEF SelectsWord, Fetches, SameBus
  <2>2. Passed(P, c, d) /\ Passed(P, c, e)
    BY <2>1, SamePass
  <2> QED BY <1>17, <2>1, <2>2 DEF SameBus
<1> HIDE DEF Q
<1> DEFINE R == Left(c, L) \cup After(P, c, Q)
<1>22. Does(c, s4, d, R)
  BY <1>15, <1>18, <1>19, <1>20 DEF Does
<1>23. d \in R
  <2>1. WordOpen(d)
    BY <1>21 DEF Fresh
  <2>2. ParkedIn(d) = Datum(Junk, FALSE)
    BY <2>1, OpenWordParks
  <2> QED BY <1>21, <2>1, <2>2, Tapped DEF After, WordOpen, Q
<1> HIDE DEF R
<1>24. Does(c, s4 \o w, e, R \cup {d, e})
  BY <1>8, <1>9, <1>16, <1>22, DoesBoth
<1>25. Does(c, s4 \o w, e, R \cup {e})
  BY <1>23, <1>24 DEF Does
<1>26. R = PartOfRead(a, c)
  BY DEF R, PartOfRead, L, P, Q
<1>27. OpensRead(a, c, d)
  BY <1>21, <1>22, <1>26 DEF OpensRead, P, s, t, u, v, s2, s3, s4
<1>28. ReadsWord(a, c, e, x)
  BY <1>21, <1>25, <1>26 DEF ReadsWord, P, s, t, u, v, w, s2, s3, s4
<1> QED BY <1>27, <1>28

-----------------------------------------------------------------------------
(* Replies, and the reset from anywhere *)

LEMMA ClockKeeps ==
  ASSUME NEW c \in Chips, NEW tms \in {0, 1}, NEW tdi \in Signals
  PROVE  Clock(c, tms, tdi).out = c.out /\ Clock(c, tms, tdi).tap = TapNext[c.tap][tms + 1]
<1> DEFINE s == Shifted(c, <<tdi>>)
           t == TapNext[c.tap][tms + 1]
           e == [s EXCEPT !.tap = t]
<1>1. s \in Chips
  BY OneSignal, ShiftedType
<1>2. s.out = c.out
  BY DEF Shifted, Chips
<1>3. Clock(c, tms, tdi) = Entered(e)
  BY DEF Clock
<1>4. t \in TapStates
  BY TapNextType DEF Chips
<1> HIDE DEF s, t
<1>5. e.out = c.out /\ e.tap = t
  BY <1>1, <1>2 DEF Chips
<1>6. e \in Chips
  BY <1>1, <1>4, ChipFields, Zenon
<1> HIDE DEF e
<1>7. UpdateADDR(e).out = e.out /\ UpdateADDR(e).tap = e.tap
  BY <1>6 DEF UpdateADDR, Chips
<1>8. UpdateDATA(e).out = e.out /\ UpdateDATA(e).tap = e.tap
  BY <1>6 DEF UpdateDATA, Chips
<1>9. Entered(e).out = e.out /\ Entered(e).tap = e.tap
  BY <1>6, <1>7, <1>8 DEF Entered, Chips
<1> QED BY <1>3, <1>5, <1>9 DEF t

LEMMA ClocksKeepReplies ==
  ASSUME NEW c \in Chips, NEW edges, Len(edges) \in Nat,
         \A k \in 1..Len(edges) : edges[k][1] \in {0, 1} /\ edges[k][2] \in Signals
  PROVE  Clocked(c, edges).out = c.out
<1> DEFINE n == Len(edges)
<1>1. PICK f : /\ f[0] = c
               /\ \A k \in 1..n : f[k] = Clock(f[k - 1], edges[k][1], edges[k][2])
               /\ Clocked(c, edges) = f[n]
  BY ClockByClock
<1> DEFINE S == {k \in 0..n : f[k] \in Chips /\ f[k].out = c.out}
<1>2. 0 \in S
  BY <1>1
<1>3. ASSUME NEW k \in 1..n, k - 1 \in S PROVE k \in S
  <2>1. /\ f[k - 1] \in Chips /\ f[k - 1].out = c.out
        /\ f[k] = Clock(f[k - 1], edges[k][1], edges[k][2])
        /\ edges[k][1] \in {0, 1} /\ edges[k][2] \in Signals
    BY <1>1, <1>3
  <2>2. f[k] \in Chips
    BY <2>1, ClockType
  <2>3. f[k].out = c.out
    BY <2>1, ClockKeeps
  <2> QED BY <2>2, <2>3
<1>4. 0..n \subseteq S
  <2> HIDE DEF S
  <2> QED BY <1>2, <1>3, AllNumbers
<1> QED BY <1>1, <1>4

LEMMA DriftKeepsReplies ==
  ASSUME NEW c \in Chips, NEW bits \in Seq(Signals)
  PROVE  Drifted(c, bits).out = c.out
<1> DEFINE n == IF Len(bits) < 2 THEN Len(bits) ELSE 2
           edges == [k \in 1..n |-> <<0, bits[k]>>]
           d == Clocked(c, edges)
           rest == SubSeq(bits, n + 1, Len(bits))
<1>1. n \in Nat /\ n <= Len(bits)
  OBVIOUS
<1>2. rest \in Seq(Signals)
  BY <1>1
<1>3. /\ Len(edges) = n
      /\ \A k \in 1..n : edges[k][1] \in {0, 1} /\ edges[k][2] \in Signals
  BY <1>1
<1>4. Drifted(c, bits) = Shifted(d, rest)
  BY DEF Drifted
<1> HIDE DEF n, edges, rest
<1>5. d \in Chips
  BY <1>1, <1>3, ClockedType
<1>6. d.out = c.out
  BY <1>1, <1>3, ClocksKeepReplies
<1> HIDE DEF d
<1>7. Shifted(d, rest).out = d.out
  BY <1>5 DEF Shifted, Chips
<1> QED BY <1>4, <1>6, <1>7

(* A command that asks for nothing adds no reply, and one that does adds   *)
(* one.                                                                    *)
LEMMA DoReplies ==
  ASSUME NEW c \in Chips, NEW x \in Commands
  PROVE  /\ x.do # "tdo" => Do(c, x).out = c.out
         /\ x.do = "tdo" => Len(Do(c, x).out) = Len(c.out) + 1
<1>1. c.out \in Seq(Seq(Signals))
  BY DEF Chips
<1>2. CASE x.do = "tms"
  <2>1. x.n \in 1..8 /\ x.byte \in 0..255 /\ x = Tms(x.n, x.byte)
    BY <1>2 DEF Commands, Tms
  <2>2. PICK n, byte : n = x.n /\ byte = x.byte
    OBVIOUS
  <2>3. n \in 1..8 /\ byte \in 0..255 /\ Do(c, x) = Clocked(c, TmsEdges(n, byte))
    BY <2>1, <2>2, DoTms
  <2>4. AreTmsEdges(TmsEdges(n, byte), n, byte)
    BY <2>3, TmsEdgesType
  <2>5. Clocked(c, TmsEdges(n, byte)).out = c.out
    BY <2>3, <2>4, ClocksKeepReplies DEF AreTmsEdges
  <2> QED BY <1>2, <2>3, <2>5
<1>3. ASSUME x.do # "tms"
      PROVE  /\ x.bits \in Seq(Signals) /\ x.do \in {"tdi", "tdo"}
             /\ Shifted(c, x.bits) \in Chips /\ Drifted(c, x.bits) \in Chips
             /\ Shifted(c, x.bits).out = c.out /\ Drifted(c, x.bits).out = c.out
  <2>1. x.bits \in Seq(Signals) /\ x.do \in {"tdi", "tdo"}
    BY <1>3 DEF Commands
  <2>2. PICK b : b = x.bits
    OBVIOUS
  <2>3. Shifted(c, b) \in Chips
    BY <2>1, <2>2, ShiftedType
  <2>4. Drifted(c, b) \in Chips
    BY <2>1, <2>2, DriftedType
  <2>5. Drifted(c, b).out = c.out
    BY <2>1, <2>2, DriftKeepsReplies
  <2>6. Shifted(c, b).out = c.out
    BY DEF Shifted, Chips
  <2> QED BY <2>1, <2>2, <2>3, <2>4, <2>5, <2>6
<1>4. CASE x.do = "tdi"
  <2>1. Do(c, x) \in {Shifted(c, x.bits), Drifted(c, x.bits)}
    BY <1>4 DEF Do
  <2> QED BY <1>3, <1>4, <2>1
<1>5. CASE x.do = "tdo"
  <2> DEFINE b == x.bits
             reg == IF c.tap = "ShiftDR" THEN c.dreg ELSE c.ireg
             s == IF c.tap \in {"ShiftDR", "ShiftIR"} THEN Shifted(c, b) ELSE Drifted(c, b)
             y == IF c.tap \in {"ShiftDR", "ShiftIR"} THEN SubSeq(reg \o b, 1, Len(b))
                  ELSE Zeros(Len(b))
  <2>1. Do(c, x) = [s EXCEPT !.out = Append(@, y)]
    BY <1>5 DEF Do
  <2>2. s \in Chips /\ s.out = c.out
    BY <1>3, <1>5
  <2> HIDE DEF s, y
  <2>3. Do(c, x).out = Append(c.out, y)
    BY <2>1, <2>2 DEF Chips
  <2> QED BY <1>1, <1>5, <2>3
<1> QED BY <1>2, <1>3, <1>4, <1>5

(* Five ones take the TAP to Test-Logic-Reset from each of its states. *)
LEMMA ResetFromAnywhere ==
  ASSUME NEW c \in Chips
  PROVE  LET d == Run(c, ResetBatch)
         IN  d \in Chips /\ d.tap = "TestLogicReset" /\ d.out = c.out
<1> DEFINE d == Do(c, Tms(5, 63))
<1>1. Run(c, ResetBatch) = d
  BY RunOne DEF ResetBatch
<1>2. PICK f : /\ f[0] = c /\ d = f[5]
               /\ f[1] = Clock(f[0], 1, Bit(0)) /\ f[2] = Clock(f[1], 1, Bit(0))
               /\ f[3] = Clock(f[2], 1, Bit(0)) /\ f[4] = Clock(f[3], 1, Bit(0))
               /\ f[5] = Clock(f[4], 1, Bit(0))
  BY WalkOfReset
<1> HIDE DEF d
<1> DEFINE up(t) == TapNext[t][2]
<1>3. ASSUME NEW x \in Chips, NEW y, y = Clock(x, 1, Bit(0))
      PROVE  y \in Chips /\ y.out = x.out /\ y.tap = up(x.tap)
  <2>1. y \in Chips
    BY <1>3, Lows, ClockType
  <2>2. y.out = x.out /\ y.tap = TapNext[x.tap][1 + 1]
    BY <1>3, Lows, ClockKeeps
  <2> QED BY <2>1, <2>2
<1> HIDE DEF up
<1>4. f[1] \in Chips /\ f[1].out = c.out /\ f[1].tap = up(c.tap)
  BY <1>2, <1>3
<1>5. f[2] \in Chips /\ f[2].out = c.out /\ f[2].tap = up(f[1].tap)
  BY <1>2, <1>3, <1>4
<1>6. f[3] \in Chips /\ f[3].out = c.out /\ f[3].tap = up(f[2].tap)
  BY <1>2, <1>3, <1>5
<1>7. f[4] \in Chips /\ f[4].out = c.out /\ f[4].tap = up(f[3].tap)
  BY <1>2, <1>3, <1>6
<1>8. d \in Chips /\ d.out = c.out /\ d.tap = up(f[4].tap)
  BY <1>2, <1>3, <1>7
<1> DEFINE T == "TestLogicReset"
<1>9. f[1].tap \in {T, "SelectDR", "SelectIR", "Exit1DR", "Exit1IR", "Exit2DR", "Exit2IR",
                    "UpdateDR", "UpdateIR"}
  <2>1. c.tap \in TapStates
    BY DEF Chips
  <2> QED BY <1>4, <2>1 DEF up, TapStates, TapNext
<1>10. f[2].tap \in {T, "SelectDR", "SelectIR", "UpdateDR", "UpdateIR"}
  BY <1>5, <1>9 DEF up, TapNext
<1>11. f[3].tap \in {T, "SelectDR", "SelectIR"}
  BY <1>6, <1>10 DEF up, TapNext
<1>12. f[4].tap \in {T, "SelectIR"}
  BY <1>7, <1>11 DEF up, TapNext
<1>13. d.tap = T
  BY <1>8, <1>12 DEF up, TapNext
<1> QED BY <1>1, <1>8, <1>13

-----------------------------------------------------------------------------
(* Registers filled with zeros *)

LEMMA ZerosAre ==
  ASSUME NEW n \in Nat
  PROVE  Zeros(n) \in Seq(Signals) /\ Len(Zeros(n)) = n /\ \A k \in 1..n : Zeros(n)[k] = Bit(0)
BY RegisterTypes DEF Zeros

LEMMA ZerosFill ==
  ASSUME NEW reg \in Registers, NEW n \in Nat,
         n >= Len(reg) \/ reg = Zeros(Len(reg))
  PROVE  ShiftIn(reg, Zeros(n)) = Zeros(Len(reg))
<1> DEFINE b == Zeros(n)
           m == Len(reg)
           o == Zeros(m)
           z == ShiftIn(reg, b)
<1>1. b \in Seq(Signals) /\ Len(b) = n /\ \A k \in 1..n : b[k] = Bit(0)
  BY ZerosAre
<1>2. reg \in Seq(Signals) /\ m \in Nat
  BY DEF Registers
<1>3. o \in Seq(Signals) /\ Len(o) = m /\ \A k \in 1..m : o[k] = Bit(0)
  BY <1>2, ZerosAre
<1> HIDE DEF b, o
<1>4. /\ z \in Seq(Signals) /\ Len(z) = m
      /\ \A k \in 1..m : z[k] = IF k + Len(b) <= m THEN reg[k + Len(b)] ELSE b[(k + Len(b)) - m]
  BY <1>1, <1>2, ShiftInType
<1>5. n >= m \/ reg = o
  BY DEF o
<1> HIDE DEF z, m
<1>6. ASSUME NEW k \in 1..m PROVE z[k] = o[k]
  <2>1. CASE k + n <= m
    <3>1. n < m /\ k + n \in 1..m
      BY <1>2, <2>1
    <3>2. reg[k + n] = Bit(0)
      BY <1>3, <1>5, <3>1, <1>2
    <3>3. z[k] = reg[k + n]
      BY <1>1, <1>4, <2>1
    <3> QED BY <1>3, <3>2, <3>3
  <2>2. CASE ~(k + n <= m)
    <3>1. (k + n) - m \in 1..n
      BY <1>2, <2>2
    <3>2. z[k] = b[(k + n) - m]
      BY <1>1, <1>4, <2>2
    <3> QED BY <1>1, <1>3, <3>1, <3>2
  <2> QED BY <2>1, <2>2
<1>7. z = o
  BY <1>2, <1>3, <1>4, <1>6, SameRegister
<1> QED BY <1>7 DEF z, o, m, b

LEMMA ZeroRegister ==
  ASSUME NEW n \in Nat \ {0}
  PROVE  Zeros(n) \in Registers /\ Len(Zeros(n)) = n
BY ZerosAre, IsRegister

LEMMA TdoInShiftIR ==
  ASSUME NEW c \in Chips, NEW bits \in Seq(Signals), c.tap = "ShiftIR"
  PROVE  LET d == Do(c, Tdo(bits))
         IN  /\ d \in Chips /\ d.tap = "ShiftIR" /\ d.ir = c.ir /\ d.dreg = c.dreg
             /\ d.ireg = ShiftIn(c.ireg, bits)
             /\ d.cmd = c.cmd /\ d.mem = c.mem /\ d.rdata = c.rdata
             /\ d.out = Append(c.out, SubSeq(c.ireg \o bits, 1, Len(bits)))
<1> DEFINE x == ShiftIn(c.ireg, bits)
           y == SubSeq(c.ireg \o bits, 1, Len(bits))
           d == Do(c, Tdo(bits))
<1>1. d \in Chips
  <2>1. Tdo(bits) \in Commands
    BY DEF Commands, Tdo
  <2> QED BY <2>1, DoType
<1>2. d = [Shifted(c, bits) EXCEPT !.out = Append(@, y)]
  BY DEF Do, Tdo
<1>3. Shifted(c, bits) = [c EXCEPT !.ireg = x]
  BY DEF Shifted, Chips
<1> HIDE DEF d, x, y
<1>4. d = [[c EXCEPT !.ireg = x] EXCEPT !.out = Append(@, y)]
  BY <1>2, <1>3
<1>5. /\ d.tap = "ShiftIR" /\ d.ir = c.ir /\ d.dreg = c.dreg /\ d.ireg = x
      /\ d.cmd = c.cmd /\ d.mem = c.mem /\ d.rdata = c.rdata /\ d.out = Append(c.out, y)
  BY <1>4 DEF Chips
<1> QED BY <1>1, <1>5 DEF d, x, y

(* The register being shifted holds n zeros. *)
Filled(c, n) ==
  \/ c.tap = "ShiftIR" /\ c.ireg = Zeros(n)
  \/ c.tap = "ShiftDR" /\ c.dreg = Zeros(n)

(* d is c some data clocks later. *)
Shifting(c, d) ==
  /\ d \in Chips /\ d.tap = c.tap /\ d.ir = c.ir /\ SameBus(c, d)
  /\ Len(d.ireg) = Len(c.ireg) /\ Len(d.dreg) = Len(c.dreg)

LEMMA KeepsLength ==
  ASSUME NEW reg \in Registers, NEW bits \in Seq(Signals)
  PROVE  Len(ShiftIn(reg, bits)) = Len(reg)
<1>1. reg \in Seq(Signals)
  BY DEF Registers
<1> QED BY <1>1, ShiftInType

LEMMA AsksWhileShifting ==
  ASSUME NEW c \in Chips, c.tap \in {"ShiftDR", "ShiftIR"}, NEW bits \in Seq(Signals)
  PROVE  LET d == Do(c, Tdo(bits))
         IN  Shifting(c, d) /\ Len(d.out) = Len(c.out) + 1
<1> DEFINE d == Do(c, Tdo(bits))
<1>1. c.ireg \in Registers /\ c.dreg \in Registers
  BY DEF Chips
<1>2. Len(ShiftIn(c.ireg, bits)) = Len(c.ireg) /\ Len(ShiftIn(c.dreg, bits)) = Len(c.dreg)
  BY <1>1, KeepsLength
<1>3. Len(d.out) = Len(c.out) + 1
  <2>1. Tdo(bits) \in Commands /\ Tdo(bits).do = "tdo"
    BY DEF Commands, Tdo
  <2> QED BY <2>1, DoReplies
<1>4. CASE c.tap = "ShiftDR"
  <2>1. /\ d \in Chips /\ d.tap = "ShiftDR" /\ d.ir = c.ir /\ d.ireg = c.ireg
        /\ d.dreg = ShiftIn(c.dreg, bits)
        /\ d.cmd = c.cmd /\ d.mem = c.mem /\ d.rdata = c.rdata
    BY <1>4, TdoInShiftDR
  <2> HIDE DEF d
  <2> QED BY <1>2, <1>3, <1>4, <2>1 DEF Shifting, SameBus, d
<1>5. CASE c.tap = "ShiftIR"
  <2>1. /\ d \in Chips /\ d.tap = "ShiftIR" /\ d.ir = c.ir /\ d.dreg = c.dreg
        /\ d.ireg = ShiftIn(c.ireg, bits)
        /\ d.cmd = c.cmd /\ d.mem = c.mem /\ d.rdata = c.rdata
    BY <1>5, TdoInShiftIR
  <2> HIDE DEF d
  <2> QED BY <1>2, <1>3, <1>5, <2>1 DEF Shifting, SameBus, d
<1> QED BY <1>4, <1>5

(* Zeros stay zeros when more of them are shifted in. *)
LEMMA StaysFilled ==
  ASSUME NEW c \in Chips, NEW m \in Nat \ {0}, NEW n \in Nat, Filled(c, m)
  PROVE  Filled(Do(c, Tdo(Zeros(n))), m)
<1> DEFINE b == Zeros(n)
<1>1. b \in Seq(Signals)
  BY ZerosAre
<1>2. ShiftIn(Zeros(m), b) = Zeros(m)
  BY ZeroRegister, ZerosFill
<1> HIDE DEF b
<1>3. CASE c.tap = "ShiftDR" /\ c.dreg = Zeros(m)
  <2>1. Do(c, Tdo(b)).tap = "ShiftDR" /\ Do(c, Tdo(b)).dreg = ShiftIn(c.dreg, b)
    BY <1>1, <1>3, TdoInShiftDR
  <2> QED BY <1>2, <1>3, <2>1 DEF Filled, b
<1>4. CASE c.tap = "ShiftIR" /\ c.ireg = Zeros(m)
  <2>1. Do(c, Tdo(b)).tap = "ShiftIR" /\ Do(c, Tdo(b)).ireg = ShiftIn(c.ireg, b)
    BY <1>1, <1>4, TdoInShiftIR
  <2> QED BY <1>2, <1>4, <2>1 DEF Filled, b
<1> QED BY <1>3, <1>4 DEF Filled

(* What a hundred ones push out of n zeros. *)
Pushed(n, x) ==
  \A k \in 1..100 : x[k] = IF k <= n THEN Bit(0) ELSE Bit(1)

LEMMA OnesPush ==
  ASSUME NEW c \in Chips, NEW n \in 1..99, Filled(c, n)
  PROVE  \E x : /\ Run(c, <<Tdo([k \in 1..100 |-> Bit(1)])>>).out = Append(c.out, x)
                /\ Pushed(n, x)
<1> DEFINE b == [k \in 1..100 |-> Bit(1)]
           r == Zeros(n)
           w == r \o b
           x == SubSeq(w, 1, Len(b))
           d == Do(c, Tdo(b))
<1>1. b \in Seq(Signals) /\ Len(b) = 100 /\ \A k \in 1..100 : b[k] = Bit(1)
  BY SignalTypes
<1>2. r \in Seq(Signals) /\ Len(r) = n /\ \A k \in 1..n : r[k] = Bit(0)
  BY ZerosAre
<1> HIDE DEF b, r
<1>3. Joined(w, r, n, b, 100)
  <2>1. Joined(r \o b, r, Len(r), b, Len(b))
    BY <1>1, <1>2, JoinedAt
  <2> QED BY <1>1, <1>2, <2>1
<1> HIDE DEF w
<1>4. \A k \in 1..100 : x[k] = w[k]
  BY <1>1, <1>3 DEF Joined
<1>5. ASSUME NEW k \in 1..100 PROVE x[k] = IF k <= n THEN Bit(0) ELSE Bit(1)
  <2>1. CASE k <= n
    <3>1. k \in 1..n
      BY <2>1
    <3>2. w[k] = r[k] /\ r[k] = Bit(0)
      BY <1>2, <1>3, <3>1 DEF Joined
    <3> HIDE DEF x
    <3> QED BY <1>4, <2>1, <3>2
  <2>2. CASE ~(k <= n)
    <3>1. k - n \in 1..100 /\ n + (k - n) = k
      BY <2>2
    <3>2. w[n + (k - n)] = b[k - n]
      BY <1>3, <3>1 DEF Joined
    <3> HIDE DEF x
    <3> QED BY <1>1, <1>4, <2>2, <3>1, <3>2
  <2> QED BY <2>1, <2>2
<1>6. d.out = Append(c.out, x)
  <2>1. CASE c.tap = "ShiftDR" /\ c.dreg = r
    BY <1>1, <2>1, TdoInShiftDR DEF w
  <2>2. CASE c.tap = "ShiftIR" /\ c.ireg = r
    BY <1>1, <2>2, TdoInShiftIR DEF w
  <2> QED BY <2>1, <2>2 DEF Filled, r
<1>7. Run(c, <<Tdo(b)>>) = d
  BY RunOne
<1> HIDE DEF d, x
<1> QED BY <1>5, <1>6, <1>7 DEF Pushed, b

-----------------------------------------------------------------------------
(* The fills of the scan functions *)

Width(r) ==
  CASE r = "ADDR" -> 35
    [] r = "DATA" -> 33
    [] OTHER -> 1

(* d is c with n zeros in the register being shifted, one answer not read. *)
FilledFrom(c, d, n) ==
  d \in Chips /\ Filled(d, n) /\ SameBus(c, d) /\ Len(d.out) = Len(c.out) + 1

LEMMA FillsInstruction ==
  ASSUME NEW c \in Chips, c.tap = "TestLogicReset"
  PROVE  LET d == Run(c, <<ToShiftIR, Tdi(Zeros(8)), Tdo(Zeros(8))>>)
         IN  FilledFrom(c, d, 6) /\ d.tap = "ShiftIR"
<1> DEFINE z == Zeros(8)
           e == Do(c, ToShiftIR)
           f == Do(e, Tdi(z))
           d == Do(f, Tdo(z))
<1>1. Run(c, <<ToShiftIR, Tdi(z), Tdo(z)>>) = d
  BY CutThree
<1>2. z \in Seq(Signals)
  BY ZerosAre
<1>3. Moved(c, e, "ShiftIR", "IDCODE", Bits(6, 1), c.dreg)
  BY ToShiftIRWalks
<1> HIDE DEF e
<1>4. Bits(6, 1) \in Registers /\ Len(Bits(6, 1)) = 6
  <2>1. 6 \in 0..8 /\ 1 \in Int
    OBVIOUS
  <2>2. Bits(6, 1) \in Seq(Signals) /\ Len(Bits(6, 1)) = 6
    BY <2>1, BitsAre
  <2> QED BY <2>2, IsRegister
<1>5. ShiftIn(Bits(6, 1), z) = Zeros(6)
  <2> DEFINE r == Bits(6, 1)
  <2>1. r \in Registers /\ Len(r) = 6
    BY <1>4
  <2> HIDE DEF r
  <2>2. 8 \in Nat /\ 8 >= Len(r)
    BY <2>1
  <2>3. ShiftIn(r, Zeros(8)) = Zeros(Len(r))
    BY <2>1, <2>2, ZerosFill
  <2> QED BY <2>1, <2>3 DEF r
<1>6. Moved(e, f, "ShiftIR", e.ir, Zeros(6), e.dreg)
  <2>1. e \in Chips /\ e.tap = "ShiftIR" /\ e.ireg = Bits(6, 1)
    BY <1>3 DEF Moved
  <2> HIDE DEF z
  <2>2. Moved(e, f, "ShiftIR", e.ir, ShiftIn(e.ireg, z), e.dreg)
    BY <1>2, <2>1, TdiInShiftIR
  <2> QED BY <1>5, <2>1, <2>2
<1> HIDE DEF f
<1>7. f \in Chips /\ f.tap = "ShiftIR" /\ f.ireg = Zeros(6) /\ SameBus(c, f) /\ f.out = c.out
  BY <1>3, <1>6 DEF Moved, SameBus
<1>8. Filled(f, 6)
  BY <1>7 DEF Filled
<1>9. Filled(d, 6)
  BY <1>7, <1>8, StaysFilled
<1>10. Shifting(f, d) /\ Len(d.out) = Len(f.out) + 1
  BY <1>2, <1>7, AsksWhileShifting
<1> HIDE DEF d, z
<1>11. FilledFrom(c, d, 6) /\ d.tap = "ShiftIR"
  BY <1>7, <1>9, <1>10 DEF FilledFrom, Shifting, SameBus
<1> QED BY <1>1, <1>11 DEF z

(* A data register whose instruction is in, selected. *)
LEMMA SelectedWidth ==
  ASSUME NEW c \in Chips, c.tap = "Exit1IR"
  PROVE  LET d == Do(c, ToShiftDR)
         IN  /\ Moved(c, d, "ShiftDR", Selected(c.ireg), c.ireg, d.dreg)
             /\ Len(d.dreg) = Width(d.ir)
             /\ d.ir = "BYPASS" => d.dreg = Zeros(1)
<1> DEFINE d == Do(c, ToShiftDR)
<1>1. PICK e \in Chips : /\ Moved(c, e, "SelectDR", Selected(c.ireg), c.ireg, c.dreg)
                         /\ Moved(c, d, "ShiftDR", Selected(c.ireg), c.ireg, CapturedDR(e))
  BY SelectsRegister DEF ToShiftDR
<1> HIDE DEF d
<1>2. e.ir = d.ir /\ d.dreg = CapturedDR(e) /\ d.ir = Selected(c.ireg)
  BY <1>1 DEF Moved
<1>3. d.ir \in {"ADDR", "DATA", "BYPASS"}
  BY <1>2 DEF Selected
<1>4. ASSUME d.ir = "ADDR" PROVE Len(d.dreg) = Width(d.ir)
  <2>1. Len(CapturedDR(e)) = 35
    BY <1>2, <1>4, CapturedType
  <2> QED BY <1>2, <1>4, <2>1 DEF Width
<1>5. ASSUME d.ir = "DATA" PROVE Len(d.dreg) = Width(d.ir)
  <2>1. Len(CapturedDR(e)) = 33
    BY <1>2, <1>5, CapturedType
  <2> QED BY <1>2, <1>5, <2>1 DEF Width
<1>6. ASSUME d.ir = "BYPASS" PROVE Len(d.dreg) = Width(d.ir) /\ d.dreg = Zeros(1)
  <2>1. CapturedDR(e) = <<Bit(0)>>
    BY <1>2, <1>6 DEF CapturedDR
  <2>2. Zeros(1) = <<Bit(0)>>
    BY DEF Zeros
  <2>3. Len(d.dreg) = 1 /\ d.dreg = Zeros(1)
    BY <1>2, <2>1, <2>2
  <2> QED BY <1>6, <2>3 DEF Width
<1>7. Moved(c, d, "ShiftDR", Selected(c.ireg), c.ireg, d.dreg)
  BY <1>1 DEF Moved
<1>8. Len(d.dreg) = Width(d.ir) /\ (d.ir = "BYPASS" => d.dreg = Zeros(1))
  BY <1>3, <1>4, <1>5, <1>6
<1> QED BY <1>7, <1>8 DEF d

LEMMA FillsData ==
  ASSUME NEW c \in Chips, c.tap = "ShiftDR", Len(c.dreg) = Width(c.ir)
  PROVE  LET d == Run(c, <<Tdi(Zeros(80)), Tdo(Zeros(8))>>)
         IN  FilledFrom(c, d, Width(c.ir)) /\ d.tap = "ShiftDR" /\ d.ir = c.ir
<1> DEFINE z == Zeros(80)
           y == Zeros(8)
           n == Width(c.ir)
           e == Do(c, Tdi(z))
           d == Do(e, Tdo(y))
<1>1. Run(c, <<Tdi(z), Tdo(y)>>) = d
  BY CutTwo
<1>2. z \in Seq(Signals) /\ y \in Seq(Signals)
  BY ZerosAre
<1>3. n \in Nat \ {0} /\ n <= 80
  BY DEF Width
<1>4. c.dreg \in Registers
  BY DEF Chips
<1>5. ShiftIn(c.dreg, z) = Zeros(n)
  <2> HIDE DEF n
  <2>1. 80 >= Len(c.dreg) /\ 80 \in Nat
    BY <1>3 DEF n
  <2>2. ShiftIn(c.dreg, Zeros(80)) = Zeros(Len(c.dreg))
    BY <1>4, <2>1, ZerosFill
  <2> QED BY <2>2 DEF n
<1> HIDE DEF z, n
<1>6. Moved(c, e, "ShiftDR", c.ir, c.ireg, Zeros(n))
  BY <1>2, <1>5, TdiInShiftDR
<1> HIDE DEF e
<1>7. e \in Chips /\ e.tap = "ShiftDR" /\ e.ir = c.ir /\ SameBus(c, e) /\ e.out = c.out
      /\ Filled(e, n)
  BY <1>6 DEF Moved, SameBus, Filled
<1>8. Filled(d, n)
  BY <1>3, <1>7, StaysFilled
<1>9. Shifting(e, d) /\ Len(d.out) = Len(e.out) + 1
  BY <1>2, <1>7, AsksWhileShifting
<1> HIDE DEF d, y
<1>10. FilledFrom(c, d, n) /\ d.tap = "ShiftDR" /\ d.ir = c.ir
  BY <1>7, <1>8, <1>9 DEF FilledFrom, Shifting, SameBus
<1> QED BY <1>1, <1>10 DEF z, y, n

LEMMA RunThreeParts ==
  ASSUME NEW c, NEW s \in Seq(Commands), NEW t \in Seq(Commands), NEW u \in Seq(Commands)
  PROVE  s \o t \o u \in Seq(Commands) /\ Run(c, s \o t \o u) = Run(Run(Run(c, s), t), u)
<1>1. PICK st : st = s \o t
  OBVIOUS
<1>2. st \in Seq(Commands)
  BY <1>1, JoinedCommands
<1>3. Run(c, st) = Run(Run(c, s), t)
  BY <1>1, RunParts
<1>4. Run(c, st \o u) = Run(Run(c, st), u)
  BY <1>2, RunParts
<1>5. st \o u \in Seq(Commands)
  BY <1>2, JoinedCommands
<1> QED BY <1>1, <1>3, <1>4, <1>5

LEMMA RunFourParts ==
  ASSUME NEW c, NEW s \in Seq(Commands), NEW t \in Seq(Commands), NEW u \in Seq(Commands),
         NEW v \in Seq(Commands)
  PROVE  /\ s \o t \o u \o v \in Seq(Commands)
         /\ Run(c, s \o t \o u \o v) = Run(Run(Run(Run(c, s), t), u), v)
<1>1. PICK stu : stu = s \o t \o u
  OBVIOUS
<1>2. stu \in Seq(Commands) /\ Run(c, stu) = Run(Run(Run(c, s), t), u)
  BY <1>1, RunThreeParts
<1>3. Run(c, stu \o v) = Run(Run(c, stu), v)
  BY <1>2, RunParts
<1>4. stu \o v \in Seq(Commands)
  BY <1>2, JoinedCommands
<1> QED BY <1>1, <1>2, <1>3, <1>4

LEMMA FillsRegister ==
  ASSUME NEW c \in Chips, c.tap = "TestLogicReset", NEW o \in 0..63
  PROVE  LET d == Run(c, <<ToShiftIR>> \o Opcode(o) \o <<ToShiftDR>>
                           \o <<Tdi(Zeros(80)), Tdo(Zeros(8))>>)
         IN  /\ FilledFrom(c, d, Width(d.ir)) /\ d.tap = "ShiftDR"
             /\ d.ir = Selected(Bits(6, o))
<1> DEFINE A == <<ToShiftIR>>
           B == Opcode(o)
           C == <<ToShiftDR>>
           D == <<Tdi(Zeros(80)), Tdo(Zeros(8))>>
           e == Do(c, ToShiftIR)
           x == Tdi(Bits(5, o))
           y == Tms(1, ((o * 4) % 256) + 1)
           f == Do(e, x)
           g == Do(f, y)
           h == Do(g, ToShiftDR)
           d == Run(h, D)
<1>1. A \in Seq(Commands) /\ B \in Seq(Commands) /\ C \in Seq(Commands) /\ D \in Seq(Commands)
  <2>1. ToShiftIR \in Commands /\ ToShiftDR \in Commands
    BY CommandTypes DEF ToShiftIR, ToShiftDR
  <2>2. B \in Seq(Commands)
    BY OpcodeType
  <2>3. D \in Seq(Commands)
    <3>1. Tdi(Zeros(80)) \in Commands /\ Tdo(Zeros(8)) \in Commands
      BY ZerosAre, CommandTypes
    <3> QED BY <3>1, TuplesOfCommands
  <2> QED BY <2>1, <2>2, <2>3, TuplesOfCommands
<1>2. Run(c, A) = e
  BY RunOne
<1>3. Run(e, B) = g
  BY CutTwo DEF Opcode
<1>4. Run(g, C) = h
  BY RunOne
<1> HIDE DEF A, B, C, D, e, f, g, h, x, y
<1>5. Run(c, A \o B \o C \o D) = d
  BY <1>1, <1>2, <1>3, <1>4, RunFourParts
<1>6. Moved(c, e, "ShiftIR", "IDCODE", Bits(6, 1), c.dreg)
  BY ToShiftIRWalks DEF e
<1>7. e \in Chips /\ e.tap = "ShiftIR" /\ Len(e.ireg) = 6
  <2>1. 6 \in 0..8 /\ 1 \in Int
    OBVIOUS
  <2>2. Len(Bits(6, 1)) = 6
    BY <2>1, BitsAre
  <2> QED BY <1>6, <2>2 DEF Moved
<1>8. Moved(e, g, "Exit1IR", e.ir, Bits(6, o), e.dreg)
  BY <1>7, OpcodeShifted DEF f, g, x, y
<1>9. /\ Moved(g, h, "ShiftDR", Selected(g.ireg), g.ireg, h.dreg)
      /\ Len(h.dreg) = Width(h.ir)
  <2>1. g \in Chips /\ g.tap = "Exit1IR"
    BY <1>8 DEF Moved
  <2> QED BY <2>1, SelectedWidth DEF h
<1>10. /\ h \in Chips /\ h.tap = "ShiftDR" /\ h.ir = Selected(Bits(6, o)) /\ SameBus(c, h)
       /\ h.out = c.out /\ Len(h.dreg) = Width(h.ir)
  BY <1>6, <1>8, <1>9 DEF Moved, SameBus
<1>11. FilledFrom(h, d, Width(h.ir)) /\ d.tap = "ShiftDR" /\ d.ir = h.ir
  BY <1>10, FillsData DEF D
<1> HIDE DEF d
<1>12. FilledFrom(c, d, Width(d.ir))
  BY <1>10, <1>11 DEF FilledFrom, SameBus
<1> QED BY <1>5, <1>10, <1>11, <1>12 DEF A, B, C, D

(* Ones in the instruction register select BYPASS. *)
LEMMA OnesBypass ==
  ASSUME CODE_ADDR_COMM # 63, CODE_DATA # 63
  PROVE  Selected(Bits(6, 63)) = "BYPASS"
<1>1. 63 \in 0..63 /\ CODE_ADDR_COMM \in 0..63 /\ CODE_DATA \in 0..63
  BY CodesAssumption
<1>2. Bits(6, 63) # Bits(6, CODE_ADDR_COMM)
  BY <1>1, SameBits
<1>3. Bits(6, 63) # Bits(6, CODE_DATA)
  BY <1>1, SameBits
<1> QED BY <1>2, <1>3 DEF Selected

LEMMA OnesIn ==
  ASSUME NEW reg \in Registers, Len(reg) = 6
  PROVE  ShiftIn(ShiftIn(reg, Bits(7, 127)), <<Bit(1)>>) = Bits(6, 63)
<1> DEFINE b == Bits(7, 127)
           x == ShiftIn(reg, b)
           y == ShiftIn(x, <<Bit(1)>>)
           z == Bits(6, 63)
<1>1. /\ \A k \in 1..7 : BitOf(127, k) = 1
      /\ \A k \in 1..6 : BitOf(63, k) = 1
  <2>1. /\ Weight[1] = 1 /\ Weight[2] = 2 /\ Weight[3] = 4 /\ Weight[4] = 8
        /\ Weight[5] = 16 /\ Weight[6] = 32 /\ Weight[7] = 64
    BY DEF Weight
  <2>2. \A n \in {63, 127} : /\ (n \div 1) % 2 = 1 /\ (n \div 2) % 2 = 1 /\ (n \div 4) % 2 = 1
                             /\ (n \div 8) % 2 = 1 /\ (n \div 16) % 2 = 1 /\ (n \div 32) % 2 = 1
    OBVIOUS
  <2>3. (127 \div 64) % 2 = 1
    OBVIOUS
  <2>4. \A k \in 1..6 : BitOf(127, k) = 1 /\ BitOf(63, k) = 1
    BY <2>1, <2>2 DEF BitOf
  <2>5. BitOf(127, 7) = 1
    BY <2>1, <2>3 DEF BitOf
  <2>6. \A k \in 1..7 : k \in 1..6 \/ k = 7
    OBVIOUS
  <2> QED BY <2>4, <2>5, <2>6
<1>2. b \in Seq(Signals) /\ Len(b) = 7 /\ \A k \in 1..7 : b[k] = Bit(1)
  <2>1. 7 \in 0..8 /\ 127 \in Int
    OBVIOUS
  <2>2. /\ Bits(7, 127) \in Seq(Signals) /\ Len(Bits(7, 127)) = 7
        /\ \A k \in 1..7 : Bits(7, 127)[k] = Bit(BitOf(127, k))
    BY <2>1, BitsAre
  <2> HIDE DEF b
  <2> QED BY <1>1, <2>2 DEF b
<1>3. z \in Seq(Signals) /\ Len(z) = 6 /\ \A k \in 1..6 : z[k] = Bit(1)
  <2>1. 6 \in 0..8 /\ 63 \in Int
    OBVIOUS
  <2>2. /\ Bits(6, 63) \in Seq(Signals) /\ Len(Bits(6, 63)) = 6
        /\ \A k \in 1..6 : Bits(6, 63)[k] = Bit(BitOf(63, k))
    BY <2>1, BitsAre
  <2> HIDE DEF z
  <2> QED BY <1>1, <2>2 DEF z
<1>4. reg \in Seq(Signals)
  BY DEF Registers
<1> HIDE DEF b, z
<1>5. x \in Registers /\ Len(x) = 6 /\ \A k \in 1..6 : x[k] = Bit(1)
  <2>1. /\ x \in Seq(Signals) /\ Len(x) = Len(reg)
        /\ \A k \in 1..Len(reg) : x[k] = IF k + Len(b) <= Len(reg) THEN reg[k + Len(b)]
                                         ELSE b[(k + Len(b)) - Len(reg)]
    BY <1>2, <1>4, ShiftInType
  <2> HIDE DEF x
  <2>2. ASSUME NEW k \in 1..6 PROVE x[k] = Bit(1)
    <3>1. ~(k + 7 <= 6) /\ (k + 7) - 6 \in 1..7
      OBVIOUS
    <3>2. x[k] = b[(k + 7) - 6]
      BY <1>2, <2>1, <3>1
    <3> QED BY <1>2, <3>1, <3>2
  <2>3. x \in Registers
    BY <2>1, IsRegister
  <2> QED BY <2>1, <2>2, <2>3
<1> HIDE DEF x
<1>6. /\ y \in Registers /\ Len(y) = 6
      /\ \A k \in 1..5 : y[k] = x[k + 1]
      /\ y[6] = Bit(1)
  <2> DEFINE b1 == Bit(1)
  <2>1. b1 \in Signals
    BY Lows
  <2> HIDE DEF b1
  <2> DEFINE v == ShiftIn(x, <<b1>>)
  <2>2. /\ v \in Registers /\ Len(v) = Len(x)
        /\ \A k \in 1..Len(x) - 1 : v[k] = x[k + 1]
        /\ v[Len(x)] = b1
    BY <1>5, <2>1, ShiftInOne
  <2> HIDE DEF v
  <2>3. Len(x) = 6 /\ Len(x) - 1 = 5
    BY <1>5
  <2> QED BY <2>2, <2>3 DEF v, b1
<1> HIDE DEF y
<1>7. ASSUME NEW k \in 1..6 PROVE y[k] = z[k]
  <2>1. CASE k = 6
    BY <1>3, <1>6, <2>1
  <2>2. CASE k # 6
    <3>1. k \in 1..5 /\ k + 1 \in 1..6
      BY <2>2
    <3> QED BY <1>3, <1>5, <1>6, <3>1
  <2> QED BY <2>1, <2>2
<1>8. y \in Seq(Signals)
  BY <1>6 DEF Registers
<1>9. y = z
  BY <1>3, <1>6, <1>7, <1>8, SameRegister
<1> QED BY <1>9 DEF x, y, z, b

(* Zeros clocked into a bypass register that holds one. *)
LEMMA BypassStays ==
  ASSUME NEW c \in Chips, c.tap = "ShiftDR", c.dreg = Zeros(1), NEW n \in Nat
  PROVE  LET d == Run(c, [k \in 1..n |-> Tdi(Zeros(8))])
         IN  Moved(c, d, "ShiftDR", c.ir, c.ireg, Zeros(1))
<1> DEFINE z == Zeros(8)
           batch == [k \in 1..n |-> Tdi(z)]
           Stays(d) == Moved(c, d, "ShiftDR", c.ir, c.ireg, Zeros(1))
<1>1. Len(batch) = n /\ \A k \in 1..n : batch[k] = Tdi(z)
  OBVIOUS
<1>2. z \in Seq(Signals) /\ ShiftIn(Zeros(1), z) = Zeros(1)
  <2>1. 1 \in Nat \ {0} /\ 8 \in Nat
    OBVIOUS
  <2>2. Zeros(1) \in Registers /\ Len(Zeros(1)) = 1
    BY <2>1, ZeroRegister
  <2>3. ShiftIn(Zeros(1), Zeros(8)) = Zeros(Len(Zeros(1)))
    BY <2>1, <2>2, ZerosFill
  <2> QED BY <2>1, <2>2, <2>3, ZerosAre
<1> HIDE DEF batch, z
<1>3. PICK f : Chain(f, c, batch, n) /\ Run(c, batch) = f[n]
  BY <1>1, CommandByCommand
<1>4. Stays(c)
  BY DEF Moved
<1>5. ASSUME NEW x, Stays(x) PROVE Stays(Do(x, Tdi(z)))
  <2>1. x \in Chips /\ x.tap = "ShiftDR" /\ x.dreg = Zeros(1)
    BY <1>5 DEF Moved
  <2>2. Moved(x, Do(x, Tdi(z)), "ShiftDR", x.ir, x.ireg, ShiftIn(x.dreg, z))
    BY <1>2, <2>1, TdiInShiftDR
  <2> QED BY <1>2, <1>5, <2>1, <2>2 DEF Moved
<1> DEFINE S == {k \in 0..n : Stays(f[k])}
<1> HIDE DEF Stays
<1>6. 0 \in S
  BY <1>3, <1>4 DEF Chain
<1>7. ASSUME NEW k \in 1..n, k - 1 \in S PROVE k \in S
  BY <1>1, <1>3, <1>5, <1>7 DEF Chain
<1>8. 0..n \subseteq S
  <2> HIDE DEF S
  <2> QED BY <1>6, <1>7, AllNumbers
<1>9. Stays(Run(c, batch))
  BY <1>3, <1>8
<1> QED BY <1>9 DEF Stays, batch, z

LEMMA FillsBypass ==
  ASSUME NEW c \in Chips, c.tap = "TestLogicReset", CODE_ADDR_COMM # 63, CODE_DATA # 63
  PROVE  LET d == Run(c, <<ToShiftIR, Tdi(Bits(7, 127)), Tms(1, 131), ToShiftDR>>
                           \o [k \in 1..10 |-> Tdi(Zeros(8))] \o <<Tdo(Zeros(8))>>)
         IN  FilledFrom(c, d, 1) /\ d.tap = "ShiftDR" /\ d.ir = "BYPASS"
<1> DEFINE z == Zeros(8)
           b == Bits(7, 127)
           A == <<ToShiftIR, Tdi(b), Tms(1, 131)>>
           B == <<ToShiftDR>>
           C == [k \in 1..10 |-> Tdi(z)]
           D == <<Tdo(z)>>
           e == Do(c, ToShiftIR)
           f == Do(e, Tdi(b))
           g == Do(f, Tms(1, 131))
           h == Do(g, ToShiftDR)
           i == Run(h, C)
           d == Do(i, Tdo(z))
<1>1. b \in Seq(Signals) /\ z \in Seq(Signals)
  <2>1. 7 \in 0..8 /\ 127 \in Int
    OBVIOUS
  <2> QED BY <2>1, BitsAre, ZerosAre
<1>2. A \in Seq(Commands) /\ B \in Seq(Commands) /\ C \in Seq(Commands) /\ D \in Seq(Commands)
  <2>1. ToShiftIR \in Commands /\ ToShiftDR \in Commands /\ Tms(1, 131) \in Commands
    BY CommandTypes DEF ToShiftIR, ToShiftDR
  <2>2. Tdi(b) \in Commands /\ Tdi(z) \in Commands /\ Tdo(z) \in Commands
    BY <1>1, CommandTypes
  <2>3. C \in Seq(Commands)
    BY <2>2
  <2> QED BY <2>1, <2>2, <2>3, TuplesOfCommands
<1>3. <<ToShiftIR, Tdi(b), Tms(1, 131), ToShiftDR>> = A \o B
  OBVIOUS
<1>4. Run(c, A) = g
  BY CutThree
<1>5. Run(g, B) = h /\ Run(i, D) = d
  BY RunOne
<1> HIDE DEF A, B, C, D, b, e, f, g, h, i, z
<1>6. Run(c, <<ToShiftIR, Tdi(b), Tms(1, 131), ToShiftDR>> \o C \o D) = d
  <2>1. Run(c, A \o B \o C \o D) = Run(Run(Run(Run(c, A), B), C), D)
    BY <1>2, RunFourParts
  <2>2. Run(c, A \o B \o C \o D) = d
    BY <1>4, <1>5, <2>1 DEF i
  <2> QED BY <1>3, <2>2
<1>7. Moved(c, e, "ShiftIR", "IDCODE", Bits(6, 1), c.dreg)
  BY ToShiftIRWalks DEF e
<1>8. e \in Chips /\ e.tap = "ShiftIR" /\ e.ireg \in Registers /\ Len(e.ireg) = 6
  <2>1. 6 \in 0..8 /\ 1 \in Int
    OBVIOUS
  <2>2. Len(Bits(6, 1)) = 6
    BY <2>1, BitsAre
  <2> QED BY <1>7, <2>2 DEF Moved, Chips
<1>9. Moved(e, f, "ShiftIR", e.ir, ShiftIn(e.ireg, b), e.dreg)
  BY <1>1, <1>8, TdiInShiftIR DEF f
<1>10. Moved(f, g, "Exit1IR", f.ir, ShiftIn(f.ireg, <<Bit(1)>>), f.dreg)
  <2>1. f \in Chips /\ f.tap = "ShiftIR"
    BY <1>9 DEF Moved
  <2>2. 131 \in 0..255 /\ 131 % 2 = 1 /\ 131 \div 128 = 1
    OBVIOUS
  <2>3. g = Clock(f, 1, Bit(1))
    BY <2>1, <2>2, WalkOfOne DEF g
  <2> QED BY <2>1, <2>3, Lows, LeaveShiftIR
<1>11. g \in Chips /\ g.tap = "Exit1IR" /\ g.ireg = Bits(6, 63)
  BY <1>8, <1>9, <1>10, OnesIn DEF Moved, b
<1>12. h.ir = "BYPASS" /\ h.dreg = Zeros(1) /\ Moved(g, h, "ShiftDR", h.ir, g.ireg, h.dreg)
  <2>1. /\ Moved(g, h, "ShiftDR", Selected(g.ireg), g.ireg, h.dreg)
        /\ h.ir = "BYPASS" => h.dreg = Zeros(1)
    BY <1>11, SelectedWidth DEF h
  <2>2. h.ir = "BYPASS"
    BY <1>11, <2>1, OnesBypass DEF Moved
  <2> QED BY <2>1, <2>2 DEF Moved
<1>13. Moved(h, i, "ShiftDR", h.ir, h.ireg, Zeros(1))
  <2>1. h \in Chips /\ h.tap = "ShiftDR"
    BY <1>12 DEF Moved
  <2> QED BY <1>12, <2>1, BypassStays DEF i, C, z
<1>14. /\ i \in Chips /\ i.tap = "ShiftDR" /\ i.ir = "BYPASS" /\ SameBus(c, i) /\ i.out = c.out
       /\ Filled(i, 1)
  BY <1>7, <1>9, <1>10, <1>12, <1>13 DEF Moved, SameBus, Filled
<1>15. Filled(d, 1)
  BY <1>14, StaysFilled DEF z
<1>16. Shifting(i, d) /\ Len(d.out) = Len(i.out) + 1
  BY <1>1, <1>14, AsksWhileShifting
<1> HIDE DEF d
<1>17. FilledFrom(c, d, 1) /\ d.tap = "ShiftDR" /\ d.ir = "BYPASS"
  BY <1>14, <1>15, <1>16 DEF FilledFrom, Shifting, SameBus
<1> QED BY <1>6, <1>17 DEF b, C, D, z

(* scan_DR_length sends the six low bits of the opcode it is given. *)
LEMMA OpcodeCut ==
  ASSUME NEW o \in 0..127
  PROVE  o % 64 \in 0..63 /\ Opcode(o) = Opcode(o % 64)
<1> DEFINE r == o % 64
<1>1. r \in 0..63 /\ (o = r \/ o = r + 64)
  OBVIOUS
<1> HIDE DEF r
<1>2. (o * 4) % 256 = (r * 4) % 256
  BY <1>1
<1>3. \A k \in 1..5 : BitOf(o, k) = BitOf(r, k)
  <2>1. /\ Weight[1] = 1 /\ Weight[2] = 2 /\ Weight[3] = 4 /\ Weight[4] = 8
        /\ Weight[5] = 16
    BY DEF Weight
  <2>2. /\ (o \div 1) % 2 = (r \div 1) % 2 /\ (o \div 2) % 2 = (r \div 2) % 2
        /\ (o \div 4) % 2 = (r \div 4) % 2 /\ (o \div 8) % 2 = (r \div 8) % 2
        /\ (o \div 16) % 2 = (r \div 16) % 2
    BY <1>1
  <2>3. /\ BitOf(o, 1) = BitOf(r, 1) /\ BitOf(o, 2) = BitOf(r, 2) /\ BitOf(o, 3) = BitOf(r, 3)
        /\ BitOf(o, 4) = BitOf(r, 4) /\ BitOf(o, 5) = BitOf(r, 5)
    BY <2>1, <2>2 DEF BitOf
  <2> QED BY <2>3
<1>4. Bits(5, o) = Bits(5, r)
  BY <1>3 DEF Bits
<1> QED BY <1>1, <1>2, <1>4 DEF Opcode, r

LEMMA FillTypes ==
  /\ <<ToShiftIR, Tdi(Zeros(8)), Tdo(Zeros(8))>> \in Seq(Commands)
  /\ <<Tms(5, 5), Tdo(Zeros(32))>> \in Seq(Commands)
  /\ <<Tdi(Zeros(80)), Tdo(Zeros(8))>> \in Seq(Commands)
  /\ <<ToShiftIR, Tdi(Bits(7, 127)), Tms(1, 131), ToShiftDR>>
       \o [k \in 1..10 |-> Tdi(Zeros(8))] \o <<Tdo(Zeros(8))>> \in Seq(Commands)
  /\ \A o \in 0..127 : <<ToShiftIR>> \o Opcode(o) \o <<ToShiftDR>>
                         \o <<Tdi(Zeros(80)), Tdo(Zeros(8))>> \in Seq(Commands)
<1> DEFINE x == Tdi(Zeros(8))
           y == Tdo(Zeros(8))
           t == Tms(1, 131)
           b == Tdi(Bits(7, 127))
           D == <<Tdi(Zeros(80)), y>>
<1>1. ToShiftIR \in Commands /\ ToShiftDR \in Commands /\ t \in Commands /\ Tms(5, 5) \in Commands
  BY CommandTypes DEF ToShiftIR, ToShiftDR
<1>2. x \in Commands /\ y \in Commands /\ Tdi(Zeros(80)) \in Commands /\ Tdo(Zeros(32)) \in Commands
  BY ZerosAre, CommandTypes
<1>3. b \in Commands
  <2>1. 7 \in 0..8 /\ 127 \in Int
    OBVIOUS
  <2>2. Bits(7, 127) \in Seq(Signals)
    BY <2>1, BitsAre
  <2> QED BY <2>2, CommandTypes
<1> HIDE DEF x, y, t, b
<1>4. D \in Seq(Commands) /\ <<ToShiftIR>> \in Seq(Commands) /\ <<ToShiftDR>> \in Seq(Commands)
      /\ <<ToShiftIR, x, y>> \in Seq(Commands) /\ <<Tms(5, 5), Tdo(Zeros(32))>> \in Seq(Commands)
      /\ <<y>> \in Seq(Commands)
  BY <1>1, <1>2, TuplesOfCommands
<1>5. <<ToShiftIR, b, t, ToShiftDR>> \in Seq(Commands) /\ [k \in 1..10 |-> x] \in Seq(Commands)
  BY <1>1, <1>2, <1>3
<1> DEFINE H == <<ToShiftIR, b, t, ToShiftDR>>
           K == [k \in 1..10 |-> x]
           Y == <<y>>
<1> HIDE DEF D, H, K, Y
<1>6. H \o K \o Y \in Seq(Commands)
  BY <1>4, <1>5, RunThreeParts DEF H, K, Y
<1>7. ASSUME NEW o \in 0..127
      PROVE  <<ToShiftIR>> \o Opcode(o) \o <<ToShiftDR>> \o D \in Seq(Commands)
  <2>1. Opcode(o) \in Seq(Commands)
    BY OpcodeCut, OpcodeType
  <2> QED BY <1>4, <2>1, RunFourParts
<1> QED BY <1>4, <1>6, <1>7 DEF D, H, K, Y, x, y, t, b

LEMMA FillsIdCode ==
  ASSUME NEW c \in Chips
  PROVE  LET d == Run(c, <<Tms(5, 5), Tdo(Zeros(32))>>)
         IN  d \in Chips /\ Len(d.out) = Len(c.out) + 1
<1> DEFINE x == Tms(5, 5)
           y == Tdo(Zeros(32))
           e == Do(c, x)
           d == Do(e, y)
<1>1. Run(c, <<x, y>>) = d
  BY CutTwo
<1>2. x \in Commands /\ x.do = "tms" /\ y \in Commands /\ y.do = "tdo"
  <2>1. x \in Commands /\ y \in Commands
    BY ZerosAre, CommandTypes
  <2> QED BY <2>1 DEF Tms, Tdo
<1> HIDE DEF x, y
<1>3. e \in Chips /\ e.out = c.out
  BY <1>2, DoType, DoReplies
<1> HIDE DEF e
<1>4. d \in Chips /\ Len(d.out) = Len(e.out) + 1
  BY <1>2, <1>3, DoType, DoReplies
<1> QED BY <1>1, <1>3, <1>4 DEF x, y

-----------------------------------------------------------------------------
(* The accesses around the scans, each in one piece *)

LEMMA WriteAccess ==
  ASSUME NEW c \in Chips, NEW a \in Addr, NEW w \in Words
  PROVE  LET d == Run(c, ResetBatch \o SelectAddress \o AddressPhase(a, RW_DWORD, 1)
                           \o SelectDataReg \o DataPhase(w, 0))
         IN  d \in Chips /\ d.tap = "Exit1DR" /\ d.ir = "DATA" /\ d.out = c.out
<1> DEFINE R == ResetBatch
           S == SelectAddress
           A == AddressPhase(a, RW_DWORD, 1)
           T == SelectDataReg
           D == DataPhase(w, 0)
           e == Run(c, R)
<1>1. /\ R \in Seq(Commands) /\ S \in Seq(Commands) /\ A \in Seq(Commands)
      /\ T \in Seq(Commands) /\ D \in Seq(Commands)
  BY SmallBatchTypes, SelectionTypes, AddressPhaseType, DataPhaseType, CodesAssumption
<1>2. e \in Chips /\ e.tap = "TestLogicReset" /\ e.out = c.out
  BY ResetFromAnywhere
<1> HIDE DEF R, e
<1>3. PICK f : SendsCommand(a, e, f)
  BY <1>2, WriteCommand
<1>4. f \in Chips /\ f.tap = "Exit1DR" /\ f.out = e.out /\ Run(e, S \o A) = f
  BY <1>3 DEF SendsCommand, Does
<1>5. PICK g : SelectsWord(Content(f.ir, f.dreg), f, g)
  BY <1>4, SelectsData
<1>6. g \in Chips /\ Fresh(g) /\ g.out = f.out /\ Run(f, T) = g
  BY <1>5 DEF SelectsWord, Does
<1>7. PICK d : ParksDatum(g, w, 0, d)
  BY <1>6, ParksWord DEF Fresh
<1>8. d \in Chips /\ d.tap = "Exit1DR" /\ d.ir = "DATA" /\ d.out = g.out /\ Run(g, D) = d
  BY <1>7 DEF ParksDatum, Does
<1> HIDE DEF S, A, T, D
<1>9. Run(c, R \o S \o A \o T \o D) = d
  <2>1. Run(e, S \o A) = Run(Run(e, S), A)
    BY <1>1, RunParts
  <2>2. R \o S \o A \o T \in Seq(Commands) /\ Run(c, R \o S \o A \o T) = g
    BY <1>1, <1>4, <1>6, <2>1, RunFourParts DEF e
  <2>3. PICK q : q = R \o S \o A \o T
    OBVIOUS
  <2>4. q \in Seq(Commands) /\ Run(c, q) = g
    BY <2>2, <2>3
  <2>5. Run(c, q \o D) = Run(Run(c, q), D)
    BY <1>1, <2>4, RunParts
  <2> QED BY <1>8, <2>3, <2>4, <2>5
<1> QED BY <1>2, <1>4, <1>6, <1>8, <1>9 DEF R, S, A, T, D

LEMMA ReadAccess ==
  ASSUME NEW c \in Chips, NEW a \in Addr
  PROVE  LET d == Run(c, ResetBatch \o SelectAddress \o FlushZeros \o AddressPhase(a, RW_DWORD, 0)
                           \o SelectDataReg \o ReadData)
         IN  /\ d \in Chips /\ d.tap = "ShiftDR" /\ d.ir = "DATA" /\ Len(d.dreg) = 33
             /\ ~d.cmd.write /\ Len(d.out) = Len(c.out) + 1
<1> DEFINE R == ResetBatch
           S == SelectAddress
           F == FlushZeros
           A == AddressPhase(a, RW_DWORD, 0)
           T == SelectDataReg
           D == ReadData
           e == Run(c, R)
<1>1. /\ R \in Seq(Commands) /\ S \in Seq(Commands) /\ F \in Seq(Commands) /\ A \in Seq(Commands)
      /\ T \in Seq(Commands) /\ D \in Seq(Commands)
  BY SmallBatchTypes, SelectionTypes, AddressPhaseType, CodesAssumption
<1>2. e \in Chips /\ e.tap = "TestLogicReset" /\ e.out = c.out
  BY ResetFromAnywhere
<1> HIDE DEF R, e
<1>3. PICK d, x : ReadsWord(a, e, d, x)
  BY <1>2, ReadCommand
<1>4. /\ d \in Chips /\ Spent(d) /\ Passed(Address(a, FALSE), e, d)
      /\ d.out = Append(e.out, x) /\ Run(e, S \o F \o A \o T \o D) = d
  BY <1>3 DEF ReadsWord, Does
<1>5. d.tap = "ShiftDR" /\ d.ir = "DATA" /\ Len(d.dreg) = 33 /\ ~d.cmd.write
  <2>1. d.cmd = [addr |-> a, write |-> FALSE]
    BY <1>4 DEF Passed, Address
  <2> QED BY <1>4, <2>1 DEF Spent
<1>6. Len(d.out) = Len(c.out) + 1
  <2>1. e.out \in Seq(Seq(Signals))
    BY <1>2 DEF Chips
  <2> QED BY <1>2, <1>4, <2>1
<1> HIDE DEF S, F, A, T, D
<1>7. Run(c, R \o S \o F \o A \o T \o D) = d
  <2>1. S \o F \o A \o T \in Seq(Commands)
        /\ Run(e, S \o F \o A \o T) = Run(Run(Run(Run(e, S), F), A), T)
    BY <1>1, RunFourParts
  <2>2. PICK p : p = S \o F \o A \o T
    OBVIOUS
  <2> DEFINE r == Run(Run(Run(Run(e, S), F), A), T)
  <2>3. p \in Seq(Commands) /\ Run(e, p) = r
    BY <2>1, <2>2
  <2> HIDE DEF r
  <2>7. Run(e, p \o D) = Run(r, D)
    BY <1>1, <2>3, RunParts
  <2>4. R \o S \o F \o A \in Seq(Commands)
        /\ Run(c, R \o S \o F \o A) = Run(Run(Run(e, S), F), A)
    BY <1>1, RunFourParts DEF e
  <2>5. PICK q : q = R \o S \o F \o A
    OBVIOUS
  <2>8. q \in Seq(Commands) /\ Run(c, q) = Run(Run(Run(e, S), F), A)
    BY <2>4, <2>5
  <2>9. Run(c, q \o T \o D) = Run(Run(Run(c, q), T), D)
    BY <1>1, <2>8, RunThreeParts
  <2>10. Run(c, q \o T \o D) = Run(r, D)
    BY <2>8, <2>9 DEF r
  <2> QED BY <1>4, <2>2, <2>5, <2>7, <2>10
<1> QED BY <1>4, <1>5, <1>6, <1>7 DEF R, S, F, A, T, D

-----------------------------------------------------------------------------
(* The resets around the scans *)

(* The reset of a scan, from the places it starts in and ends in. *)
LEMMA ScanResets ==
  ASSUME NEW c \in Chips
  PROVE  LET d == Run(c, ResetBatch)
         IN  /\ c.tap \in {"TestLogicReset", "ShiftIR"} => SameBus(c, d)
             /\ c.tap = "Exit1DR" /\ c.ir = "DATA" =>
                  d.mem = IF c.cmd.write /\ c.cmd.addr \in Addr
                            THEN [c.mem EXCEPT ![c.cmd.addr] = ReadField("word", c.dreg)] ELSE c.mem
             /\ c.tap = "ShiftDR" /\ c.ir = "ADDR" /\ Len(c.dreg) = 35 =>
                  d.mem = c.mem /\ ~d.cmd.write
             /\ c.tap = "ShiftDR" /\ c.ir = "DATA" /\ ~c.cmd.write =>
                  d.mem = c.mem /\ ~d.cmd.write
             /\ c.tap = "ShiftDR" /\ c.ir \notin {"ADDR", "DATA"} => SameBus(c, d)
<1> DEFINE d == Run(c, ResetBatch)
           x == ShiftIn(c.dreg, <<Bit(0)>>)
<1>1. ASSUME c.tap \in Parking PROVE Passed(ParkedIn(c), c, d)
  <2>1. d = Do(c, Tms(5, 63))
    BY RunOne DEF ResetBatch
  <2> QED BY <1>1, <2>1, ResetHandsOver
<1> HIDE DEF d
<1>2. ASSUME c.tap \in {"TestLogicReset", "ShiftIR"} PROVE SameBus(c, d)
  <2>1. ParkedIn(c) = [reg |-> "NONE"]
    BY <1>2 DEF ParkedIn
  <2> QED BY <1>1, <1>2, <2>1 DEF Passed, Parking
<1>3. ASSUME c.tap = "Exit1DR", c.ir = "DATA"
      PROVE  d.mem = IF c.cmd.write /\ c.cmd.addr \in Addr
                       THEN [c.mem EXCEPT ![c.cmd.addr] = ReadField("word", c.dreg)] ELSE c.mem
  <2>1. /\ ParkedIn(c).reg = "DATA" /\ ParkedIn(c).data = ReadField("word", c.dreg)
    BY <1>3 DEF ParkedIn, Content
  <2> QED BY <1>1, <1>3, <2>1 DEF Passed, Parking
<1>4. ASSUME c.tap = "ShiftDR", c.ir = "ADDR", Len(c.dreg) = 35
      PROVE  d.mem = c.mem /\ ~d.cmd.write
  <2>1. x[35] = Bit(0)
    <3>1. c.dreg \in Registers
      BY DEF Chips
    <3>2. x[Len(c.dreg)] = Bit(0)
      BY <3>1, Lows, ShiftInOne
    <3> QED BY <1>4, <3>2
  <2>2. x[35] # Bit(1)
    BY <2>1, BitsDiffer
  <2> HIDE DEF x
  <2>3. ParkedIn(c).reg = "ADDR" /\ ~ParkedIn(c).write
    BY <1>4, <2>2 DEF ParkedIn, Content, x
  <2> QED BY <1>1, <1>4, <2>3 DEF Passed, Parking
<1>5. ASSUME c.tap = "ShiftDR", c.ir = "DATA", ~c.cmd.write
      PROVE  d.mem = c.mem /\ ~d.cmd.write
  <2>1. ParkedIn(c).reg = "DATA" /\ Passed(ParkedIn(c), c, d)
    BY <1>1, <1>5, Tapped DEF ParkedIn, Content
  <2>2. PICK p : p = ParkedIn(c)
    OBVIOUS
  <2>3. d.mem = c.mem /\ d.cmd = [addr |-> Following(c.cmd.addr, p.seq), write |-> FALSE]
    BY <1>5, <2>1, <2>2 DEF Passed
  <2> QED BY <2>3
<1>6. ASSUME c.tap = "ShiftDR", c.ir \notin {"ADDR", "DATA"} PROVE SameBus(c, d)
  <2>1. ParkedIn(c) = [reg |-> "NONE"]
    BY <1>6 DEF ParkedIn, Content
  <2> QED BY <1>1, <1>6, <2>1 DEF Passed, Parking
<1> QED BY <1>2, <1>3, <1>4, <1>5, <1>6 DEF d

(* The chip at power-on. *)
LEMMA PowerOnType ==
  ASSUME NEW m \in [Addr -> Words]
  PROVE  PowerOn(m) \in Chips /\ PowerOn(m).tap = "TestLogicReset" /\ PowerOn(m).out = <<>>
<1> DEFINE y == Zeros(6)
           z == Zeros(1)
           c == PowerOn(m)
<1>1. y \in Registers /\ z \in Registers
  <2>1. 6 \in Nat \ {0} /\ 1 \in Nat \ {0}
    OBVIOUS
  <2> QED BY <2>1, ZeroRegister
<1>2. <<>> \in Seq(Seq(Signals)) /\ m \in [Addr -> Value] /\ Junk \in Value
  BY DEF Value
<1>3. "TestLogicReset" \in TapStates
  BY DEF TapStates, TapNext
<1> HIDE DEF y, z
<1>4. c = [tap |-> "TestLogicReset", ir |-> "IDCODE", ireg |-> y, dreg |-> z,
           cmd |-> [addr |-> Junk, write |-> FALSE], mem |-> m, rdata |-> Junk,
           out |-> <<>>, stray |-> FALSE]
  BY DEF PowerOn, y, z
<1> HIDE DEF c
<1>5. c \in Chips
  BY <1>1, <1>2, <1>3, <1>4 DEF Chips
<1>6. c.tap = "TestLogicReset" /\ c.out = <<>>
  BY <1>4
<1> QED BY <1>5, <1>6 DEF c
=============================================================================
