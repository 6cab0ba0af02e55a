---------------------------- MODULE InspectProofs ----------------------------
(***************************************************************************)
(* The commands reg and inst, for any number of windows and any size of    *)
(* the trace buffer, any names, values and counts, and whatever accesses   *)
(* fail and instructions are executed meanwhile.                           *)
(***************************************************************************)
EXTENDS Inspect, FiniteSetTheorems, TLAPS

-----------------------------------------------------------------------------
(* The register addresses of leon3_dsu.c, for any number of windows: they  *)
(* are where the core keeps the registers, no two share a word, and the    *)
(* accesses to eight words at once read the registers one by one.          *)
(*                                                                         *)
(* Everything reduces to the remainder of a sum below twice the divisor,   *)
(* ModOver: a register lies at most 31 words behind the start of its       *)
(* window (InWindow), and only the last window wraps.                      *)

(* The remainder of a number below twice the divisor. *)
LEMMA ModOver ==
  ASSUME NEW m \in Nat \ {0}, NEW x \in 0..(2 * m - 1)
  PROVE  x % m = IF x < m THEN x ELSE x - m
<1> DEFINE q == x \div m
<1>1. x % m \in 0..(m - 1)
  OBVIOUS
<1>2. x = m * (x \div m) + (x % m) /\ x \div m \in Int
  OBVIOUS
<1>3. q < 2
  <2>1. CASE q >= 2
    <3>1. m * q >= m * 2
      BY <1>2, <2>1
    <3> QED BY <1>1, <1>2, <3>1
  <2> QED BY <1>2, <2>1
<1>4. q > -1
  <2>1. CASE q <= -1
    <3>1. m * q <= m * (-1)
      BY <1>2, <2>1
    <3> QED BY <1>1, <1>2, <3>1
  <2> QED BY <1>2, <2>1
<1> QED BY <1>1, <1>2, <1>3, <1>4

Windows == 0..(NWINDOWS - 1)

LEMMA SpanType == Span \in Nat \ {0} /\ Span = NWINDOWS * 16 /\ NWINDOWS \in Nat \ {0}
  BY WindowsAssumption DEF Span

(* A word at most 31 behind the start of a window. *)
LEMMA InWindow ==
  ASSUME NEW w \in Windows, NEW j \in 0..31, NEW x, x = w * 16 + j
  PROVE  /\ w = NWINDOWS - 1 /\ j > 15 => x % Span = j - 16
         /\ ~ (w = NWINDOWS - 1 /\ j > 15) => x % Span = w * 16 + j
<1>1. w \in Nat /\ j \in Nat /\ x \in 0..(2 * Span - 1)
      /\ (x < Span <=> ~ (w = NWINDOWS - 1 /\ j > 15))
      /\ (w = NWINDOWS - 1 => x - Span = j - 16)
  BY SpanType DEF Windows
<1>2. x % Span = IF x < Span THEN x ELSE x - Span
  BY <1>1, SpanType, ModOver
<1> QED BY <1>1, <1>2

(* The words of the registers of a window, without remainders. *)
LEMMA WordValues ==
  ASSUME NEW w \in Windows, NEW n \in Group
  PROVE  /\ Word("o", n, w) = w * 16 + 8 + n
         /\ Word("l", n, w) = IF w = NWINDOWS - 1 THEN n ELSE w * 16 + 16 + n
         /\ Word("i", n, w) = IF w = NWINDOWS - 1 THEN 8 + n ELSE w * 16 + 24 + n
<1>0. w \in Nat /\ n \in 0..7 /\ 0 \in Windows
  BY SpanType DEF Windows, Group
<1>1. CoreReg("o", n, w) = w * 16 + n
  <2>1. (w * 16 + n) % Span = w * 16 + n
    BY <1>0, InWindow
  <2> QED BY <2>1 DEF CoreReg
<1>2. CoreReg("l", n, w) = w * 16 + 8 + n
  <2>1. 8 + n \in 0..31 /\ w * 16 + 8 + n = w * 16 + (8 + n) /\ ~ (8 + n > 15)
    BY <1>0
  <2>2. (w * 16 + 8 + n) % Span = w * 16 + (8 + n)
    BY <2>1, InWindow
  <2> QED BY <2>1, <2>2 DEF CoreReg
<1>3. CoreReg("i", n, w) = IF w = NWINDOWS - 1 THEN n ELSE w * 16 + 16 + n
  <2>1. 16 + n \in 0..31 /\ w * 16 + 16 + n = w * 16 + (16 + n) /\ 16 + n > 15
    BY <1>0
  <2>2. (w * 16 + 16 + n) % Span = IF w = NWINDOWS - 1 THEN n ELSE w * 16 + (16 + n)
    <3>1. CASE w = NWINDOWS - 1
      <4> DEFINE j == 16 + n
                 x == w * 16 + 16 + n
      <4>0. j \in 0..31 /\ j > 15 /\ x = w * 16 + j
        BY <2>1
      <4> HIDE DEF j, x
      <4>1. x % Span = j - 16
        BY <3>1, <4>0, InWindow
      <4>2. j - 16 = n
        BY <1>0 DEF j
      <4>3. x % Span = n
        BY <4>1, <4>2
      <4> QED BY <3>1, <4>3, Zenon DEF x
    <3>2. CASE w # NWINDOWS - 1
      <4>1. (w * 16 + 16 + n) % Span = w * 16 + (16 + n)
        BY <2>1, <3>2, InWindow
      <4> QED BY <3>2, <4>1
    <3> QED BY <3>1, <3>2
  <2> QED BY <2>1, <2>2 DEF CoreReg
<1>4. Word("o", n, w) = w * 16 + 8 + n
  <2>1. 8 + n \in 0..31 /\ w * 16 + n + 8 = w * 16 + (8 + n) /\ ~ (8 + n > 15)
        /\ w * 16 + (8 + n) = w * 16 + 8 + n
    BY <1>0
  <2>2. (w * 16 + n + 8) % Span = w * 16 + (8 + n)
    BY <2>1, InWindow
  <2> QED BY <1>1, <2>1, <2>2 DEF Word, Shown
<1>5. Word("l", n, w) = IF w = NWINDOWS - 1 THEN n ELSE w * 16 + 16 + n
  <2>1. 16 + n \in 0..31 /\ w * 16 + 8 + n + 8 = w * 16 + (16 + n) /\ 16 + n > 15
        /\ w * 16 + (16 + n) = w * 16 + 16 + n
    BY <1>0
  <2>2. (w * 16 + 8 + n + 8) % Span = IF w = NWINDOWS - 1 THEN n ELSE w * 16 + (16 + n)
    <3>1. CASE w = NWINDOWS - 1
      <4> DEFINE j == 16 + n
                 x == w * 16 + 8 + n + 8
      <4>0. j \in 0..31 /\ j > 15 /\ x = w * 16 + j
        BY <2>1
      <4> HIDE DEF j, x
      <4>1. x % Span = j - 16
        BY <3>1, <4>0, InWindow
      <4>2. j - 16 = n
        BY <1>0 DEF j
      <4>3. x % Span = n
        BY <4>1, <4>2
      <4> QED BY <3>1, <4>3, Zenon DEF x
    <3>2. CASE w # NWINDOWS - 1
      <4>1. (w * 16 + 8 + n + 8) % Span = w * 16 + (16 + n)
        BY <2>1, <3>2, InWindow
      <4> QED BY <3>2, <4>1
    <3> QED BY <3>1, <3>2
  <2> QED BY <1>2, <2>1, <2>2 DEF Word, Shown
<1>6. CASE w = NWINDOWS - 1
  <2>1. Word("i", n, w) = (n + 8) % Span
    BY <1>3, <1>6 DEF Word, Shown
  <2>2. n + 8 \in 0..31 /\ n + 8 = 0 * 16 + (n + 8) /\ ~ (n + 8 > 15)
    BY <1>0
  <2>3. (n + 8) % Span = 0 * 16 + (n + 8)
    BY <1>0, <2>2, InWindow
  <2> QED BY <1>0, <1>4, <1>5, <1>6, <2>1, <2>3
<1>7. CASE w # NWINDOWS - 1
  <2>1. Word("i", n, w) = (w * 16 + 16 + n + 8) % Span
    BY <1>3, <1>7 DEF Word, Shown
  <2>2. 24 + n \in 0..31 /\ w * 16 + 16 + n + 8 = w * 16 + (24 + n)
        /\ w * 16 + (24 + n) = w * 16 + 24 + n
    BY <1>0
  <2>3. (w * 16 + 16 + n + 8) % Span = w * 16 + (24 + n)
    BY <1>7, <2>2, InWindow
  <2> QED BY <1>4, <1>5, <1>7, <2>1, <2>2, <2>3
<1> QED BY <1>6, <1>7

(* The address functions lead to the registers of the core, for every      *)
(* window there is (leon3_dsu.c 60-123).                                   *)
THEOREM AddressesRight ==
  \A w \in Windows, n \in Group :
    /\ dsu_get_output_reg_addr(n, w) = Word("o", n, w)
    /\ dsu_get_local_reg_addr(n, w) = Word("l", n, w)
    /\ dsu_get_input_reg_addr(n, w) = Word("i", n, w)
<1> SUFFICES ASSUME NEW w \in Windows, NEW n \in Group
             PROVE  /\ dsu_get_output_reg_addr(n, w) = Word("o", n, w)
                    /\ dsu_get_local_reg_addr(n, w) = Word("l", n, w)
                    /\ dsu_get_input_reg_addr(n, w) = Word("i", n, w)
  OBVIOUS
<1>1. w \in Nat /\ n \in 0..7 /\ ~ (w > NWINDOWS)
  BY SpanType DEF Windows, Group
<1>2. dsu_get_output_reg_addr(n, w) = w * 16 + 8 + n
  <2>1. 8 + n \in 0..31 /\ w * 16 + 8 + n = w * 16 + (8 + n) /\ ~ (8 + n > 15)
    BY <1>1
  <2>2. (w * 16 + 8 + n) % Span = w * 16 + (8 + n)
    BY <2>1, InWindow
  <2> QED BY <1>1, <2>1, <2>2 DEF dsu_get_output_reg_addr
<1>3. dsu_get_local_reg_addr(n, w) = IF w = NWINDOWS - 1 THEN n ELSE w * 16 + 16 + n
  <2>1. 16 + n \in 0..31 /\ w * 16 + 16 + n = w * 16 + (16 + n) /\ 16 + n > 15
    BY <1>1
  <2>2. (w * 16 + 16 + n) % Span = IF w = NWINDOWS - 1 THEN n ELSE w * 16 + (16 + n)
    <3>1. CASE w = NWINDOWS - 1
      <4> DEFINE j == 16 + n
                 x == w * 16 + 16 + n
      <4>0. j \in 0..31 /\ j > 15 /\ x = w * 16 + j
        BY <2>1
      <4> HIDE DEF j, x
      <4>1. x % Span = j - 16
        BY <3>1, <4>0, InWindow
      <4>2. j - 16 = n
        BY <1>1 DEF j
      <4>3. x % Span = n
        BY <4>1, <4>2
      <4> QED BY <3>1, <4>3, Zenon DEF x
    <3>2. CASE w # NWINDOWS - 1
      <4>1. (w * 16 + 16 + n) % Span = w * 16 + (16 + n)
        BY <2>1, <3>2, InWindow
      <4> QED BY <3>2, <4>1
    <3> QED BY <3>1, <3>2
  <2> QED BY <1>1, <2>1, <2>2 DEF dsu_get_local_reg_addr
<1>4. dsu_get_input_reg_addr(n, w) = IF w = NWINDOWS - 1 THEN 8 + n ELSE w * 16 + 24 + n
  <2>1. 24 + n \in 0..31 /\ w * 16 + 24 + n = w * 16 + (24 + n) /\ 24 + n > 15
    BY <1>1
  <2>2. (w * 16 + 24 + n) % Span = IF w = NWINDOWS - 1 THEN 8 + n ELSE w * 16 + (24 + n)
    <3>1. CASE w = NWINDOWS - 1
      <4> DEFINE j == 24 + n
                 x == w * 16 + 24 + n
      <4>0. j \in 0..31 /\ j > 15 /\ x = w * 16 + j
        BY <2>1
      <4> HIDE DEF j, x
      <4>1. x % Span = j - 16
        BY <3>1, <4>0, InWindow
      <4>2. j - 16 = 8 + n
        BY <1>1 DEF j
      <4>3. x % Span = 8 + n
        BY <4>1, <4>2
      <4> QED BY <3>1, <4>3, Zenon DEF x
    <3>2. CASE w # NWINDOWS - 1
      <4>1. (w * 16 + 24 + n) % Span = w * 16 + (24 + n)
        BY <2>1, <3>2, InWindow
      <4> QED BY <3>2, <4>1
    <3> QED BY <3>1, <3>2
  <2> QED BY <1>1, <2>1, <2>2 DEF dsu_get_input_reg_addr
<1> QED BY <1>2, <1>3, <1>4, WordValues

(* The ins of a window are the outs of the next one, and nothing else is   *)
(* shared: every word belongs to one out or local of one window, and the   *)
(* globals lie behind them.                                                *)
THEOREM WindowsOverlap ==
  /\ \A w \in Windows, n \in Group :
       Word("i", n, w) = Word("o", n, IF w = NWINDOWS - 1 THEN 0 ELSE w + 1)
  /\ \A c, d \in {"o", "l"}, v, w \in Windows, m, n \in Group :
       Word(c, m, v) = Word(d, n, w) => c = d /\ v = w /\ m = n
  /\ \A c \in {"o", "l"}, w \in Windows, m, n \in Group :
       Word(c, n, w) \in 0..(Span - 1) /\ Word("g", m, w) \in IuWords \ 0..(Span - 1)
<1>1. ASSUME NEW w \in Windows, NEW n \in Group
      PROVE  Word("i", n, w) = Word("o", n, IF w = NWINDOWS - 1 THEN 0 ELSE w + 1)
  <2>1. w \in Nat /\ n \in 0..7
    BY SpanType DEF Windows, Group
  <2>2. CASE w = NWINDOWS - 1
    <3>1. 0 \in Windows
      BY SpanType DEF Windows
    <3>2. Word("o", n, 0) = 0 * 16 + 8 + n
      BY <3>1, WordValues
    <3>3. Word("i", n, w) = 8 + n
      BY <2>2, WordValues
    <3> QED BY <2>1, <2>2, <3>2, <3>3
  <2>3. CASE w # NWINDOWS - 1
    <3>1. w + 1 \in Windows
      BY <2>3, SpanType DEF Windows
    <3>2. Word("o", n, w + 1) = (w + 1) * 16 + 8 + n
      BY <3>1, WordValues
    <3>3. Word("i", n, w) = w * 16 + 24 + n
      BY <2>3, WordValues
    <3> QED BY <2>1, <2>3, <3>2, <3>3
  <2> QED BY <2>2, <2>3
<1>2. ASSUME NEW c \in {"o", "l"}, NEW d \in {"o", "l"}, NEW v \in Windows, NEW w \in Windows,
             NEW m \in Group, NEW n \in Group, Word(c, m, v) = Word(d, n, w)
      PROVE  c = d /\ v = w /\ m = n
  <2>1. v \in Nat /\ w \in Nat /\ m \in 0..7 /\ n \in 0..7 /\ NWINDOWS \in Nat
    BY SpanType DEF Windows, Group
  <2>2. CASE c = "o" /\ d = "o"
    <3>1. v * 16 + 8 + m = w * 16 + 8 + n
      BY <1>2, <2>2, WordValues
    <3> QED BY <2>1, <2>2, <3>1
  <2>3. CASE c = "l" /\ d = "l"
    <3>1. (IF v = NWINDOWS - 1 THEN m ELSE v * 16 + 16 + m) = (IF w = NWINDOWS - 1 THEN n ELSE w * 16 + 16 + n)
      BY <1>2, <2>3, WordValues
    <3> QED BY <2>1, <2>3, <3>1
  <2>4. CASE c = "o" /\ d = "l"
    <3>1. v * 16 + 8 + m = (IF w = NWINDOWS - 1 THEN n ELSE w * 16 + 16 + n)
      BY <1>2, <2>4, WordValues
    <3> QED BY <2>1, <3>1
  <2>5. CASE c = "l" /\ d = "o"
    <3>1. w * 16 + 8 + n = (IF v = NWINDOWS - 1 THEN m ELSE v * 16 + 16 + m)
      BY <1>2, <2>5, WordValues
    <3> QED BY <2>1, <3>1
  <2> QED BY <1>2, <2>2, <2>3, <2>4, <2>5
<1>3. ASSUME NEW c \in {"o", "l"}, NEW w \in Windows, NEW m \in Group, NEW n \in Group
      PROVE  Word(c, n, w) \in 0..(Span - 1) /\ Word("g", m, w) \in IuWords \ 0..(Span - 1)
  <2>1. w \in Nat /\ n \in 0..7 /\ m \in 0..7 /\ w <= NWINDOWS - 1
    BY SpanType DEF Windows, Group
  <2>2. Word("g", m, w) = Span + m
    BY DEF Word
  <2>3. Word("o", n, w) = w * 16 + 8 + n
        /\ Word("l", n, w) = IF w = NWINDOWS - 1 THEN n ELSE w * 16 + 16 + n
    BY WordValues
  <2> QED BY <2>1, <2>2, <2>3, SpanType DEF IuWords
<1> QED BY <1>1, <1>2, <1>3

(* The accesses to eight words read the registers of a group in order, and *)
(* do not run over the end of the windows (leon3_dsu.h 103-106).           *)
THEOREM BlocksRight ==
  \A w \in Windows, n \in Group :
    /\ DSU_REG_OUT(w) + n = Word("o", n, w)
    /\ DSU_REG_LOCAL(w) + n = Word("l", n, w)
    /\ DSU_REG_IN(w) + n = Word("i", n, w)
    /\ DSU_REG_GLOBAL + n = Word("g", n, w)
<1> SUFFICES ASSUME NEW w \in Windows, NEW n \in Group
             PROVE  /\ DSU_REG_OUT(w) + n = Word("o", n, w)
                    /\ DSU_REG_LOCAL(w) + n = Word("l", n, w)
                    /\ DSU_REG_IN(w) + n = Word("i", n, w)
                    /\ DSU_REG_GLOBAL + n = Word("g", n, w)
  OBVIOUS
<1>1. w \in Nat /\ n \in 0..7
  BY SpanType DEF Windows, Group
<1>2. DSU_REG_OUT(w) = w * 16 + 8
  BY InWindow DEF DSU_REG_OUT
<1>3. DSU_REG_LOCAL(w) = IF w = NWINDOWS - 1 THEN 0 ELSE w * 16 + 16
  BY InWindow DEF DSU_REG_LOCAL
<1>4. DSU_REG_IN(w) = IF w = NWINDOWS - 1 THEN 8 ELSE w * 16 + 24
  BY InWindow DEF DSU_REG_IN
<1>5. DSU_REG_GLOBAL + n = Word("g", n, w)
  BY DEF DSU_REG_GLOBAL, Word
<1> QED BY <1>1, <1>2, <1>3, <1>4, <1>5, WordValues

-----------------------------------------------------------------------------
(* Remainders *)

LEMMA ModUnique ==
  ASSUME NEW m \in Nat \ {0}, NEW q \in Int, NEW r \in 0..(m - 1), NEW x \in Int, x = m * q + r
  PROVE  x % m = r
<1> DEFINE p == x \div m
           s == x % m
<1>1. s \in 0..(m - 1) /\ p \in Int /\ x = m * p + s
  OBVIOUS
<1> HIDE DEF p, s
<1>2. q < p + 1
  <2>1. CASE q >= p + 1
    <3>1. m * q >= m * (p + 1)
      BY <1>1, <2>1
    <3>2. m * (p + 1) = m * p + m
      BY <1>1
    <3> QED BY <1>1, <3>1, <3>2
  <2> QED BY <1>1, <2>1
<1>3. p < q + 1
  <2>1. CASE p >= q + 1
    <3>1. m * p >= m * (q + 1)
      BY <1>1, <2>1
    <3>2. m * (q + 1) = m * q + m
      BY <1>1
    <3> QED BY <1>1, <3>1, <3>2
  <2> QED BY <1>1, <2>1
<1>4. p = q
  BY <1>1, <1>2, <1>3
<1>5. s = r
  BY <1>1, <1>4
<1> QED BY <1>5 DEF s

(* Multiples of the divisor do not matter. *)
LEMMA ModShift ==
  ASSUME NEW m \in Nat \ {0}, NEW x \in Int, NEW q \in Int, NEW y \in Int, y = x + m * q
  PROVE  y % m = x % m
<1> DEFINE p == x \div m
           s == x % m
<1>1. s \in 0..(m - 1) /\ p \in Int /\ x = m * p + s
  OBVIOUS
<1> HIDE DEF p, s
<1>2. y = m * (p + q) + s
  <2>1. m * (p + q) = m * p + m * q
    BY <1>1
  <2>2. m * p \in Int /\ m * q \in Int
    BY <1>1
  <2> QED BY <1>1, <2>1, <2>2
<1>3. y % m = s
  BY <1>1, <1>2, ModUnique
<1> QED BY <1>3 DEF s

LEMMA ModRange == \A m \in Nat \ {0} : \A x \in Int : x % m \in 0..(m - 1)
OBVIOUS

-----------------------------------------------------------------------------
(* The addresses *)

(* A window pointer one too high is taken for that of the first window. *)
LEMMA WindowAround ==
  ASSUME NEW n \in Group
  PROVE  /\ dsu_get_output_reg_addr(n, NWINDOWS) = Word("o", n, NWINDOWS)
         /\ dsu_get_local_reg_addr(n, NWINDOWS) = Word("l", n, NWINDOWS)
         /\ dsu_get_input_reg_addr(n, NWINDOWS) = Word("i", n, NWINDOWS)
         /\ \A c \in {"o", "l", "i"} : Word(c, n, NWINDOWS) = Word(c, n, 0)
<1>1. /\ Span \in Nat \ {0} /\ NWINDOWS * 16 = Span * 1 /\ n \in 0..7 /\ 0 \in Windows
      /\ NWINDOWS \in Nat /\ NWINDOWS > 0
  BY SpanType DEF Group, Windows
<1>2. \A y \in Nat : (NWINDOWS * 16 + y) % Span = y % Span
  <2>1. ASSUME NEW y \in Nat PROVE (NWINDOWS * 16 + y) % Span = y % Span
    <3> DEFINE z == NWINDOWS * 16 + y
    <3>1. z = y + Span * 1 /\ z \in Int
      BY <1>1
    <3> HIDE DEF z
    <3>2. z % Span = y % Span
      <4>1. Span \in Nat \ {0} /\ y \in Int /\ 1 \in Int
        BY <1>1
      <4> QED BY <3>1, <4>1, ModShift, Zenon
    <3> QED BY <3>2 DEF z
  <2> QED BY <2>1
<1>3. /\ dsu_get_output_reg_addr(n, NWINDOWS) = dsu_get_output_reg_addr(n, 0)
      /\ dsu_get_local_reg_addr(n, NWINDOWS) = dsu_get_local_reg_addr(n, 0)
      /\ dsu_get_input_reg_addr(n, NWINDOWS) = dsu_get_input_reg_addr(n, 0)
  <2>1. /\ (NWINDOWS * 16 + 8 + n) % Span = (0 * 16 + 8 + n) % Span
        /\ (NWINDOWS * 16 + 16 + n) % Span = (0 * 16 + 16 + n) % Span
        /\ (NWINDOWS * 16 + 24 + n) % Span = (0 * 16 + 24 + n) % Span
    <3>1. 8 + n \in Nat /\ 16 + n \in Nat /\ 24 + n \in Nat
      BY <1>1
    <3>2. /\ NWINDOWS * 16 + 8 + n = NWINDOWS * 16 + (8 + n)
          /\ NWINDOWS * 16 + 16 + n = NWINDOWS * 16 + (16 + n)
          /\ NWINDOWS * 16 + 24 + n = NWINDOWS * 16 + (24 + n)
          /\ 0 * 16 + 8 + n = 8 + n /\ 0 * 16 + 16 + n = 16 + n /\ 0 * 16 + 24 + n = 24 + n
      BY <1>1
    <3> QED BY <1>2, <3>1, <3>2
  <2>2. ~ (NWINDOWS > NWINDOWS) /\ ~ (0 > NWINDOWS)
    BY <1>1
  <2> QED BY <2>1, <2>2 DEF dsu_get_output_reg_addr, dsu_get_local_reg_addr, dsu_get_input_reg_addr
<1>4. \A c \in {"o", "l", "i"} : CoreReg(c, n, NWINDOWS) = CoreReg(c, n, 0)
  <2>1. /\ (NWINDOWS * 16 + n) % Span = (0 * 16 + n) % Span
        /\ (NWINDOWS * 16 + 8 + n) % Span = (0 * 16 + 8 + n) % Span
        /\ (NWINDOWS * 16 + 16 + n) % Span = (0 * 16 + 16 + n) % Span
    <3>1. n \in Nat /\ 8 + n \in Nat /\ 16 + n \in Nat
      BY <1>1
    <3>2. /\ NWINDOWS * 16 + 8 + n = NWINDOWS * 16 + (8 + n)
          /\ NWINDOWS * 16 + 16 + n = NWINDOWS * 16 + (16 + n)
          /\ 0 * 16 + n = n /\ 0 * 16 + 8 + n = 8 + n /\ 0 * 16 + 16 + n = 16 + n
      BY <1>1
    <3> QED BY <1>2, <3>1, <3>2
  <2> QED BY <2>1 DEF CoreReg
<1>5. \A c \in {"o", "l", "i"} : Word(c, n, NWINDOWS) = Word(c, n, 0)
  BY <1>4 DEF Word
<1>6. /\ dsu_get_output_reg_addr(n, 0) = Word("o", n, 0)
      /\ dsu_get_local_reg_addr(n, 0) = Word("l", n, 0)
      /\ dsu_get_input_reg_addr(n, 0) = Word("i", n, 0)
  BY <1>1, AddressesRight
<1> QED BY <1>3, <1>5, <1>6

(* In every window the functions accept, they are right; a refused window  *)
(* answers Nowhere.                                                        *)
LEMMA AcceptedRight ==
  ASSUME NEW n \in Group, NEW w \in 0..31
  PROVE  IF w > NWINDOWS
           THEN /\ dsu_get_output_reg_addr(n, w) = Nowhere
                /\ dsu_get_local_reg_addr(n, w) = Nowhere
                /\ dsu_get_input_reg_addr(n, w) = Nowhere
           ELSE /\ dsu_get_output_reg_addr(n, w) = Word("o", n, w)
                /\ dsu_get_local_reg_addr(n, w) = Word("l", n, w)
                /\ dsu_get_input_reg_addr(n, w) = Word("i", n, w)
<1>1. CASE w > NWINDOWS
  BY <1>1 DEF dsu_get_output_reg_addr, dsu_get_local_reg_addr, dsu_get_input_reg_addr
<1>2. CASE w = NWINDOWS
  <2>1. ~ (w > NWINDOWS)
    BY <1>2
  <2> QED BY <1>2, <2>1, WindowAround
<1>3. CASE w < NWINDOWS
  <2>1. w \in Windows /\ ~ (w > NWINDOWS)
    BY <1>3, SpanType DEF Windows
  <2> QED BY <2>1, AddressesRight
<1> QED BY <1>1, <1>2, <1>3, SpanType

LEMMA SpecialAddress ==
  ASSUME NEW name \in {"psr", "tbr", "wim", "y", "pc", "npc", "fsr"}
  PROVE  /\ DSU_REG_SPECIAL(name) \in SpecialWords
         /\ DSU_REG_SPECIAL(name) = DSU_REG_PSR <=> name = "psr"
         /\ DSU_REG_SPECIAL(name) # Nowhere
<1> DEFINE j == CHOOSE e \in 1..7 : Specials[e] = name
<1>1. /\ Specials[1] = "y" /\ Specials[2] = "psr" /\ Specials[3] = "wim" /\ Specials[4] = "tbr"
      /\ Specials[5] = "pc" /\ Specials[6] = "npc" /\ Specials[7] = "fsr"
  BY DEF Specials
<1>2. \E e \in 1..7 : Specials[e] = name
  BY <1>1
<1>3. j \in 1..7 /\ Specials[j] = name
  BY <1>2
<1>4. DSU_REG_SPECIAL(name) = 262144 + j - 1
  BY DEF DSU_REG_SPECIAL, DSU_SPECIAL
<1> HIDE DEF j
<1>5. j = 2 <=> name = "psr"
  <2>1. j \in {1, 2, 3, 4, 5, 6, 7}
    BY <1>3
  <2> QED BY <1>1, <1>3, <2>1
<1> QED BY <1>3, <1>4, <1>5 DEF SpecialWords, DSU_SPECIAL, DSU_REG_PSR, Nowhere

LEMMA Apart ==
  /\ \A a \in IuWords \cup FpuWords : a # DSU_REG_PSR /\ a # Nowhere
  /\ DSU_REG_PSR \in Words /\ Words \subseteq Int
BY SpanType, WindowsAssumption DEF IuWords, FpuWords, SpecialWords, Words, DSU_SPECIAL, DSU_REG_PSR, Nowhere

-----------------------------------------------------------------------------
(* The names *)

LEMMA DigitOf ==
  ASSUME NEW h \in 0..9, NEW c, IsDigit(c, h)
  PROVE  Digit(c) \in 0..h
<1>1. \A d, e \in 0..9 : Digits[d + 1] = Digits[e + 1] => d = e
  <2>1. /\ Digits[1] = "0" /\ Digits[2] = "1" /\ Digits[3] = "2" /\ Digits[4] = "3"
        /\ Digits[5] = "4" /\ Digits[6] = "5" /\ Digits[7] = "6" /\ Digits[8] = "7"
        /\ Digits[9] = "8" /\ Digits[10] = "9"
    BY DEF Digits
  <2>2. SUFFICES ASSUME NEW d \in 1..10, NEW e \in 1..10, Digits[d] = Digits[e] PROVE d = e
    <3>1. \A d, e \in 0..9 : d + 1 \in 1..10 /\ e + 1 \in 1..10 /\ (d + 1 = e + 1 => d = e)
      OBVIOUS
    <3> QED BY <2>2, <3>1
  <2>3. d \in {1, 2, 3, 4, 5, 6, 7, 8, 9, 10} /\ e \in {1, 2, 3, 4, 5, 6, 7, 8, 9, 10}
    OBVIOUS
  <2> QED BY <2>1, <2>2, <2>3
<1>2. PICK d \in 0..h : Digits[d + 1] = c
  BY DEF IsDigit
<1>3. d \in 0..9
  OBVIOUS
<1>4. Digit(c) \in 0..9 /\ Digits[Digit(c) + 1] = c
  BY <1>2, <1>3 DEF Digit
<1>5. Digit(c) = d
  BY <1>1, <1>2, <1>3, <1>4
<1> QED BY <1>5

SingleNames == {"psr", "tbr", "wim", "y", "pc", "npc", "fsr"}

(* What a descriptor is, for a name and a current window. *)
Known(d, reg, w) ==
  \/ reg[1] \in SpecialNames /\ d = Desc(reg[1], 0, w)
  \/ reg[1] \in Windowed /\ Digit(reg[2]) \in Group /\ d = Desc(reg[1], Digit(reg[2]), w)
  \/ /\ reg[1] \in {"f", "d"} /\ parse_register_number(Tail(reg)) \in 0..9
     /\ d = Desc(reg[1], parse_register_number(Tail(reg)), w)
  \/ /\ reg[1] = "w" /\ reg[3] \in Windowed \cup {"y"}
     /\ Digit(reg[4]) \in Group /\ Digit(reg[2]) \in Group
     /\ d = Desc(reg[3], Digit(reg[4]), Digit(reg[2]))

LEMMA ParseKinds ==
  ASSUME NEW reg \in Seq(STRING), NEW w \in 0..31, NEW d, d = parse_register(reg, w)
  PROVE  \/ d.name = "inv"
         \/ d.name = "w" /\ d.window \in 0..31
         \/ Known(d, reg, w)
<1>1. CASE Len(reg) = 1 /\ reg[1] \in SpecialNames
  <2>1. d = Desc(reg[1], 0, w)
    BY <1>1 DEF parse_register
  <2> QED BY <1>1, <2>1 DEF Known
<1>2. CASE Len(reg) = 2 /\ reg[1] \in Windowed /\ IsDigit(reg[2], 7)
  <2>1. d = Desc(reg[1], Digit(reg[2]), w)
    BY <1>2 DEF parse_register, SpecialNames, Windowed
  <2>2. Digit(reg[2]) \in Group
    BY <1>2, DigitOf DEF Group
  <2> QED BY <1>2, <2>1, <2>2 DEF Known
<1>3. CASE Len(reg) > 1 /\ reg[1] \in {"f", "d"} /\ NumberAccepted(Tail(reg))
  <2>1. d = Desc(reg[1], parse_register_number(Tail(reg)), w)
    BY <1>3 DEF parse_register, SpecialNames, Windowed
  <2>2. parse_register_number(Tail(reg)) \in 0..9
    <3> DEFINE s == Tail(reg)
    <3>0. NumberAccepted(s)
      BY <1>3
    <3> HIDE DEF s
    <3>1. Len(s) = 2 => IsDigit(s[2], 9)
      BY <3>0 DEF NumberAccepted
    <3>2. Len(s) = 2 => Digit(s[2]) \in 0..9
      BY <3>1, DigitOf
    <3>3. Len(s) \in {1, 2}
      BY <3>0 DEF NumberAccepted
    <3>4. parse_register_number(s) \in 0..9
      BY <3>2, <3>3 DEF parse_register_number
    <3> QED BY <3>4 DEF s
  <2> QED BY <1>3, <2>1, <2>2 DEF Known
<1>4. CASE Len(reg) = 2 /\ reg[1] = "w" /\ IsDigit(reg[2], 7)
  <2>1. d = Desc("w", 0, Digit(reg[2]))
    BY <1>4 DEF parse_register, SpecialNames, Windowed
  <2>2. Digit(reg[2]) \in 0..7
    BY <1>4, DigitOf
  <2> QED BY <2>1, <2>2 DEF Desc
<1>5. CASE Len(reg) = 4 /\ reg[1] = "w" /\ IsDigit(reg[2], 7) /\ IsDigit(reg[4], 7)
  <2>1. d = IF reg[3] \in Windowed \cup {"y", "w"}
              THEN Desc(reg[3], Digit(reg[4]), Digit(reg[2])) ELSE Invalid(w)
    BY <1>5 DEF parse_register, SpecialNames, Windowed
  <2>2. Digit(reg[2]) \in Group /\ Digit(reg[4]) \in Group
    BY <1>5, DigitOf DEF Group
  <2>3. CASE reg[3] \notin Windowed \cup {"y", "w"}
    BY <2>1, <2>3 DEF Invalid, Desc
  <2>4. CASE reg[3] = "w"
    <3>1. d = Desc("w", Digit(reg[4]), Digit(reg[2]))
      BY <2>1, <2>4
    <3> QED BY <2>2, <3>1 DEF Desc, Group
  <2>5. CASE reg[3] \in Windowed \cup {"y"}
    <3>1. d = Desc(reg[3], Digit(reg[4]), Digit(reg[2]))
      BY <2>1, <2>5
    <3> QED BY <1>5, <2>2, <2>5, <3>1 DEF Known
  <2> QED BY <2>3, <2>4, <2>5
<1>6. CASE /\ ~ (Len(reg) = 1 /\ reg[1] \in SpecialNames)
           /\ ~ (Len(reg) = 2 /\ reg[1] \in Windowed /\ IsDigit(reg[2], 7))
           /\ ~ (Len(reg) > 1 /\ reg[1] \in {"f", "d"} /\ NumberAccepted(Tail(reg)))
           /\ ~ (Len(reg) = 2 /\ reg[1] = "w" /\ IsDigit(reg[2], 7))
           /\ ~ (Len(reg) = 4 /\ reg[1] = "w" /\ IsDigit(reg[2], 7) /\ IsDigit(reg[4], 7))
  <2>1. d = Invalid(w)
    BY <1>6 DEF parse_register
  <2> QED BY <2>1 DEF Invalid, Desc
<1> QED BY <1>1, <1>2, <1>3, <1>4, <1>5, <1>6

(* The fields of a descriptor. *)
LEMMA KnownFields ==
  ASSUME NEW reg, NEW w \in 0..31, NEW d, Known(d, reg, w)
  PROVE  /\ d.name \in SpecialNames \cup Windowed \cup {"f", "d"}
         /\ d.num \in 0..9 /\ d.window \in 0..31
         /\ d.name \in Windowed => d.num \in Group
         /\ d.window = w \/ reg[1] = "w"
         /\ d.name \in {"psr", "fp", "sp"} => reg[1] = d.name
         /\ d.name = "d" <=> reg[1] = "d"
<1>1. CASE reg[1] \in SpecialNames /\ d = Desc(reg[1], 0, w)
  BY <1>1 DEF Desc, SpecialNames, Windowed
<1>2. CASE reg[1] \in Windowed /\ Digit(reg[2]) \in Group /\ d = Desc(reg[1], Digit(reg[2]), w)
  BY <1>2 DEF Desc, SpecialNames, Windowed, Group
<1>3. CASE /\ reg[1] \in {"f", "d"} /\ parse_register_number(Tail(reg)) \in 0..9
           /\ d = Desc(reg[1], parse_register_number(Tail(reg)), w)
  BY <1>3 DEF Desc, SpecialNames, Windowed
<1>4. CASE /\ reg[1] = "w" /\ reg[3] \in Windowed \cup {"y"}
           /\ Digit(reg[4]) \in Group /\ Digit(reg[2]) \in Group
           /\ d = Desc(reg[3], Digit(reg[4]), Digit(reg[2]))
  BY <1>4 DEF Desc, SpecialNames, Windowed, Group
<1> QED BY <1>1, <1>2, <1>3, <1>4 DEF Known

(* The word, or the words of a double, a descriptor leads to. *)
IsTarget(words, d) ==
  /\ words \in Seq(Int)
  /\ Len(words) = IF d.name = "d" THEN 2 ELSE 1
  /\ \A j \in 1..Len(words) : words[j] \in Words \cup {Nowhere}
  /\ (\E j \in 1..Len(words) : words[j] = Nowhere) =>
       d.window > NWINDOWS /\ d.name \in {"o", "l", "i", "sp", "fp"}
  /\ (\E j \in 1..Len(words) : words[j] = DSU_REG_PSR) => d.name = "psr"
  /\ d.name = "d" => words[1] # words[2]

LEMMA OneWord ==
  ASSUME NEW d, d.name # "d", NEW a \in Words \cup {Nowhere},
         a = Nowhere => d.window > NWINDOWS /\ d.name \in {"o", "l", "i", "sp", "fp"},
         a = DSU_REG_PSR => d.name = "psr"
  PROVE  IsTarget(<<a>>, d)
<1>1. a \in Int
  BY Apart DEF Nowhere
<1>2. <<a>> \in Seq(Int) /\ Len(<<a>>) = 1 /\ <<a>>[1] = a
  BY <1>1
<1> QED BY <1>2 DEF IsTarget

WindowedAt(n, w) ==
  {dsu_get_output_reg_addr(n, w), dsu_get_local_reg_addr(n, w), dsu_get_input_reg_addr(n, w)}

LEMMA WindowedWord ==
  ASSUME NEW n \in Group, NEW w \in 0..31, NEW a \in WindowedAt(n, w)
  PROVE  a \in IuWords \cup {Nowhere} /\ (a = Nowhere => w > NWINDOWS)
<1>1. n \in Nat /\ w \in Nat /\ Span \in Nat \ {0}
  BY SpanType DEF Group
<1>2. CASE w > NWINDOWS
  <2>1. a = Nowhere
    BY <1>2 DEF WindowedAt, dsu_get_output_reg_addr, dsu_get_local_reg_addr, dsu_get_input_reg_addr
  <2> QED BY <1>2, <2>1
<1>3. CASE ~ (w > NWINDOWS)
  <2>1. \E x \in Int : a = x % Span
    <3>1. w * 16 + 8 + n \in Int /\ w * 16 + 16 + n \in Int /\ w * 16 + 24 + n \in Int
      BY <1>1
    <3> QED BY <1>3, <3>1
            DEF WindowedAt, dsu_get_output_reg_addr, dsu_get_local_reg_addr,
                dsu_get_input_reg_addr
  <2>2. a \in 0..(Span - 1)
    BY <1>1, <2>1, ModRange
  <2> QED BY <1>1, <2>2 DEF IuWords, Nowhere
<1> QED BY <1>2, <1>3

LEMMA TargetIsTarget ==
  ASSUME NEW reg, NEW w \in 0..31, NEW d, Known(d, reg, w)
  PROVE  IsTarget(Target(d), d)
<1>1. /\ d.name \in SpecialNames \cup Windowed \cup {"f", "d"}
      /\ d.num \in 0..9 /\ d.window \in 0..31
      /\ d.name \in Windowed => d.num \in Group
  BY KnownFields
<1>2. IuWords \subseteq Words /\ FpuWords \subseteq Words /\ SpecialWords \subseteq Words
      /\ Nowhere \notin Words /\ 6 \in Group
  BY SpanType DEF Words, Nowhere, IuWords, FpuWords, SpecialWords, DSU_SPECIAL, Group
<1>3. CASE d.name \in {"o", "l", "i", "sp", "fp"}
  <2>0. PICK n \in Group : \E a \in WindowedAt(n, d.window) : Target(d) = <<a>>
    <3>1. CASE d.name = "o"
      BY <1>1, <3>1 DEF Target, Windowed, WindowedAt
    <3>2. CASE d.name = "l"
      BY <1>1, <3>2 DEF Target, Windowed, WindowedAt
    <3>3. CASE d.name = "i"
      BY <1>1, <3>3 DEF Target, Windowed, WindowedAt
    <3>4. CASE d.name = "sp"
      BY <1>1, <1>2, <3>4 DEF Target, WindowedAt
    <3>5. CASE d.name = "fp"
      BY <1>1, <1>2, <3>5 DEF Target, WindowedAt
    <3> QED BY <1>3, <3>1, <3>2, <3>3, <3>4, <3>5
  <2>1. PICK a \in WindowedAt(n, d.window) : Target(d) = <<a>>
    BY <2>0
  <2>2. a \in IuWords \cup {Nowhere} /\ (a = Nowhere => d.window > NWINDOWS)
    BY <1>1, <2>1, WindowedWord
  <2>3. a # DSU_REG_PSR /\ a \in Words \cup {Nowhere}
    BY <1>2, <2>2, Apart DEF DSU_REG_PSR, DSU_SPECIAL, Nowhere
  <2> QED BY <1>3, <2>1, <2>2, <2>3, OneWord
<1>4. CASE d.name = "g"
  <2>1. Target(d) = <<Span + d.num>> /\ d.num \in 0..7
    BY <1>1, <1>4 DEF Target, Windowed, dsu_get_global_reg_addr, Group
  <2>2. Span + d.num \in IuWords
    BY <2>1, SpanType DEF IuWords
  <2> QED BY <1>2, <1>4, <2>1, <2>2, Apart, OneWord
<1>5. CASE d.name = "f"
  <2>1. PICK a \in FpuWords : Target(d) = <<a>>
    BY <1>1, <1>5 DEF Target, dsu_get_fpu_reg_addr, FpuWords
  <2>2. a # DSU_REG_PSR /\ a # Nowhere /\ a \in Words
    BY <1>2, Apart
  <2> QED BY <1>5, <2>1, <2>2, OneWord
<1>6. CASE d.name = "d"
  <2>1. PICK a \in FpuWords : a + 1 \in FpuWords /\ Target(d) = <<a, a + 1>>
    <3>1. Target(d) = <<1024 + 32 + d.num * 2, 1024 + 32 + d.num * 2 + 1>>
      BY <1>6 DEF Target, DSU_DOUBLE
    <3>2. 1024 + 32 + d.num * 2 \in FpuWords /\ 1024 + 32 + d.num * 2 + 1 \in FpuWords
      BY <1>1 DEF FpuWords
    <3> QED BY <3>1, <3>2
  <2>2. a \in Int /\ a + 1 \in Int
    BY DEF FpuWords
  <2>3. /\ Target(d) \in Seq(Int) /\ Len(Target(d)) = 2
        /\ Target(d)[1] = a /\ Target(d)[2] = a + 1
    BY <2>1, <2>2
  <2>4. \A j \in 1..2 : Target(d)[j] \in FpuWords
    BY <2>1, <2>3
  <2> QED BY <1>2, <1>6, <2>2, <2>3, <2>4, Apart DEF IsTarget
<1>7. CASE d.name \in SingleNames
  <2>1. Target(d) = <<DSU_REG_SPECIAL(d.name)>>
    BY <1>7 DEF Target, SingleNames
  <2> QED BY <1>2, <1>7, <2>1, SpecialAddress, OneWord DEF SingleNames
<1> QED BY <1>1, <1>3, <1>4, <1>5, <1>6, <1>7 DEF SpecialNames, Windowed, SingleNames

(* The words a name means; with the name as a parameter. *)
MeantBy(reg, w) ==
  IF reg[1] = "d" THEN <<Means(reg, w), Means(reg, w) + 1>> ELSE <<Means(reg, w)>>

(* Names whose word is another one in another window. *)
Moving == {"o", "l", "i", "sp", "fp"}

(* What a name means is where its descriptor leads, unless the window is   *)
(* refused.  The window counts only for names that do not give it.         *)
LEMMA TargetMeant ==
  ASSUME NEW reg, NEW w \in 0..31, NEW d, Known(d, reg, w), Literal(reg)
  PROVE  /\ Target(d) = IF d.window > NWINDOWS /\ d.name \in Moving THEN <<Nowhere>>
                        ELSE MeantBy(reg, w)
         /\ d.window # w \/ d.name \notin Moving => \A v : MeantBy(reg, v) = MeantBy(reg, w)
         /\ MeantBy(reg, NWINDOWS) = MeantBy(reg, 0)
<1>0. 6 \in Group
  BY DEF Group
<1>1. CASE reg[1] \in SingleNames /\ d = Desc(reg[1], 0, w)
  <2>1. Target(d) = <<DSU_REG_SPECIAL(reg[1])>>
    BY <1>1 DEF Target, Desc, SingleNames
  <2>2. \A v : Means(reg, v) = DSU_REG_SPECIAL(reg[1])
    <3>1. \A v : Means(reg, v) = Word(reg[1], 0, v)
      BY <1>1 DEF Means, SingleNames, Windowed
    <3>2. \A v : Word(reg[1], 0, v) = DSU_REG_SPECIAL(reg[1])
      BY <1>1 DEF Word, SingleNames
    <3> QED BY <3>1, <3>2
  <2>3. reg[1] # "d" /\ d.name \notin Moving
    BY <1>1 DEF SingleNames, Desc, Moving
  <2> QED BY <2>1, <2>2, <2>3 DEF MeantBy
<1>2. CASE reg[1] \in {"sp", "fp"} /\ d = Desc(reg[1], 0, w)
  <2>1. \A v : MeantBy(reg, v) = <<Word(IF reg[1] = "sp" THEN "o" ELSE "i", 6, v)>>
    <3>1. ASSUME NEW v PROVE Means(reg, v) = Word(IF reg[1] = "sp" THEN "o" ELSE "i", 6, v)
      BY <1>2 DEF Means, Windowed
    <3> QED BY <1>2, <3>1 DEF MeantBy
  <2>2. /\ Target(d) = <<IF reg[1] = "sp" THEN dsu_get_output_reg_addr(6, w)
                                          ELSE dsu_get_input_reg_addr(6, w)>>
        /\ d.window = w /\ d.name \in Moving
    BY <1>2 DEF Target, Desc, Moving
  <2>3. Target(d) = IF d.window > NWINDOWS THEN <<Nowhere>> ELSE MeantBy(reg, w)
    BY <1>0, <1>2, <2>1, <2>2, AcceptedRight
  <2>4. MeantBy(reg, NWINDOWS) = MeantBy(reg, 0)
    BY <1>0, <2>1, WindowAround
  <2> QED BY <2>2, <2>3, <2>4
<1>3. CASE reg[1] \in Windowed /\ Digit(reg[2]) \in Group /\ d = Desc(reg[1], Digit(reg[2]), w)
  <2>1. \A v : MeantBy(reg, v) = <<Word(reg[1], Digit(reg[2]), v)>>
    BY <1>3 DEF MeantBy, Means, Windowed
  <2>2. /\ Target(d) = << CASE reg[1] = "g" -> dsu_get_global_reg_addr(Digit(reg[2]))
                            [] reg[1] = "o" -> dsu_get_output_reg_addr(Digit(reg[2]), w)
                            [] reg[1] = "l" -> dsu_get_local_reg_addr(Digit(reg[2]), w)
                            [] reg[1] = "i" -> dsu_get_input_reg_addr(Digit(reg[2]), w) >>
        /\ d.window = w /\ d.name = reg[1]
    BY <1>3 DEF Target, Desc, Windowed
  <2>3. \A n, v : Word("g", n, v) = dsu_get_global_reg_addr(n)
    BY DEF Word, dsu_get_global_reg_addr
  <2>4. Target(d) = IF d.window > NWINDOWS /\ d.name \in Moving THEN <<Nowhere>>
                    ELSE MeantBy(reg, w)
    BY <1>3, <2>1, <2>2, <2>3, AcceptedRight DEF Windowed, Moving
  <2>5. MeantBy(reg, NWINDOWS) = MeantBy(reg, 0)
    BY <1>3, <2>1, <2>3, WindowAround DEF Windowed
  <2>6. d.name \notin Moving => \A v : MeantBy(reg, v) = MeantBy(reg, w)
    <3>1. d.name \notin Moving => reg[1] = "g"
      BY <1>3, <2>2 DEF Windowed, Moving
    <3> QED BY <2>1, <2>3, <3>1
  <2> QED BY <2>2, <2>4, <2>5, <2>6
<1>4. CASE /\ reg[1] \in {"f", "d"}
           /\ d = Desc(reg[1], parse_register_number(Tail(reg)), w)
  <2>1. WholeNumber(Tail(reg)) = parse_register_number(Tail(reg))
    BY <1>4 DEF Literal
  <2>2. \A v : Means(reg, v) = Word(reg[1], parse_register_number(Tail(reg)), v)
    BY <1>4, <2>1 DEF Means, Windowed
  <2>3. d.name = reg[1] /\ d.num = parse_register_number(Tail(reg))
    BY <1>4 DEF Desc
  <2>4. Target(d) = IF reg[1] = "d" THEN <<1024 + 32 + d.num * 2, 1024 + 32 + d.num * 2 + 1>>
                    ELSE <<1024 + d.num>>
    BY <1>4, <2>3 DEF Target, DSU_DOUBLE, dsu_get_fpu_reg_addr
  <2>5. \A v : Means(reg, v) = IF reg[1] = "d" THEN 1024 + 32 + d.num * 2 ELSE 1024 + d.num
    BY <1>4, <2>2, <2>3 DEF Word
  <2>6. \A v : MeantBy(reg, v) = Target(d)
    BY <2>4, <2>5 DEF MeantBy
  <2>7. d.name \notin Moving
    BY <1>4, <2>3 DEF Moving
  <2> QED BY <2>6, <2>7
<1>5. CASE /\ reg[1] = "w" /\ reg[3] \in Windowed \cup {"y"}
           /\ Digit(reg[4]) \in Group /\ Digit(reg[2]) \in Group
           /\ d = Desc(reg[3], Digit(reg[4]), Digit(reg[2]))
  <2>1. Digit(reg[2]) \in 0..31
    BY <1>5 DEF Group
  <2>2. CASE reg[3] = "y"
    <3>1. Target(d) = <<DSU_REG_SPECIAL("y")>>
      BY <1>5, <2>2 DEF Target, Desc
    <3>2. \A v : Means(reg, v) = DSU_REG_SPECIAL("y")
      <4>1. ASSUME NEW v PROVE Means(reg, v) = Word("y", 0, v)
        BY <1>5, <2>2 DEF Means, Windowed
      <4>2. \A v : Word("y", 0, v) = DSU_REG_SPECIAL("y")
        BY DEF Word
      <4> QED BY <4>1, <4>2
    <3>3. d.name \notin Moving
      BY <1>5, <2>2 DEF Desc, Moving
    <3> QED BY <1>5, <3>1, <3>2, <3>3 DEF MeantBy
  <2>3. CASE reg[3] \in Windowed
    <3>1. \A v : MeantBy(reg, v) = <<Word(reg[3], Digit(reg[4]), Digit(reg[2]))>>
      <4>1. ASSUME NEW v PROVE Means(reg, v) = Word(reg[3], Digit(reg[4]), Digit(reg[2]))
        BY <1>5, <2>3 DEF Means, Windowed
      <4> QED BY <1>5, <4>1 DEF MeantBy
    <3>2. /\ Target(d) = << CASE reg[3] = "g" -> dsu_get_global_reg_addr(Digit(reg[4]))
                              [] reg[3] = "o" -> dsu_get_output_reg_addr(Digit(reg[4]), Digit(reg[2]))
                              [] reg[3] = "l" -> dsu_get_local_reg_addr(Digit(reg[4]), Digit(reg[2]))
                              [] reg[3] = "i" -> dsu_get_input_reg_addr(Digit(reg[4]), Digit(reg[2])) >>
          /\ d.window = Digit(reg[2]) /\ d.name = reg[3]
      BY <1>5, <2>3 DEF Target, Desc, Windowed
    <3>3. \A n, v : Word("g", n, v) = dsu_get_global_reg_addr(n)
      BY DEF Word, dsu_get_global_reg_addr
    <3>4. Target(d) = IF d.window > NWINDOWS /\ d.name \in Moving THEN <<Nowhere>>
                      ELSE MeantBy(reg, w)
      BY <1>5, <2>1, <2>3, <3>1, <3>2, <3>3, AcceptedRight DEF Windowed, Moving
    <3> QED BY <3>1, <3>4
  <2> QED BY <1>5, <2>2, <2>3
<1> QED BY <1>1, <1>2, <1>3, <1>4, <1>5 DEF Known, SpecialNames, SingleNames

-----------------------------------------------------------------------------
(* The greatest element of a set of numbers *)

LEMMA MaxExists ==
  ASSUME NEW n \in Nat, NEW S \in SUBSET (0..n), S # {}
  PROVE  \E x \in S : \A y \in S : x >= y
<1> DEFINE I == 0..n
           T == {A \in SUBSET I : A # {} /\ ~ \E x \in A : \A y \in A : x >= y}
<1> SUFFICES ASSUME S \in T PROVE FALSE
  OBVIOUS
<1>1. IsFiniteSet(I)
  BY FS_Interval
<1>2. T \subseteq FiniteSubsetsOf(I)
  BY <1>1, FS_Subset DEF FiniteSubsetsOf
<1>3. PICK A \in T : \A B \in T : ~ (<<B, A>> \in StrictSubsetOrdering(I))
  <2>1. IsWellFoundedOn(StrictSubsetOrdering(I), FiniteSubsetsOf(I))
    BY FS_StrictSubsetOrderingWellFounded
  <2>2. T # {}
    OBVIOUS
  <2> HIDE DEF I, T
  <2> QED BY <1>2, <2>1, <2>2, WFMin
<1>4. PICK x \in A : TRUE
  OBVIOUS
<1> DEFINE B == {y \in A : ~ (x >= y)}
<1>5. B \in SUBSET I /\ B # A /\ A \in SUBSET I /\ B \subseteq A
  <2>1. A \in SUBSET I /\ B \subseteq A
    OBVIOUS
  <2>2. x \in Int /\ x >= x
    BY <1>4, <2>1
  <2>3. x \notin B
    BY <2>2
  <2> QED BY <1>4, <2>1, <2>3
<1>6. B # {}
  BY <1>4
<1>7. <<B, A>> \in StrictSubsetOrdering(I)
  BY <1>5 DEF StrictSubsetOrdering
<1>8. PICK z \in B : \A y \in B : z >= y
  BY <1>3, <1>5, <1>6, <1>7
<1>9. \A y \in A : z >= y
  BY <1>4, <1>8
<1> QED BY <1>8, <1>9

LEMMA MaxIsGreatest ==
  ASSUME NEW n \in Nat, NEW S \in SUBSET (0..n), S # {}
  PROVE  Max(S) \in S /\ \A y \in S : Max(S) >= y
BY MaxExists DEF Max

-----------------------------------------------------------------------------
(* The types, part by part: the core, the command, the register it is      *)
(* about, the lines of the trace.                                          *)

RegPlaces == {"psr", "set", "get", "summary"}
InstPlaces == {"pointer", "lines", "rest", "count", "print"}

RegCmds ==
  [name : {"reg"}, reg : {<<>>} \cup Names, val : {<<>>} \cup {<<v, v + 100>> : v \in Values}]
InstCmds == [name : {"inst"}, n : Counts]
NoCmd == [name |-> "none"]

RingLine == [core : {0, 1}, id : Int, part : Nat]
BufferLine == [core : {Garbage, 0, 1}, id : Int, part : Nat]

Machine ==
  /\ file \in [Words -> Int] /\ file[DSU_REG_PSR] \in 0..31 /\ zero \in Int
  /\ ring \in [{0, 1} -> [0..(Lines - 1) -> RingLine]]
  /\ pointer \in [{0, 1} -> 0..(Lines - 1)]
  /\ cpu \in {0, 1} /\ moves \in Nat

(* Only a command begun in step, with no failed access, is calm. *)
Flags == calm \in BOOLEAN /\ synced \in BOOLEAN /\ (calm => synced)

Console ==
  /\ pc \in {"idle"} \cup RegPlaces \cup InstPlaces
  /\ cmd \in {NoCmd} \cup RegCmds \cup InstCmds
  /\ pc \in RegPlaces => cmd \in RegCmds
  /\ pc \in InstPlaces => cmd \in InstCmds
  /\ Flags

(* The descriptor was made from the name and a window pointer, the present *)
(* one if the command is calm and reg has not just written it.             *)
FoundAt(w) == desc = Parsed(w) /\ (calm => w = CWP \/ desc.name = "psr")

Register ==
  /\ pc \in {"set", "get", "summary"} \/ (pc = "idle" /\ cmd.name = "reg" /\ desc # Invalid(0)) =>
       \E w \in 0..31 : FoundAt(w)
  /\ pc \in {"set", "get"} => desc.name \notin {"inv", "w"} /\ k \in 1..Len(Target(desc))
  /\ pc = "set" => cmd.val # <<>>
  /\ pc = "summary" => desc.name = "w" /\ k \in 1..10

Trace ==
  /\ first \in 0..(Space - 1) /\ phase \in {"count", "print"}
  /\ buffer \in Seq(BufferLine) /\ cntr \in Nat /\ pages \in Nat /\ page \in 0..pages
  /\ pc \notin InstPlaces => page = 0
  /\ pc \in {"pointer", "lines"} => buffer = <<>>
  /\ pc = "rest" =>
       Len(buffer) = ReadSize(first, PageSize) /\ ReadSize(first, PageSize) < PageSize
  /\ pc \in {"count", "print"} => Len(buffer) = PageSize /\ pc = phase
  /\ pc \in InstPlaces => firstLine \in 0..PageSize

TypeInv == Machine /\ Console /\ Register /\ Trace

-----------------------------------------------------------------------------
LEMMA CwpIs == Machine => CWP = file[DSU_REG_PSR] /\ CWP \in 0..31
<1>1. \A x \in 0..31 : x % 32 = x
  OBVIOUS
<1> QED BY <1>1 DEF Machine, CWP

(* An access that reads ends with the flags right, and leaves a command    *)
(* calm only by answering in step.                                         *)
LEMMA ReadFlags ==
  ASSUME Flags, ReadWorks \/ ReadLate \/ ReadFails
  PROVE  Flags' /\ (calm' => calm /\ ReadWorks /\ ~ ReadLate /\ ~ ReadFails)
<1>1. CASE ReadWorks
  <2>1. synced /\ synced' = TRUE /\ calm' = calm
    BY <1>1, Zenon DEF ReadWorks, Works
  <2>2. ~ ReadLate /\ (calm' => ~ ReadFails)
    BY <2>1, Zenon DEF ReadLate, ReadFails, Fails
  <2> QED BY <1>1, <2>1, <2>2, Zenon DEF Flags
<1>2. CASE ReadLate
  <2>1. ~ synced /\ synced' \in BOOLEAN /\ calm' = calm
    BY <1>2, Zenon DEF ReadLate, Works
  <2>2. calm = FALSE
    BY <2>1, Zenon DEF Flags
  <2> QED BY <2>1, <2>2, Zenon DEF Flags
<1>3. CASE ReadFails
  <2>1. synced' \in BOOLEAN /\ calm' = FALSE
    BY <1>3, Zenon DEF ReadFails, Fails
  <2> QED BY <2>1, Zenon DEF Flags
<1> QED BY <1>1, <1>2, <1>3

LEMMA WriteFlags ==
  ASSUME Flags, Works \/ Fails, synced' = synced
  PROVE  Flags' /\ (calm' => calm /\ ~ Fails)
<1>1. CASE Works
  <2>1. calm' = calm
    BY <1>1, Zenon DEF Works
  <2>2. calm' => ~ Fails
    BY Zenon DEF Fails
  <2> QED BY <2>1, <2>2, Zenon DEF Flags
<1>2. CASE Fails
  <2>1. calm' = FALSE
    BY <1>2, Zenon DEF Fails
  <2> QED BY <2>1, Zenon DEF Flags
<1> QED BY <1>1, <1>2

LEMMA InitType == Init => TypeInv
<1> SUFFICES ASSUME Init PROVE TypeInv
  OBVIOUS
<1>1. NWINDOWS - 1 \in 0..31 /\ Lines \in Nat \ {0} /\ Space \in Nat \ {0}
  BY WindowsAssumption, LinesAssumption DEF Space
<1>2. Machine
  <2>1. file \in [Words -> Int] /\ file[DSU_REG_PSR] = NWINDOWS - 1
    <3>1. file = [a \in Words |-> IF a = DSU_REG_PSR THEN NWINDOWS - 1 ELSE a + 1000]
      BY DEF Init
    <3>2. ASSUME NEW a \in Words
          PROVE  (IF a = DSU_REG_PSR THEN NWINDOWS - 1 ELSE a + 1000) \in Int
      <4>1. a \in Int
        BY Apart
      <4> QED BY <1>1, <4>1
    <3>3. DSU_REG_PSR \in Words
      BY Apart
    <3> QED BY <3>1, <3>2, <3>3
  <2>2. PICK p \in Pointers :
          /\ pointer = [c \in {0, 1} |-> p]
          /\ ring = [c \in {0, 1} |-> OldRing(c, p)]
    BY DEF Init
  <2>3. p \in 0..(Lines - 1)
    BY InputsAssumption
  <2>4. \A c \in {0, 1} : OldRing(c, p) \in [0..(Lines - 1) -> RingLine]
    <3>1. ASSUME NEW c \in {0, 1}, NEW a \in 0..(Lines - 1)
          PROVE  [core |-> c, id |-> ((a - p) % Lines) - Lines, part |-> 0] \in RingLine
      <4>1. (a - p) % Lines \in 0..(Lines - 1)
        BY <1>1, <2>3, ModRange
      <4>2. ((a - p) % Lines) - Lines \in Int
        BY <1>1, <4>1
      <4> QED BY <4>2 DEF RingLine
    <3> QED BY <3>1 DEF OldRing
  <2>5. cpu \in {0, 1} /\ moves \in Nat /\ zero \in Int
    BY InputsAssumption DEF Init
  <2> QED BY <1>1, <2>1, <2>2, <2>3, <2>4, <2>5 DEF Machine
<1>3. Console
  BY DEF Init, Console, Flags, NoCmd, RegPlaces, InstPlaces
<1>4. Register
  BY DEF Init, Register
<1>5. Trace
  BY <1>1 DEF Init, Trace, InstPlaces
<1> QED BY <1>2, <1>3, <1>4, <1>5 DEF TypeInv

-----------------------------------------------------------------------------
(* The core executes an instruction *)

LEMMA RecordType ==
  ASSUME NEW r \in [0..(Lines - 1) -> RingLine], NEW p \in 0..(Lines - 1), NEW c \in {0, 1},
         NEW id \in Int, NEW size \in Nat
  PROVE  Record(r, p, c, id, size) \in [0..(Lines - 1) -> RingLine]
<1>1. ASSUME NEW a \in 0..(Lines - 1)
      PROVE  (LET e == (a - p) % Lines
              IN  IF e < size THEN [core |-> c, id |-> id, part |-> e] ELSE r[a]) \in RingLine
  <2>1. (a - p) % Lines \in Nat
    BY LinesAssumption, ModRange
  <2> DEFINE e == (a - p) % Lines
  <2> HIDE DEF e
  <2>2. [core |-> c, id |-> id, part |-> e] \in RingLine
    BY <2>1 DEF e, RingLine
  <2> QED BY <2>2 DEF e
<1> QED BY <1>1 DEF Record

LEMMA ExecuteType ==
  ASSUME TypeInv, Execute \/ MoveWindow
  PROVE  TypeInv'
<1>1. PICK size \in Nat : Executes(size)
  BY InputsAssumption DEF Execute, MoveWindow
<1>2. /\ ring' = [ring EXCEPT ![cpu] = Record(@, pointer[cpu], cpu, moves, size)]
      /\ pointer' = [pointer EXCEPT ![cpu] = (@ + size) % Lines]
      /\ moves' = moves + 1 /\ calm' = FALSE
      /\ UNCHANGED <<zero, cpu, pc, cmd, regVars, instVars, synced, faults, commands>>
  BY <1>1 DEF Executes
<1>3. Machine
  BY DEF TypeInv
<1>4. file' \in [Words -> Int] /\ file'[DSU_REG_PSR] \in 0..31
  <2>1. CASE Execute
    BY <1>3, <2>1 DEF Execute, Machine
  <2>2. CASE MoveWindow
    <3>1. PICK w \in {(CWP + 1) % NWINDOWS, (CWP - 1) % NWINDOWS} :
            file' = [file EXCEPT ![DSU_REG_PSR] = w]
      BY <2>2 DEF MoveWindow
    <3>2. CWP \in Int
      BY <1>3, CwpIs
    <3>3. w \in 0..31
      <4>1. CWP + 1 \in Int /\ CWP - 1 \in Int /\ NWINDOWS \in Nat \ {0}
        BY <3>2, SpanType
      <4>2. w \in 0..(NWINDOWS - 1)
        BY <3>1, <4>1, ModRange
      <4> QED BY <4>2, WindowsAssumption
    <3> QED BY <1>3, <3>1, <3>3, Apart DEF Machine
  <2> QED BY <2>1, <2>2
<1>5. ring' \in [{0, 1} -> [0..(Lines - 1) -> RingLine]]
  <2>1. Record(ring[cpu], pointer[cpu], cpu, moves, size) \in [0..(Lines - 1) -> RingLine]
    BY <1>3, RecordType DEF Machine
  <2> QED BY <1>2, <1>3, <2>1 DEF Machine
<1>6. pointer' \in [{0, 1} -> 0..(Lines - 1)]
  <2>1. (pointer[cpu] + size) % Lines \in 0..(Lines - 1)
    <3>1. pointer[cpu] + size \in Int
      BY <1>3 DEF Machine
    <3> QED BY <3>1, LinesAssumption, ModRange
  <2> QED BY <1>2, <1>3, <2>1 DEF Machine
<1>7. Machine'
  BY <1>2, <1>3, <1>4, <1>5, <1>6 DEF Machine
<1>8. Console'
  BY <1>2 DEF TypeInv, Console, Flags
<1>9. Register'
  <2>1. \A w \in 0..31 : FoundAt(w) => FoundAt(w)'
    BY <1>2 DEF FoundAt, Parsed, regVars
  <2> QED BY <1>2, <2>1 DEF TypeInv, Register, regVars
<1>10. Trace'
  BY <1>2 DEF TypeInv, Trace, instVars, PageSize
<1> QED BY <1>7, <1>8, <1>9, <1>10 DEF TypeInv

-----------------------------------------------------------------------------
(* The commands *)

LEMMA CommandType ==
  ASSUME TypeInv, cli_reg \/ cli_inst
  PROVE  TypeInv'
<1>1. PICK c \in RegCmds \cup InstCmds :
        Command(c, IF c \in RegCmds THEN "psr" ELSE "pointer")
  <2>1. ASSUME NEW c, c \in InstCmds PROVE c \notin RegCmds
    BY <2>1 DEF InstCmds, RegCmds
  <2>2. CASE cli_reg
    <3>1. [name |-> "reg", reg |-> <<>>, val |-> <<>>] \in RegCmds
      BY DEF RegCmds
    <3>2. \A reg \in Names, val \in {<<>>} \cup {<<v, v + 100>> : v \in Values} :
            [name |-> "reg", reg |-> reg, val |-> val] \in RegCmds
      BY DEF RegCmds
    <3>3. PICK c \in RegCmds : Command(c, "psr")
      BY <2>2, <3>1, <3>2 DEF cli_reg
    <3> QED BY <3>3
  <2>3. CASE cli_inst
    <3>1. \A n \in Counts : [name |-> "inst", n |-> n] \in InstCmds
      BY DEF InstCmds
    <3>2. PICK c \in InstCmds : Command(c, "pointer")
      BY <2>3, <3>1 DEF cli_inst
    <3> QED BY <2>1, <3>2
  <2> QED BY <2>2, <2>3
<1>2. /\ cmd' = c /\ calm' = synced /\ synced' = synced
      /\ pc' = IF c \in RegCmds THEN "psr" ELSE "pointer"
      /\ buffer' = <<>> /\ page' = 0 /\ pages' = 0 /\ first' = 0 /\ firstLine' = 0
      /\ cntr' = 0 /\ phase' = "count"
      /\ UNCHANGED <<file, zero, ring, pointer, cpu, moves>>
  BY <1>1 DEF Command, target
<1>3. Machine'
  BY <1>2 DEF TypeInv, Machine
<1>4. Console'
  <2>1. Flags'
    BY <1>2 DEF TypeInv, Console, Flags
  <2> QED BY <1>1, <1>2, <2>1 DEF Console, RegPlaces, InstPlaces
<1>5. Register'
  BY <1>1, <1>2 DEF Register
<1>6. Trace'
  <2>1. Space \in Nat \ {0}
    BY LinesAssumption DEF Space
  <2>2. pc' \in InstPlaces => PageSize' \in Nat
    <3>1. c \in InstCmds => c.n \in Nat
      BY InputsAssumption DEF InstCmds
    <3> QED BY <1>1, <1>2, <3>1 DEF PageSize, InstPlaces
  <2> QED BY <1>2, <2>1, <2>2 DEF Trace, InstPlaces
<1> QED BY <1>3, <1>4, <1>5, <1>6 DEF TypeInv

-----------------------------------------------------------------------------
(* reg *)

(* The descriptor of a register. *)
LEMMA FoundKnown ==
  ASSUME TypeInv, NEW w \in 0..31, FoundAt(w), desc.name \notin {"inv", "w"}, cmd \in RegCmds
  PROVE  /\ cmd.reg \in Names /\ Known(desc, cmd.reg, w)
         /\ IsTarget(Target(desc), desc)
<1>1. cmd.reg # <<>>
  <2>1. Desc("w", 0, w).name = "w"
    BY DEF Desc
  <2> QED BY <2>1 DEF FoundAt, Parsed
<1>2. cmd.reg \in Names
  BY <1>1 DEF RegCmds
<1>3. cmd.reg \in Seq(STRING) /\ desc = parse_register(cmd.reg, w)
  BY <1>1, <1>2, InputsAssumption DEF FoundAt, Parsed
<1>4. Known(desc, cmd.reg, w)
  BY <1>3, ParseKinds
<1> QED BY <1>2, <1>4, TargetIsTarget

LEMMA ReadPsrType ==
  ASSUME TypeInv, ReadPsr
  PROVE  TypeInv'
<1>1. /\ pc = "psr" /\ k' = 1 /\ cmd' = cmd
      /\ UNCHANGED <<target, cpu, cmd, shown, instVars, moves, commands>>
      /\ pc' \in {"idle", "summary", "set", "get"}
  BY DEF ReadPsr
<1>2. PICK w \in {CWP, 0} \cup Late :
        /\ (w = CWP /\ ReadWorks) \/ ReadLate \/ (w = 0 /\ ReadFails)
        /\ desc' = Parsed(w)
  BY DEF ReadPsr
<1>3. /\ pc' = "summary" => desc'.name = "w"
      /\ pc' \in {"set", "get"} => desc'.name \notin {"inv", "w"}
      /\ pc' = "set" => cmd.val # <<>>
  BY DEF ReadPsr
<1>4. cmd \in RegCmds /\ Flags' /\ (calm' => w = CWP)
  <2>1. cmd \in RegCmds /\ Flags
    BY <1>1 DEF TypeInv, Console, RegPlaces
  <2> QED BY <1>2, <2>1, ReadFlags
<1>5. w \in 0..31
  <2>1. CWP \in 0..31 /\ Late \subseteq 0..31
    BY CwpIs, InputsAssumption DEF TypeInv
  <2> QED BY <2>1
<1>6. Machine'
  BY <1>1 DEF TypeInv, Machine, target
<1>7. Console'
  BY <1>1, <1>4 DEF Console, RegPlaces, InstPlaces
<1>8. FoundAt(w)'
  <2>1. CWP' = CWP
    BY <1>1 DEF CWP, target
  <2> QED BY <1>1, <1>2, <1>4, <2>1 DEF FoundAt, Parsed
<1>9. Register'
  <2>1. pc' \in {"set", "get"} => 1 \in 1..Len(Target(desc'))
    <3>1. SUFFICES ASSUME pc' \in {"set", "get"} PROVE 1 \in 1..Len(Target(desc'))
      OBVIOUS
    <3>2. desc'.name \notin {"inv", "w"} /\ cmd' \in RegCmds
      BY <1>1, <1>3, <1>4, <3>1
    <3>3. cmd.reg # <<>>
      <4>1. Desc("w", 0, w).name = "w"
        BY DEF Desc
      <4> QED BY <1>2, <3>2, <4>1 DEF Parsed
    <3>4. cmd.reg \in Seq(STRING) /\ desc' = parse_register(cmd.reg, w)
      BY <1>2, <1>4, <3>3, InputsAssumption DEF Parsed, RegCmds
    <3>5. Known(desc', cmd.reg, w)
      BY <1>5, <3>2, <3>4, ParseKinds
    <3>6. IsTarget(Target(desc'), desc')
      BY <1>5, <3>5, TargetIsTarget
    <3> QED BY <3>6 DEF IsTarget
  <2>3. \E v \in 0..31 : FoundAt(v)'
    BY <1>5, <1>8
  <2>4. pc' \in {"set", "get"} => k' \in 1..Len(Target(desc'))
    BY <1>1, <2>1
  <2>5. pc' = "set" => cmd'.val # <<>>
    BY <1>1, <1>3
  <2>6. pc' = "summary" => k' \in 1..10
    BY <1>1
  <2> QED BY <1>3, <2>3, <2>4, <2>5, <2>6 DEF Register
<1>10. Trace'
  BY <1>1 DEF TypeInv, Trace, instVars, InstPlaces, PageSize
<1> QED BY <1>6, <1>7, <1>9, <1>10 DEF TypeInv

(* The place a register is written or read at. *)
LEMMA AtWord ==
  ASSUME TypeInv, pc \in {"set", "get"}
  PROVE  /\ cmd \in RegCmds
         /\ \E w \in 0..31 : FoundAt(w) /\ Known(desc, cmd.reg, w)
         /\ IsTarget(Target(desc), desc)
         /\ Target(desc)[k] \in Words \cup {Nowhere}
         /\ Target(desc)[k] = DSU_REG_PSR => desc.name = "psr"
         /\ k \in 1..Len(Target(desc)) /\ Len(Target(desc)) \in 1..2
<1>1. cmd \in RegCmds /\ desc.name \notin {"inv", "w"} /\ k \in 1..Len(Target(desc))
  BY DEF TypeInv, Console, Register, RegPlaces
<1>2. PICK w \in 0..31 : FoundAt(w)
  BY DEF TypeInv, Register
<1>3. Known(desc, cmd.reg, w) /\ IsTarget(Target(desc), desc)
  BY <1>1, <1>2, FoundKnown
<1>4. /\ Target(desc)[k] \in Words \cup {Nowhere}
      /\ Target(desc)[k] = DSU_REG_PSR => desc.name = "psr"
      /\ Len(Target(desc)) \in 1..2
  <2> DEFINE T == Target(desc)
  <2>1. IsTarget(T, desc) /\ k \in 1..Len(T)
    BY <1>1, <1>3
  <2> HIDE DEF T
  <2>2. /\ T[k] \in Words \cup {Nowhere}
        /\ T[k] = DSU_REG_PSR => desc.name = "psr"
    BY <2>1, Zenon DEF IsTarget
  <2>3. Len(T) \in 1..2
    BY <2>1 DEF IsTarget
  <2> QED BY <2>2, <2>3 DEF T
<1> QED BY <1>1, <1>2, <1>3, <1>4

(* What is entered. *)
LEMMA ValueType ==
  ASSUME cmd \in RegCmds, cmd.val # <<>>
  PROVE  cmd.val[1] \in 0..31 /\ cmd.val[2] \in Int /\ Len(cmd.val) = 2
<1>1. PICK v \in Values : cmd.val = <<v, v + 100>>
  BY DEF RegCmds
<1> QED BY <1>1, InputsAssumption

LEMMA PutType ==
  ASSUME Machine, NEW a \in Words \cup {Nowhere}, NEW v \in Int, Put(a, v)
  PROVE  /\ file' \in [Words -> Int] /\ file'[DSU_REG_PSR] \in 0..31 /\ zero' \in Int
         /\ a # DSU_REG_PSR => file'[DSU_REG_PSR] = file[DSU_REG_PSR]
         /\ \A b \in Words : b # a => file'[b] = file[b]
         /\ a \in Words => zero' = zero
         /\ a \in Words => file'[a] = IF a = DSU_REG_PSR THEN v % 32 ELSE v
         /\ a = Nowhere => file' = file
<1>1. v % 32 \in 0..31 /\ Nowhere \notin Words
  BY ModRange DEF Nowhere, Words, IuWords, FpuWords, SpecialWords, DSU_SPECIAL
<1>2. CASE a = Nowhere
  BY <1>1, <1>2, Apart DEF Put, Machine
<1>3. CASE a # Nowhere
  <2>1. file' = [file EXCEPT ![a] = IF a = DSU_REG_PSR THEN v % 32 ELSE v] /\ zero' = zero
    BY <1>3 DEF Put
  <2> QED BY <1>1, <1>3, <2>1, Apart DEF Machine
<1> QED BY <1>2, <1>3

(* A register is written, whole or by a failing access, or refused. *)
LEMMA SetWordPuts ==
  ASSUME TypeInv, SetWord
  PROVE  \/ UNCHANGED <<file, zero>> /\ ((Refused({"sp", "fp"}) /\ calm' = calm) \/ calm' = FALSE)
         \/ /\ ~ Refused({"sp", "fp"})
            /\ \/ Put(Target(desc)[k], cmd.val[k]) /\ calm' = calm
               \/ Put(Target(desc)[k], 31) /\ calm' = FALSE
BY DEF SetWord, Works, Fails

LEMMA SetWordFlags ==
  ASSUME TypeInv, SetWord
  PROVE  Flags' /\ (calm' => calm)
<1>1. Flags /\ synced' = synced
  BY DEF TypeInv, Console, SetWord
<1>2. UNCHANGED <<faults, calm>> \/ Works \/ Fails
  BY DEF SetWord
<1> QED BY <1>1, <1>2, WriteFlags DEF Works

LEMMA SetWordType ==
  ASSUME TypeInv, SetWord
  PROVE  TypeInv'
<1>1. /\ pc = "set" /\ cmd' = cmd /\ desc' = desc /\ cpu' = cpu /\ moves' = moves
      /\ UNCHANGED <<ring, pointer, instVars>>
      /\ IF k < Len(Target(desc)) THEN k' = k + 1 /\ pc' = pc ELSE k' = 1 /\ pc' = "get"
  BY DEF SetWord
<1>2. /\ cmd \in RegCmds /\ cmd.val # <<>>
      /\ k \in 1..Len(Target(desc)) /\ Len(Target(desc)) \in 1..2
      /\ Target(desc)[k] \in Words \cup {Nowhere}
      /\ Target(desc)[k] = DSU_REG_PSR => desc.name = "psr"
  BY <1>1, AtWord DEF TypeInv, Register, Console
<1>3. /\ file' \in [Words -> Int] /\ file'[DSU_REG_PSR] \in 0..31 /\ zero' \in Int
      /\ file'[DSU_REG_PSR] = file[DSU_REG_PSR] \/ desc.name = "psr"
  <2>1. cmd.val[k] \in Int
    <3>1. cmd.val[1] \in 0..31 /\ cmd.val[2] \in Int
      BY <1>2, ValueType, Zenon
    <3>2. k = 1 \/ k = 2
      BY <1>2
    <3> QED BY <3>1, <3>2
  <2>2. CASE UNCHANGED <<file, zero>>
    BY <2>2 DEF TypeInv, Machine
  <2>3. CASE Put(Target(desc)[k], cmd.val[k]) \/ Put(Target(desc)[k], 31)
    <3>1. PICK v \in Int : Put(Target(desc)[k], v)
      BY <2>1, <2>3
    <3> DEFINE a == Target(desc)[k]
    <3>2. a \in Words \cup {Nowhere} /\ Put(a, v) /\ (a = DSU_REG_PSR => desc.name = "psr")
      BY <1>2, <3>1
    <3> HIDE DEF a
    <3> QED BY <3>2, PutType DEF TypeInv
  <2> QED BY <2>2, <2>3, SetWordPuts
<1>4. Flags' /\ (calm' => calm)
  BY SetWordFlags
<1>5. Machine'
  BY <1>1, <1>3 DEF TypeInv, Machine
<1>6. Console'
  BY <1>1, <1>2, <1>4 DEF Console, RegPlaces, InstPlaces
<1>7. Register'
  <2>1. PICK w \in 0..31 : FoundAt(w)
    BY <1>1 DEF TypeInv, Register
  <2>2. FoundAt(w)'
    <3>1. CWP' = CWP \/ desc.name = "psr"
      BY <1>3 DEF CWP
    <3> QED BY <1>1, <1>4, <2>1, <3>1 DEF FoundAt, Parsed
  <2>3. k' \in 1..Len(Target(desc)) /\ pc' \in {"set", "get"}
    BY <1>1, <1>2
  <2>4. desc.name \notin {"inv", "w"}
    BY <1>1 DEF TypeInv, Register
  <2> QED BY <1>1, <1>2, <2>2, <2>3, <2>4 DEF Register
<1>8. Trace'
  BY <1>1 DEF TypeInv, Trace, instVars, InstPlaces, PageSize
<1> QED BY <1>5, <1>6, <1>7, <1>8 DEF TypeInv

(* Reading changes nothing of the target. *)
LEMMA GetType ==
  ASSUME TypeInv, GetWord \/ register_print_summary
  PROVE  TypeInv'
<1>1. /\ pc \in {"get", "summary"} /\ cmd' = cmd /\ desc' = desc
      /\ UNCHANGED <<file, zero, ring, pointer, cpu, moves, instVars>>
      /\ \/ pc' = pc /\ k' = k + 1 /\ k < IF pc = "get" THEN Len(Target(desc)) ELSE 10
         \/ pc' = "idle" /\ k' = k
      /\ ReadWorks \/ ReadLate \/ ReadFails \/ (Works /\ synced' = synced)
  BY DEF GetWord, register_print_summary, target
<1>2. cmd \in RegCmds /\ Flags
  BY <1>1 DEF TypeInv, Console, RegPlaces
<1>3. Flags' /\ (calm' => calm)
  BY <1>1, <1>2, ReadFlags, WriteFlags
<1>4. Machine'
  BY <1>1 DEF TypeInv, Machine
<1>5. Console'
  BY <1>1, <1>2, <1>3 DEF Console, RegPlaces, InstPlaces
<1>6. Register'
  <2>1. PICK w \in 0..31 : FoundAt(w)
    BY <1>1 DEF TypeInv, Register
  <2>2. FoundAt(w)'
    BY <1>1, <1>3, <2>1 DEF FoundAt, Parsed, CWP
  <2>3. pc' = "get" => /\ desc.name \notin {"inv", "w"} /\ k' \in 1..Len(Target(desc))
    <3>1. SUFFICES ASSUME pc' = "get"
                   PROVE  desc.name \notin {"inv", "w"} /\ k' \in 1..Len(Target(desc))
      OBVIOUS
    <3>2. pc = "get" /\ k' = k + 1 /\ k < Len(Target(desc))
      BY <1>1, <3>1
    <3>3. k \in 1..Len(Target(desc)) /\ Len(Target(desc)) \in 1..2
      BY <3>2, AtWord
    <3> QED BY <3>2, <3>3 DEF TypeInv, Register
  <2>4. pc' = "summary" => desc.name = "w" /\ k' \in 1..10
    BY <1>1 DEF TypeInv, Register
  <2> QED BY <1>1, <2>2, <2>3, <2>4 DEF Register
<1>7. Trace'
  BY <1>1 DEF TypeInv, Trace, instVars, InstPlaces, PageSize
<1> QED BY <1>4, <1>5, <1>6, <1>7 DEF TypeInv

-----------------------------------------------------------------------------
(* inst *)

LEMMA Concat ==
  ASSUME NEW S, NEW s \in Seq(S), NEW t \in Seq(S)
  PROVE  s \o t \in Seq(S) /\ Len(s \o t) = Len(s) + Len(t) /\ <<>> \in Seq(S)
OBVIOUS

LEMMA ConcatBehind ==
  ASSUME NEW S, NEW s \in Seq(S), NEW t \in Seq(S), NEW j \in (Len(s) + 1)..(Len(s) + Len(t))
  PROVE  (s \o t)[j] = t[j - Len(s)]
OBVIOUS

LEMMA ConcatParts ==
  ASSUME NEW S, NEW s \in Seq(S), NEW t \in Seq(S)
  PROVE  /\ \A j \in 1..Len(s) : (s \o t)[j] = s[j]
         /\ \A j \in (Len(s) + 1)..(Len(s) + Len(t)) : (s \o t)[j] = t[j - Len(s)]
OBVIOUS

LEMMA Elements == \A S : \A s \in Seq(S) : \A j \in 1..Len(s) : s[j] \in S
OBVIOUS

LEMMA SuffixIs ==
  ASSUME NEW S, NEW s \in Seq(S), NEW n \in Nat, Len(s) = n, NEW i \in 0..n
  PROVE  /\ SubSeq(s, i + 1, n) \in Seq(S) /\ Len(SubSeq(s, i + 1, n)) = n - i
         /\ \A j \in 1..(n - i) : SubSeq(s, i + 1, n)[j] = s[i + j]
OBVIOUS

(* Lines are added to the buffer, read or not. *)
LEMMA FetchedType ==
  ASSUME TypeInv, NEW f \in Nat, NEW n \in Nat, FetchedOr(f, n)
  PROVE  /\ buffer' \in Seq(BufferLine) /\ Len(buffer') = Len(buffer) + n
         /\ Flags' /\ (calm' => calm)
<1> DEFINE L == Fetch(ring[Who], f, n)
           Late1(late, part) == [i \in 1..n |-> IF i > late THEN L[i] ELSE GarbageLine(part[i])]
<1>1. PICK s : buffer' = buffer \o s /\
        \/ s = L
        \/ \E late \in 1..n, part \in [1..n -> {0, 1}] : s = Late1(late, part)
        \/ \E part \in {0, 1} : s = [i \in 1..n |-> GarbageLine(part)]
  BY DEF FetchedOr
<1>2. s \in Seq(BufferLine) /\ Len(s) = n
  <2>1. \A i \in 1..n : L[i] \in BufferLine
    <3>1. ring[Who] \in [0..(Lines - 1) -> RingLine]
      BY DEF TypeInv, Machine, Who
    <3>2. \A i \in 1..n : (f + i - 1) % Lines \in 0..(Lines - 1)
      BY LinesAssumption, ModRange
    <3>3. \A i \in 1..n : At(ring[Who], f + i - 1) \in RingLine
      BY <3>1, <3>2 DEF At
    <3> QED BY <3>3 DEF Fetch, RingLine, BufferLine
  <2>2. \A part \in {0, 1} : GarbageLine(part) \in BufferLine
    BY DEF GarbageLine, BufferLine
  <2>3. L \in [1..n -> BufferLine]
    BY <2>1 DEF Fetch
  <2> HIDE DEF L
  <2>4. s \in [1..n -> BufferLine]
    BY <1>1, <2>1, <2>2, <2>3
  <2> QED BY <2>4
<1>3. buffer \in Seq(BufferLine)
  BY DEF TypeInv, Trace
<1>4. Flags' /\ (calm' => calm)
  <2>1. Flags
    BY DEF TypeInv, Console
  <2>2. ReadWorks \/ ReadLate \/ ReadFails
    BY DEF FetchedOr
  <2> QED BY <2>1, <2>2, ReadFlags
<1>5. buffer' \in Seq(BufferLine) /\ Len(buffer') = Len(buffer) + n
  <2>1. buffer' = buffer \o s
    BY <1>1
  <2>2. buffer \o s \in Seq(BufferLine) /\ Len(buffer \o s) = Len(buffer) + Len(s)
    BY <1>2, <1>3, Concat
  <2> QED BY <1>2, <2>1, <2>2
<1> QED BY <1>4, <1>5

(* While the command stays calm, they are those of the ring. *)
LEMMA FetchedCalm ==
  ASSUME TypeInv, NEW f, NEW n, FetchedOr(f, n), calm'
  PROVE  calm /\ buffer' = buffer \o Fetch(ring[Who], f, n)
<1>1. \/ buffer' = buffer \o Fetch(ring[Who], f, n) /\ ReadWorks
      \/ ReadLate \/ ReadFails
  BY DEF FetchedOr
<1> QED BY <1>1, ReadFlags DEF TypeInv, Console

(* A page, and what of it is read before the end of the buffer's space. *)
LEMMA PageType ==
  ASSUME TypeInv, pc \in InstPlaces
  PROVE  /\ cmd \in InstCmds /\ PageSize \in Nat \ {0} /\ cmd.n \in Nat
         /\ ReadSize(first, PageSize) \in 1..PageSize
<1>1. cmd \in InstCmds
  BY DEF TypeInv, Console
<1>2. PageSize \in Nat \ {0} /\ cmd.n \in Nat
  <2>1. cmd.n \in Counts
    BY <1>1 DEF InstCmds
  <2>2. cmd.n \in Nat \ {0}
    BY <2>1, InputsAssumption
  <2> QED BY <2>2 DEF PageSize
<1>3. first \in 0..(Space - 1) /\ Space \in Nat \ {0}
  BY LinesAssumption DEF TypeInv, Trace, Space
<1> QED BY <1>1, <1>2, <1>3 DEF ReadSize

LEMMA ReadPointerType ==
  ASSUME TypeInv, ReadPointer
  PROVE  TypeInv'
<1>1. /\ pc = "pointer" /\ pc' = "lines"
      /\ UNCHANGED <<target, cpu, cmd, regVars, phase, page, buffer, cntr, firstLine, pages, moves>>
      /\ ReadWorks \/ ReadLate \/ ReadFails
  BY DEF ReadPointer
<1>2. PICK p \in {pointer[Who], 0} \cup {l % Lines : l \in Late} :
        first' = FirstLine(p, page * PageSize, PageSize)
  BY DEF ReadPointer
<1>3. PageSize \in Nat /\ cmd \in InstCmds
  BY <1>1, PageType DEF InstPlaces
<1>4. first' \in 0..(Space - 1)
  <2>1. p \in Int /\ page * PageSize \in Int
    <3>1. \A l \in Late : l % Lines \in Int
      BY InputsAssumption, LinesAssumption, ModRange
    <3> QED BY <1>2, <1>3, <3>1 DEF TypeInv, Machine, Trace, Who
  <2>2. p - page * PageSize - PageSize \in Int
    BY <1>3, <2>1
  <2>3. Space \in Nat \ {0}
    BY LinesAssumption DEF Space
  <2> QED BY <1>2, <2>2, <2>3, ModRange DEF FirstLine
<1>5. Machine'
  BY <1>1 DEF TypeInv, Machine, target
<1>6. Console'
  <2>1. Flags'
    BY <1>1, ReadFlags DEF TypeInv, Console
  <2> QED BY <1>1, <1>3, <2>1 DEF Console, RegPlaces, InstPlaces
<1>7. Register'
  BY <1>1 DEF Register
<1>8. Trace'
  BY <1>1, <1>4 DEF TypeInv, Trace, InstPlaces, PageSize
<1> QED BY <1>5, <1>6, <1>7, <1>8 DEF TypeInv

LEMMA ReadLinesType ==
  ASSUME TypeInv, ReadLines
  PROVE  TypeInv'
<1>1. /\ pc = "lines" /\ FetchedOr(first, ReadSize(first, PageSize))
      /\ pc' = IF ReadSize(first, PageSize) < PageSize THEN "rest" ELSE phase
      /\ UNCHANGED <<target, cpu, cmd, regVars, phase, page, first, cntr, firstLine, pages, moves>>
  BY DEF ReadLines
<1>2. /\ PageSize \in Nat /\ cmd \in InstCmds /\ ReadSize(first, PageSize) \in 1..PageSize
      /\ first \in Nat /\ phase \in {"count", "print"} /\ buffer = <<>>
  BY <1>1, PageType, LinesAssumption DEF InstPlaces, TypeInv, Trace, Space
<1>3. /\ buffer' \in Seq(BufferLine) /\ Len(buffer') = ReadSize(first, PageSize)
      /\ Flags'
  <2>1. ReadSize(first, PageSize) \in Nat
    BY <1>2
  <2> QED BY <1>1, <1>2, <2>1, FetchedType
<1>4. Machine'
  BY <1>1 DEF TypeInv, Machine, target
<1>5. Console'
  BY <1>1, <1>2, <1>3 DEF Console, RegPlaces, InstPlaces
<1>6. Register'
  BY <1>1, <1>2 DEF Register
<1>7. Trace'
  BY <1>1, <1>2, <1>3 DEF TypeInv, Trace, InstPlaces, PageSize
<1> QED BY <1>4, <1>5, <1>6, <1>7 DEF TypeInv

LEMMA ReadRestType ==
  ASSUME TypeInv, ReadRest
  PROVE  TypeInv'
<1>1. /\ pc = "rest" /\ FetchedOr(0, PageSize - ReadSize(first, PageSize)) /\ pc' = phase
      /\ UNCHANGED <<target, cpu, cmd, regVars, phase, page, first, cntr, firstLine, pages, moves>>
  BY DEF ReadRest
<1>2. /\ PageSize \in Nat /\ cmd \in InstCmds /\ ReadSize(first, PageSize) \in 1..PageSize
      /\ phase \in {"count", "print"} /\ Len(buffer) = ReadSize(first, PageSize)
  BY <1>1, PageType DEF InstPlaces, TypeInv, Trace
<1>3. /\ buffer' \in Seq(BufferLine) /\ Len(buffer') = PageSize
      /\ Flags'
  <2>1. PageSize - ReadSize(first, PageSize) \in Nat
    BY <1>2
  <2> QED BY <1>1, <1>2, <2>1, FetchedType
<1>4. Machine'
  BY <1>1 DEF TypeInv, Machine, target
<1>5. Console'
  BY <1>1, <1>2, <1>3 DEF Console, RegPlaces, InstPlaces
<1>6. Register'
  BY <1>1, <1>2 DEF Register
<1>7. Trace'
  BY <1>1, <1>2, <1>3 DEF TypeInv, Trace, InstPlaces, PageSize
<1> QED BY <1>4, <1>5, <1>6, <1>7 DEF TypeInv

LEMMA SeenType == ASSUME PageSize \in Nat PROVE \A l : \A i \in 0..PageSize : Seen(l, i) \in Nat
<1>1. SUFFICES ASSUME NEW l, NEW i \in 0..PageSize PROVE Seen(l, i) \in Nat
  OBVIOUS
<1> DEFINE S == {j \in i..PageSize : Begins(IF j = PageSize THEN l ELSE buffer[j + 1])}
<1>2. IsFiniteSet(i..PageSize)
  BY <1>1, FS_Interval
<1>3. IsFiniteSet(S)
  BY <1>2, FS_Subset
<1>4. Cardinality(S) \in Nat
  BY <1>3, FS_CardinalityType
<1> QED BY <1>4 DEF Seen

LEMMA CountPageType ==
  ASSUME TypeInv, CountPage
  PROVE  TypeInv'
<1>1. /\ pc = "count" /\ UNCHANGED <<target, cpu, cmd, regVars, first, synced, calm, moves>>
  BY DEF CountPage, bounds
<1>2. PICK part \in {0, 1} :
       LET hits == {i \in 0..PageSize : cntr + Seen(GarbageLine(part), i) = cmd.n}
       IN  IF hits # {}
             THEN /\ firstLine' = Max(hits) /\ cntr' = cmd.n
                  /\ phase' = "print" /\ pc' = "print"
                  /\ UNCHANGED <<page, pages, buffer>>
             ELSE /\ cntr' = cntr + Seen(GarbageLine(part), 0)
                  /\ page' = NextPage /\ pages' = NextPage /\ buffer' = <<>> /\ pc' = "pointer"
                  /\ UNCHANGED <<firstLine, phase>>
  BY DEF CountPage
<1>3. PageSize \in Nat /\ cmd \in InstCmds /\ cmd.n \in Nat /\ phase = "count" /\ cntr \in Nat
  BY <1>1, PageType DEF InstPlaces, TypeInv, Trace
<1> DEFINE hits == {i \in 0..PageSize : cntr + Seen(GarbageLine(part), i) = cmd.n}
<1>4. \/ /\ firstLine' \in 0..PageSize /\ cntr' \in Nat
         /\ phase' = "print" /\ pc' = "print"
         /\ UNCHANGED <<page, pages, buffer>>
      \/ /\ cntr' \in Nat
         /\ page' = page + 1 /\ pages' = page + 1 /\ buffer' = <<>> /\ pc' = "pointer"
         /\ UNCHANGED <<firstLine, phase>>
  <2>1. CASE hits # {}
    <3>1. Max(hits) \in hits
      <4>1. hits \in SUBSET (0..PageSize)
        OBVIOUS
      <4> HIDE DEF hits
      <4> QED BY <1>3, <2>1, <4>1, MaxIsGreatest
    <3> QED BY <1>2, <1>3, <2>1, <3>1
  <2>2. CASE hits = {}
    <3>1. cntr + Seen(GarbageLine(part), 0) \in Nat
      BY <1>3, SeenType
    <3> QED BY <1>2, <2>2, <3>1 DEF NextPage
  <2> QED BY <2>1, <2>2
<1> HIDE DEF hits
<1>5. Machine'
  BY <1>1 DEF TypeInv, Machine, target
<1>6. Console'
  BY <1>1, <1>3, <1>4 DEF TypeInv, Console, Flags, RegPlaces, InstPlaces
<1>7. Register'
  BY <1>4 DEF Register
<1>8. Trace'
  <2>0. PageSize' = PageSize
    BY <1>1 DEF PageSize
  <2>1. /\ first' \in 0..(Space - 1) /\ buffer \in Seq(BufferLine) /\ pages \in Nat
        /\ page \in 0..pages /\ firstLine \in 0..PageSize /\ Len(buffer) = PageSize
    BY <1>1 DEF TypeInv, Trace, InstPlaces
  <2>2. buffer' \in Seq(BufferLine)
    <3>1. buffer' \in {buffer, <<>>}
      BY <1>4
    <3> QED BY <2>1, <3>1, Concat
  <2>3. pages' \in Nat /\ page' \in 0..pages'
    BY <1>4, <2>1
  <2>4. cntr' \in Nat /\ firstLine' \in 0..PageSize
    BY <1>4, <2>1
  <2>5. \/ pc' = "pointer" /\ buffer' = <<>> /\ phase' = "count"
        \/ pc' = "print" /\ phase' = "print" /\ Len(buffer') = PageSize
    BY <1>3, <1>4, <2>1
  <2> QED BY <2>0, <2>1, <2>2, <2>3, <2>4, <2>5 DEF Trace, InstPlaces
<1> QED BY <1>5, <1>6, <1>7, <1>8 DEF TypeInv

LEMMA PrintPageType ==
  ASSUME TypeInv, PrintPage
  PROVE  TypeInv'
<1>1. /\ pc = "print"
      /\ UNCHANGED <<target, cpu, cmd, regVars, phase, first, cntr, firstLine, pages>>
      /\ UNCHANGED <<synced, calm, moves>>
      /\ IF page = 0 THEN pc' = "idle" /\ UNCHANGED <<page, buffer>>
         ELSE page' = page - 1 /\ buffer' = <<>> /\ pc' = "pointer"
  BY DEF PrintPage, bounds
<1>2. cmd \in InstCmds
  BY <1>1, PageType DEF InstPlaces
<1>3. Machine'
  BY <1>1 DEF TypeInv, Machine, target
<1>4. Console'
  BY <1>1, <1>2 DEF TypeInv, Console, Flags, RegPlaces, InstPlaces
<1>5. Register'
  <2>1. cmd.name = "inst"
    BY <1>2 DEF InstCmds
  <2> QED BY <1>1, <2>1 DEF Register
<1>6. Trace'
  <2>0. PageSize' = PageSize
    BY <1>1 DEF PageSize
  <2>1. /\ first \in 0..(Space - 1) /\ buffer \in Seq(BufferLine) /\ pages \in Nat
        /\ page \in 0..pages /\ firstLine \in 0..PageSize /\ cntr \in Nat
        /\ phase \in {"count", "print"}
    BY <1>1 DEF TypeInv, Trace, InstPlaces
  <2>2. \/ pc' = "idle" /\ page' = 0 /\ buffer' = buffer
        \/ pc' = "pointer" /\ page' \in 0..pages /\ buffer' = <<>>
    BY <1>1, <2>1
  <2>3. page' \in 0..pages /\ buffer' \in Seq(BufferLine)
    <3>1. buffer' \in {buffer, <<>>}
      BY <2>2
    <3>2. buffer' \in Seq(BufferLine)
      BY <2>1, <3>1, Concat
    <3> QED BY <2>1, <2>2, <3>2
  <2>4. UNCHANGED <<first, pages, firstLine, cntr, phase>>
    BY <1>1
  <2> QED BY <2>0, <2>1, <2>2, <2>3, <2>4 DEF Trace, InstPlaces
<1> QED BY <1>3, <1>4, <1>5, <1>6 DEF TypeInv

-----------------------------------------------------------------------------
LEMMA StutterType == ASSUME TypeInv, UNCHANGED vars PROVE TypeInv'
<1>1. UNCHANGED <<target, cpu, pc, cmd, regVars, instVars, synced, calm, moves>>
  BY DEF vars, bounds
<1>2. Machine'
  BY <1>1 DEF TypeInv, Machine, target
<1>3. Console'
  BY <1>1 DEF TypeInv, Console, Flags
<1>4. Register'
  <2>1. \A w : FoundAt(w) => FoundAt(w)'
    BY <1>1 DEF FoundAt, Parsed, CWP, target, regVars
  <2> QED BY <1>1, <2>1 DEF TypeInv, Register, regVars
<1>5. Trace'
  BY <1>1 DEF TypeInv, Trace, instVars, PageSize
<1> QED BY <1>2, <1>3, <1>4, <1>5 DEF TypeInv

LEMMA NextType == TypeInv /\ [Next]_vars => TypeInv'
BY ExecuteType, CommandType, ReadPsrType, SetWordType, GetType, ReadPointerType, ReadLinesType,
   ReadRestType, CountPageType, PrintPageType, StutterType
DEF Next, Host

LEMMA TypeHolds == Spec => []TypeInv
<1>1. Init => TypeInv
  BY InitType
<1>2. TypeInv /\ [Next]_vars => TypeInv'
  BY NextType
<1> QED BY <1>1, <1>2, PTL DEF Spec

(* The types of the commands reg and inst: whatever is entered and however *)
(* the core runs meanwhile, a register is written and read word by word    *)
(* within its words, a page of the trace is counted and printed only when  *)
(* all its lines are there, and every page that was counted is printed.    *)
THEOREM TypeCorrect == Spec => []TypeOK
<1>1. TypeInv => TypeOK
  <2> SUFFICES ASSUME TypeInv PROVE TypeOK
    OBVIOUS
  <2>1. /\ pc \in {"idle", "psr", "set", "get", "summary", "pointer", "lines", "rest", "count", "print"}
        /\ phase \in {"count", "print"} /\ cpu \in {0, 1}
        /\ DOMAIN file = Words /\ file[DSU_REG_PSR] \in 0..31
        /\ DOMAIN ring[cpu] = 0..(Lines - 1) /\ pointer[cpu] \in 0..(Lines - 1)
        /\ first \in 0..(Space - 1)
    BY DEF TypeInv, Machine, Console, Trace, RegPlaces, InstPlaces
  <2>2. pc \in {"set", "get"} => k \in 1..Len(Target(desc))
    BY DEF TypeInv, Register
  <2>3. pc \in {"count", "print"} => Len(buffer) = PageSize /\ firstLine \in 0..PageSize
    BY DEF TypeInv, Trace, InstPlaces
  <2>4. page \in 0..pages /\ (pc = "idle" => page = 0)
    BY DEF TypeInv, Trace, InstPlaces
  <2>5. calm => synced
    BY DEF TypeInv, Console, Flags
  <2> QED BY <2>1, <2>2, <2>3, <2>4, <2>5 DEF TypeOK
<1> QED BY <1>1, TypeHolds, PTL

-----------------------------------------------------------------------------
(* The register of that name *)

(* Where the command writes and reads, in the window the core is in, and   *)
(* in one it has.                                                          *)
LEMMA MeantHere ==
  ASSUME TypeInv, NEW w \in 0..31, FoundAt(w), Known(desc, cmd.reg, w), Literal(cmd.reg)
  PROVE  /\ calm /\ desc.window < NWINDOWS => Target(desc) = MeantWords(CWP)
         /\ Target(desc) # <<Nowhere>> =>
              \E v \in 0..(NWINDOWS - 1) :
                /\ Target(desc) = MeantWords(v)
                /\ calm /\ CWP < NWINDOWS => v = CWP
<1> DEFINE M(v) == MeantBy(cmd.reg, v)
<1>3. /\ Target(desc) = IF desc.window > NWINDOWS /\ desc.name \in Moving THEN <<Nowhere>> ELSE M(w)
      /\ desc.window # w \/ desc.name \notin Moving => \A v : M(v) = M(w)
      /\ M(NWINDOWS) = M(0)
  BY TargetMeant
<1>4. \A v : MeantWords(v) = M(v)
  BY DEF MeantWords, MeantBy
<1> HIDE DEF M
<1>5. calm => M(CWP) = M(w)
  <2>1. calm => w = CWP \/ desc.name = "psr"
    BY DEF FoundAt
  <2> QED BY <1>3, <2>1 DEF Moving
<1>6. CWP \in 0..31 /\ NWINDOWS \in 1..31
  BY CwpIs, WindowsAssumption DEF TypeInv
<1>7. calm /\ desc.window < NWINDOWS => Target(desc) = M(CWP)
  <2>1. desc.window < NWINDOWS => ~ (desc.window > NWINDOWS)
    <3>1. desc.window \in 0..31
      BY KnownFields
    <3> QED BY <1>6, <3>1
  <2> QED BY <1>3, <1>5, <2>1
<1>8. ASSUME Target(desc) # <<Nowhere>>
      PROVE  \E v \in 0..(NWINDOWS - 1) : Target(desc) = M(v) /\ (calm /\ CWP < NWINDOWS => v = CWP)
  <2>1. ~ (desc.window > NWINDOWS /\ desc.name \in Moving)
    BY <1>3, <1>8
  <2>2. Target(desc) = M(w)
    BY <1>3, <2>1
  <2>3. CASE calm /\ CWP < NWINDOWS
    <3>1. CWP \in 0..(NWINDOWS - 1)
      BY <1>6, <2>3
    <3> QED BY <1>5, <2>2, <2>3, <3>1
  <2>4. CASE ~ (calm /\ CWP < NWINDOWS)
    <3>1. 0 \in 0..(NWINDOWS - 1)
      BY <1>6
    <3>2. CASE w < NWINDOWS
      <4>1. w \in 0..(NWINDOWS - 1)
        BY <1>6, <3>2
      <4> QED BY <2>2, <2>4, <4>1
    <3>3. CASE w = NWINDOWS
      BY <1>3, <2>2, <2>4, <3>1, <3>3
    <3>4. CASE w > NWINDOWS
      <4>1. M(0) = M(w)
        BY <1>3, <2>1, <3>4
      <4> QED BY <2>2, <2>4, <3>1, <4>1
    <3>5. w \in Int /\ NWINDOWS \in Int
      BY <1>6
    <3> QED BY <3>2, <3>3, <3>4, <3>5
  <2> QED BY <2>3, <2>4
<1> QED BY <1>4, <1>7, <1>8

(* What a step of reg may write. *)
OnlyStep ==
  moves' = moves =>
    /\ Changed # {} /\ Literal(cmd.reg) =>
         \E w \in 0..(NWINDOWS - 1) :
           /\ Changed \subseteq Range(MeantWords(w))
           /\ calm' /\ CWP < NWINDOWS => w = CWP
    /\ zero' # zero => desc.window >= NWINDOWS

LEMMA OnlySet ==
  ASSUME TypeInv, SetWord
  PROVE  OnlyStep
<1>1. pc \in {"set", "get"}
  BY DEF SetWord
<1>2. CASE UNCHANGED <<file, zero>>
  BY <1>2 DEF OnlyStep, Changed
<1>3. CASE ~ UNCHANGED <<file, zero>>
  <2> DEFINE a == Target(desc)[k]
  <2>1. PICK v \in Int : Put(a, v) /\ (calm' = calm \/ calm' = FALSE)
    <3>1. cmd.val[k] \in Int
      <4>1. cmd \in RegCmds /\ cmd.val # <<>> /\ k \in 1..2
        BY AtWord, <1>1 DEF TypeInv, Register, SetWord
      <4>2. cmd.val[1] \in 0..31 /\ cmd.val[2] \in Int
        BY <4>1, ValueType, Zenon
      <4>3. k = 1 \/ k = 2
        BY <4>1
      <4> QED BY <4>2, <4>3
    <3>2. \/ Put(a, cmd.val[k]) /\ calm' = calm
          \/ Put(a, 31) /\ calm' = FALSE
      BY <1>3, SetWordPuts
    <3>3. 31 \in Int
      OBVIOUS
    <3> HIDE DEF a
    <3> QED BY <3>1, <3>2, <3>3, Zenon
  <2>2. a \in Words \cup {Nowhere} /\ k \in DOMAIN Target(desc) /\ Target(desc) \in Seq(Int)
    BY <1>1, AtWord DEF IsTarget
  <2>3. /\ \A b \in Words : b # a => file'[b] = file[b]
        /\ a \in Words => zero' = zero
        /\ a = Nowhere => file' = file
    <3>1. Machine
      BY DEF TypeInv
    <3> HIDE DEF a
    <3> QED BY <2>1, <2>2, <3>1, PutType
  <2>4. Changed \subseteq {a} /\ (Changed # {} => a \in Words)
    BY <2>3 DEF Changed
  <2>5. Changed # {} /\ Literal(cmd.reg) =>
          \E w \in 0..(NWINDOWS - 1) :
            /\ Changed \subseteq Range(MeantWords(w))
            /\ calm' /\ CWP < NWINDOWS => w = CWP
    <3>1. SUFFICES ASSUME Changed # {}, Literal(cmd.reg)
                   PROVE  \E w \in 0..(NWINDOWS - 1) :
                            /\ Changed \subseteq Range(MeantWords(w))
                            /\ calm' /\ CWP < NWINDOWS => w = CWP
      OBVIOUS
    <3>2. PICK w \in 0..(NWINDOWS - 1) :
            Target(desc) = MeantWords(w) /\ (calm /\ CWP < NWINDOWS => w = CWP)
      <4>1. Target(desc) # <<Nowhere>>
        <5>1. Nowhere \notin Words
          BY DEF Nowhere, Words, IuWords, FpuWords, SpecialWords, DSU_SPECIAL
        <5>2. Target(desc) = <<Nowhere>> => a = Nowhere
          BY <2>2
        <5> QED BY <2>4, <3>1, <5>1, <5>2
      <4> QED BY <1>1, <3>1, <4>1, AtWord, MeantHere
    <3>3. a \in Range(MeantWords(w))
      BY <2>2, <3>2 DEF Range
    <3>4. calm' => calm
      BY <2>1
    <3> HIDE DEF a
    <3> QED BY <2>4, <3>2, <3>3, <3>4
  <2>6. zero' # zero => desc.window >= NWINDOWS
    <3>1. SUFFICES ASSUME zero' # zero PROVE desc.window >= NWINDOWS
      OBVIOUS
    <3>2. Target(desc)[k] = Nowhere /\ k \in 1..Len(Target(desc))
      BY <1>1, <2>2, <2>3, <3>1, AtWord
    <3>3. desc.window > NWINDOWS
      BY <1>1, <3>2, AtWord DEF IsTarget
    <3>4. desc.window \in 0..31
      BY <1>1, AtWord, KnownFields
    <3> QED BY <3>3, <3>4, WindowsAssumption
  <2> QED BY <2>5, <2>6 DEF OnlyStep
<1> QED BY <1>2, <1>3

LEMMA OnlyNext == TypeInv /\ [Next]_vars => OnlyStep
<1> SUFFICES ASSUME TypeInv, [Next]_vars PROVE OnlyStep
  OBVIOUS
<1>1. CASE SetWord
  BY <1>1, OnlySet
<1>2. CASE Execute \/ MoveWindow
  <2>1. moves' = moves + 1 /\ moves \in Nat
    BY <1>2 DEF Execute, MoveWindow, Executes, TypeInv, Machine
  <2>2. moves' # moves
    BY <2>1
  <2> QED BY <2>2 DEF OnlyStep
<1>3. CASE file' = file /\ zero' = zero
  BY <1>3 DEF OnlyStep, Changed
<1>4. ASSUME ~ (file' = file /\ zero' = zero) PROVE SetWord \/ Execute \/ MoveWindow
  BY <1>4 DEF Next, Host, cli_reg, cli_inst, Command, ReadPsr, GetWord, register_print_summary,
              ReadPointer, ReadLines, ReadRest, CountPage, PrintPage, vars, target
<1> QED BY <1>1, <1>2, <1>3, <1>4

(* Whatever access fails and wherever the core moves its window, reg       *)
(* writes no register but the one whose name was entered, that of the      *)
(* current window if nothing failed or moved, and nothing else of the      *)
(* target while the core is in a window it has: the address functions,     *)
(* the parsing of the name and the two words of a double agree with what   *)
(* the name means, for any number of windows.                              *)
THEOREM WritesOnlyItsRegister == Spec => OnlyItsRegister
<1>1. TypeInv /\ [Next]_vars => [OnlyStep]_vars
  BY OnlyNext
<1>2. Spec => [][OnlyStep]_vars
  BY <1>1, TypeHolds, PTL DEF Spec
<1> QED BY <1>2 DEF OnlyItsRegister, OnlyStep

-----------------------------------------------------------------------------
(* What reg shows: the values of the words so far, which are those entered *)
(* once they were written.                                                 *)

Accurate == calm /\ desc.window < NWINDOWS
Held(n) == [j \in 1..n |-> file[Target(desc)[j]]]
Kept(n) == \A j \in 1..n : file[Target(desc)[j]] = cmd.val[j]

(* The first rows of the summary, then the first special registers. *)
SpecialWord(i) == Word(SummarySpecials[i], 0, 0)
FirstSpecials(m) == [i \in 1..m |-> SpecialWord(i)]
FourRows(w) == Row("i", w) \o Row("l", w) \o Row("o", w) \o Row("g", w)
FirstRows(n, w) ==
  CASE n = 0 -> <<>>
    [] n = 1 -> Row("i", w)
    [] n = 2 -> Row("i", w) \o Row("l", w)
    [] n = 3 -> Row("i", w) \o Row("l", w) \o Row("o", w)
    [] n = 4 -> FourRows(w)
    [] OTHER -> FourRows(w) \o FirstSpecials(n - 4)

NothingYet == pc \in {"psr", "set"} => shown = <<>>
WhileSet == pc = "set" /\ Accurate => Kept(k - 1)
WhileGet ==
  pc = "get" /\ Accurate =>
    shown = Held(k - 1) /\ (cmd.val # <<>> => Kept(Len(Target(desc))))
WhileSummary == pc = "summary" /\ Accurate => shown = Contents(FirstRows(k - 1, desc.window))
AtEnd ==
  pc = "idle" /\ cmd.name = "reg" /\ Accurate /\ desc.name # "inv" =>
    IF desc.name = "w" THEN shown = Contents(SummaryMeans(desc.window))
    ELSE shown = Held(Len(Target(desc))) /\ (cmd.val # <<>> => Kept(Len(Target(desc))))

ShownInv == NothingYet /\ WhileSet /\ WhileGet /\ WhileSummary /\ AtEnd

-----------------------------------------------------------------------------
LEMMA IsSequence ==
  ASSUME NEW n \in Nat, NEW S, NEW f \in [1..n -> S]
  PROVE  f \in Seq(S) /\ Len(f) = n /\ DOMAIN f = 1..n
OBVIOUS

LEMMA Grow ==
  ASSUME NEW n \in Nat, NEW S, NEW g \in [1..(n + 1) -> S]
  PROVE  Append([j \in 1..n |-> g[j]], g[n + 1]) = g
<1> DEFINE f == [j \in 1..n |-> g[j]]
<1>1. f \in [1..n -> S] /\ n + 1 \in Nat /\ g[n + 1] \in S
  OBVIOUS
<1>2. \A j \in 1..n : f[j] = g[j]
  OBVIOUS
<1> HIDE DEF f
<1>3. f \in Seq(S) /\ Len(f) = n /\ g \in Seq(S) /\ Len(g) = n + 1
  BY <1>1, IsSequence
<1>4. Append(f, g[n + 1]) \in Seq(S) /\ Len(Append(f, g[n + 1])) = n + 1
  BY <1>1, <1>3
<1>5. ASSUME NEW j \in 1..(n + 1) PROVE Append(f, g[n + 1])[j] = g[j]
  <2>1. CASE j = n + 1
    BY <1>1, <1>3, <2>1
  <2>2. CASE j # n + 1
    <3>1. j \in 1..n
      BY <2>2
    <3> QED BY <1>1, <1>2, <1>3, <3>1
  <2> QED BY <2>1, <2>2
<1>6. Append(f, g[n + 1]) = g
  BY <1>3, <1>4, <1>5
<1> QED BY <1>6 DEF f

LEMMA ContentsConcat ==
  ASSUME NEW s \in Seq(Int), NEW t \in Seq(Int)
  PROVE  Contents(s \o t) = Contents(s) \o Contents(t) /\ Contents(<<>>) = <<>>
<1>1. DOMAIN (s \o t) = 1..(Len(s) + Len(t)) /\ DOMAIN s = 1..Len(s) /\ DOMAIN t = 1..Len(t)
  OBVIOUS
<1> DEFINE V == {file[a] : a \in Int}
<1>2. /\ Contents(s) \in Seq(V) /\ Len(Contents(s)) = Len(s)
      /\ Contents(t) \in Seq(V) /\ Len(Contents(t)) = Len(t)
  <2>1. Contents(s) \in [1..Len(s) -> V] /\ Contents(t) \in [1..Len(t) -> V]
    BY <1>1 DEF Contents
  <2>2. Len(s) \in Nat /\ Len(t) \in Nat
    OBVIOUS
  <2> HIDE DEF V
  <2> QED BY <2>1, <2>2, IsSequence
<1>3. Contents(s \o t) \in Seq(V) /\ Len(Contents(s \o t)) = Len(s) + Len(t)
  <2>1. Contents(s \o t) \in [1..(Len(s) + Len(t)) -> V]
    BY <1>1 DEF Contents
  <2>2. Len(s) + Len(t) \in Nat
    OBVIOUS
  <2> HIDE DEF V
  <2> QED BY <2>1, <2>2, IsSequence
<1> HIDE DEF V
<1>4. /\ Contents(s) \o Contents(t) \in Seq(V)
      /\ Len(Contents(s) \o Contents(t)) = Len(s) + Len(t)
  <2> DEFINE c == Contents(s)
             e == Contents(t)
  <2>1. c \in Seq(V) /\ e \in Seq(V) /\ Len(c) = Len(s) /\ Len(e) = Len(t)
    BY <1>2
  <2> HIDE DEF c, e
  <2>2. c \o e \in Seq(V) /\ Len(c \o e) = Len(c) + Len(e)
    <3>1. c \in Seq(V) /\ e \in Seq(V)
      BY <2>1
    <3> QED BY ONLY <3>1, Concat, Zenon
  <2>3. c \o e \in Seq(V) /\ Len(c \o e) = Len(s) + Len(t)
    BY <2>1, <2>2
  <2> QED BY <2>3 DEF c, e
<1>5. ASSUME NEW j \in 1..(Len(s) + Len(t))
      PROVE  Contents(s \o t)[j] = (Contents(s) \o Contents(t))[j]
  <2>1. Contents(s \o t)[j] = file[(s \o t)[j]]
    BY <1>1 DEF Contents
  <2>2. CASE j <= Len(s)
    <3>1. (s \o t)[j] = s[j] /\ (Contents(s) \o Contents(t))[j] = Contents(s)[j]
      BY <1>2, <2>2
    <3>2. Contents(s)[j] = file[s[j]]
      BY <1>1, <2>2 DEF Contents
    <3> QED BY <2>1, <3>1, <3>2
  <2>3. CASE ~ (j <= Len(s))
    <3>1. (s \o t)[j] = t[j - Len(s)]
          /\ (Contents(s) \o Contents(t))[j] = Contents(t)[j - Len(s)]
      BY <1>2, <2>3
    <3>2. Contents(t)[j - Len(s)] = file[t[j - Len(s)]]
      BY <1>1, <2>3 DEF Contents
    <3> QED BY <2>1, <3>1, <3>2
  <2> QED BY <2>2, <2>3
<1>6. Contents(s \o t) = Contents(s) \o Contents(t)
  BY <1>3, <1>4, <1>5
<1>7. Contents(<<>>) = <<>>
  BY DEF Contents
<1> QED BY <1>6, <1>7

(* The blocks of the summary are the rows of the window. *)
LEMMA BlockRows ==
  ASSUME NEW w \in Windows
  PROVE  /\ Block(DSU_REG_IN(w)) = Row("i", w) /\ Block(DSU_REG_LOCAL(w)) = Row("l", w)
         /\ Block(DSU_REG_OUT(w)) = Row("o", w) /\ Block(DSU_REG_GLOBAL) = Row("g", w)
         /\ Row("i", w) \in Seq(Int) /\ Row("l", w) \in Seq(Int)
         /\ Row("o", w) \in Seq(Int) /\ Row("g", w) \in Seq(Int)
<1>1. ASSUME NEW m \in Group
      PROVE  /\ DSU_REG_IN(w) + m = Word("i", m, w) /\ DSU_REG_LOCAL(w) + m = Word("l", m, w)
             /\ DSU_REG_OUT(w) + m = Word("o", m, w) /\ DSU_REG_GLOBAL + m = Word("g", m, w)
  BY BlocksRight
<1>2. DSU_REG_IN(w) \in Int /\ DSU_REG_LOCAL(w) \in Int /\ DSU_REG_OUT(w) \in Int
      /\ DSU_REG_GLOBAL \in Int
  BY SpanType DEF DSU_REG_IN, DSU_REG_LOCAL, DSU_REG_OUT, DSU_REG_GLOBAL, Windows
<1>3. /\ Block(DSU_REG_IN(w)) = Row("i", w) /\ Block(DSU_REG_LOCAL(w)) = Row("l", w)
      /\ Block(DSU_REG_OUT(w)) = Row("o", w) /\ Block(DSU_REG_GLOBAL) = Row("g", w)
  <2>1. ASSUME NEW i \in 1..8
        PROVE  /\ DSU_REG_IN(w) + i - 1 = Word("i", i - 1, w)
               /\ DSU_REG_LOCAL(w) + i - 1 = Word("l", i - 1, w)
               /\ DSU_REG_OUT(w) + i - 1 = Word("o", i - 1, w)
               /\ DSU_REG_GLOBAL + i - 1 = Word("g", i - 1, w)
    <3>1. i - 1 \in Group
      BY DEF Group
    <3>2. \A x \in Int : x + (i - 1) = x + i - 1
      OBVIOUS
    <3> QED BY <1>1, <1>2, <3>1, <3>2
  <2> QED BY <2>1 DEF Block, Row
<1>4. \A a \in Int : Block(a) \in Seq(Int)
  BY DEF Block
<1> QED BY <1>2, <1>3, <1>4

(* So are the special registers, one after the other. *)
LEMMA SpecialRows ==
  ASSUME NEW i \in 1..6
  PROVE  /\ DSU_REG_SPECIAL(SummarySpecials[i]) = SpecialWord(i) /\ SpecialWord(i) \in Int
         /\ \A w : Word(SummarySpecials[i], 0, w) = SpecialWord(i)
<1>1. i \in {1, 2, 3, 4, 5, 6}
  OBVIOUS
<1>2. SummarySpecials[i] \in {"psr", "wim", "tbr", "y", "pc", "npc"}
  BY <1>1 DEF SummarySpecials
<1>3. DSU_REG_SPECIAL(SummarySpecials[i]) \in SpecialWords
  BY <1>2, SpecialAddress
<1>4. DSU_REG_SPECIAL(SummarySpecials[i]) \in Int
  BY <1>3 DEF SpecialWords, DSU_SPECIAL
<1>5. \A w : Word(SummarySpecials[i], 0, w) = DSU_REG_SPECIAL(SummarySpecials[i])
  BY <1>2 DEF Word
<1> QED BY <1>4, <1>5 DEF SpecialWord

LEMMA ConcatGrows ==
  ASSUME NEW S, NEW s \in Seq(S), NEW m \in Nat, NEW g \in [1..(m + 1) -> S]
  PROVE  s \o g = (s \o [i \in 1..m |-> g[i]]) \o <<g[m + 1]>>
<1> DEFINE f == [i \in 1..m |-> g[i]]
<1>1. g \in Seq(S) /\ Len(g) = m + 1 /\ g[m + 1] \in S
  BY IsSequence
<1>2. f \in Seq(S) /\ Len(f) = m /\ (\A i \in 1..m : f[i] = g[i])
  <2>1. f \in [1..m -> S]
    OBVIOUS
  <2> QED BY <2>1, IsSequence
<1> HIDE DEF f
<1>3. <<g[m + 1]>> \in Seq(S) /\ Len(<<g[m + 1]>>) = 1 /\ <<g[m + 1]>>[1] = g[m + 1]
  BY <1>1
<1> DEFINE e == <<g[m + 1]>>
<1>4. e \in Seq(S) /\ Len(e) = 1 /\ e[1] = g[m + 1]
  BY <1>3
<1> HIDE DEF e
<1> DEFINE a == s \o g
           b == s \o f
           c == b \o e
<1>5. a \in Seq(S) /\ Len(a) = Len(s) + (m + 1)
  BY <1>1, Concat
<1>6. b \in Seq(S) /\ Len(b) = Len(s) + m
  BY <1>2, Concat
<1>0. Len(s) \in Nat
  OBVIOUS
<1>7. c \in Seq(S) /\ Len(c) = Len(s) + m + 1
  <2> HIDE DEF b
  <2>1. b \in Seq(S) /\ e \in Seq(S)
    BY <1>4, <1>6
  <2>2. c \in Seq(S) /\ Len(c) = Len(b) + Len(e)
    BY <2>1, Concat, Zenon
  <2>3. Len(b) + Len(e) = Len(s) + m + 1
    BY <1>0, <1>4, <1>6
  <2> QED BY <2>2, <2>3, Zenon
<1>8. ASSUME NEW j \in 1..(Len(s) + m + 1) PROVE a[j] = c[j]
  <2>1. CASE j <= Len(s)
    <3>1. a[j] = s[j] /\ b[j] = s[j]
      BY <1>1, <1>2, <2>1
    <3>2. c[j] = b[j]
      <4> HIDE DEF b
      <4> QED BY <1>4, <1>6, <2>1
    <3> QED BY <3>1, <3>2
  <2>2. CASE Len(s) < j /\ j <= Len(s) + m
    <3>1. a[j] = g[j - Len(s)] /\ b[j] = f[j - Len(s)]
      BY <1>1, <1>2, <2>2
    <3>2. c[j] = b[j]
      <4> HIDE DEF b
      <4> QED BY <1>4, <1>6, <2>2
    <3>3. f[j - Len(s)] = g[j - Len(s)]
      <4>1. j - Len(s) \in 1..m
        BY <2>2
      <4> QED BY <1>2, <4>1
    <3> QED BY <3>1, <3>2, <3>3
  <2>3. CASE j = Len(s) + m + 1
    <3>1. a[j] = g[j - Len(s)] /\ j - Len(s) = m + 1
      BY <1>1, <2>3
    <3>2. c[j] = e[1]
      <4> HIDE DEF b
      <4>1. b \in Seq(S) /\ e \in Seq(S)
        BY <1>4, <1>6
      <4>2. j \in (Len(b) + 1)..(Len(b) + Len(e)) /\ j - Len(b) = 1
        BY <1>0, <1>4, <1>6, <2>3
      <4>3. (b \o e)[j] = e[j - Len(b)]
        BY <4>1, <4>2, ConcatBehind, Zenon
      <4> QED BY <4>2, <4>3
    <3> QED BY <1>4, <3>1, <3>2
  <2>4. j <= Len(s) \/ (Len(s) < j /\ j <= Len(s) + m) \/ j = Len(s) + m + 1
    BY <1>0
  <2> HIDE DEF a, c
  <2> QED BY <2>1, <2>2, <2>3, <2>4
<1>9. a = c
  <2> HIDE DEF a, c
  <2> QED BY <1>5, <1>7, <1>8
<1> QED BY <1>9 DEF e, f

LEMMA SummaryRows ==
  ASSUME NEW w \in Windows, NEW n \in 1..10
  PROVE  /\ FirstRows(n - 1, w) \in Seq(Int) /\ SummaryWords(w)[n] \in Seq(Int)
         /\ FirstRows(n, w) = FirstRows(n - 1, w) \o SummaryWords(w)[n]
         /\ FirstRows(0, w) = <<>> /\ FirstRows(10, w) = SummaryMeans(w)
<1> DEFINE B == << Block(DSU_REG_IN(w)), Block(DSU_REG_LOCAL(w)),
                   Block(DSU_REG_OUT(w)), Block(DSU_REG_GLOBAL) >>
           P == [i \in 1..6 |-> <<DSU_REG_SPECIAL(SummarySpecials[i])>>]
<1>1. /\ B \in Seq(Seq(Int)) /\ Len(B) = 4
      /\ B[1] = Row("i", w) /\ B[2] = Row("l", w) /\ B[3] = Row("o", w) /\ B[4] = Row("g", w)
  BY BlockRows
<1>2. P \in Seq(Seq(Int)) /\ Len(P) = 6 /\ \A i \in 1..6 : P[i] = <<SpecialWord(i)>>
  <2>1. \A i \in 1..6 : P[i] = <<SpecialWord(i)>> /\ SpecialWord(i) \in Int
    BY SpecialRows
  <2>2. P \in [1..6 -> Seq(Int)]
    BY <2>1
  <2> QED BY <2>1, <2>2
<1>3. SummaryWords(w) = B \o P
  BY DEF SummaryWords
<1> HIDE DEF B, P
<1>4. /\ SummaryWords(w)[1] = Row("i", w) /\ SummaryWords(w)[2] = Row("l", w)
      /\ SummaryWords(w)[3] = Row("o", w) /\ SummaryWords(w)[4] = Row("g", w)
  <2>1. \A j \in 1..Len(B) : (B \o P)[j] = B[j]
    BY <1>1, <1>2, ConcatParts, Zenon
  <2>2. 1 \in 1..Len(B) /\ 2 \in 1..Len(B) /\ 3 \in 1..Len(B) /\ 4 \in 1..Len(B)
    BY <1>1
  <2> HIDE DEF B, P
  <2> QED BY <1>1, <1>3, <2>1, <2>2, Zenon
<1>5. \A j \in 5..10 : SummaryWords(w)[j] = <<SpecialWord(j - 4)>>
  <2>1. ASSUME NEW j \in 5..10 PROVE SummaryWords(w)[j] = <<SpecialWord(j - 4)>>
    <3>1. j \in (Len(B) + 1)..(Len(B) + Len(P)) /\ j - Len(B) = j - 4 /\ j - 4 \in 1..6
      BY <1>1, <1>2
    <3>2. (B \o P)[j] = P[j - Len(B)]
      BY <1>1, <1>2, <3>1, ConcatBehind
    <3> QED BY <1>2, <1>3, <3>1, <3>2
  <2> QED BY <2>1
<1>6. /\ Row("i", w) \in Seq(Int) /\ Row("l", w) \in Seq(Int)
      /\ Row("o", w) \in Seq(Int) /\ Row("g", w) \in Seq(Int)
  BY BlockRows
<1>7. /\ FirstRows(0, w) = <<>> /\ FirstRows(1, w) = Row("i", w)
      /\ FirstRows(2, w) = Row("i", w) \o Row("l", w)
      /\ FirstRows(3, w) = Row("i", w) \o Row("l", w) \o Row("o", w)
      /\ FirstRows(4, w) = FourRows(w)
      /\ \A j \in 5..10 : FirstRows(j, w) = FourRows(w) \o FirstSpecials(j - 4)
  <2>1. FirstRows(0, w) = <<>>
    BY DEF FirstRows
  <2>2. FirstRows(1, w) = Row("i", w)
    BY DEF FirstRows
  <2>3. FirstRows(2, w) = Row("i", w) \o Row("l", w)
    BY DEF FirstRows
  <2>4. FirstRows(3, w) = Row("i", w) \o Row("l", w) \o Row("o", w)
    BY DEF FirstRows
  <2>5. FirstRows(4, w) = FourRows(w)
    BY DEF FirstRows
  <2>6. ASSUME NEW j \in 5..10 PROVE FirstRows(j, w) = FourRows(w) \o FirstSpecials(j - 4)
    <3>1. j # 0 /\ j # 1 /\ j # 2 /\ j # 3 /\ j # 4
      OBVIOUS
    <3> QED BY <3>1, Zenon DEF FirstRows
  <2> QED BY <2>1, <2>2, <2>3, <2>4, <2>5, <2>6
<1>8. \A a, b \in Seq(Int) : a \o b \in Seq(Int) /\ <<>> \in Seq(Int)
  BY Concat
<1>9. /\ FirstRows(0, w) \in Seq(Int) /\ FirstRows(1, w) \in Seq(Int) /\ FirstRows(2, w) \in Seq(Int)
      /\ FirstRows(3, w) \in Seq(Int) /\ FourRows(w) \in Seq(Int)
  <2>1. Row("i", w) \o Row("l", w) \in Seq(Int)
    BY <1>6, <1>8
  <2>2. Row("i", w) \o Row("l", w) \o Row("o", w) \in Seq(Int)
    BY <1>6, <1>8, <2>1
  <2>3. FourRows(w) \in Seq(Int)
    BY <1>6, <1>8, <2>2 DEF FourRows
  <2> QED BY <1>6, <1>7, <1>8, <2>1, <2>2, <2>3
<1>10. \A m \in 0..6 : FirstSpecials(m) \in [1..m -> Int]
  BY SpecialRows DEF FirstSpecials
<1>11. FirstRows(10, w) = SummaryMeans(w)
  <2>1. FirstSpecials(6) = [i \in 1..6 |-> Word(SummarySpecials[i], 0, w)]
    BY SpecialRows DEF FirstSpecials
  <2>2. FirstRows(10, w) = FourRows(w) \o FirstSpecials(6)
    <3>1. 10 \in 5..10 /\ 10 - 4 = 6
      OBVIOUS
    <3>2. FirstRows(10, w) = FourRows(w) \o FirstSpecials(10 - 4)
      BY <1>7, <3>1, Zenon
    <3> QED BY <3>1, <3>2, Zenon
  <2> QED BY <2>1, <2>2 DEF SummaryMeans, FourRows
<1>12. CASE n \in 1..4
  <2>1. <<>> \o Row("i", w) = Row("i", w)
    BY <1>6
  <2>2. n \in {1, 2, 3, 4} /\ 1 - 1 = 0 /\ 2 - 1 = 1 /\ 3 - 1 = 2 /\ 4 - 1 = 3
    BY <1>12
  <2>3. FourRows(w) = FirstRows(3, w) \o Row("g", w)
    BY <1>7 DEF FourRows
  <2> QED BY <1>4, <1>6, <1>7, <1>9, <1>11, <2>1, <2>2, <2>3
<1>13. CASE n \in 5..10
  <2> DEFINE m == n - 5
  <2>1. m \in Nat /\ m + 1 = n - 4 /\ m + 1 \in 0..6 /\ m \in 0..6 /\ m + 1 \in 1..(m + 1)
    BY <1>13
  <2> DEFINE g == FirstSpecials(m + 1)
             f == [i \in 1..m |-> g[i]]
  <2>2. g \in [1..(m + 1) -> Int] /\ g[m + 1] = SpecialWord(m + 1) /\ f = FirstSpecials(m)
    BY <1>10, <2>1 DEF FirstSpecials
  <2>3. FirstRows(n, w) = FourRows(w) \o g
    BY <1>7, <1>13, <2>1
  <2>4. SummaryWords(w)[n] = <<SpecialWord(m + 1)>> /\ SpecialWord(m + 1) \in Int
    <3>1. SpecialWord(n - 4) \in Int
      <4>1. n - 4 \in 1..6
        BY <1>13
      <4> QED BY <4>1, SpecialRows
    <3> QED BY <1>5, <1>13, <2>1, <3>1
  <2>5. FourRows(w) \o f \in Seq(Int) /\ FirstRows(n - 1, w) = FourRows(w) \o f
    <3>1. f \in Seq(Int) /\ Len(f) = m
      <4>1. FirstSpecials(m) \in [1..m -> Int]
        BY <1>10, <2>1
      <4> HIDE DEF f, m
      <4> QED BY <2>1, <2>2, <4>1, IsSequence
    <3>2. CASE n = 5
      <4>1. m = 0 /\ Len(f) = 0
        BY <2>1, <2>2, <3>2
      <4>2. FourRows(w) \o f = FourRows(w)
        <5> HIDE DEF f
        <5> QED BY <1>9, <3>1, <4>1
      <4> QED BY <1>7, <1>9, <3>2, <4>2
    <3>3. CASE n # 5
      <4>1. n - 1 \in 5..10 /\ n - 1 - 4 = m
        BY <1>13, <3>3
      <4>2. FirstRows(n - 1, w) = FourRows(w) \o FirstSpecials(m)
        BY <1>7, <4>1
      <4> QED BY <1>8, <1>9, <2>2, <3>1, <4>2
    <3> QED BY <3>2, <3>3
  <2>6. FourRows(w) \o g = (FourRows(w) \o f) \o <<g[m + 1]>>
    <3> HIDE DEF g, m
    <3>1. FourRows(w) \in Seq(Int) /\ m \in Nat /\ g \in [1..(m + 1) -> Int]
      BY <1>9, <2>1, <2>2
    <3> QED BY <3>1, ConcatGrows, Zenon
  <2>7. <<SpecialWord(m + 1)>> \in Seq(Int)
    BY <2>4
  <2> HIDE DEF g, f, m
  <2> QED BY <1>7, <1>11, <2>2, <2>3, <2>4, <2>5, <2>6, <2>7
<1>14. n \in 1..4 \/ n \in 5..10
  OBVIOUS
<1> QED BY <1>12, <1>13, <1>14

-----------------------------------------------------------------------------
LEMMA ShownInit == Init => ShownInv
BY DEF Init, ShownInv, NothingYet, WhileSet, WhileGet, WhileSummary, AtEnd

(* Every word of an accepted window is one of the register file, and a     *)
(* double's two differ.                                                    *)
LEMMA InFile ==
  ASSUME IsTarget(Target(desc), desc), desc.window \in 0..31, desc.window < NWINDOWS
  PROVE  /\ Target(desc) \in Seq(Int)
         /\ \A j \in 1..Len(Target(desc)) :
              Target(desc)[j] \in Words /\ Target(desc)[j] # Nowhere
         /\ Target(desc) # <<Nowhere>>
         /\ Len(Target(desc)) \in 1..2
         /\ Len(Target(desc)) = 2 => Target(desc)[1] # Target(desc)[2]
         /\ (\E j \in 1..Len(Target(desc)) : Target(desc)[j] = DSU_REG_PSR) => Len(Target(desc)) = 1
<1> DEFINE T == Target(desc)
<1>0. IsTarget(T, desc) /\ ~ (desc.window > NWINDOWS)
  BY SpanType
<1> HIDE DEF T
<1>1. T \in Seq(Int) /\ Len(T) = IF desc.name = "d" THEN 2 ELSE 1
  BY <1>0 DEF IsTarget
<1>2. \A j \in 1..Len(T) : T[j] \in Words /\ T[j] # Nowhere
  BY <1>0 DEF IsTarget
<1>3. T # <<Nowhere>>
  <2>1. 1 \in 1..Len(T)
    BY <1>1
  <2>2. T[1] # Nowhere
    BY <1>2, <2>1
  <2> QED BY <2>2
<1>4. Len(T) \in 1..2 /\ (Len(T) = 2 => T[1] # T[2])
  BY <1>0, <1>1 DEF IsTarget
<1>5. (\E j \in 1..Len(T) : T[j] = DSU_REG_PSR) => Len(T) = 1
  <2>1. (\E j \in 1..Len(T) : T[j] = DSU_REG_PSR) => desc.name = "psr"
    BY <1>0 DEF IsTarget
  <2> QED BY <1>1, <2>1
<1> QED BY <1>1, <1>2, <1>3, <1>4, <1>5 DEF T

LEMMA ReadPsrShown ==
  ASSUME ShownInv, ReadPsr
  PROVE  ShownInv'
<1>1. /\ pc = "psr" /\ k' = 1 /\ shown' = <<>> /\ cmd' = cmd
      /\ pc' \in {"idle", "summary", "set", "get"}
      /\ pc' = "idle" => desc'.name = "inv"
      /\ pc' = "get" => cmd.val = <<>>
  BY DEF ReadPsr, ShownInv, NothingYet
<1>2. NothingYet' /\ AtEnd'
  BY <1>1 DEF NothingYet, AtEnd
<1>3. WhileSet'
  BY <1>1 DEF WhileSet, Kept
<1>4. WhileGet'
  <2>1. Held(k - 1)' = <<>>
    <3>1. 1..(k' - 1) = {}
      BY <1>1
    <3> QED BY <3>1 DEF Held
  <2> QED BY <1>1, <2>1 DEF WhileGet
<1>5. WhileSummary'
  <2>1. FirstRows(k - 1, desc.window)' = <<>>
    BY <1>1 DEF FirstRows
  <2>2. Contents(<<>>)' = <<>>
    BY DEF Contents
  <2>3. Contents(FirstRows(k - 1, desc.window))' = <<>>
    BY <2>1, <2>2 DEF Contents
  <2> QED BY <1>1, <2>3 DEF WhileSummary
<1> QED BY <1>2, <1>3, <1>4, <1>5 DEF ShownInv

LEMMA SetWordShown ==
  ASSUME TypeInv, ShownInv, SetWord
  PROVE  ShownInv'
<1> DEFINE T == Target(desc)
<1>1. /\ pc = "set" /\ cmd' = cmd /\ desc' = desc /\ shown' = shown /\ shown = <<>>
      /\ \/ k < Len(T) /\ k' = k + 1 /\ pc' = "set"
         \/ ~ (k < Len(T)) /\ k' = 1 /\ pc' = "get"
  BY DEF SetWord, ShownInv, NothingYet
<1>2. cmd \in RegCmds /\ cmd.val # <<>> /\ k \in 1..Len(T) /\ IsTarget(T, desc)
      /\ desc.window \in 0..31
  BY <1>1, AtWord, KnownFields DEF TypeInv, Register
<1>3. ASSUME Accurate' PROVE \A j \in 1..k : file'[Target(desc')[j]] = cmd'.val[j]
  <2>1. calm' /\ desc.window < NWINDOWS
    BY <1>1, <1>3 DEF Accurate
  <2>2. /\ \A j \in 1..Len(T) : T[j] \in Words /\ T[j] # Nowhere
        /\ T # <<Nowhere>> /\ Len(T) \in 1..2
        /\ Len(T) = 2 => T[1] # T[2]
        /\ (\E j \in 1..Len(T) : T[j] = DSU_REG_PSR) => Len(T) = 1
    BY <1>2, <2>1, InFile
  <2>3. Put(T[k], cmd.val[k]) /\ calm' = calm
    BY <2>1, <2>2, SetWordPuts DEF Refused
  <2>4. Accurate
    BY <2>1, <2>3 DEF Accurate
  <2>5. Kept(k - 1)
    BY <1>1, <2>4 DEF ShownInv, WhileSet
  <2>6. cmd.val[1] \in 0..31 /\ cmd.val[2] \in Int
    BY <1>2, ValueType, Zenon
  <2>7. T[k] \in Words /\ cmd.val[k] \in Int
    BY <1>2, <2>2, <2>6, SMTT(30)
  <2>8. /\ \A b \in Words : b # T[k] => file'[b] = file[b]
        /\ file'[T[k]] = IF T[k] = DSU_REG_PSR THEN cmd.val[k] % 32 ELSE cmd.val[k]
    <3> DEFINE a == T[k]
               v == cmd.val[k]
    <3>1. a \in Words /\ v \in Int /\ Put(a, v) /\ Machine
      BY <2>3, <2>7 DEF TypeInv
    <3> HIDE DEF a, v
    <3>2. /\ \A b \in Words : b # a => file'[b] = file[b]
          /\ file'[a] = IF a = DSU_REG_PSR THEN v % 32 ELSE v
      BY <3>1, PutType
    <3> QED BY <3>2 DEF a, v
  <2>9. file'[T[k]] = cmd.val[k]
    <3>1. T[k] = DSU_REG_PSR => k = 1
      BY <1>2, <2>2
    <3>2. \A x \in 0..31 : x % 32 = x
      OBVIOUS
    <3> QED BY <2>6, <2>8, <3>1, <3>2
  <2>10. ASSUME NEW j \in 1..k PROVE file'[T[j]] = cmd.val[j]
    <3>1. CASE j = k
      BY <2>9, <3>1
    <3>2. CASE j # k
      <4>1. j = 1 /\ k = 2 /\ Len(T) = 2 /\ j \in 1..(k - 1)
        BY <1>2, <2>2, <3>2
      <4>2. T[j] # T[k] /\ T[j] \in Words
        BY <2>2, <4>1
      <4>3. file[T[j]] = cmd.val[j]
        BY <2>5, <4>1 DEF Kept
      <4> QED BY <2>8, <4>2, <4>3
    <3> QED BY <3>1, <3>2
  <2> QED BY <1>1, <2>10
<1> HIDE DEF T
<1>4. NothingYet' /\ WhileSummary' /\ AtEnd'
  BY <1>1 DEF NothingYet, WhileSummary, AtEnd
<1>5. WhileSet'
  <2>1. SUFFICES ASSUME pc' = "set", Accurate' PROVE Kept(k - 1)'
    BY DEF WhileSet
  <2>2. k' - 1 = k
    BY <1>1, <1>2, <2>1
  <2>3. \A j \in 1..(k' - 1) : file'[Target(desc')[j]] = cmd'.val[j]
    BY <1>3, <2>1, <2>2
  <2> QED BY <2>3 DEF Kept
<1>6. WhileGet'
  <2>1. SUFFICES ASSUME pc' = "get", Accurate'
                 PROVE  shown' = Held(k - 1)' /\ Kept(Len(Target(desc)))'
    BY DEF WhileGet
  <2>2. k = Len(T) /\ k' = 1
    BY <1>1, <1>2, <2>1
  <2>3. Held(k - 1)' = <<>>
    <3>1. 1..(k' - 1) = {}
      BY <2>2
    <3> QED BY <3>1 DEF Held
  <2>4. Kept(Len(Target(desc)))'
    <3>1. Len(Target(desc')) = k
      BY <1>1, <2>2 DEF T
    <3>2. \A j \in 1..Len(Target(desc')) : file'[Target(desc')[j]] = cmd'.val[j]
      BY <1>3, <2>1, <3>1
    <3> QED BY <3>2 DEF Kept
  <2> QED BY <1>1, <2>3, <2>4
<1> QED BY <1>4, <1>5, <1>6 DEF ShownInv

LEMMA GetWordShown ==
  ASSUME TypeInv, ShownInv, GetWord
  PROVE  ShownInv'
<1> DEFINE T == Target(desc)
<1>1. /\ pc = "get" /\ cmd' = cmd /\ desc' = desc /\ file' = file
      /\ \/ k < Len(T) /\ k' = k + 1 /\ pc' = "get"
         \/ ~ (k < Len(T)) /\ k' = k /\ pc' = "idle"
  BY DEF GetWord, target
<1>2. k \in 1..Len(T) /\ IsTarget(T, desc) /\ desc.window \in 0..31
      /\ desc.name \notin {"inv", "w"}
  BY <1>1, AtWord, KnownFields DEF TypeInv, Register
<1>3. ASSUME Accurate'
      PROVE  shown' = Held(k) /\ (cmd.val # <<>> => Kept(Len(T)))
  <2>1. calm' /\ desc.window < NWINDOWS
    BY <1>1, <1>3 DEF Accurate
  <2>2. /\ T \in Seq(Int) /\ T # <<Nowhere>> /\ Len(T) \in 1..2
        /\ \A j \in 1..Len(T) : T[j] \in Words /\ T[j] # Nowhere
    BY <1>2, <2>1, InFile
  <2>3. shown' = Append(shown, Read(T[k])) /\ calm
    <3>1. Flags /\ ~ Refused({"sp"})
      BY <2>2 DEF TypeInv, Console, Refused
    <3>2. \/ shown' = Append(shown, Read(T[k])) /\ ReadWorks
          \/ ReadLate \/ ReadFails
      BY <3>1 DEF GetWord
    <3> QED BY <2>1, <3>1, <3>2, ReadFlags
  <2>4. Read(T[k]) = file[T[k]]
    BY <1>2, <2>2 DEF Read
  <2>5. shown = Held(k - 1) /\ (cmd.val # <<>> => Kept(Len(T)))
    BY <1>1, <2>1, <2>3 DEF ShownInv, WhileGet, Accurate
  <2>6. shown' = Held(k)
    <3> DEFINE n == k - 1
               S == {file[x] : x \in Int}
               g == Held(k)
    <3>1. n \in Nat /\ n + 1 = k
      BY <1>2
    <3>2. g \in [1..(n + 1) -> S]
      <4>1. \A j \in 1..k : T[j] \in Int
        BY <1>2, <2>2
      <4> QED BY <3>1, <4>1 DEF Held
    <3>3. shown = [j \in 1..n |-> g[j]]
      <4>1. \A j \in 1..n : g[j] = file[T[j]]
        BY <3>1 DEF Held
      <4> QED BY <2>5, <4>1 DEF Held
    <3>4. file[T[k]] = g[n + 1]
      BY <1>2, <3>1 DEF Held
    <3>5. Append(shown, Read(T[k])) = Append([j \in 1..n |-> g[j]], g[n + 1])
      BY <2>4, <3>3, <3>4
    <3> HIDE DEF g, S, n
    <3>6. shown' = g
      BY <2>3, <3>1, <3>2, <3>5, Grow
    <3> QED BY <3>6 DEF g
  <2> QED BY <2>5, <2>6
<1>4. Held(k)' = [j \in 1..k' |-> file[T[j]]] /\ \A n : Held(n)' = Held(n) /\ (Kept(n)' <=> Kept(n))
  BY <1>1 DEF Held, Kept
<1>5. NothingYet' /\ WhileSet' /\ WhileSummary'
  BY <1>1 DEF NothingYet, WhileSet, WhileSummary
<1>6. WhileGet'
  BY <1>1, <1>2, <1>3, <1>4 DEF WhileGet, Held, Kept
<1>7. AtEnd'
  BY <1>1, <1>2, <1>3, <1>4 DEF AtEnd, Held, Kept
<1> QED BY <1>5, <1>6, <1>7 DEF ShownInv

LEMMA SummaryShown ==
  ASSUME TypeInv, ShownInv, register_print_summary
  PROVE  ShownInv'
<1>1. /\ pc = "summary" /\ cmd' = cmd /\ desc' = desc /\ file' = file
      /\ \/ k < 10 /\ k' = k + 1 /\ pc' = "summary"
         \/ ~ (k < 10) /\ k' = k /\ pc' = "idle"
  BY DEF register_print_summary, target
<1>2. k \in 1..10 /\ desc.name = "w"
  BY <1>1 DEF TypeInv, Register
<1>3. ASSUME Accurate'
      PROVE  /\ shown' = Contents(FirstRows(k, desc.window))
             /\ FirstRows(10, desc.window) = SummaryMeans(desc.window)
  <2>1. calm' /\ desc.window < NWINDOWS
    BY <1>1, <1>3 DEF Accurate
  <2>2. desc.window \in Windows
    <3>1. PICK w \in 0..31 : desc = Parsed(w)
      BY <1>1 DEF TypeInv, Register, FoundAt
    <3>2. CASE cmd.reg = <<>>
      BY <2>1, <3>1, <3>2, SpanType DEF Parsed, Desc, Windows
    <3>3. CASE cmd.reg # <<>>
      <4>1. cmd \in RegCmds
        BY <1>1 DEF TypeInv, Console, RegPlaces
      <4>2. cmd.reg \in Seq(STRING) /\ desc = parse_register(cmd.reg, w)
        BY <3>1, <3>3, <4>1, InputsAssumption DEF Parsed, RegCmds
      <4>3. desc.name = "inv" \/ (desc.name = "w" /\ desc.window \in 0..31)
            \/ Known(desc, cmd.reg, w)
        BY <4>2, ParseKinds
      <4>4. desc.window \in 0..31
        BY <1>2, <4>3, KnownFields
      <4> QED BY <2>1, <4>4, SpanType DEF Windows
    <3> QED BY <3>2, <3>3
  <2> DEFINE words == SummaryWords(desc.window)[k]
             before == FirstRows(k - 1, desc.window)
  <2>3. /\ before \in Seq(Int) /\ words \in Seq(Int)
        /\ FirstRows(k, desc.window) = before \o words
        /\ FirstRows(10, desc.window) = SummaryMeans(desc.window)
    BY <1>2, <2>2, SummaryRows
  <2>4. shown' = shown \o Contents(words) /\ calm
    <3>1. \/ shown' = shown \o Contents(words) /\ ReadWorks
          \/ ReadLate \/ ReadFails
      BY DEF register_print_summary, Contents
    <3> QED BY <2>1, <3>1, ReadFlags DEF TypeInv, Console
  <2>5. shown = Contents(before)
    BY <1>1, <2>1, <2>4 DEF ShownInv, WhileSummary, Accurate
  <2> HIDE DEF words, before
  <2> QED BY <2>3, <2>4, <2>5, ContentsConcat
<1>4. NothingYet' /\ WhileSet' /\ WhileGet'
  BY <1>1 DEF NothingYet, WhileSet, WhileGet
<1>5. WhileSummary'
  <2>1. SUFFICES ASSUME pc' = "summary", Accurate'
                 PROVE  shown' = Contents(FirstRows(k - 1, desc.window))'
    BY DEF WhileSummary
  <2>2. k' - 1 = k
    BY <1>1, <1>2, <2>1
  <2>3. Contents(FirstRows(k - 1, desc.window))' = Contents(FirstRows(k, desc.window))
    BY <1>1, <2>2 DEF Contents
  <2> QED BY <1>3, <2>1, <2>3
<1>6. AtEnd'
  <2>1. SUFFICES ASSUME pc' = "idle", Accurate'
                 PROVE  shown' = Contents(SummaryMeans(desc.window))'
    BY <1>1, <1>2 DEF AtEnd
  <2>2. k = 10
    BY <1>1, <1>2, <2>1
  <2>3. FirstRows(k, desc.window) = SummaryMeans(desc.window)
    BY <1>3, <2>1, <2>2
  <2>4. Contents(SummaryMeans(desc.window))' = Contents(SummaryMeans(desc.window))
    BY <1>1 DEF Contents, SummaryMeans, Row
  <2> QED BY <1>3, <2>1, <2>3, <2>4
<1> QED BY <1>4, <1>5, <1>6 DEF ShownInv

LEMMA ShownNext == TypeInv /\ ShownInv /\ [Next]_vars => ShownInv'
<1> SUFFICES ASSUME TypeInv, ShownInv, [Next]_vars PROVE ShownInv'
  OBVIOUS
<1>1. CASE Execute \/ MoveWindow
  <2>1. calm' = FALSE /\ pc' = pc /\ shown' = shown
    BY <1>1 DEF Execute, MoveWindow, Executes, regVars
  <2> QED BY <2>1 DEF ShownInv, NothingYet, WhileSet, WhileGet, WhileSummary, AtEnd, Accurate
<1>2. CASE cli_reg \/ cli_inst
  <2>1. pc' \in {"psr", "pointer"} /\ shown' = <<>>
    BY <1>2 DEF cli_reg, cli_inst, Command
  <2> QED BY <2>1 DEF ShownInv, NothingYet, WhileSet, WhileGet, WhileSummary, AtEnd
<1>3. CASE ReadPointer \/ ReadLines \/ ReadRest \/ CountPage \/ PrintPage
  <2>1. pc \in InstPlaces /\ cmd' = cmd
        /\ pc' \in {"lines", "rest", "count", "print", "pointer", "idle"}
    <3>1. pc \in {"lines", "rest"} => phase \in {"count", "print"}
      BY DEF TypeInv, Trace
    <3> QED BY <1>3, <3>1 DEF ReadPointer, ReadLines, ReadRest, CountPage, PrintPage, InstPlaces
  <2>2. cmd.name = "inst"
    BY <2>1, PageType DEF InstCmds
  <2> QED BY <2>1, <2>2 DEF ShownInv, NothingYet, WhileSet, WhileGet, WhileSummary, AtEnd
<1>4. CASE UNCHANGED vars
  <2>1. UNCHANGED <<file, pc, cmd, desc, k, shown, calm>>
    BY <1>4 DEF vars, target, regVars
  <2> QED BY <2>1 DEF ShownInv, NothingYet, WhileSet, WhileGet, WhileSummary, AtEnd, Accurate,
                      Held, Kept, Contents
<1> QED BY <1>1, <1>2, <1>3, <1>4, ReadPsrShown, SetWordShown, GetWordShown, SummaryShown
        DEF Next, Host

LEMMA ShownRight == TypeInv /\ ShownInv => RegShowsItsRegister
<1> SUFFICES ASSUME TypeInv, ShownInv,
                    pc = "idle", cmd.name = "reg", calm, desc.name # "inv"
             PROVE  IF desc.name = "w"
                      THEN desc.window < NWINDOWS => shown = Contents(SummaryMeans(desc.window))
                      ELSE (Literal(cmd.reg) /\ desc.window < NWINDOWS) =>
                             /\ shown = Contents(MeantWords(CWP))
                             /\ cmd.val # <<>> => shown = SubSeq(cmd.val, 1, Len(shown))
  BY DEF RegShowsItsRegister
<1>1. CASE desc.name = "w"
  BY <1>1 DEF ShownInv, AtEnd, Accurate
<1>2. ASSUME desc.name # "w", Literal(cmd.reg), desc.window < NWINDOWS
      PROVE  /\ shown = Contents(MeantWords(CWP))
             /\ cmd.val # <<>> => shown = SubSeq(cmd.val, 1, Len(shown))
  <2> DEFINE T == Target(desc)
  <2>1. cmd \in RegCmds
    BY DEF TypeInv, Console, NoCmd, InstCmds, RegPlaces, InstPlaces
  <2>2. PICK w \in 0..31 : FoundAt(w)
    BY DEF TypeInv, Register, Invalid, Desc
  <2>3. Known(desc, cmd.reg, w) /\ IsTarget(T, desc)
    BY <1>2, <2>1, <2>2, FoundKnown
  <2>4. T = MeantWords(CWP)
    BY <1>2, <2>2, <2>3, MeantHere
  <2>5. T \in Seq(Int) /\ Len(T) \in 1..2
    BY <1>2, <2>3, KnownFields, InFile
  <2>6. shown = Held(Len(T)) /\ (cmd.val # <<>> => Kept(Len(T)))
    BY <1>2 DEF ShownInv, AtEnd, Accurate
  <2>7. shown = Contents(T)
    <3>1. DOMAIN T = 1..Len(T)
      BY <2>5
    <3> QED BY <2>6, <3>1 DEF Held, Contents
  <2>8. ASSUME cmd.val # <<>> PROVE shown = SubSeq(cmd.val, 1, Len(shown))
    <3> DEFINE n == Len(T)
               v == cmd.val
    <3>1. n \in 1..2 /\ Kept(n) /\ shown = Held(n)
      BY <2>5, <2>6, <2>8
    <3>2. PICK x \in Values : v = <<x, x + 100>>
      BY <2>1, <2>8 DEF RegCmds
    <3>3. v \in Seq(Int) /\ Len(v) = 2
      <4>1. x \in Int /\ x + 100 \in Int
        BY InputsAssumption
      <4> QED BY <3>2, <4>1
    <3>4. shown = [j \in 1..n |-> v[j]]
      BY <3>1 DEF Held, Kept
    <3> HIDE DEF n, v
    <3>5. [j \in 1..n |-> v[j]] \in [1..n -> Int] /\ n \in Nat
      <4>1. n \in Nat /\ \A j \in 1..n : j \in 1..2
        BY <3>1
      <4>2. \A j \in 1..2 : v[j] \in Int
        BY <3>3, Elements
      <4> QED BY <4>1, <4>2, Zenon
    <3>6. shown \in Seq(Int) /\ Len(shown) = n
      BY <3>4, <3>5, IsSequence
    <3>7. SubSeq(v, 1, n) = [j \in 1..n |-> v[j]]
      BY <3>1, <3>3
    <3> QED BY <3>4, <3>6, <3>7 DEF v
  <2> QED BY <2>4, <2>7, <2>8
<1> QED BY <1>1, <1>2

(* A register the user asks for is the register of the core: if no access  *)
(* fails and the core stands still, what reg prints at the end is what the *)
(* core holds in the words the name means in its current window, and what  *)
(* was entered is there; without a name, the rows of that window's         *)
(* registers and the special registers.  For any number of windows.        *)
THEOREM ShowsItsRegister == Spec => []RegShowsItsRegister
<1>1. Init => ShownInv
  BY ShownInit
<1>2. TypeInv /\ ShownInv /\ [Next]_vars => ShownInv'
  BY ShownNext
<1>3. TypeInv /\ ShownInv => RegShowsItsRegister
  BY ShownRight
<1> QED BY <1>1, <1>2, <1>3, TypeHolds, PTL DEF Spec

-----------------------------------------------------------------------------
(* Lines of the trace: what Fetch gives depends on the place in the ring   *)
(* only, and can be put together and cut.                                  *)

LEMMA SameSeq ==
  ASSUME NEW S, NEW s \in Seq(S), NEW t \in Seq(S), NEW n \in Nat, Len(s) = n, Len(t) = n,
         \A j \in 1..n : s[j] = t[j]
  PROVE  s = t
OBVIOUS

LEMMA ModDiv ==
  \A m \in Nat \ {0} : \A x \in Int :
    x % m \in 0..(m - 1) /\ x \div m \in Int /\ x = m * (x \div m) + (x % m)
OBVIOUS

LEMMA FetchIs ==
  ASSUME NEW r \in [0..(Lines - 1) -> RingLine], NEW f \in Int, NEW n \in Nat
  PROVE  /\ Fetch(r, f, n) \in [1..n -> RingLine]
         /\ Fetch(r, f, n) \in Seq(RingLine) /\ Len(Fetch(r, f, n)) = n
         /\ \A j \in 1..n : Fetch(r, f, n)[j] = At(r, f + j - 1)
<1>1. \A j \in 1..n : At(r, f + j - 1) \in RingLine
  <2>1. \A j \in 1..n : (f + j - 1) % Lines \in 0..(Lines - 1)
    BY LinesAssumption, ModRange
  <2> QED BY <2>1 DEF At
<1>2. Fetch(r, f, n) \in [1..n -> RingLine]
  BY <1>1 DEF Fetch
<1>3. Fetch(r, f, n) \in Seq(RingLine) /\ Len(Fetch(r, f, n)) = n
  BY <1>2, IsSequence
<1>4. \A j \in 1..n : Fetch(r, f, n)[j] = At(r, f + j - 1)
  BY DEF Fetch
<1> QED BY <1>2, <1>3, <1>4

LEMMA ModSame ==
  ASSUME NEW m \in Nat \ {0}, NEW f \in Int, NEW g \in Int, NEW c \in Int, g % m = f % m
  PROVE  (g + c) % m = (f + c) % m
<1>1. \E q \in Int : g = f + m * q
  <2> DEFINE a == g \div m
             b == f \div m
             s == f % m
  <2>1. g = m * a + s /\ f = m * b + s /\ a \in Int /\ b \in Int /\ s \in Int
    OBVIOUS
  <2> HIDE DEF a, b, s
  <2>2. m * (a - b) = m * a - m * b /\ m * a \in Int /\ m * b \in Int
    BY <2>1
  <2>3. g = f + m * (a - b) /\ a - b \in Int
    BY <2>1, <2>2
  <2> QED BY <2>3
<1>2. ASSUME NEW q \in Int, g = f + m * q
      PROVE  (g + c) % m = (f + c) % m
  <2> DEFINE x == f + c
             y == g + c
  <2>1. m * q \in Int
    OBVIOUS
  <2>2. y = x + m * q /\ x \in Int /\ y \in Int
    BY <1>2, <2>1
  <2> HIDE DEF x, y
  <2>3. y % m = x % m
    BY ONLY <2>2, m \in Nat \ {0}, q \in Int, ModShift
  <2> QED BY <2>3 DEF x, y
<1> QED BY <1>1, <1>2

LEMMA FetchShift ==
  ASSUME NEW r, NEW f \in Int, NEW g \in Int, NEW n \in Nat, g % Lines = f % Lines
  PROVE  Fetch(r, g, n) = Fetch(r, f, n)
<1>1. ASSUME NEW j \in 1..n PROVE (g + j - 1) % Lines = (f + j - 1) % Lines
  <2>1. Lines \in Nat \ {0} /\ j - 1 \in Int
    BY LinesAssumption
  <2>2. (g + (j - 1)) % Lines = (f + (j - 1)) % Lines
    BY <2>1, ModSame
  <2>3. g + (j - 1) = g + j - 1 /\ f + (j - 1) = f + j - 1
    OBVIOUS
  <2> QED BY <2>2, <2>3
<1> QED BY <1>1 DEF Fetch, At

(* The first line is the pointer's place less the lines gone back, but for *)
(* a multiple of the buffer's space.                                       *)
LEMMA FirstLineIs ==
  ASSUME NEW p \in Int, NEW s \in Int, NEW n \in Int
  PROVE  /\ FirstLine(p, s, n) \in 0..(Space - 1)
         /\ FirstLine(p, s, n) % Lines = (p - s - n) % Lines
<1> DEFINE x == p - s - n
           q == x \div Space
           y == x % Space
<1>1. Space \in Nat \ {0} /\ Space = 16 * Lines /\ Lines \in Nat \ {0} /\ x \in Int
  BY LinesAssumption DEF Space
<1> HIDE DEF x
<1>2. y \in 0..(Space - 1) /\ q \in Int /\ x = Space * q + y
  BY <1>1, ModDiv
<1> HIDE DEF q, y
<1>3. Space * q = Lines * (16 * q)
  BY <1>1, <1>2
<1>4. x = y + Lines * (16 * q) /\ y \in Int /\ 16 * q \in Int
  BY <1>1, <1>2, <1>3
<1> DEFINE z == 16 * q
<1>5. x = y + Lines * z /\ y \in Int /\ z \in Int
  BY <1>4
<1> HIDE DEF z
<1>6. x % Lines = y % Lines
  <2>1. Lines \in Nat \ {0} /\ x \in Int /\ y \in Int /\ z \in Int /\ x = y + Lines * z
    BY <1>1, <1>5
  <2> QED BY ONLY <2>1, ModShift, Zenon
<1> QED BY <1>2, <1>6 DEF x, y, FirstLine

LEMMA FetchConcat ==
  ASSUME NEW r \in [0..(Lines - 1) -> RingLine], NEW f \in Int, NEW g \in Int,
         NEW m \in Nat, NEW n \in Nat, g % Lines = (f + m) % Lines
  PROVE  Fetch(r, f, m) \o Fetch(r, g, n) = Fetch(r, f, m + n)
<1> DEFINE a == Fetch(r, f, m)
           b == Fetch(r, f + m, n)
           c == Fetch(r, f, m + n)
<1>1. Fetch(r, g, n) = b
  BY FetchShift
<1>2. /\ a \in Seq(RingLine) /\ Len(a) = m /\ \A j \in 1..m : a[j] = At(r, f + j - 1)
      /\ b \in Seq(RingLine) /\ Len(b) = n /\ \A j \in 1..n : b[j] = At(r, f + m + j - 1)
      /\ c \in Seq(RingLine) /\ Len(c) = m + n /\ \A j \in 1..(m + n) : c[j] = At(r, f + j - 1)
  BY FetchIs
<1> HIDE DEF a, b, c
<1>3. a \o b \in Seq(RingLine) /\ Len(a \o b) = m + n
  <2>1. a \in Seq(RingLine) /\ b \in Seq(RingLine) /\ Len(a) = m /\ Len(b) = n
    BY <1>2
  <2>2. a \o b \in Seq(RingLine) /\ Len(a \o b) = Len(a) + Len(b)
    BY <2>1, Concat, Zenon
  <2> QED BY <2>1, <2>2
<1>4. ASSUME NEW j \in 1..(m + n) PROVE (a \o b)[j] = c[j]
  <2>1. CASE j <= m
    <3>1. j \in 1..m
      BY <2>1
    <3>2. (a \o b)[j] = a[j]
      <4>1. a \in Seq(RingLine) /\ b \in Seq(RingLine) /\ Len(a) = m
        BY <1>2
      <4> QED BY <3>1, <4>1, ConcatParts, Zenon
    <3> QED BY <1>2, <3>1, <3>2
  <2>2. CASE ~ (j <= m)
    <3>1. j - m \in 1..n /\ f + m + (j - m) - 1 = f + j - 1
      BY <2>2
    <3>2. (a \o b)[j] = b[j - m]
      <4>1. a \in Seq(RingLine) /\ b \in Seq(RingLine) /\ Len(a) = m /\ Len(b) = n
        BY <1>2
      <4>2. j \in (Len(a) + 1)..(Len(a) + Len(b))
        BY <2>2, <4>1
      <4>3. (a \o b)[j] = b[j - Len(a)]
        BY <4>1, <4>2, ConcatParts, Zenon
      <4> QED BY <4>1, <4>3
    <3>3. b[j - m] = At(r, f + m + (j - m) - 1)
      BY <1>2, <3>1
    <3> QED BY <1>2, <3>1, <3>2, <3>3
  <2> QED BY <2>1, <2>2
<1>5. a \o b = c
  <2>1. c \in Seq(RingLine) /\ Len(c) = m + n /\ m + n \in Nat
    BY <1>2
  <2> QED BY <1>3, <1>4, <2>1, SameSeq
<1> QED BY <1>1, <1>5 DEF a, c

LEMMA FetchRest ==
  ASSUME NEW r \in [0..(Lines - 1) -> RingLine], NEW f \in Int, NEW n \in Nat, NEW i \in 0..n
  PROVE  SubSeq(Fetch(r, f, n), i + 1, n) = Fetch(r, f + i, n - i)
<1> DEFINE a == Fetch(r, f, n)
           b == Fetch(r, f + i, n - i)
<1>1. n - i \in Nat /\ f + i \in Int
  OBVIOUS
<1>2. /\ a \in Seq(RingLine) /\ Len(a) = n /\ \A j \in 1..n : a[j] = At(r, f + j - 1)
      /\ b \in Seq(RingLine) /\ Len(b) = n - i /\ \A j \in 1..(n - i) : b[j] = At(r, f + i + j - 1)
  BY <1>1, FetchIs
<1> HIDE DEF a, b
<1> DEFINE c == SubSeq(a, i + 1, n)
<1>3. /\ c \in Seq(RingLine) /\ Len(c) = n - i
      /\ \A j \in 1..(n - i) : c[j] = a[i + j]
  <2>1. a \in Seq(RingLine) /\ Len(a) = n /\ n \in Nat /\ i \in 0..n
    BY <1>2
  <2> QED BY ONLY <2>1, SuffixIs
<1>4. ASSUME NEW j \in 1..(n - i) PROVE c[j] = b[j]
  <2>1. i + j \in 1..n /\ f + (i + j) - 1 = f + i + j - 1
    OBVIOUS
  <2>2. c[j] = a[i + j]
    BY <1>3
  <2>3. a[i + j] = At(r, f + (i + j) - 1)
    BY <1>2, <2>1
  <2> QED BY <1>2, <2>1, <2>2, <2>3
<1> HIDE DEF c
<1>5. c = b
  <2>1. b \in Seq(RingLine) /\ Len(b) = n - i
    BY <1>2
  <2> QED BY <1>1, <1>3, <1>4, <2>1, SameSeq
<1> QED BY <1>5 DEF c, a, b

-----------------------------------------------------------------------------
(* What inst has in its buffer: the lines of the page, of the active core  *)
(* for the page it counts last, of core 0 for the others.                  *)

Source == IF page = pages THEN cpu ELSE 0
PageFirst == FirstLine(pointer[Source], page * PageSize, PageSize)

PagesInv ==
  /\ pc \in {"pointer", "lines", "rest", "count"} => (phase = "count" <=> page = pages)
  /\ pc \in InstPlaces /\ page = pages => listing = <<>>
  /\ pc \in {"pointer", "lines", "rest", "count"} /\ pages = 0 => cntr = 0

BufferInv ==
  calm =>
    /\ pc \in {"lines", "rest"} => first = PageFirst
    /\ pc = "rest" => buffer = Fetch(ring[Source], first, ReadSize(first, PageSize))
    /\ pc \in {"count", "print"} => buffer = Fetch(ring[Source], PageFirst, PageSize)

(* The lines to print begin with an instruction. *)
HitInv ==
  pc = "print" /\ page = pages =>
    /\ firstLine < PageSize => Begins(buffer[firstLine + 1])
    /\ pages = 0 => \E part \in {0, 1} : Seen(GarbageLine(part), firstLine) = cmd.n

TraceInv == PagesInv /\ BufferInv /\ HitInv

LEMMA TraceInit == Init => TraceInv
BY DEF Init, TraceInv, PagesInv, BufferInv, HitInv, InstPlaces

LEMMA WhoIsSource ==
  ASSUME PagesInv, pc \in {"pointer", "lines", "rest"}, cpu \in {0, 1}
  PROVE  Who = Source
BY DEF PagesInv, Who, Source

LEMMA ReadPointerTrace ==
  ASSUME TypeInv, TraceInv, ReadPointer
  PROVE  TraceInv'
<1>1. /\ pc = "pointer" /\ pc' = "lines"
      /\ UNCHANGED <<ring, pointer, cpu, cmd, phase, page, buffer, cntr, firstLine, pages, listing>>
  BY DEF ReadPointer, target
<1>2. PagesInv'
  BY <1>1 DEF TraceInv, PagesInv, InstPlaces
<1>3. BufferInv'
  <2>1. Who = Source
    BY <1>1, WhoIsSource DEF TraceInv, TypeInv, Machine
  <2>2. calm' => first' = FirstLine(pointer[Who], page * PageSize, PageSize)
    <3>1. PICK p :
            /\ (p = pointer[Who] /\ ReadWorks) \/ ReadLate \/ (p = 0 /\ ReadFails)
            /\ first' = FirstLine(p, page * PageSize, PageSize)
      BY DEF ReadPointer
    <3>2. calm' => p = pointer[Who]
      BY <3>1, ReadFlags DEF TypeInv, Console
    <3> QED BY <3>1, <3>2
  <2>3. calm' => first' = PageFirst'
    BY <1>1, <2>1, <2>2 DEF PageFirst, Source, PageSize
  <2> QED BY <1>1, <2>3 DEF BufferInv
<1>4. HitInv'
  BY <1>1 DEF HitInv
<1> QED BY <1>2, <1>3, <1>4 DEF TraceInv

LEMMA ReadLinesTrace ==
  ASSUME TypeInv, TraceInv, ReadLines
  PROVE  TraceInv'
<1> DEFINE n == ReadSize(first, PageSize)
<1>1. /\ pc = "lines" /\ FetchedOr(first, n) /\ pc' = IF n < PageSize THEN "rest" ELSE phase
      /\ UNCHANGED <<ring, pointer, cpu, cmd, phase, page, first, cntr, firstLine, pages, listing>>
  BY DEF ReadLines, target
<1>2. /\ n \in 1..PageSize /\ PageSize \in Nat /\ first \in Nat /\ buffer = <<>>
      /\ phase \in {"count", "print"}
  BY <1>1, PageType, LinesAssumption DEF InstPlaces, TypeInv, Trace, Space
<1>3. Who = Source
  BY <1>1, WhoIsSource DEF TraceInv, TypeInv, Machine
<1>4. PagesInv'
  BY <1>1, <1>2 DEF TraceInv, PagesInv, InstPlaces
<1>5. BufferInv'
  <2>1. SUFFICES ASSUME calm'
                 PROVE  /\ first' = PageFirst'
                        /\ buffer' = Fetch(ring[Source], first, n)
    <3>1. PageFirst' = PageFirst /\ Source' = Source /\ PageSize' = PageSize /\ first' = first
      BY <1>1 DEF PageFirst, Source, PageSize
    <3>2. n < PageSize \/ n = PageSize
      BY <1>2
    <3> HIDE DEF n
    <3>3. ASSUME first' = PageFirst', buffer' = Fetch(ring[Source], first, n)
          PROVE  /\ pc' \in {"lines", "rest"} => first' = PageFirst'
                 /\ pc' = "rest" => buffer' = Fetch(ring'[Source'], first', ReadSize(first', PageSize'))
                 /\ pc' \in {"count", "print"} => buffer' = Fetch(ring'[Source'], PageFirst', PageSize')
      BY <1>1, <1>2, <3>1, <3>2, <3>3 DEF n
    <3> QED BY <3>3 DEF BufferInv
  <2>2. calm /\ buffer' = buffer \o Fetch(ring[Who], first, n)
    BY <1>1, <2>1, FetchedCalm
  <2>3. ring[Who] \in [0..(Lines - 1) -> RingLine]
    BY DEF TypeInv, Machine, Who
  <2>4. Fetch(ring[Who], first, n) \in Seq(RingLine)
    <3>1. n \in Nat /\ first \in Int
      BY <1>2
    <3> HIDE DEF n
    <3> QED BY <2>3, <3>1, FetchIs
  <2>5. buffer' = Fetch(ring[Who], first, n)
    BY <1>2, <2>2, <2>4
  <2>6. first = PageFirst
    BY <1>1, <2>2 DEF TraceInv, BufferInv
  <2> QED BY <1>1, <1>3, <2>5, <2>6 DEF PageFirst, Source, PageSize
<1>6. HitInv'
  <2>1. pc' = "print" => page # pages
    BY <1>1, <1>2 DEF TraceInv, PagesInv
  <2> QED BY <1>1, <2>1 DEF HitInv
<1> QED BY <1>4, <1>5, <1>6 DEF TraceInv

LEMMA ReadRestTrace ==
  ASSUME TypeInv, TraceInv, ReadRest
  PROVE  TraceInv'
<1> DEFINE n == ReadSize(first, PageSize)
<1>1. /\ pc = "rest" /\ FetchedOr(0, PageSize - n) /\ pc' = phase
      /\ UNCHANGED <<ring, pointer, cpu, cmd, phase, page, first, cntr, firstLine, pages, listing>>
  BY DEF ReadRest, target
<1>2. /\ n \in 1..PageSize /\ PageSize \in Nat /\ first \in Nat /\ n < PageSize
      /\ phase \in {"count", "print"}
  BY <1>1, PageType, LinesAssumption DEF InstPlaces, TypeInv, Trace, Space
<1>3. Who = Source
  BY <1>1, WhoIsSource DEF TraceInv, TypeInv, Machine
<1>4. PagesInv'
  BY <1>1, <1>2 DEF TraceInv, PagesInv, InstPlaces
<1>5. BufferInv'
  <2>1. SUFFICES ASSUME calm' PROVE buffer' = Fetch(ring[Source], PageFirst, PageSize)
    <3>1. PageFirst' = PageFirst /\ Source' = Source /\ PageSize' = PageSize
      BY <1>1 DEF PageFirst, Source, PageSize
    <3> QED BY <1>1, <1>2, <3>1 DEF BufferInv
  <2>2. calm /\ buffer' = buffer \o Fetch(ring[Who], 0, PageSize - n)
    BY <1>1, <2>1, FetchedCalm
  <2>3. first = PageFirst /\ buffer = Fetch(ring[Source], first, n)
    BY <1>1, <2>2 DEF TraceInv, BufferInv
  <2>4. first + n = Space
    <3>1. Space \in Nat
      BY LinesAssumption DEF Space
    <3> QED BY <1>2, <3>1 DEF ReadSize
  <2>5. 0 % Lines = (first + n) % Lines
    <3>1. Lines \in Nat \ {0} /\ Space = 0 + Lines * 16 /\ Space \in Int /\ 0 \in Int /\ 16 \in Int
      BY LinesAssumption DEF Space
    <3>2. Space % Lines = 0 % Lines
      BY <3>1, ModShift
    <3> QED BY <2>4, <3>2
  <2>6. ring[Who] \in [0..(Lines - 1) -> RingLine]
    BY DEF TypeInv, Machine, Who
  <2> DEFINE m == PageSize - n
  <2>7. n \in Nat /\ m \in Nat /\ n + m = PageSize /\ first \in Int /\ 0 \in Int
    BY <1>2
  <2> HIDE DEF n, m
  <2>8. Fetch(ring[Who], first, n) \o Fetch(ring[Who], 0, m) = Fetch(ring[Who], first, n + m)
    BY <2>5, <2>6, <2>7, FetchConcat
  <2> QED BY <1>3, <2>2, <2>3, <2>7, <2>8 DEF m
<1>6. HitInv'
  <2>1. pc' = "print" => page # pages
    BY <1>1, <1>2 DEF TraceInv, PagesInv
  <2> QED BY <1>1, <2>1 DEF HitInv
<1> QED BY <1>4, <1>5, <1>6 DEF TraceInv

(* What is counted from a line on: the line itself, and what is counted    *)
(* from the next one on.                                                   *)
LEMMA SeenNext ==
  ASSUME NEW l, PageSize \in Nat, NEW i \in 0..(PageSize - 1), ~ Begins(buffer[i + 1])
  PROVE  Seen(l, i) = Seen(l, i + 1)
<1> DEFINE B(j) == Begins(IF j = PageSize THEN l ELSE buffer[j + 1])
<1>1. ~ B(i)
  OBVIOUS
<1>2. i..PageSize = {i} \cup ((i + 1)..PageSize)
  OBVIOUS
<1> HIDE DEF B
<1>3. {j \in i..PageSize : B(j)} = {j \in (i + 1)..PageSize : B(j)}
  BY <1>1, <1>2
<1>4. Seen(l, i) = Cardinality({j \in i..PageSize : B(j)})
      /\ Seen(l, i + 1) = Cardinality({j \in (i + 1)..PageSize : B(j)})
  BY DEF Seen, B
<1> QED BY <1>3, <1>4

(* The instructions that begin in the lines printed are those counted, but *)
(* for one that the line past the buffer may have been taken for.          *)
LEMMA SeenListed ==
  ASSUME NEW part \in {0, 1}, PageSize \in Nat, NEW i \in 0..PageSize
  PROVE  LET n == Cardinality({j \in 1..(PageSize - i) : Begins(buffer[i + j])})
         IN  /\ n \in Nat
             /\ Seen(GarbageLine(part), i) \in {n, n + 1}
<1> DEFINE A == {j \in 1..(PageSize - i) : Begins(buffer[i + j])}
           C == {j \in i..(PageSize - 1) : Begins(buffer[j + 1])}
           D == {j \in i..PageSize : Begins(IF j = PageSize THEN GarbageLine(part) ELSE buffer[j + 1])}
           g == [j \in A |-> i + j - 1]
<1>1. IsFiniteSet(A) /\ IsFiniteSet(C)
  <2>1. IsFiniteSet(1..(PageSize - i)) /\ IsFiniteSet(i..(PageSize - 1))
    BY FS_Interval
  <2> QED BY <2>1, FS_Subset
<1>2. g \in Bijection(A, C)
  <2>1. \A j \in A : g[j] \in C
    <3>1. SUFFICES ASSUME NEW j \in A PROVE i + j - 1 \in C
      OBVIOUS
    <3>2. i + j - 1 \in i..(PageSize - 1) /\ (i + j - 1) + 1 = i + j
      OBVIOUS
    <3> QED BY <3>1, <3>2
  <2>2. \A a, b \in A : g[a] = g[b] => a = b
    OBVIOUS
  <2>3. \A c \in C : \E a \in A : g[a] = c
    <3>1. SUFFICES ASSUME NEW c \in C PROVE \E a \in A : i + a - 1 = c
      OBVIOUS
    <3>2. c - i + 1 \in 1..(PageSize - i) /\ i + (c - i + 1) = c + 1 /\ i + (c - i + 1) - 1 = c
      OBVIOUS
    <3>3. c - i + 1 \in A
      BY <3>1, <3>2
    <3> QED BY <3>2, <3>3
  <2>4. DOMAIN g = A
    OBVIOUS
  <2> HIDE DEF A, C
  <2>5. g \in [A -> C]
    BY <2>1
  <2> HIDE DEF g
  <2> QED BY <2>2, <2>3, <2>4, <2>5 DEF Bijection, Injection, Surjection, IsInjective
<1>3. Cardinality(A) = Cardinality(C) /\ Cardinality(C) \in Nat
  <2> HIDE DEF A, C, D, g
  <2> QED BY <1>1, <1>2, FS_Bijection, FS_CardinalityType DEF ExistsBijection
<1>4. PageSize \notin C
  OBVIOUS
<1>5. D = C \/ D = C \cup {PageSize}
  <2>1. \A j \in i..PageSize : j = PageSize \/ j \in i..(PageSize - 1)
    OBVIOUS
  <2>2. \A j \in i..(PageSize - 1) : j \in i..PageSize /\ j # PageSize
    OBVIOUS
  <2>3. PageSize \in i..PageSize
    OBVIOUS
  <2>4. \A j : j # PageSize => (j \in D <=> j \in C)
    BY <2>1, <2>2
  <2> HIDE DEF C, D
  <2> QED BY <1>4, <2>4
<1>6. Cardinality(C \cup {PageSize}) = Cardinality(C) + 1
  BY <1>1, <1>4, FS_AddElement
<1>7. Seen(GarbageLine(part), i) = Cardinality(D)
  BY DEF Seen
<1> HIDE DEF A, C, D
<1>8. Seen(GarbageLine(part), i) \in {Cardinality(A), Cardinality(A) + 1}
  BY <1>3, <1>5, <1>6, <1>7
<1> QED BY <1>3, <1>8 DEF A

LEMMA CountPageTrace ==
  ASSUME TypeInv, TraceInv, CountPage
  PROVE  TraceInv'
<1>1. pc = "count" /\ UNCHANGED <<ring, pointer, cpu, cmd, first, listing, calm>>
  BY DEF CountPage, target
<1>2. PICK part \in {0, 1} :
       LET hits == {i \in 0..PageSize : cntr + Seen(GarbageLine(part), i) = cmd.n}
       IN  IF hits # {}
             THEN /\ firstLine' = Max(hits) /\ cntr' = cmd.n
                  /\ phase' = "print" /\ pc' = "print"
                  /\ UNCHANGED <<page, pages, buffer>>
             ELSE /\ cntr' = cntr + Seen(GarbageLine(part), 0)
                  /\ page' = NextPage /\ pages' = NextPage /\ buffer' = <<>> /\ pc' = "pointer"
                  /\ UNCHANGED <<firstLine, phase>>
  BY DEF CountPage
<1>3. /\ PageSize \in Nat /\ PageSize' = PageSize /\ phase = "count" /\ page = pages
      /\ pages \in Nat /\ cntr \in Nat
  BY <1>1, PageType DEF InstPlaces, TypeInv, Trace, TraceInv, PagesInv, PageSize
<1> DEFINE hits == {i \in 0..PageSize : cntr + Seen(GarbageLine(part), i) = cmd.n}
<1>4. CASE hits # {}
  <2>1. /\ firstLine' = Max(hits) /\ phase' = "print" /\ pc' = "print"
        /\ UNCHANGED <<page, pages, buffer>>
    BY <1>2, <1>4
  <2>2. Max(hits) \in hits /\ \A i \in hits : Max(hits) >= i
    <3>1. hits \in SUBSET (0..PageSize)
      OBVIOUS
    <3> HIDE DEF hits
    <3> QED BY <1>3, <1>4, <3>1, MaxIsGreatest
  <2>3. PagesInv'
    BY <1>1, <1>3, <2>1 DEF TraceInv, PagesInv, InstPlaces
  <2>4. BufferInv'
    BY <1>1, <1>3, <2>1 DEF TraceInv, BufferInv, PageFirst, Source
  <2>5. HitInv'
    <3> DEFINE i == Max(hits)
    <3>1. i \in 0..PageSize /\ cntr + Seen(GarbageLine(part), i) = cmd.n
      BY <2>2
    <3>2. i < PageSize => Begins(buffer[i + 1])
      <4>1. SUFFICES ASSUME i < PageSize, ~ Begins(buffer[i + 1]) PROVE FALSE
        OBVIOUS
      <4>2. i \in 0..(PageSize - 1) /\ i + 1 \in 0..PageSize /\ i \in Nat
        BY <1>3, <3>1, <4>1
      <4>3. Seen(GarbageLine(part), i) = Seen(GarbageLine(part), i + 1)
        <5> HIDE DEF i
        <5> QED BY <1>3, <4>1, <4>2, SeenNext
      <4>4. i + 1 \in hits
        BY <3>1, <4>2, <4>3
      <4>5. i >= i + 1
        BY <2>2, <4>4
      <4> QED BY <4>2, <4>5
    <3>3. pages = 0 => Seen(GarbageLine(part), i) = cmd.n
      <4>1. Seen(GarbageLine(part), i) \in Nat
        BY <1>3, <3>1, SeenType
      <4>2. pages = 0 => cntr = 0
        BY <1>1 DEF TraceInv, PagesInv
      <4> QED BY <3>1, <4>1, <4>2
    <3> HIDE DEF i
    <3>4. firstLine' = i
      BY <2>1 DEF i
    <3>5. Seen(GarbageLine(part), firstLine)' = Seen(GarbageLine(part), i)
      BY <1>3, <2>1, <3>4 DEF Seen, GarbageLine
    <3>6. pages' = 0 => \E p \in {0, 1} : Seen(GarbageLine(p), firstLine)' = cmd'.n
      BY <1>1, <2>1, <3>3, <3>5
    <3>7. firstLine' < PageSize' => Begins(buffer'[firstLine' + 1])
      BY <1>3, <2>1, <3>2, <3>4
    <3> QED BY <3>6, <3>7 DEF HitInv
  <2> QED BY <2>3, <2>4, <2>5 DEF TraceInv
<1>5. CASE hits = {}
  <2>1. /\ pc' = "pointer" /\ page' = page + 1 /\ pages' = page + 1 /\ phase' = "count"
    BY <1>2, <1>3, <1>5 DEF NextPage
  <2>2. PagesInv'
    <3>1. pages' # 0
      BY <1>3, <2>1
    <3> QED BY <1>1, <1>3, <2>1, <3>1 DEF TraceInv, PagesInv, InstPlaces
  <2> QED BY <2>1, <2>2 DEF TraceInv, BufferInv, HitInv
<1> QED BY <1>4, <1>5

LEMMA PrintPageTrace ==
  ASSUME TypeInv, TraceInv, PrintPage
  PROVE  TraceInv'
<1>1. /\ pc = "print" /\ phase' = phase /\ pages' = pages /\ cntr' = cntr /\ phase = "print"
      /\ pages \in Nat /\ page \in 0..pages
      /\ IF page = 0 THEN pc' = "idle" ELSE page' = page - 1 /\ pc' = "pointer"
  BY DEF PrintPage, TypeInv, Trace
<1>2. pc' # "idle" => page' # pages' /\ pages' # 0
  BY <1>1
<1>3. PagesInv'
  BY <1>1, <1>2 DEF PagesInv, InstPlaces
<1> QED BY <1>1, <1>3 DEF TraceInv, BufferInv, HitInv

LEMMA TraceNext == TypeInv /\ TraceInv /\ [Next]_vars => TraceInv'
<1> SUFFICES ASSUME TypeInv, TraceInv, [Next]_vars PROVE TraceInv'
  OBVIOUS
<1>1. CASE Execute \/ MoveWindow
  <2>1. calm' = FALSE /\ UNCHANGED <<pc, cmd, phase, page, buffer, cntr, firstLine, pages, listing>>
    BY <1>1 DEF Execute, MoveWindow, Executes, instVars
  <2>2. PageSize' = PageSize /\ \A l, i : Seen(l, i)' = Seen(l, i)
    BY <2>1 DEF PageSize, Seen
  <2>3. HitInv'
    <3>1. \A part : Seen(GarbageLine(part), firstLine)' = Seen(GarbageLine(part), firstLine)
      BY <2>1, <2>2 DEF Seen, GarbageLine
    <3> QED BY <2>1, <2>2, <3>1 DEF TraceInv, HitInv
  <2>4. PagesInv'
    BY <2>1 DEF TraceInv, PagesInv
  <2> QED BY <2>1, <2>3, <2>4 DEF TraceInv, BufferInv
<1>2. CASE cli_reg \/ cli_inst
  <2>1. pc' \in {"psr", "pointer"} /\ phase' = "count" /\ page' = 0 /\ pages' = 0 /\ cntr' = 0
        /\ listing' = <<>>
    BY <1>2 DEF cli_reg, cli_inst, Command
  <2> QED BY <2>1 DEF TraceInv, PagesInv, BufferInv, HitInv
<1>3. CASE ReadPsr \/ SetWord \/ GetWord \/ register_print_summary
  <2>1. pc' \in {"idle", "set", "get", "summary"}
    BY <1>3 DEF ReadPsr, SetWord, GetWord, register_print_summary
  <2> QED BY <2>1 DEF TraceInv, PagesInv, BufferInv, HitInv, InstPlaces
<1>4. CASE UNCHANGED vars
  <2>1. UNCHANGED <<ring, pointer, cpu, calm, pc, cmd, phase, page, first, buffer, cntr, firstLine,
                    pages, listing>>
    BY <1>4 DEF vars, target, instVars
  <2>2. PageSize' = PageSize /\ PageFirst' = PageFirst /\ Source' = Source
    BY <2>1 DEF PageSize, PageFirst, Source
  <2>3. \A part : Seen(GarbageLine(part), firstLine)' = Seen(GarbageLine(part), firstLine)
    BY <2>1, <2>2 DEF Seen, GarbageLine
  <2>4. PagesInv' /\ HitInv'
    BY <2>1, <2>2, <2>3 DEF TraceInv, PagesInv, HitInv
  <2>5. BufferInv'
    BY <2>1, <2>2 DEF TraceInv, BufferInv
  <2> QED BY <2>4, <2>5 DEF TraceInv
<1> QED BY <1>1, <1>2, <1>3, <1>4, ReadPointerTrace, ReadLinesTrace, ReadRestTrace,
           CountPageTrace, PrintPageTrace
        DEF Next, Host

-----------------------------------------------------------------------------
(* The end of the trace *)

LEMMA LastPage ==
  ASSUME TypeInv, TraceInv, PrintPage, page = 0, pages = 0, calm
  PROVE  LET n == PageSize - firstLine
         IN  /\ n \in Nat /\ Len(listing') = n
             /\ listing' = Fetch(ring[cpu], FirstLine(pointer[cpu], 0, n), n)
             /\ \A j \in 1..n : listing'[j] = buffer[firstLine + j]
<1> DEFINE r == ring[cpu]
           p == pointer[cpu]
           f == firstLine
           m == PageSize
           n == PageSize - firstLine
           x == FirstLine(p, 0, n)
<1>1. /\ pc = "print" /\ listing' = listing \o SubSeq(buffer, firstLine + 1, PageSize)
      /\ cmd \in InstCmds /\ m \in Nat /\ f \in 0..m
  BY PageType DEF PrintPage, InstPlaces, TypeInv, Trace
<1>2. n \in Nat /\ n = m - f
  BY <1>1
<1>3. r \in [0..(Lines - 1) -> RingLine] /\ p \in Int
  BY DEF TypeInv, Machine
<1>4. listing = <<>> /\ buffer = Fetch(r, PageFirst, m) /\ PageFirst = FirstLine(p, 0, m)
  <2>1. page * PageSize = 0
    BY <1>1
  <2> QED BY <1>1, <2>1 DEF TraceInv, PagesInv, BufferInv, InstPlaces, PageFirst, Source
<1> HIDE DEF m
<1>5. SubSeq(buffer, f + 1, m) = Fetch(r, PageFirst + f, m - f) /\ PageFirst \in Int
  <2>1. PageFirst \in Int
    <3>1. 0 \in Int /\ m \in Int
      BY <1>1
    <3>2. FirstLine(p, 0, m) \in 0..(Space - 1)
      <4> HIDE DEF p
      <4> QED BY <1>3, <3>1, FirstLineIs
    <3>3. Space \in Nat
      BY LinesAssumption DEF Space
    <3> HIDE DEF p, r
    <3> QED BY <1>4, <3>2, <3>3
  <2> HIDE DEF r, p, f
  <2> QED BY <1>1, <1>3, <1>4, <2>1, FetchRest
<1>6. x \in Int /\ x % Lines = (PageFirst + f) % Lines
  <2>1. 0 \in Int /\ n \in Int /\ m \in Int /\ f \in Int
    BY <1>1, <1>2
  <2> HIDE DEF f, p, n
  <2>2. x \in 0..(Space - 1) /\ x % Lines = (p - 0 - n) % Lines
    BY <1>3, <2>1, FirstLineIs, Zenon
  <2>3. PageFirst % Lines = (p - 0 - m) % Lines
    <3>1. FirstLine(p, 0, m) % Lines = (p - 0 - m) % Lines
      BY <1>3, <2>1, FirstLineIs, Zenon
    <3> QED BY <1>4, <3>1, Zenon
  <2>4. (PageFirst + f) % Lines = ((p - 0 - m) + f) % Lines
    <3>1. p - 0 - m \in Int /\ Lines \in Nat \ {0}
      BY <1>3, <2>1, LinesAssumption
    <3> DEFINE g == p - 0 - m
               h == PageFirst
    <3>2. Lines \in Nat \ {0} /\ g \in Int /\ h \in Int /\ f \in Int /\ h % Lines = g % Lines
      BY <1>5, <2>1, <2>3, <3>1
    <3> HIDE DEF g, h
    <3>3. (h + f) % Lines = (g + f) % Lines
      BY ONLY <3>2, ModSame, Zenon
    <3> QED BY <3>3 DEF g, h
  <2>5. (p - 0 - m) + f = p - 0 - n
    BY <1>2, <1>3, <2>1
  <2>6. Space \in Nat
    BY LinesAssumption DEF Space
  <2> QED BY <2>2, <2>4, <2>5, <2>6
<1>7. Fetch(r, PageFirst + f, n) = Fetch(r, x, n)
  <2>1. PageFirst + f \in Int
    BY <1>1, <1>5
  <2> HIDE DEF n, x, r
  <2> QED BY <1>2, <1>6, <2>1, FetchShift
<1>8. listing' = Fetch(r, x, n)
  <2>1. SubSeq(buffer, f + 1, m) = Fetch(r, x, n)
    BY <1>2, <1>5, <1>7
  <2>2. Fetch(r, x, n) \in Seq(RingLine)
    <3> HIDE DEF r, x, n
    <3> QED BY <1>2, <1>3, <1>6, FetchIs
  <2>3. listing' = <<>> \o Fetch(r, x, n)
    BY <1>1, <1>4, <2>1 DEF m
  <2> HIDE DEF x, n, r
  <2> QED BY <2>2, <2>3
<1>9. Len(listing') = n
  <2> HIDE DEF r, x, n
  <2> QED BY <1>2, <1>3, <1>6, <1>8, FetchIs
<1>10. \A j \in 1..n : listing'[j] = buffer[f + j]
  <2>1. listing' = SubSeq(buffer, f + 1, m)
    BY <1>2, <1>5, <1>7, <1>8
  <2>2. buffer \in Seq(BufferLine) /\ Len(buffer) = m
    BY <1>1 DEF TypeInv, Trace, m
  <2>3. \A j \in 1..(m - f) : SubSeq(buffer, f + 1, m)[j] = buffer[f + j]
    <3> HIDE DEF f
    <3>1. SUFFICES ASSUME NEW j \in 1..(m - f) PROVE SubSeq(buffer, f + 1, m)[j] = buffer[f + j]
      OBVIOUS
    <3>2. f + 1 + j - 1 = f + j
      BY <1>1
    <3> QED BY <1>1, <2>2, <3>2
  <2> QED BY <1>2, <2>1, <2>3
<1> QED BY <1>2, <1>8, <1>9, <1>10

LEMMA TailStep ==
  ASSUME TypeInv, TraceInv, PrintPage
  PROVE  ListingIsTail'
<1>1. SUFFICES ASSUME page = 0, pages = 0, calm
               PROVE  LET len == Len(listing')
                      IN  /\ listing' = Fetch(ring[cpu], FirstLine(pointer[cpu], 0, len), len)
                          /\ len > 0 => Begins(listing'[1])
                          /\ Cardinality({i \in 1..len : Begins(listing'[i])}) \in {cmd.n - 1, cmd.n}
  <2>1. /\ UNCHANGED <<ring, pointer, cpu, cmd, pages, calm>>
        /\ pc' = "idle" => page = 0
    BY DEF PrintPage, target
  <2> QED BY <2>1 DEF ListingIsTail
<1> DEFINE n == PageSize - firstLine
<1>2. /\ n \in Nat /\ Len(listing') = n
      /\ listing' = Fetch(ring[cpu], FirstLine(pointer[cpu], 0, n), n)
      /\ \A j \in 1..n : listing'[j] = buffer[firstLine + j]
  BY <1>1, LastPage
<1>3. pc = "print" /\ PageSize \in Nat /\ firstLine \in 0..PageSize /\ cmd.n \in Nat
  BY PageType DEF PrintPage, InstPlaces, TypeInv, Trace
<1>4. n > 0 => Begins(listing'[1])
  <2>1. n > 0 => firstLine < PageSize /\ 1 \in 1..n
    BY <1>2, <1>3
  <2> QED BY <1>1, <1>2, <1>3, <2>1 DEF TraceInv, HitInv
<1>5. PICK part \in {0, 1} : Seen(GarbageLine(part), firstLine) = cmd.n
  BY <1>1, <1>3 DEF TraceInv, HitInv
<1> DEFINE c == Cardinality({j \in 1..n : Begins(buffer[firstLine + j])})
<1>6. c \in Nat /\ cmd.n \in {c, c + 1}
  BY <1>3, <1>5, SeenListed
<1>7. {j \in 1..n : Begins(listing'[j])} = {j \in 1..n : Begins(buffer[firstLine + j])}
  BY <1>2
<1>8. Cardinality({j \in 1..n : Begins(listing'[j])}) \in {cmd.n - 1, cmd.n}
  <2>1. Cardinality({j \in 1..n : Begins(listing'[j])}) = c
    BY <1>7
  <2> HIDE DEF c
  <2> QED BY <1>3, <1>6, <2>1
<1> HIDE DEF n
<1> QED BY <1>2, <1>4, <1>8

(* At the prompt nothing is listed any more. *)
LEMMA IdleStep ==
  ASSUME TypeInv, [Next]_vars, pc' = "idle", cmd'.name = "inst", calm', ~ PrintPage
  PROVE  /\ pc = "idle" /\ calm
         /\ UNCHANGED <<ring, pointer, cpu, cmd, pages, page, listing, moves>>
<1>1. CASE Execute \/ MoveWindow
  BY <1>1 DEF Execute, MoveWindow, Executes
<1>2. CASE cli_reg \/ cli_inst
  BY <1>2 DEF cli_reg, cli_inst, Command
<1>3. CASE ReadPsr \/ SetWord \/ GetWord \/ register_print_summary
  <2>1. pc \in RegPlaces /\ cmd' = cmd
    BY <1>3 DEF ReadPsr, SetWord, GetWord, register_print_summary, RegPlaces
  <2>2. cmd.name = "reg"
    BY <2>1 DEF TypeInv, Console, RegCmds
  <2> QED BY <2>1, <2>2
<1>4. CASE ReadPointer \/ ReadLines \/ ReadRest \/ CountPage
  <2>1. pc' \in {"lines", "rest", "count", "print", "pointer"}
    <3>1. pc \in {"lines", "rest"} => phase \in {"count", "print"}
      BY DEF TypeInv, Trace
    <3> QED BY <1>4, <3>1 DEF ReadPointer, ReadLines, ReadRest, CountPage
  <2> QED BY <2>1
<1>5. CASE UNCHANGED vars
  BY <1>5 DEF vars, target, instVars, bounds
<1> QED BY <1>1, <1>2, <1>3, <1>4, <1>5 DEF Next, Host

(* What inst lists of a page and no more is the end of the trace of the    *)
(* active core, from the beginning of an instruction, and as many          *)
(* instructions as were asked for or one less: for any size of the buffer, *)
(* place of the pointer and number of instructions.                        *)
THEOREM ListsTail == Spec => []ListingIsTail
<1>1. Init => TraceInv /\ ListingIsTail
  BY TraceInit DEF Init, ListingIsTail
<1>2. TypeInv /\ TraceInv /\ [Next]_vars => TraceInv'
  BY TraceNext
<1>3. TypeInv /\ TraceInv /\ ListingIsTail /\ [Next]_vars => ListingIsTail'
  <2> SUFFICES ASSUME TypeInv, TraceInv, ListingIsTail, [Next]_vars PROVE ListingIsTail'
    OBVIOUS
  <2>1. CASE PrintPage
    BY <2>1, TailStep
  <2>2. CASE ~ PrintPage
    <3>1. SUFFICES ASSUME pc' = "idle", cmd'.name = "inst", calm' PROVE ListingIsTail'
      BY DEF ListingIsTail
    <3>2. pc = "idle" /\ calm /\ UNCHANGED <<ring, pointer, cpu, cmd, pages, page, listing, moves>>
      BY <2>2, <3>1, IdleStep
    <3> QED BY <3>2 DEF ListingIsTail, PageSize
  <2> QED BY <2>1, <2>2
<1> QED BY <1>1, <1>2, <1>3, TypeHolds, PTL DEF Spec

-----------------------------------------------------------------------------
(* The rings hold the lines in the order of execution, the oldest at the   *)
(* pointer; so does the listing, which ends where the next page to print   *)
(* begins.                                                                 *)

Place(c, i) == At(ring[c], pointer[c] + i)

RingInv ==
  \A c \in {0, 1} :
    /\ \A i, j \in 0..(Lines - 1) : i < j => Before(Place(c, i), Place(c, j))
    /\ \A a \in 0..(Lines - 1) : ring[c][a].id < moves

ToPrint == IF pc = "idle" THEN 0 ELSE page + 1
Ordered(s) == \A i \in 1..(Len(s) - 1) : Before(s[i], s[i + 1])

OrderInv ==
  cmd.name = "inst" /\ calm /\ cpu = 0 /\ PageSize * (pages + 1) <= Lines =>
    /\ listing \in Seq(RingLine) /\ Ordered(listing)
    /\ listing # <<>> => firstLine < PageSize
    /\ listing # <<>> => Last(listing) = At(ring[0], pointer[0] - PageSize * ToPrint - 1)

(* The place of a sum is known from the places of its parts. *)
LEMMA ModIn ==
  ASSUME NEW m \in Nat \ {0}, NEW x \in 0..(m - 1), NEW q \in Int, NEW y \in Int, y = x + m * q
  PROVE  y % m = x
<1>1. y = m * q + x
  <2>1. m * q \in Int
    OBVIOUS
  <2> QED BY <2>1
<1> QED BY ONLY <1>1, m \in Nat \ {0}, q \in Int, x \in 0..(m - 1), y \in Int, ModUnique

LEMMA RingInit == Init => RingInv
<1> SUFFICES ASSUME Init, NEW c \in {0, 1}
             PROVE  /\ \A i, j \in 0..(Lines - 1) : i < j => Before(Place(c, i), Place(c, j))
                    /\ \A a \in 0..(Lines - 1) : ring[c][a].id < moves
  BY DEF RingInv
<1>1. Lines \in Nat \ {0} /\ moves = 0
  BY LinesAssumption DEF Init
<1>2. PICK p \in Pointers : pointer[c] = p /\ ring[c] = OldRing(c, p)
  BY DEF Init
<1>3. p \in 0..(Lines - 1) /\ p \in Int
  BY InputsAssumption
<1>4. ASSUME NEW a \in 0..(Lines - 1)
      PROVE  ring[c][a].id = ((a - p) % Lines) - Lines
  <2> DEFINE v == ((a - p) % Lines) - Lines
  <2>1. ring[c][a] = [core |-> c, id |-> v, part |-> 0]
    BY <1>2 DEF OldRing
  <2> HIDE DEF v
  <2>2. ring[c][a].id = v
    BY <2>1
  <2> QED BY <2>2 DEF v
<1>5. ASSUME NEW a \in 0..(Lines - 1) PROVE ring[c][a].id < moves
  <2> DEFINE y == (a - p) % Lines
  <2>1. a - p \in Int
    BY <1>3
  <2>2. y \in 0..(Lines - 1)
    BY <1>1, <2>1, ModRange
  <2> HIDE DEF y
  <2>3. ring[c][a].id = y - Lines
    BY <1>4 DEF y
  <2> QED BY <1>1, <2>2, <2>3
<1>6. ASSUME NEW i \in 0..(Lines - 1) PROVE Place(c, i).id = i - Lines
  <2> DEFINE x == p + i
             a == x % Lines
             q == x \div Lines
  <2>1. x \in Int /\ x = p + i
    BY <1>3
  <2> HIDE DEF x
  <2>2. a \in 0..(Lines - 1) /\ q \in Int /\ x = Lines * q + a
    BY <1>1, <2>1, ModDiv
  <2> HIDE DEF a, q
  <2>3. a - p = i + Lines * (- q) /\ - q \in Int /\ a - p \in Int
    <3>1. Lines * (- q) = - (Lines * q) /\ Lines * q \in Int
      BY <1>1, <2>2
    <3> QED BY <1>3, <2>1, <2>2, <3>1
  <2>4. (a - p) % Lines = i
    <3> DEFINE y == a - p
               z == - q
    <3>1. y = i + Lines * z /\ z \in Int /\ y \in Int
      BY <2>3
    <3> HIDE DEF y, z
    <3>2. y % Lines = i
      BY <1>1, <3>1, ModIn
    <3> QED BY <3>2 DEF y
  <2>5. Place(c, i) = ring[c][a]
    BY <1>2 DEF Place, At, x, a
  <2>6. ring[c][a].id = ((a - p) % Lines) - Lines
    BY <1>4, <2>2
  <2> QED BY <2>4, <2>5, <2>6
<1>7. ASSUME NEW i \in 0..(Lines - 1), NEW j \in 0..(Lines - 1), i < j
      PROVE  Before(Place(c, i), Place(c, j))
  <2>1. Place(c, i).id = i - Lines /\ Place(c, j).id = j - Lines
    BY <1>6
  <2>2. i - Lines < j - Lines
    BY <1>1, <1>7
  <2> QED BY <2>1, <2>2 DEF Before
<1> QED BY <1>5, <1>7

(* What is recorded takes the place of the oldest lines, and is newest. *)
LEMMA RecordPlaces ==
  ASSUME NEW r \in [0..(Lines - 1) -> RingLine], NEW p \in 0..(Lines - 1), NEW c, NEW id,
         NEW size \in 1..Lines, NEW i \in 0..(Lines - 1),
         NEW new, new = At(Record(r, p, c, id, size), ((p + size) % Lines) + i)
  PROVE  /\ size + i < Lines => new = At(r, p + (size + i))
         /\ size + i >= Lines => new = [core |-> c, id |-> id, part |-> (size + i) - Lines]
<1> DEFINE x == p + size
           b == x % Lines
           q == x \div Lines
           y == b + i
           a == y % Lines
           s == y \div Lines
<1>1. Lines \in Nat \ {0} /\ x \in Int /\ x = p + size
  BY LinesAssumption
<1> HIDE DEF x
<1>2. b \in 0..(Lines - 1) /\ q \in Int /\ x = Lines * q + b
  BY <1>1, ModDiv
<1> HIDE DEF b, q
<1>3. y \in Int /\ y = b + i
  BY <1>1, <1>2
<1> HIDE DEF y
<1>4. a \in 0..(Lines - 1) /\ s \in Int /\ y = Lines * s + a
  BY <1>1, <1>3, ModDiv
<1> HIDE DEF a, s
<1> DEFINE z == size + i
           t == q + s
<1>5. z \in Nat /\ t \in Int /\ p + z = a + Lines * t
  <2>1. Lines * t = Lines * q + Lines * s /\ Lines * q \in Int /\ Lines * s \in Int
    BY <1>1, <1>2, <1>4
  <2> QED BY <1>1, <1>2, <1>3, <1>4, <2>1
<1> HIDE DEF t
<1>6. (p + z) % Lines = a
  <2> DEFINE u == p + z
  <2>1. u \in Int /\ u = a + Lines * t
    BY <1>5
  <2> HIDE DEF u, z
  <2>2. u % Lines = a
    BY <1>1, <1>4, <1>5, <2>1, ModIn
  <2> QED BY <2>2 DEF u
<1>7. a - p \in Int /\ a - p = z + Lines * (- t) /\ - t \in Int
  <2>1. Lines * (- t) = - (Lines * t) /\ Lines * t \in Int
    BY <1>1, <1>5
  <2> HIDE DEF z
  <2> QED BY <1>1, <1>4, <1>5, <2>1
<1> DEFINE d == (a - p) % Lines
<1>8. new = IF d < size THEN [core |-> c, id |-> id, part |-> d] ELSE r[a]
  <2>1. ((p + size) % Lines) + i = y /\ y % Lines = a
    BY <1>3 DEF x, b, a
  <2>2. new = Record(r, p, c, id, size)[a]
    BY <2>1 DEF At
  <2> QED BY <1>4, <2>2 DEF Record
<1>9. ASSUME z < Lines PROVE new = At(r, p + z)
  <2>1. d = z
    <3> DEFINE v == a - p
               w == - t
    <3>1. v \in Int /\ v = z + Lines * w /\ w \in Int /\ z \in 0..(Lines - 1)
      BY <1>1, <1>5, <1>7, <1>9
    <3> HIDE DEF v, w, z
    <3>2. v % Lines = z
      BY <1>1, <3>1, ModIn
    <3> QED BY <3>2 DEF v
  <2>2. ~ (d < size)
    BY <2>1
  <2>3. r[a] = At(r, p + z)
    BY <1>6 DEF At
  <2> HIDE DEF d
  <2> QED BY <1>8, <2>2, <2>3
<1>10. ASSUME z >= Lines PROVE new = [core |-> c, id |-> id, part |-> z - Lines]
  <2>1. d = z - Lines
    <3> DEFINE v == a - p
               w == 1 - t
               g == z - Lines
    <3>1. Lines * w = Lines - Lines * t /\ Lines * (- t) = - (Lines * t) /\ Lines * t \in Int
      BY <1>1, <1>5
    <3>2. v \in Int /\ v = g + Lines * w /\ w \in Int /\ g \in 0..(Lines - 1)
      <4>1. w \in Int /\ g \in 0..(Lines - 1)
        BY <1>1, <1>5, <1>10
      <4> HIDE DEF w, z
      <4> QED BY <1>1, <1>5, <1>7, <3>1, <4>1
    <3> HIDE DEF v, w, g
    <3>3. v % Lines = g
      BY <1>1, <3>2, ModIn
    <3> QED BY <3>3 DEF v, g
  <2>2. d < size
    BY <1>1, <2>1
  <2> HIDE DEF d
  <2> QED BY <1>8, <2>1, <2>2
<1>11. /\ z < Lines => new = At(r, p + z)
       /\ z >= Lines => new = [core |-> c, id |-> id, part |-> z - Lines]
  <2> HIDE DEF z, d
  <2> QED BY <1>9, <1>10
<1>12. size + i < Lines => new = At(r, p + (size + i))
  BY ONLY <1>11, Zenon
<1>13. size + i >= Lines => new = [core |-> c, id |-> id, part |-> (size + i) - Lines]
  BY ONLY <1>11, Zenon
<1> QED BY ONLY <1>12, <1>13

LEMMA RingNext == TypeInv /\ RingInv /\ [Next]_vars => RingInv'
<1> SUFFICES ASSUME TypeInv, RingInv, [Next]_vars PROVE RingInv'
  OBVIOUS
<1>1. CASE UNCHANGED <<ring, pointer, moves>>
  BY <1>1 DEF RingInv, Place
<1>2. ASSUME NEW size \in 1..Lines, Executes(size)
      PROVE  RingInv'
  <2>1. /\ ring' = [ring EXCEPT ![cpu] = Record(ring[cpu], pointer[cpu], cpu, moves, size)]
        /\ pointer' = [pointer EXCEPT ![cpu] = (pointer[cpu] + size) % Lines]
        /\ moves' = moves + 1 /\ moves \in Nat
    BY <1>2 DEF Executes, TypeInv, Machine
  <2>2. /\ ring \in [{0, 1} -> [0..(Lines - 1) -> RingLine]]
        /\ pointer \in [{0, 1} -> 0..(Lines - 1)] /\ cpu \in {0, 1} /\ Lines \in Nat \ {0}
    BY LinesAssumption DEF TypeInv, Machine
  <2>3. SUFFICES ASSUME NEW c \in {0, 1}
                 PROVE  /\ \A i, j \in 0..(Lines - 1) : i < j => Before(Place(c, i)', Place(c, j)')
                        /\ \A a \in 0..(Lines - 1) : ring'[c][a].id < moves'
    BY DEF RingInv
  <2>4. /\ \A i, j \in 0..(Lines - 1) : i < j => Before(Place(c, i), Place(c, j))
        /\ \A a \in 0..(Lines - 1) : ring[c][a].id < moves /\ ring[c][a].id \in Int
    BY <2>2 DEF RingInv, RingLine
  <2>5. CASE c # cpu
    <3>1. ring'[c] = ring[c] /\ pointer'[c] = pointer[c]
      BY <2>1, <2>2, <2>5
    <3>2. \A i : Place(c, i)' = Place(c, i)
      BY <3>1 DEF Place
    <3>3. \A a \in 0..(Lines - 1) : ring'[c][a].id < moves'
      BY <2>1, <2>4, <3>1
    <3> QED BY <2>4, <3>2, <3>3
  <2>6. CASE c = cpu
    <3> DEFINE p == pointer[c]
               r == ring[c]
               new(part) == [core |-> c, id |-> moves, part |-> part]
    <3>1. /\ ring'[c] = Record(r, p, c, moves, size) /\ pointer'[c] = (p + size) % Lines
          /\ r \in [0..(Lines - 1) -> RingLine] /\ p \in 0..(Lines - 1)
      BY <2>1, <2>2, <2>6
    <3>2. ASSUME NEW i \in 0..(Lines - 1)
          PROVE  /\ size + i < Lines => Place(c, i)' = Place(c, size + i)
                 /\ size + i >= Lines => Place(c, i)' = new((size + i) - Lines)
      <4>1. Place(c, i)' = At(Record(r, p, c, moves, size), ((p + size) % Lines) + i)
        BY <3>1 DEF Place
      <4>2. Place(c, size + i) = At(r, p + (size + i))
        BY DEF Place
      <4> HIDE DEF p, r
      <4> QED BY <3>1, <4>1, <4>2, RecordPlaces
    <3>3. ASSUME NEW a \in 0..(Lines - 1) PROVE ring'[c][a].id < moves'
      <4> DEFINE d == (a - p) % Lines
      <4>1. ring'[c][a] = IF d < size THEN new(d) ELSE r[a]
        BY <3>1 DEF Record
      <4> HIDE DEF d
      <4>2. ring'[c][a].id \in {moves, r[a].id}
        BY <4>1
      <4> QED BY <2>1, <2>4, <4>2
    <3>4. \A i \in 0..(Lines - 1) : Place(c, i).id < moves /\ Place(c, i).id \in Int
      <4>1. ASSUME NEW i \in 0..(Lines - 1) PROVE (p + i) % Lines \in 0..(Lines - 1)
        <5>1. p + i \in Int
          BY <2>2
        <5> QED BY <2>2, <5>1, ModRange
      <4> QED BY <2>4, <4>1 DEF Place, At
    <3>5. ASSUME NEW i \in 0..(Lines - 1), NEW j \in 0..(Lines - 1), i < j
          PROVE  Before(Place(c, i)', Place(c, j)')
      <4> HIDE DEF p, r
      <4>1. CASE size + j < Lines
        <5>1. /\ size + i < Lines /\ size + i \in 0..(Lines - 1) /\ size + j \in 0..(Lines - 1)
              /\ size + i < size + j
          BY <2>2, <3>5, <4>1
        <5>2. Place(c, i)' = Place(c, size + i) /\ Place(c, j)' = Place(c, size + j)
          BY <3>2, <4>1, <5>1
        <5> QED BY <2>4, <5>1, <5>2
      <4>2. CASE size + j >= Lines /\ size + i < Lines
        <5>1. Place(c, i)' = Place(c, size + i) /\ Place(c, j)' = new((size + j) - Lines)
          BY <3>2, <4>2
        <5>2. size + i \in 0..(Lines - 1)
          BY <2>2, <4>2
        <5>3. Place(c, i)'.id < Place(c, j)'.id
          BY <3>4, <5>1, <5>2
        <5> QED BY <5>3 DEF Before
      <4>3. CASE size + i >= Lines
        <5>1. size + j >= Lines /\ (size + i) - Lines < (size + j) - Lines
          BY <2>2, <3>5, <4>3
        <5>2. Place(c, i)' = new((size + i) - Lines) /\ Place(c, j)' = new((size + j) - Lines)
          BY <3>2, <4>3, <5>1
        <5> QED BY <5>1, <5>2 DEF Before
      <4>4. (size + j < Lines) \/ (size + j >= Lines)
        BY <2>2
      <4>5. (size + i < Lines) \/ (size + i >= Lines)
        BY <2>2
      <4> QED BY <4>1, <4>2, <4>3, <4>4, <4>5
    <3> QED BY <3>3, <3>5
  <2> QED BY <2>5, <2>6
<1>3. CASE Execute \/ MoveWindow
  <2>1. \E size \in 1..Lines : Executes(size)
    <3>1. 1 \in 1..Lines /\ Sizes \subseteq 1..Lines
      BY LinesAssumption, InputsAssumption
    <3> QED BY <1>3, <3>1 DEF Execute, MoveWindow
  <2> QED BY <1>2, <2>1
<1>4. CASE ~ (Execute \/ MoveWindow)
  <2>1. UNCHANGED <<ring, pointer, moves>>
    BY <1>4 DEF Next, Host, cli_reg, cli_inst, Command, ReadPsr, SetWord, GetWord,
       register_print_summary, ReadPointer, ReadLines, ReadRest, CountPage, PrintPage,
       vars, target, bounds
  <2> QED BY <1>1, <2>1
<1> QED BY <1>3, <1>4

(* Of two lines, the one more places behind the pointer is the earlier. *)
LEMMA Behind ==
  ASSUME TypeInv, RingInv, NEW m \in 1..Lines, NEW n \in 1..Lines, n < m
  PROVE  Before(At(ring[0], pointer[0] - m), At(ring[0], pointer[0] - n))
<1> DEFINE p == pointer[0]
<1>1. p \in Int /\ Lines \in Nat \ {0}
  BY LinesAssumption DEF TypeInv, Machine
<1> HIDE DEF p
<1>2. ASSUME NEW o \in 1..Lines
      PROVE  Lines - o \in 0..(Lines - 1) /\ At(ring[0], p - o) = Place(0, Lines - o)
  <2> DEFINE x == p - o
             y == p + (Lines - o)
  <2>1. x \in Int /\ y \in Int /\ y = x + Lines * 1 /\ 1 \in Int
    BY <1>1
  <2> HIDE DEF x, y
  <2>2. y % Lines = x % Lines
    BY ONLY <1>1, <2>1, ModShift
  <2>3. Lines - o \in 0..(Lines - 1)
    BY <1>1
  <2> QED BY <2>2, <2>3 DEF At, Place, x, y, p
<1>3. Lines - m < Lines - n
  BY <1>1
<1>4. Before(Place(0, Lines - m), Place(0, Lines - n))
  BY <1>2, <1>3 DEF RingInv
<1> QED BY <1>2, <1>4 DEF p

(* A page is printed behind what is already listed: the older pages. *)
LEMMA PrintPageOrder ==
  ASSUME TypeInv, TraceInv, RingInv, OrderInv, PrintPage
  PROVE  OrderInv'
<1> DEFINE r == ring[0]
           p == pointer[0]
           m == PageSize
           f == firstLine
           n == m - f
           s == page * m
           add == SubSeq(buffer, f + 1, m)
           off(j) == s + n - j + 1
<1>1. /\ pc = "print" /\ listing' = listing \o add /\ cmd \in InstCmds
      /\ UNCHANGED <<ring, pointer, cpu, cmd, pages, calm, firstLine>>
      /\ pages \in Nat /\ page \in 0..pages
      /\ IF page = 0 THEN pc' = "idle" ELSE page' = page - 1 /\ pc' = "pointer"
  <2>1. /\ pc = "print" /\ listing' = listing \o add
        /\ UNCHANGED <<ring, pointer, cpu, cmd, pages, calm, firstLine>>
        /\ IF page = 0 THEN pc' = "idle" ELSE page' = page - 1 /\ pc' = "pointer"
    BY DEF PrintPage, target
  <2>2. cmd \in InstCmds /\ pages \in Nat /\ page \in 0..pages
    BY <2>1 DEF TypeInv, Console, Trace, InstPlaces
  <2> HIDE DEF add
  <2> QED BY <2>1, <2>2
<1>2. SUFFICES ASSUME calm, cpu = 0, m * (pages + 1) <= Lines
               PROVE  /\ listing' \in Seq(RingLine) /\ Ordered(listing')
                      /\ listing' # <<>> => f < m
                      /\ listing' # <<>> =>
                           Last(listing') = At(r, p - m * ToPrint' - 1)
  BY <1>1 DEF OrderInv, PageSize
<1>3. /\ m \in Nat \ {0} /\ f \in 0..m /\ n \in 0..m /\ s \in Nat /\ m * page = s
      /\ r \in [0..(Lines - 1) -> RingLine] /\ p \in Int /\ Lines \in Nat \ {0}
  <2>1. m \in Nat \ {0} /\ f \in 0..m
    BY <1>1, PageType DEF InstPlaces, TypeInv, Trace
  <2>2. r \in [0..(Lines - 1) -> RingLine] /\ p \in Int /\ Lines \in Nat \ {0}
    BY LinesAssumption, SMTT(30) DEF TypeInv, Machine
  <2>3. s \in Nat /\ m * page = s
    <3> HIDE DEF m
    <3> QED BY <1>1, <2>1
  <2>4. n \in 0..m
    <3> HIDE DEF m, f
    <3> QED BY <2>1
  <2> HIDE DEF m, f, n, s, r, p
  <2> QED BY <2>1, <2>2, <2>3, <2>4
<1>4. s + m <= Lines
  <2>1. m * (page + 1) = m * page + m /\ m * (pages + 1) = m * pages + m
    BY <1>1, <1>3
  <2>2. m * page <= m * pages /\ m * pages \in Nat /\ m * page \in Nat
    BY <1>1, <1>3
  <2> HIDE DEF m, s
  <2> QED BY <1>2, <1>3, <2>1, <2>2
<1>5. /\ listing \in Seq(RingLine) /\ Ordered(listing) /\ (listing # <<>> => f < m)
      /\ listing # <<>> => Last(listing) = At(r, p - (s + m) - 1)
  <2>1. ToPrint = page + 1 /\ m * (page + 1) = s + m
    BY <1>1, <1>3 DEF ToPrint
  <2> QED BY <1>1, <1>2, <2>1 DEF OrderInv, InstCmds
<1>6. m * ToPrint' = s
  <2>1. ToPrint' = page
    BY <1>1 DEF ToPrint
  <2> QED BY <1>3, <2>1
<1> HIDE DEF m, s
<1>7. /\ add \in Seq(RingLine) /\ Len(add) = n
      /\ \A j \in 1..n : add[j] = At(r, p - off(j))
  <2>1. buffer = Fetch(r, PageFirst, m) /\ PageFirst = FirstLine(p, s, m)
    <3>1. Source = 0
      BY <1>2 DEF Source
    <3> QED BY <1>1, <1>2, <3>1 DEF TraceInv, BufferInv, PageFirst, m, s
  <2>2. PageFirst \in Int /\ PageFirst % Lines = (p - s - m) % Lines
    <3>1. s \in Int /\ m \in Int
      BY <1>3
    <3>2. Space \in Nat
      BY LinesAssumption DEF Space
    <3>3. /\ FirstLine(p, s, m) \in 0..(Space - 1)
          /\ FirstLine(p, s, m) % Lines = (p - s - m) % Lines
      <4> HIDE DEF p
      <4> QED BY <1>3, <3>1, FirstLineIs
    <3>4. PageFirst \in 0..(Space - 1)
      BY <2>1, <3>3
    <3> QED BY <2>1, <3>2, <3>3, <3>4
  <2> DEFINE y == PageFirst
  <2> HIDE DEF y
  <2>3. add = Fetch(r, y + f, m - f)
    <3>1. m \in Nat /\ y \in Int
      BY <1>3, <2>2 DEF y
    <3> HIDE DEF f, r
    <3> QED BY <1>3, <2>1, <3>1, FetchRest DEF y
  <2>4. y + f \in Int /\ n \in Nat
    BY <1>3, <2>2 DEF y
  <2>5. /\ add \in Seq(RingLine) /\ Len(add) = n
        /\ \A j \in 1..n : add[j] = At(r, (y + f) + j - 1)
    <3> HIDE DEF r, f, add
    <3> QED BY <1>3, <2>3, <2>4, FetchIs DEF n
  <2>6. ASSUME NEW j \in 1..n PROVE At(r, (y + f) + j - 1) = At(r, p - off(j))
    <3> DEFINE g == p - s - m
               c == f + j - 1
    <3>1. g \in Int /\ c \in Int /\ y \in Int /\ Lines \in Nat \ {0}
      BY <1>3, <2>2, <2>4, <2>6 DEF y
    <3>2. y % Lines = g % Lines
      BY <2>2 DEF y
    <3>3. (y + f) + j - 1 = y + c
      BY <1>3, <2>4, <2>6, <3>1
    <3>4. p - off(j) = g + c
      BY <1>3, <2>4, <2>6
    <3> HIDE DEF g, c
    <3>5. (y + c) % Lines = (g + c) % Lines
      BY <3>1, <3>2, ModSame
    <3> HIDE DEF y, off
    <3> QED BY <3>3, <3>4, <3>5 DEF At
  <2> QED BY <2>5, <2>6
<1> DEFINE l == Len(listing)
<1>8. listing # <<>> => s + m + 1 <= Lines
  <2>1. SUFFICES ASSUME listing # <<>> PROVE s + m + 1 <= Lines
    OBVIOUS
  <2>2. page # pages
    BY <1>1, <2>1 DEF TraceInv, PagesInv, InstPlaces
  <2>3. page + 1 <= pages /\ page \in Nat
    BY <1>1, <2>2
  <2>4. m * (page + 1) = m * page + m /\ m * (pages + 1) = m * pages + m
    BY <1>1, <1>3
  <2>5. m * (page + 1) <= m * pages /\ m * pages \in Nat /\ m * page \in Nat
    BY <1>1, <1>3, <2>3
  <2> QED BY <1>2, <1>3, <2>4, <2>5
<1>9. /\ listing' \in Seq(RingLine) /\ l \in Nat /\ Len(listing') = l + n /\ n \in Nat
      /\ \A i \in 1..l : listing'[i] = listing[i]
      /\ \A i \in 1..n : listing'[l + i] = add[i]
  <2> HIDE DEF add, n
  <2>1. /\ listing' \in Seq(RingLine) /\ Len(listing') = l + n /\ l \in Nat /\ n \in Nat
    <3>1. n \in Nat
      BY <1>3
    <3> QED
      <4>1. listing \in Seq(RingLine) /\ add \in Seq(RingLine) /\ Len(add) = n
        BY <1>5, <1>7
      <4>2. /\ listing \o add \in Seq(RingLine)
            /\ Len(listing \o add) = Len(listing) + Len(add)
        BY <4>1, Concat, Zenon
      <4>3. Len(listing) \in Nat
        BY <4>1
      <4> QED BY <1>1, <3>1, <4>1, <4>2, <4>3, Zenon
  <2>2. \A i \in 1..l : listing'[i] = listing[i]
    BY <1>1, <1>5, <1>7, ConcatParts, Zenon
  <2>3. ASSUME NEW i \in 1..n PROVE listing'[l + i] = add[i]
    <3> DEFINE j == l + i
    <3>1. j \in (l + 1)..(l + n) /\ j - l = i
      BY <2>1
    <3> HIDE DEF j
    <3>2. listing \in Seq(RingLine) /\ add \in Seq(RingLine) /\ Len(add) = n /\ Len(listing) = l
      BY <1>5, <1>7
    <3> HIDE DEF l
    <3>3. j \in (Len(listing) + 1)..(Len(listing) + Len(add))
      BY <3>1, <3>2
    <3>4. (listing \o add)[j] = add[j - Len(listing)]
      BY <3>2, <3>3, ConcatParts, Zenon
    <3> QED BY <1>1, <3>1, <3>2, <3>4 DEF j
  <2> QED BY <2>1, <2>2, <2>3
<1>10. ASSUME NEW i \in 1..(Len(listing') - 1) PROVE Before(listing'[i], listing'[i + 1])
  <2>1. CASE i < l
    <3>1. i \in 1..(l - 1) /\ i \in 1..l /\ i + 1 \in 1..l
      BY <1>9, <2>1
    <3>2. Before(listing[i], listing[i + 1])
      BY <1>5, <3>1 DEF Ordered
    <3> QED BY <1>9, <3>1, <3>2
  <2>2. CASE i = l
    <3>1. i \in 1..l /\ 1 \in 1..n /\ i + 1 = l + 1 /\ l > 0
      BY <1>9, <2>2
    <3>2. listing # <<>> /\ listing[i] = At(r, p - (s + m) - 1)
      BY <1>5, <2>2, <3>1 DEF Last
    <3>3. listing'[i + 1] = At(r, p - off(1))
      BY <1>7, <1>9, <3>1
    <3>4. /\ s + m + 1 \in 1..Lines /\ off(1) \in 1..Lines /\ off(1) < s + m + 1
          /\ p - (s + m) - 1 = p - (s + m + 1)
      <4> HIDE DEF n, l, f, p, r
      <4> QED BY <1>3, <1>8, <3>1, <3>2
    <3> DEFINE o == s + m + 1
               o1 == off(1)
    <3> HIDE DEF off, o, o1
    <3>5. Before(At(ring[0], pointer[0] - o), At(ring[0], pointer[0] - o1))
      BY <3>4, Behind DEF o, o1
    <3> QED BY <1>9, <3>1, <3>2, <3>3, <3>4, <3>5 DEF o, o1
  <2>3. CASE i > l
    <3> DEFINE j == i - l
    <3>1. j \in 1..n /\ j + 1 \in 1..n /\ l + j = i /\ l + (j + 1) = i + 1
      BY <1>9, <2>3
    <3>2. listing'[i] = At(r, p - off(j)) /\ listing'[i + 1] = At(r, p - off(j + 1))
      BY <1>7, <1>9, <3>1
    <3>3. off(j) \in 1..Lines /\ off(j + 1) \in 1..Lines /\ off(j + 1) < off(j)
      <4> HIDE DEF n, j, l, f, p, r
      <4> QED BY <1>3, <1>4, <3>1
    <3> DEFINE o == off(j)
               o1 == off(j + 1)
    <3> HIDE DEF off, o, o1, j
    <3>4. Before(At(ring[0], pointer[0] - o), At(ring[0], pointer[0] - o1))
      BY <3>3, Behind DEF o, o1
    <3> QED BY <3>2, <3>4 DEF o, o1
  <2> QED BY <1>9, <2>1, <2>2, <2>3
<1>11. listing' # <<>> => Last(listing') = At(r, p - s - 1)
  <2>1. SUFFICES ASSUME listing' # <<>> PROVE Last(listing') = At(r, p - s - 1)
    OBVIOUS
  <2>2. CASE n = 0
    <3>1. listing # <<>>
      BY <1>9, <2>1, <2>2
    <3> QED BY <1>3, <1>5, <2>2, <3>1
  <2>3. CASE n > 0
    <3>1. n \in 1..n /\ p - off(n) = p - s - 1
      <4>1. n \in Nat /\ s \in Nat /\ p \in Int
        BY <1>3, <1>9
      <4> HIDE DEF n, f, p, r, l
      <4> QED BY <2>3, <4>1
    <3>2. listing'[l + n] = add[n] /\ add[n] = At(r, p - off(n))
      BY <1>7, <1>9, <3>1
    <3> QED BY <1>9, <3>1, <3>2 DEF Last
  <2> QED BY <1>9, <2>2, <2>3
<1>12. p - m * ToPrint' - 1 = p - s - 1
  BY <1>6
<1>13. listing' # <<>> => f < m
  <2>1. CASE n = 0
    <3>1. listing' # <<>> => listing # <<>>
      BY <1>9, <2>1
    <3> QED BY <1>5, <3>1
  <2>2. CASE n > 0
    BY <1>3, <2>2
  <2> QED BY <1>9, <2>1, <2>2
<1> HIDE DEF p, f, n, r
<1> QED BY <1>9, <1>10, <1>11, <1>12, <1>13 DEF Ordered

LEMMA EmptyListing == <<>> \in Seq(RingLine) /\ Ordered(<<>>)
BY DEF Ordered

LEMMA OrderNext == TypeInv /\ TraceInv /\ RingInv /\ OrderInv /\ [Next]_vars => OrderInv'
<1> SUFFICES ASSUME TypeInv, TraceInv, RingInv, OrderInv, [Next]_vars PROVE OrderInv'
  OBVIOUS
<1>1. CASE PrintPage
  BY <1>1, PrintPageOrder
<1>2. CASE Execute \/ MoveWindow
  BY <1>2 DEF Execute, MoveWindow, Executes, OrderInv
<1>3. CASE cli_reg \/ cli_inst
  <2>1. listing' = <<>>
    BY <1>3 DEF cli_reg, cli_inst, Command
  <2> QED BY <2>1, EmptyListing DEF OrderInv
<1>4. CASE ReadPsr \/ SetWord \/ GetWord \/ register_print_summary
  <2>1. pc \in RegPlaces /\ cmd' = cmd
    BY <1>4 DEF ReadPsr, SetWord, GetWord, register_print_summary, RegPlaces
  <2>2. cmd.name = "reg"
    BY <2>1 DEF TypeInv, Console, RegCmds
  <2> QED BY <2>1, <2>2 DEF OrderInv
<1>5. CASE ReadPointer \/ ReadLines \/ ReadRest
  <2>1. /\ UNCHANGED <<ring, pointer, cpu, cmd, page, pages, listing, firstLine>>
        /\ pc # "idle" /\ (ReadWorks \/ ReadLate \/ ReadFails)
    BY <1>5 DEF ReadPointer, ReadLines, ReadRest, FetchedOr, target
  <2>2. pc' # "idle"
    <3>1. pc \in {"lines", "rest"} => phase \in {"count", "print"}
      BY DEF TypeInv, Trace
    <3> QED BY <1>5, <3>1 DEF ReadPointer, ReadLines, ReadRest
  <2>3. calm' => calm
    BY <2>1, ReadFlags DEF TypeInv, Console
  <2> QED BY <2>1, <2>2, <2>3 DEF OrderInv, PageSize, ToPrint
<1>6. CASE CountPage
  <2>1. pc = "count" /\ listing' = listing /\ phase = "count"
    BY <1>6 DEF CountPage, TypeInv, Trace
  <2>2. listing' = <<>>
    BY <2>1 DEF TraceInv, PagesInv, InstPlaces
  <2> QED BY <2>2, EmptyListing DEF OrderInv
<1>7. CASE UNCHANGED vars
  BY <1>7 DEF vars, target, instVars, OrderInv, PageSize, ToPrint
<1> QED BY <1>1, <1>2, <1>3, <1>4, <1>5, <1>6, <1>7 DEF Next, Host

(* Going back over any number of pages, inst lists the lines of core 0 in  *)
(* the order of execution, none twice, and ends with the newest: for any   *)
(* size of the buffer, of the instructions and of the number asked for.    *)
THEOREM ListsInOrder == Spec => []ListingInOrder
<1>1. Init => TraceInv /\ RingInv /\ OrderInv
  <2>1. Init => OrderInv
    BY DEF Init, OrderInv
  <2> QED BY <2>1, TraceInit, RingInit
<1>2. TypeInv /\ RingInv /\ [Next]_vars => RingInv'
  BY RingNext
<1>3. TypeInv /\ TraceInv /\ [Next]_vars => TraceInv'
  BY TraceNext
<1>4. TypeInv /\ TraceInv /\ RingInv /\ OrderInv /\ [Next]_vars => OrderInv'
  BY OrderNext
<1>5. TypeInv /\ OrderInv => ListingInOrder
  <2> SUFFICES ASSUME TypeInv, OrderInv,
                      pc = "idle", cmd.name = "inst", calm, cpu = 0, PageSize * (pages + 1) <= Lines
               PROVE  /\ \A i \in 1..(Len(listing) - 1) : Before(listing[i], listing[i + 1])
                      /\ listing # <<>> => Last(listing) = At(ring[0], pointer[0] - 1)
    BY DEF ListingInOrder
  <2>1. ToPrint = 0
    BY DEF ToPrint
  <2>2. /\ Ordered(listing)
        /\ listing # <<>> => Last(listing) = At(ring[0], pointer[0] - PageSize * ToPrint - 1)
    BY DEF OrderInv
  <2>3. pointer[0] - PageSize * ToPrint - 1 = pointer[0] - 1
    <3>1. pointer[0] \in Int
      BY DEF TypeInv, Machine
    <3>2. PageSize \in Int
      <4>1. cmd \in InstCmds
        BY DEF TypeInv, Console, RegCmds, NoCmd
      <4>2. cmd.n \in Nat
        BY <4>1, InputsAssumption DEF InstCmds
      <4> QED BY <4>2 DEF PageSize
    <3>3. PageSize * ToPrint = 0
      BY <2>1, <3>2
    <3> QED BY <3>1, <3>3
  <2> QED BY <2>2, <2>3 DEF Ordered
<1> QED BY <1>1, <1>2, <1>3, <1>4, <1>5, TypeHolds, PTL DEF Spec

=============================================================================
