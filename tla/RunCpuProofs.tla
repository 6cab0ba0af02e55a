---------------------------- MODULE RunCpuProofs ----------------------------
(***************************************************************************)
(* For any number of cores, depth of the UART, programs and commands: run  *)
(* shows what the UART kept for it, once and in order; and of the cores    *)
(* the commands force into debug mode, halt and let go again, none is left *)
(* held, the others are not disturbed, and run reports a trap of its own.  *)
(*                                                                         *)
(* A command is a row of accesses whose effects come one access late, with *)
(* the cores running in between.  The invariant says of the accesses still *)
(* to be made what makes up for the ones that were: a core held by the     *)
(* break mask has the access that frees it ahead of it, a halted one the   *)
(* access that lets it go on; a core that may trap is masked, so that its  *)
(* trap does not stop the others.                                          *)
(***************************************************************************)
EXTENDS RunCpu, SequenceTheorems, TLAPS

-----------------------------------------------------------------------------
(* That run shows what the UART kept for it once and in order: the host is *)
(* the only one to take characters out, so whatever is printed between the *)
(* access that counts and the accesses that fetch, the UART holds at least *)
(* as many as were counted.                                                *)

(* The shape of the target, its cores and masks left opaque. *)
Shape(h) ==
  /\ h = [core |-> h.core, break |-> h.break, noforce |-> h.noforce,
          timers |-> h.timers, uart |-> h.uart]
  /\ h.uart = [debug |-> h.uart.debug, fifo |-> h.uart.fifo]
  /\ h.uart.fifo \in Seq(Int)

UartInv ==
  /\ Shape(hw)
  /\ made \in Int /\ shown \in Seq(Int) /\ kept \in Seq(Int) /\ count \in Int
  /\ pc = "drain" => count > 0 /\ count <= Len(hw.uart.fifo)
  /\ ShownInOrder

-----------------------------------------------------------------------------
(* Only the UART's own register concerns the UART, and none its queue. *)

(* Replacing all the cores keeps the shape and the UART. *)
LEMMA CoresSet ==
  ASSUME NEW h, NEW f, Shape(h)
  PROVE  Shape([h EXCEPT !.core = f]) /\ [h EXCEPT !.core = f].uart = h.uart
  BY SMTT(30) DEF Shape

(* So does replacing one core. *)
LEMMA CoreSet ==
  ASSUME NEW h, NEW c, NEW r, Shape(h)
  PROVE  /\ Shape([h EXCEPT !.core[c] = r])
         /\ [h EXCEPT !.core[c] = r].uart = h.uart
  BY DEF Shape

(* Replacing the UART's queue keeps the shape. *)
LEMMA FifoSet ==
  ASSUME NEW h, NEW s \in Seq(Int), Shape(h)
  PROVE  /\ Shape([h EXCEPT !.uart.fifo = s])
         /\ [h EXCEPT !.uart.fifo = s].uart.fifo = s
<1> DEFINE u == [h.uart EXCEPT !.fifo = s]
<1>1. u = [debug |-> h.uart.debug, fifo |-> s]
  BY DEF Shape
<1>2. [h EXCEPT !.uart.fifo = s] = [h EXCEPT !.uart = u]
  OBVIOUS
<1> HIDE DEF u
<1>3. [h EXCEPT !.uart = u] = [core |-> h.core, break |-> h.break,
         noforce |-> h.noforce, timers |-> h.timers, uart |-> u]
  BY DEF Shape
<1> QED BY <1>1, <1>2, <1>3 DEF Shape

(* Cores that enter debug mode leave the UART alone. *)
LEMMA EnterDebugKeeps ==
  ASSUME NEW h, NEW cs, Shape(h)
  PROVE  /\ Shape(Target!EnterDebug(h, cs))
         /\ Target!EnterDebug(h, cs).uart = h.uart
  BY DEF Shape, Target!EnterDebug

(* So do those another core forces into it. *)
LEMMA ForcedKeeps ==
  ASSUME NEW h, Shape(h)
  PROVE  Shape(Target!Forced(h)) /\ Target!Forced(h).uart = h.uart
  BY EnterDebugKeeps DEF Target!Forced

(* So does a write to a DSU control register. *)
LEMMA CtrlKeeps ==
  ASSUME NEW h, NEW c, NEW bits, Shape(h), NEW g \in Target!WriteCtrl(h, c, bits)
  PROVE  Shape(g) /\ g.uart = h.uart
<1> DEFINE k == [h.core[c] EXCEPT !.flags = bits \cap Target!Flags,
                                  !.halt = "HL" \in bits /\ (@ \/ h.core[c].mode = "debug")]
           ks == IF "PE" \in bits THEN Target!Released(k) ELSE {k}
<1>1. PICK r \in ks : g = Target!Forced([h EXCEPT !.core[c] = r])
  BY DEF Target!WriteCtrl
<1> HIDE DEF k, ks
<1>2. /\ Shape([h EXCEPT !.core[c] = r])
      /\ [h EXCEPT !.core[c] = r].uart = h.uart
  BY DEF Shape
<1> QED BY <1>1, <1>2, ForcedKeeps

(* So does a write to the break mask. *)
LEMMA BreakKeeps ==
  ASSUME NEW h, NEW cs, Shape(h)
  PROVE  /\ Shape(Target!WriteBreak(h, cs))
         /\ Target!WriteBreak(h, cs).uart = h.uart
<1> DEFINE f == [c \in Target!Cores |->
                   IF c \in h.break \ cs /\ h.core[c].mode = "debug"
                     THEN [h.core[c] EXCEPT !.mode = "running"] ELSE h.core[c]]
           g == [h EXCEPT !.break = cs, !.core = f]
<1>1. Target!WriteBreak(h, cs) = Target!Forced(g)
  BY DEF Target!WriteBreak
<1> HIDE DEF f
<1> DEFINE b == [h EXCEPT !.break = cs]
<1>2. Shape(b) /\ b.uart = h.uart
  BY SMTT(30) DEF Shape
<1>3. g = [b EXCEPT !.core = f]
  OBVIOUS
<1> HIDE DEF b, g
<1>4. Shape(g) /\ g.uart = h.uart
  BY <1>2, <1>3, CoresSet
<1> QED BY <1>1, <1>4, ForcedKeeps

(* So does a write to the trap base or the program counter. *)
LEMMA CoreKeeps ==
  ASSUME NEW h, NEW c, NEW k, Shape(h)
  PROVE  /\ Shape(Target!WriteCore(h, c, k))
         /\ Target!WriteCore(h, c, k).uart = h.uart
  BY DEF Shape, Target!WriteCore

(* A write, to whichever register, leaves the UART's queue alone. *)
LEMMA WrittenKeeps ==
  ASSUME NEW h, NEW w, Shape(h), NEW g \in Target!Written(h, w)
  PROVE  Shape(g) /\ g.uart.fifo = h.uart.fifo
<1> DEFINE c == w.reg[2]
           reg == w.reg[1]
<1>1. CASE reg = "ctrl"
  <2>1. g \in Target!WriteCtrl(h, c, w.val)
    BY <1>1 DEF Target!Written
  <2> QED BY <2>1, CtrlKeeps
<1>2. CASE reg = "break"
  <2>1. g = Target!WriteBreak(h, w.val)
    BY <1>2 DEF Target!Written
  <2> QED BY <2>1, BreakKeeps
<1>3. CASE reg = "noforce"
  <2>1. g = [h EXCEPT !.noforce = w.val]
    BY <1>3 DEF Target!Written
  <2> QED BY <2>1 DEF Shape
<1>4. CASE reg \in {"tbr", "pc"}
  <2>1. PICK k : g = Target!WriteCore(h, c, k)
    BY <1>4 DEF Target!Written
  <2> QED BY <2>1, CoreKeeps
<1>5. CASE reg = "wake"
  <2>1. PICK f : g = [h EXCEPT !.core = f]
    BY <1>5 DEF Target!Written
  <2> QED BY <2>1 DEF Shape
<1>6. CASE reg = "uart"
  <2>1. g = [h EXCEPT !.uart.debug = "debug" \in w.val]
    BY <1>6 DEF Target!Written
  <2> QED BY <2>1 DEF Shape
<1>7. CASE reg = "timer"
  <2>1. g = [h EXCEPT !.timers = @ \ {c}]
    BY <1>7 DEF Target!Written
  <2> QED BY <2>1 DEF Shape
<1>8. CASE reg \notin {"ctrl", "break", "noforce", "tbr", "pc", "wake", "uart", "timer"}
  <2>1. g = h
    BY <1>8 DEF Target!Written
  <2> QED BY <2>1
<1> QED BY <1>1, <1>2, <1>3, <1>4, <1>5, <1>6, <1>7, <1>8

(* The write that an access hands over keeps the queue. *)
LEMMA HandedOverKeeps ==
  ASSUME Shape(hw), hw' \in HandedOver
  PROVE  Shape(hw)' /\ hw'.uart.fifo = hw.uart.fifo
<1>1. \A g \in Target!Written(hw, parked) : Shape(g) /\ g.uart.fifo = hw.uart.fifo
  BY WrittenKeeps
<1> QED BY <1>1 DEF HandedOver, Shape

-----------------------------------------------------------------------------
(* The steps of the cores *)

LEMMA StopKeeps ==
  ASSUME NEW h, NEW c, NEW t, NEW tb, Shape(h)
  PROVE  /\ Shape(Target!Stop(h, c, t, tb))
         /\ Target!Stop(h, c, t, tb).uart = h.uart
<1> DEFINE g == [h EXCEPT !.core[c].pc = "stray", !.core[c].tt = t, !.core[c].tbrtt = tb]
<1>1. Target!Stop(h, c, t, tb) =
        IF "BE" \in h.core[c].flags THEN Target!EnterDebug(g, {c})
                                   ELSE [g EXCEPT !.core[c].mode = "error"]
  BY DEF Target!Stop
<1>2. Shape(g) /\ g.uart = h.uart
  <2> DEFINE g1 == [h EXCEPT !.core[c].pc = "stray"]
             g2 == [g1 EXCEPT !.core[c].tt = t]
  <2>1. Shape(g1) /\ g1.uart = h.uart
    BY CoreSet
  <2>2. Shape(g2) /\ g2.uart = g1.uart
    <3> HIDE DEF g1
    <3> QED BY <2>1, CoreSet
  <2>3. g = [g2 EXCEPT !.core[c].tbrtt = tb]
    OBVIOUS
  <2> HIDE DEF g1, g2, g
  <2> QED BY <2>1, <2>2, <2>3, CoreSet
<1> HIDE DEF g
<1>3. /\ Shape([g EXCEPT !.core[c].mode = "error"])
      /\ [g EXCEPT !.core[c].mode = "error"].uart = h.uart
  BY <1>2, CoreSet
<1>4. /\ Shape(Target!EnterDebug(g, {c}))
      /\ Target!EnterDebug(g, {c}).uart = h.uart
  BY <1>2, EnterDebugKeeps
<1> QED BY <1>1, <1>3, <1>4

(* Nor does a core that powers down. *)
LEMMA ParkKeeps ==
  ASSUME NEW h, NEW c, Shape(h)
  PROVE  Shape(Target!Park(h, c)) /\ Target!Park(h, c).uart = h.uart
  BY CoreSet DEF Target!Park

(* A character that is sent joins the end of the queue, or is lost to it. *)
LEMMA SendCharKeeps ==
  ASSUME NEW h, NEW c, NEW char \in Int, Shape(h), NEW g \in Target!SendChar(h, c, char)
  PROVE  /\ Shape(g)
         /\ \/ g.uart.fifo = h.uart.fifo
            \/ g.uart.fifo = Append(h.uart.fifo, char)
<1> DEFINE e == [h EXCEPT !.core[c].left = @ - 1]
<1>1. Shape(e) /\ e.uart = h.uart
  BY CoreSet
<1>2. g \in {e, [e EXCEPT !.uart.fifo = Append(@, char)]}
  BY DEF Target!SendChar
<1> HIDE DEF e
<1>3. /\ Shape([e EXCEPT !.uart.fifo = Append(@, char)])
      /\ [e EXCEPT !.uart.fifo = Append(@, char)].uart.fifo = Append(h.uart.fifo, char)
  <2>1. Append(e.uart.fifo, char) \in Seq(Int)
    BY <1>1 DEF Shape
  <2> QED BY <1>1, <2>1, FifoSet
<1> QED BY <1>1, <1>2, <1>3

-----------------------------------------------------------------------------
(* The invariant *)

LEMMA InitUart == Init => UartInv
<1> SUFFICES ASSUME Init PROVE UartInv
  OBVIOUS
<1>1. PICK mode : hw = Target!PowerOn(mode)
  BY DEF Init
<1>2. Shape(hw) /\ hw.uart.fifo = <<>>
  <2>1. PICK f : hw = [core |-> f, break |-> {}, noforce |-> {}, timers |-> {4},
                       uart |-> [debug |-> FALSE, fifo |-> <<>>]]
    BY <1>1 DEF Target!PowerOn
  <2>2. hw.uart.fifo = <<>> /\ hw.core = f
    BY <2>1
  <2>3. hw.uart = [debug |-> FALSE, fifo |-> <<>>] /\ hw.break = {} /\ hw.noforce = {} /\ hw.timers = {4}
    BY <2>1
  <2>4. hw.uart.debug = FALSE
    BY <2>3
  <2>5. <<>> \in Seq(Int)
    OBVIOUS
  <2>6. /\ hw = [core |-> hw.core, break |-> hw.break, noforce |-> hw.noforce,
                 timers |-> hw.timers, uart |-> hw.uart]
        /\ hw.uart = [debug |-> hw.uart.debug, fifo |-> hw.uart.fifo]
    BY <2>1, <2>2, <2>3, <2>4, Zenon
  <2> QED BY <2>2, <2>5, <2>6 DEF Shape
<1> QED BY <1>2 DEF Init, UartInv, ShownInOrder

(* A step that only lets a write take effect, or changes nothing of the    *)
(* UART, keeps the invariant if it does not enter the drain.               *)
LEMMA QuietStep ==
  ASSUME UartInv, Shape(hw)', hw'.uart.fifo = hw.uart.fifo,
         UNCHANGED <<made, shown, kept>>, count' \in Int,
         pc' = "drain" => count' > 0 /\ count' <= Len(hw'.uart.fifo)
  PROVE  UartInv'
  BY DEF UartInv, ShownInOrder

LEMMA Appended ==
  ASSUME NEW s \in Seq(Int), NEW x \in Int, NEW t \in Seq(Int)
  PROVE  Append(s, x) \o t = s \o (<<x>> \o t)
<1>1. <<x>> \in Seq(Int)
  OBVIOUS
<1>2. Append(s, x) = s \o <<x>>
  BY AppendIsConcat
<1>3. (s \o <<x>>) \o t = s \o (<<x>> \o t)
  BY <1>1, ConcatAssociative
<1> QED BY <1>2, <1>3

(* A fetched character goes from the head of the queue to the end of what  *)
(* is shown.                                                               *)
LEMMA Fetched ==
  ASSUME NEW s \in Seq(Int), NEW q \in Seq(Int), q # <<>>
  PROVE  Append(s, Head(q)) \o Tail(q) = s \o q
<1> DEFINE h == <<Head(q)>>
           t == Tail(q)
<1>1. Head(q) \in Int /\ t \in Seq(Int) /\ h \in Seq(Int)
  BY HeadTailProperties
<1>2. q = h \o t
  <2> DEFINE w == h \o t
  <2>1. Len(q) \in Nat \ {0} /\ Len(t) = Len(q) - 1 /\ \A k \in 1..Len(t) : t[k] = q[k + 1]
    BY HeadTailProperties
  <2>2. Len(h) = 1 /\ h[1] = q[1]
    OBVIOUS
  <2> HIDE DEF h, t
  <2>3. /\ w \in Seq(Int) /\ Len(w) = Len(h) + Len(t)
        /\ \A k \in 1..Len(h) + Len(t) : w[k] = IF k <= Len(h) THEN h[k] ELSE t[k - Len(h)]
    BY <1>1
  <2> HIDE DEF w
  <2>4. ASSUME NEW k \in 1..Len(q) PROVE w[k] = q[k]
    <3>1. CASE k = 1
      BY <2>1, <2>2, <2>3, <3>1
    <3>2. CASE k # 1
      <4>1. k - 1 \in 1..Len(t) /\ k \in 1..Len(h) + Len(t) /\ ~(k <= Len(h))
        BY <2>1, <2>2, <3>2
      <4>2. w[k] = t[k - 1]
        BY <2>2, <2>3, <4>1
      <4>3. t[k - 1] = q[(k - 1) + 1]
        BY <2>1, <4>1
      <4>4. (k - 1) + 1 = k
        OBVIOUS
      <4> QED BY <4>2, <4>3, <4>4
    <3> QED BY <3>1, <3>2
  <2>5. Len(w) = Len(q)
    BY <2>1, <2>2, <2>3
  <2>6. w = q
    BY <2>3, <2>4, <2>5, SeqEqual
  <2> QED BY <2>6 DEF w
<1>3. Append(s, Head(q)) \o t = s \o (h \o t)
  BY <1>1, Appended
<1> HIDE DEF h
<1> QED BY <1>2, <1>3

(* A character sent joins the end of what was shown and is held. *)
LEMMA Joined ==
  ASSUME NEW s \in Seq(Int), NEW q \in Seq(Int), NEW x \in Int
  PROVE  Append(s \o q, x) = s \o Append(q, x)
<1>1. <<x>> \in Seq(Int) /\ s \o q \in Seq(Int)
  OBVIOUS
<1>2. Append(s \o q, x) = (s \o q) \o <<x>> /\ Append(q, x) = q \o <<x>>
  BY <1>1, AppendIsConcat
<1>3. (s \o q) \o <<x>> = s \o (q \o <<x>>)
  BY <1>1, ConcatAssociative
<1> QED BY <1>2, <1>3

(* The fetch of one character keeps the invariant. *)
LEMMA DrainStep == UartInv /\ Drain => UartInv'
<1> SUFFICES ASSUME UartInv, Drain PROVE UartInv'
  OBVIOUS
<1> DEFINE q == hw.uart.fifo
<1>1. q \in Seq(Int) /\ q # <<>> /\ count \in Int /\ count > 0 /\ count <= Len(q)
  BY DEF UartInv, Shape, Drain
<1>2. /\ hw' = [hw EXCEPT !.uart.fifo = Tail(q)]
      /\ shown' = Append(shown, Head(q))
      /\ count' = count - 1 /\ made' = made /\ kept' = kept
      /\ pc' = IF count = 1 THEN "poll" ELSE "drain"
  BY <1>1 DEF Drain
<1>3. Shape(hw)' /\ hw'.uart.fifo = Tail(q)
  <2>1. Tail(q) \in Seq(Int)
    BY <1>1
  <2> QED BY <1>2, <2>1 DEF UartInv, Shape
<1>4. kept' = shown' \o hw'.uart.fifo
  <2>1. shown \in Seq(Int) /\ kept = shown \o q
    BY DEF UartInv, ShownInOrder
  <2> QED BY <1>1, <1>2, <1>3, <2>1, Fetched
<1>5. Len(Tail(q)) = Len(q) - 1
  BY <1>1
<1>6. made' \in Int /\ shown' \in Seq(Int) /\ kept' \in Seq(Int) /\ count' \in Int
  <2>1. Head(q) \in Int
    BY <1>1
  <2> QED BY <1>1, <1>2, <2>1 DEF UartInv
<1>7. pc' = "drain" => count' > 0 /\ count' <= Len(hw'.uart.fifo)
  <2> SUFFICES ASSUME pc' = "drain" PROVE count' > 0 /\ count' <= Len(Tail(q))
    BY <1>3
  <2>1. count # 1
    BY <1>2
  <2>2. Len(q) \in Int
    BY <1>1
  <2> HIDE DEF q
  <2> QED BY <1>1, <1>2, <1>5, <2>1, <2>2
<1> QED BY <1>3, <1>4, <1>6, <1>7 DEF UartInv, ShownInOrder

(* A core that sends keeps the invariant. *)
LEMMA SendStep == UartInv /\ CoreSends => UartInv'
<1> SUFFICES ASSUME UartInv, CoreSends PROVE UartInv'
  OBVIOUS
<1> DEFINE q == hw.uart.fifo
<1>1. /\ Shape(hw) /\ made \in Int /\ shown \in Seq(Int) /\ kept \in Seq(Int)
      /\ kept = shown \o q /\ q \in Seq(Int) /\ count \in Int
      /\ pc = "drain" => count > 0 /\ count <= Len(q)
  BY DEF UartInv, ShownInOrder, Shape
<1>2. PICK c : hw' \in Target!SendChar(hw, c, made + 1)
  BY DEF CoreSends
<1>3. /\ made' = made + 1 /\ pc' = pc /\ count' = count /\ shown' = shown
      /\ kept' = IF hw'.uart.fifo = q THEN kept ELSE Append(kept, made')
  BY DEF CoreSends, host
<1>4. /\ Shape(hw)'
      /\ hw'.uart.fifo = q \/ hw'.uart.fifo = Append(q, made + 1)
  <2>1. made + 1 \in Int
    BY <1>1
  <2>2. \A g \in Target!SendChar(hw, c, made + 1) :
          Shape(g) /\ (g.uart.fifo = q \/ g.uart.fifo = Append(q, made + 1))
    BY <1>1, <2>1, SendCharKeeps
  <2> QED BY <1>2, <2>2 DEF Shape
<1>5. CASE hw'.uart.fifo = q
  <2>1. kept' = kept
    BY <1>3, <1>5
  <2> QED BY <1>1, <1>3, <1>4, <1>5, <2>1 DEF UartInv, ShownInOrder
<1>6. CASE hw'.uart.fifo # q
  <2>1. /\ hw'.uart.fifo = Append(q, made + 1)
        /\ kept' = Append(kept, made + 1)
    BY <1>3, <1>4, <1>6
  <2>2. Append(shown \o q, made + 1) = shown \o Append(q, made + 1)
    <3>1. made + 1 \in Int
      BY <1>1
    <3> HIDE DEF q
    <3> QED BY <1>1, <3>1, Joined
  <2>3. Len(Append(q, made + 1)) = Len(q) + 1 /\ Len(q) \in Int
    BY <1>1
  <2>4. kept' = shown' \o hw'.uart.fifo
    BY <1>1, <1>3, <2>1, <2>2
  <2>5. pc' = "drain" => count' > 0 /\ count' <= Len(hw'.uart.fifo)
    BY <1>1, <1>3, <2>1, <2>3
  <2>6. made' \in Int /\ shown' \in Seq(Int) /\ kept' \in Seq(Int) /\ count' \in Int
    BY <1>1, <1>3, <2>1
  <2> QED BY <1>4, <2>4, <2>5, <2>6 DEF UartInv, ShownInOrder
<1> QED BY <1>5, <1>6

(* One case per action; the host's accesses hand over a write, the cores'  *)
(* other steps and the commands do not touch the UART.                     *)
LEMMA UartStep == UartInv /\ [Next]_vars => UartInv'
<1> SUFFICES ASSUME UartInv, [Next]_vars PROVE UartInv'
  OBVIOUS
<1>1. Shape(hw) /\ hw.uart.fifo \in Seq(Int) /\ count \in Int
  BY DEF UartInv, Shape
<1>2. CASE ReadRegister
  <2>1. /\ hw' \in HandedOver /\ pc' = "calls" /\ count' = count
        /\ UNCHANGED <<made, shown, kept>>
    BY <1>2 DEF ReadRegister, history
  <2> QED BY <1>1, <2>1, HandedOverKeeps, QuietStep
<1>3. CASE WriteRegister
  <2>1. /\ hw' \in HandedOver /\ pc' = "calls" /\ count' = count
        /\ UNCHANGED <<made, shown, kept>>
    BY <1>3 DEF WriteRegister
  <2> QED BY <1>1, <2>1, HandedOverKeeps, QuietStep
<1>4. CASE CallsDone \/ IdleNextCore
  <2>1. hw' = hw /\ pc' # "drain" /\ count' = count /\ UNCHANGED <<made, shown, kept>>
    BY <1>4 DEF CallsDone, IdleNextCore, history
  <2> QED BY <1>1, <2>1, QuietStep DEF Shape
<1>5. CASE PollUart
  <2>1. /\ hw' \in HandedOver /\ count' = Len(hw'.uart.fifo)
        /\ pc' = IF count' > 0 THEN "drain" ELSE "check"
        /\ UNCHANGED <<made, shown, kept>>
    BY <1>5 DEF PollUart, history
  <2>2. Shape(hw)' /\ hw'.uart.fifo = hw.uart.fifo
    BY <1>1, <2>1, HandedOverKeeps
  <2>3. count' \in Int /\ count' <= Len(hw'.uart.fifo)
    BY <1>1, <2>1, <2>2
  <2> QED BY <2>1, <2>2, <2>3, QuietStep
<1>6. CASE Drain
  BY <1>6, DrainStep
<1>7. CASE CheckDebugMode \/ ReadTrap \/ ReadTbr \/ Open
  <2>1. hw' = hw /\ pc' # "drain" /\ count' = count /\ UNCHANGED <<made, shown, kept>>
    BY <1>7 DEF CheckDebugMode, ReadTrap, ReadTbr, Open, history
  <2> QED BY <1>1, <2>1, QuietStep DEF Shape
<1>8. CASE Probe
  <2>1. /\ hw' \in HandedOver /\ pc' = "calls" /\ count' = count
        /\ UNCHANGED <<made, shown, kept>>
    BY <1>8 DEF Probe, history
  <2> QED BY <1>1, <2>1, HandedOverKeeps, QuietStep
<1>9. CASE User
  <2>1. hw' = hw /\ pc' \in {"calls", "probe"} /\ count' = count
        /\ UNCHANGED <<made, shown, kept>>
    BY <1>9 DEF User, cli_run, Direct, Activate, Command
  <2> QED BY <1>1, <2>1, QuietStep DEF Shape
<1>10. CASE CoreSends
  BY <1>10, SendStep
<1>11. CASE CoreParks \/ \E c \in Cores : CoreStops(c)
  <2>1. /\ pc' = pc /\ count' = count /\ UNCHANGED <<made, shown, kept>>
        /\ \/ \E c : hw' = Target!Park(hw, c)
           \/ \E c, t, tb : hw' = Target!Stop(hw, c, t, tb)
    BY <1>11 DEF CoreParks, CoreStops, host, history
  <2>2. \A c, t, tb : /\ Shape(Target!Stop(hw, c, t, tb))
                      /\ Target!Stop(hw, c, t, tb).uart = hw.uart
    BY <1>1, StopKeeps
  <2>3. \A c : Shape(Target!Park(hw, c)) /\ Target!Park(hw, c).uart = hw.uart
    BY <1>1, ParkKeeps
  <2>4. Shape(hw)' /\ hw'.uart = hw.uart
    BY <2>1, <2>2, <2>3 DEF Shape
  <2> QED BY <1>1, <2>1, <2>4, QuietStep DEF UartInv
<1>12. CASE UNCHANGED vars
  BY <1>12 DEF vars, host, history, UartInv, Shape, ShownInOrder
<1> QED BY <1>2, <1>3, <1>4, <1>5, <1>6, <1>7, <1>8, <1>9, <1>10, <1>11, <1>12
        DEF Next, HostStep, CoreStep

(* What the UART held for the debugger is shown once and in order.         *)
THEOREM ShownCorrect == Spec => []ShownInOrder
<1>1. UartInv => ShownInOrder
  BY DEF UartInv
<1> QED BY <1>1, InitUart, UartStep, PTL DEF Spec

-----------------------------------------------------------------------------
(* Which cores are forced, halted and let go *)

Bits == Target!Flags \cup Target!Status
Modes == {"running", "debug", "error"}
CoreRecord ==
  [mode : Modes, down : BOOLEAN, halt : BOOLEAN, flags : SUBSET Target!Flags,
   pc : {"boot", "ram", "stray"}, tbr : Target!Entries, left : Int,
   tt : Target!Traps, tbrtt : Target!Traps]

CoresOK(h) ==
  /\ h.core \in [Cores -> CoreRecord]
  /\ h.break \subseteq Cores /\ h.noforce \subseteq Cores

-----------------------------------------------------------------------------
(* What a write does to the cores *)

(* A core differs from what it was in its mode only. *)
ModeOnly(j, k) == j \in CoreRecord /\ j.halt = k.halt /\ j.pc = k.pc

(* A new mode changes nothing else. *)
LEMMA ModeSet ==
  ASSUME NEW k \in CoreRecord, NEW m \in Modes
  PROVE  /\ ModeOnly([k EXCEPT !.mode = m], k)
         /\ [k EXCEPT !.mode = m].mode = m
  BY DEF ModeOnly, CoreRecord

(* Cores enter debug mode; if all of them are masked, no other one does. *)
Entered(h, cs, g) ==
  /\ CoresOK(g) /\ g.break = h.break /\ g.noforce = h.noforce
  /\ \A d \in Cores : ModeOnly(g.core[d], h.core[d])
  /\ cs \subseteq h.noforce =>
       \A d \in Cores : g.core[d] = IF d \in cs THEN [h.core[d] EXCEPT !.mode = "debug"]
                                                ELSE h.core[d]

LEMMA EnterDebugCores ==
  ASSUME NEW h, NEW cs, Shape(h), CoresOK(h), NEW g, g = Target!EnterDebug(h, cs)
  PROVE  Entered(h, cs, g)
<1> DEFINE all == IF cs \subseteq h.noforce THEN cs
                  ELSE cs \cup {d \in Cores : Target!Runs(h, d)}
           f == [c \in Cores |-> IF c \in all THEN [h.core[c] EXCEPT !.mode = "debug"]
                                              ELSE h.core[c]]
<1>1. g = [h EXCEPT !.core = f]
  BY DEF Target!EnterDebug, Cores, Target!Cores
<1>2. \A d \in Cores : f[d] = IF d \in all THEN [h.core[d] EXCEPT !.mode = "debug"]
                                           ELSE h.core[d]
  OBVIOUS
<1>3. cs \subseteq h.noforce => all = cs
  OBVIOUS
<1>4. DOMAIN f = Cores /\ f = [c \in Cores |-> f[c]]
  OBVIOUS
<1> HIDE DEF all, f
<1>5. g.core = f /\ g.break = h.break /\ g.noforce = h.noforce
  BY <1>1 DEF Shape
<1>6. \A d \in Cores : h.core[d] \in CoreRecord
  BY DEF CoresOK
<1>7. \A d \in Cores : ModeOnly(f[d], h.core[d])
  <2> TAKE d \in Cores
  <2>1. CASE d \in all
    BY <1>2, <1>6, <2>1, ModeSet DEF Modes
  <2>2. CASE d \notin all
    BY <1>2, <1>6, <2>2 DEF ModeOnly
  <2> QED BY <2>1, <2>2
<1>8. f \in [Cores -> CoreRecord]
  BY <1>4, <1>7 DEF ModeOnly
<1> QED BY <1>2, <1>3, <1>5, <1>7, <1>8 DEF CoresOK, Entered

(* What follows a write: the break mask forces its cores, masked, into     *)
(* debug mode.                                                             *)
AfterForced(h, g) ==
  /\ CoresOK(g) /\ g.break = h.break /\ g.noforce = h.noforce
  /\ \A d \in Cores : ModeOnly(g.core[d], h.core[d])
  /\ h.break \subseteq h.noforce =>
       \A d \in Cores : /\ d \notin h.break => g.core[d] = h.core[d]
                        /\ g.core[d].mode = "debug" => h.core[d].mode = "debug" \/ d \in h.break

LEMMA ForcedCores ==
  ASSUME NEW h, Shape(h), CoresOK(h), NEW g, g = Target!Forced(h)
  PROVE  AfterForced(h, g)
<1> DEFINE cs == {c \in h.break : h.core[c].mode = "running" /\ "BW" \in h.core[c].flags}
<1>1. g = Target!EnterDebug(h, cs) /\ cs \subseteq h.break
  BY DEF Target!Forced
<1> HIDE DEF cs
<1>2. Entered(h, cs, g)
  BY <1>1, EnterDebugCores
<1> QED BY <1>1, <1>2, ModeSet DEF Entered, AfterForced, Modes

(* What a write does, as far as the properties look at it. *)
Effect(h, w, g) ==
  /\ CoresOK(g)
  /\ g.break = IF w.reg[1] = "break" THEN w.val ELSE h.break
  /\ g.noforce = IF w.reg[1] = "noforce" THEN w.val ELSE h.noforce
  /\ \A d \in Cores :
       /\ g.core[d].halt =>
            h.core[d].halt \/ (w.reg[1] = "ctrl" /\ w.reg[2] = d /\ "HL" \in w.val)
       /\ w.reg[1] = "ctrl" /\ w.reg[2] = d /\ "PE" \in w.val => ~g.core[d].halt
       /\ g.core[d].pc = h.core[d].pc
            \/ (w.reg[1] = "pc" /\ w.reg[2] = d /\ g.core[d].pc = w.val)
       /\ g.break \subseteq g.noforce =>
            /\ g.core[d].mode = "debug" => h.core[d].mode = "debug" \/ d \in g.break
            /\ w.reg[1] = "break" /\ w.val = {} /\ d \in h.break => g.core[d].mode # "debug"

(* The registers and values the accesses of leon3_dsu.c write. *)
Quiet == {"uart", "timer", "wake", "other"}
WriteOK(w) ==
  \/ w.reg[1] \in Quiet \cup {"none"}
  \/ w.reg[1] \in {"tbr", "pc"} /\ w.reg[2] \in Cores /\ w.val \in Target!Entries
  \/ /\ w.reg[1] = "ctrl" /\ w.reg[2] \in Cores /\ w.reg = Ctrl(w.reg[2])
     /\ w.val \subseteq Bits
  \/ w.reg[1] \in {"noforce", "break"} /\ w.val \subseteq Cores

(* One core gets a new record, nothing else changes. *)
Replaced(h, c, r, g) ==
  /\ Shape(g) /\ CoresOK(g) /\ g.break = h.break /\ g.noforce = h.noforce
  /\ \A d \in Cores : g.core[d] = IF d = c THEN r ELSE h.core[d]

LEMMA CoreSetCores ==
  ASSUME NEW h, Shape(h), CoresOK(h), NEW c \in Cores, NEW r \in CoreRecord,
         NEW g, g = [h EXCEPT !.core[c] = r]
  PROVE  Replaced(h, c, r, g)
<1>1. Shape(g)
  BY CoreSet
<1>2. g.core = [h.core EXCEPT ![c] = r] /\ g.break = h.break /\ g.noforce = h.noforce
  BY DEF Shape
<1> QED BY <1>1, <1>2 DEF CoresOK, Replaced

(* A core that is let go is no longer halted, and not put in debug mode. *)
LEMMA ReleasedCore ==
  ASSUME NEW k \in CoreRecord, NEW r \in Target!Released(k)
  PROVE  /\ r \in CoreRecord /\ ~r.halt /\ r.pc = k.pc
         /\ r.mode = "debug" => k.mode = "debug"
<1> DEFINE awake == [k EXCEPT !.halt = FALSE]
           going == [awake EXCEPT !.mode = "running"]
<1>1. r \in {awake, going}
  BY DEF Target!Released
<1>2. awake \in CoreRecord /\ ~awake.halt /\ awake.pc = k.pc /\ awake.mode = k.mode
  BY DEF CoreRecord
<1>3. going \in CoreRecord /\ ~going.halt /\ going.pc = k.pc /\ going.mode = "running"
  BY DEF CoreRecord, Modes
<1> QED BY <1>1, <1>2, <1>3

LEMMA CtrlEffect ==
  ASSUME NEW h, Shape(h), CoresOK(h), NEW w, WriteOK(w), w.reg[1] = "ctrl",
         NEW g \in Target!WriteCtrl(h, w.reg[2], w.val)
  PROVE  Effect(h, w, g)
<1> DEFINE c == w.reg[2]
           k == [h.core[c] EXCEPT !.flags = w.val \cap Target!Flags,
                                  !.halt = "HL" \in w.val /\ (@ \/ h.core[c].mode = "debug")]
           ks == IF "PE" \in w.val THEN Target!Released(k) ELSE {k}
<1>1. c \in Cores /\ h.core[c] \in CoreRecord
  BY DEF WriteOK, Quiet, CoresOK
<1>2. /\ k \in CoreRecord /\ k.pc = h.core[c].pc /\ k.mode = h.core[c].mode
      /\ k.halt => "HL" \in w.val
  BY <1>1 DEF CoreRecord
<1>3. PICK r \in ks : g = Target!Forced([h EXCEPT !.core[c] = r])
  BY DEF Target!WriteCtrl
<1>4. /\ r \in CoreRecord /\ r.pc = h.core[c].pc
      /\ r.halt => "HL" \in w.val
      /\ "PE" \in w.val => ~r.halt
      /\ r.mode = "debug" => h.core[c].mode = "debug"
  <2> HIDE DEF k
  <2>1. CASE "PE" \in w.val
    BY <1>2, <2>1, ReleasedCore
  <2>2. CASE "PE" \notin w.val
    BY <1>2, <2>2
  <2> QED BY <2>1, <2>2
<1> HIDE DEF k, ks
<1> DEFINE e == [h EXCEPT !.core[c] = r]
<1>5. Replaced(h, c, r, e)
  <2> HIDE DEF c
  <2> QED BY <1>1, <1>4, CoreSetCores
<1> HIDE DEF e
<1>6. AfterForced(e, g)
  <2>1. g = Target!Forced(e)
    BY <1>3 DEF e
  <2> QED BY <1>5, <2>1, ForcedCores DEF Replaced
<1>7. ASSUME NEW d \in Cores
      PROVE  /\ g.core[d].halt => h.core[d].halt \/ (c = d /\ "HL" \in w.val)
             /\ c = d /\ "PE" \in w.val => ~g.core[d].halt
             /\ g.core[d].pc = h.core[d].pc
             /\ g.break \subseteq g.noforce =>
                  (g.core[d].mode = "debug" => h.core[d].mode = "debug" \/ d \in g.break)
  <2> HIDE DEF c
  <2> QED BY <1>4, <1>5, <1>6 DEF ModeOnly, Replaced, AfterForced
<1> QED BY <1>5, <1>6, <1>7 DEF Effect, Replaced, AfterForced

LEMMA BreakEffect ==
  ASSUME NEW h, Shape(h), CoresOK(h), NEW w, WriteOK(w), w.reg[1] = "break",
         NEW g, g = Target!WriteBreak(h, w.val)
  PROVE  Effect(h, w, g)
<1> DEFINE cs == w.val
           f == [c \in Cores |-> IF c \in h.break \ cs /\ h.core[c].mode = "debug"
                                   THEN [h.core[c] EXCEPT !.mode = "running"] ELSE h.core[c]]
           e == [h EXCEPT !.break = cs, !.core = f]
<1>1. g = Target!Forced(e)
  BY DEF Target!WriteBreak, Cores, Target!Cores
<1>2. cs \subseteq Cores
  BY DEF WriteOK, Quiet
<1>3. \A d \in Cores : f[d] = IF d \in h.break \ cs /\ h.core[d].mode = "debug"
                                THEN [h.core[d] EXCEPT !.mode = "running"] ELSE h.core[d]
  OBVIOUS
<1>4. DOMAIN f = Cores /\ f = [d \in Cores |-> f[d]]
  OBVIOUS
<1> HIDE DEF f
<1>5. \A d \in Cores : /\ ModeOnly(f[d], h.core[d])
                       /\ f[d].mode = "debug" => h.core[d].mode = "debug"
                       /\ f[d].mode = "debug" => d \notin h.break \ cs
  <2> TAKE d \in Cores
  <2>1. h.core[d] \in CoreRecord
    BY DEF CoresOK
  <2>2. CASE d \in h.break \ cs /\ h.core[d].mode = "debug"
    BY <1>3, <2>1, <2>2, ModeSet DEF Modes
  <2>3. CASE ~(d \in h.break \ cs /\ h.core[d].mode = "debug")
    BY <1>3, <2>1, <2>3 DEF ModeOnly
  <2> QED BY <2>2, <2>3
<1>6. Shape(e) /\ e.core = f /\ e.break = cs /\ e.noforce = h.noforce
  <2> DEFINE b == [h EXCEPT !.break = cs]
  <2>1. Shape(b) /\ b.break = cs /\ b.noforce = h.noforce
    <3> HIDE DEF cs
    <3> QED BY DEF Shape
  <2>2. e = [b EXCEPT !.core = f]
    OBVIOUS
  <2> HIDE DEF b, cs, e
  <2>3. Shape(e)
    BY <2>1, <2>2, CoresSet
  <2>4. e.core = f /\ e.break = b.break /\ e.noforce = b.noforce
    BY <2>1, <2>2 DEF Shape
  <2> QED BY <2>1, <2>3, <2>4
<1>7. CoresOK(e)
  BY <1>2, <1>4, <1>5, <1>6 DEF CoresOK, ModeOnly
<1> HIDE DEF e
<1>8. AfterForced(e, g)
  BY <1>1, <1>6, <1>7, ForcedCores
<1>9. ASSUME NEW d \in Cores
      PROVE  /\ g.core[d].halt => h.core[d].halt
             /\ g.core[d].pc = h.core[d].pc
             /\ g.break \subseteq g.noforce =>
                  /\ g.core[d].mode = "debug" => h.core[d].mode = "debug" \/ d \in g.break
                  /\ w.val = {} /\ d \in h.break => g.core[d].mode # "debug"
  BY <1>5, <1>6, <1>8 DEF ModeOnly, AfterForced
<1> QED BY <1>6, <1>8, <1>9 DEF Effect, AfterForced

(* The trap base and the program counter. *)
LEMMA CoreEffect ==
  ASSUME MaxOut \in Nat,
         NEW h, Shape(h), CoresOK(h), NEW w, WriteOK(w), w.reg[1] \in {"tbr", "pc"},
         NEW g \in Target!Written(h, w)
  PROVE  Effect(h, w, g)
<1> DEFINE c == w.reg[2]
           k == IF w.reg[1] = "pc" THEN [h.core[c] EXCEPT !.pc = w.val, !.left = MaxOut]
                ELSE [h.core[c] EXCEPT !.tbr = w.val, !.tbrtt = "bad"]
<1>1. c \in Cores /\ w.val \in Target!Entries
  BY DEF WriteOK, Quiet
<1>2. h.core[c] \in CoreRecord
  BY <1>1 DEF CoresOK
<1>3. g = Target!WriteCore(h, c, k)
  BY DEF Target!Written
<1>4. /\ k \in CoreRecord /\ k.halt = h.core[c].halt /\ k.mode = h.core[c].mode
      /\ k.pc = h.core[c].pc \/ (w.reg[1] = "pc" /\ k.pc = w.val)
  <2> DEFINE r == h.core[c]
             v == w.val
             started == [r EXCEPT !.pc = v, !.left = MaxOut]
             based == [r EXCEPT !.tbr = v, !.tbrtt = "bad"]
  <2>1. k = IF w.reg[1] = "pc" THEN started ELSE based
    OBVIOUS
  <2>2. r \in CoreRecord /\ v \in Target!Entries
    BY <1>1, <1>2
  <2> HIDE DEF r, v
  <2>3. /\ started \in CoreRecord /\ started.halt = r.halt /\ started.mode = r.mode
        /\ started.pc = v
    <3>1. v \in {"boot", "ram", "stray"} /\ MaxOut \in Int
      BY <2>2 DEF Target!Entries
    <3> DEFINE n == MaxOut
    <3> HIDE DEF n
    <3>2. n \in Int /\ started = [r EXCEPT !.pc = v, !.left = n]
      BY <3>1 DEF n
    <3> HIDE DEF started
    <3> QED BY <2>2, <3>1, <3>2 DEF CoreRecord
  <2>4. /\ based \in CoreRecord /\ based.halt = r.halt /\ based.mode = r.mode
        /\ based.pc = r.pc
    BY <2>2 DEF CoreRecord, Target!Traps
  <2> HIDE DEF started, based, k
  <2> QED BY <2>1, <2>3, <2>4 DEF r, v
<1>5. /\ CoresOK(g) /\ g.break = h.break /\ g.noforce = h.noforce
      /\ \A d \in Cores : g.core[d] = h.core[d] \/ (d = c /\ g.core[d] = k)
  <2> HIDE DEF k, c
  <2>1. CASE h.core[c].mode = "debug"
    <3>1. g = [h EXCEPT !.core[c] = k]
      BY <1>3, <2>1 DEF Target!WriteCore
    <3> QED BY <1>1, <1>4, <3>1, CoreSetCores DEF Replaced
  <2>2. CASE h.core[c].mode # "debug"
    BY <1>3, <2>2 DEF Target!WriteCore
  <2> QED BY <2>1, <2>2
<1> HIDE DEF k
<1> QED BY <1>4, <1>5 DEF Effect

(* A write that only wakes cores up. *)
LEMMA WakeEffect ==
  ASSUME NEW h, Shape(h), CoresOK(h), NEW w, w.reg[1] = "wake",
         NEW g \in Target!Written(h, w)
  PROVE  Effect(h, w, g)
<1> DEFINE f == [d \in Cores |-> [h.core[d] EXCEPT !.down = @ /\ d \notin w.val]]
<1>1. g = [h EXCEPT !.core = f]
  BY DEF Target!Written, Cores, Target!Cores
<1>2. \A d \in Cores : f[d] = [h.core[d] EXCEPT !.down = @ /\ d \notin w.val]
  OBVIOUS
<1>3. DOMAIN f = Cores /\ f = [d \in Cores |-> f[d]]
  OBVIOUS
<1> HIDE DEF f
<1>4. \A d \in Cores : f[d] \in CoreRecord /\ ModeOnly(f[d], h.core[d]) /\ f[d].mode = h.core[d].mode
  <2> TAKE d \in Cores
  <2> DEFINE r == h.core[d]
             down == r.down /\ d \notin w.val
  <2>1. r \in CoreRecord
    BY DEF CoresOK
  <2>2. f[d] = [r EXCEPT !.down = down] /\ down \in BOOLEAN
    BY <1>2
  <2> HIDE DEF r, down
  <2>3. f[d] \in CoreRecord /\ f[d].halt = r.halt /\ f[d].pc = r.pc /\ f[d].mode = r.mode
    BY <2>1, <2>2 DEF CoreRecord
  <2> QED BY <2>3 DEF r, ModeOnly
<1>5. g.core = f /\ g.break = h.break /\ g.noforce = h.noforce
  BY <1>1 DEF Shape
<1>6. CoresOK(g)
  BY <1>3, <1>4, <1>5 DEF CoresOK
<1> QED BY <1>4, <1>5, <1>6 DEF Effect, ModeOnly

(* The masks apart, no other register concerns the cores. *)
LEMMA OtherEffect ==
  ASSUME NEW h, Shape(h), CoresOK(h), NEW w, WriteOK(w),
         w.reg[1] \in {"noforce", "uart", "timer", "other", "none"},
         NEW g \in Target!Written(h, w)
  PROVE  Effect(h, w, g)
<1>1. CASE w.reg[1] = "noforce"
  <2>1. g = [h EXCEPT !.noforce = w.val] /\ w.val \subseteq Cores
    BY <1>1 DEF Target!Written, WriteOK, Quiet
  <2>2. g.core = h.core /\ g.break = h.break /\ g.noforce = w.val
    BY <2>1 DEF Shape
  <2> QED BY <1>1, <2>1, <2>2 DEF Effect, CoresOK
<1>2. CASE w.reg[1] # "noforce"
  <2>1. g.core = h.core /\ g.break = h.break /\ g.noforce = h.noforce
    <3>1. CASE w.reg[1] = "uart"
      <4>1. g = [h EXCEPT !.uart.debug = "debug" \in w.val]
        BY <3>1 DEF Target!Written
      <4> QED BY <4>1 DEF Shape
    <3>2. CASE w.reg[1] = "timer"
      <4>1. g = [h EXCEPT !.timers = @ \ {w.reg[2]}]
        BY <3>2 DEF Target!Written
      <4> QED BY <4>1 DEF Shape
    <3>3. CASE w.reg[1] \in {"other", "none"}
      BY <3>3 DEF Target!Written
    <3> QED BY <1>2, <3>1, <3>2, <3>3
  <2> QED BY <1>2, <2>1 DEF Effect, CoresOK
<1> QED BY <1>1, <1>2

(* Every write has the effects named, and no other. *)
LEMMA WrittenEffect ==
  ASSUME NEW h, Shape(h), CoresOK(h), NEW w, WriteOK(w), NEW g \in Target!Written(h, w)
  PROVE  Effect(h, w, g)
<1>1. CASE w.reg[1] = "ctrl"
  <2>1. g \in Target!WriteCtrl(h, w.reg[2], w.val)
    BY <1>1 DEF Target!Written
  <2> QED BY <1>1, <2>1, CtrlEffect
<1>2. CASE w.reg[1] = "break"
  <2>1. g = Target!WriteBreak(h, w.val)
    BY <1>2 DEF Target!Written
  <2> QED BY <1>2, <2>1, BreakEffect
<1>3. CASE w.reg[1] \in {"tbr", "pc"}
  BY <1>3, CoreEffect, BoundsAssumption
<1>4. CASE w.reg[1] = "wake"
  BY <1>4, WakeEffect
<1>5. CASE w.reg[1] \in {"noforce", "uart", "timer", "other", "none"}
  BY <1>5, OtherEffect
<1> QED BY <1>1, <1>2, <1>3, <1>4, <1>5 DEF WriteOK, Quiet

-----------------------------------------------------------------------------
(* What a step of a core does to the cores *)

(* One core, which ran, has stepped: the others are what they were, and a  *)
(* program that runs on it may run on it.                                  *)
Stepped(h, c, g) ==
  /\ CoresOK(g) /\ g.break = h.break /\ g.noforce = h.noforce
  /\ c \in Cores /\ Target!Runs(h, c)
  /\ \A d \in Cores : d # c => g.core[d] = h.core[d]
  /\ g.core[c].halt = h.core[c].halt
  /\ g.core[c].pc = h.core[c].pc \/ (h.core[c].pc # "boot" /\ g.core[c].pc = "stray")
  /\ g.core[c].mode = "debug" => h.core[c].pc # "boot" /\ g.core[c].pc = "stray"

LEMMA StopSteps ==
  ASSUME NEW h, Shape(h), CoresOK(h), NEW c \in Cores, Target!CanStop(h, c), c \in h.noforce,
         NEW t \in Target!Traps, NEW tb \in Target!Traps, NEW g, g = Target!Stop(h, c, t, tb)
  PROVE  Stepped(h, c, g)
<1> DEFINE k == h.core[c]
           r == [k EXCEPT !.pc = "stray", !.tt = t, !.tbrtt = tb]
           x == [r EXCEPT !.mode = "error"]
           e == [h EXCEPT !.core[c] = r]
<1>1. c \in Cores /\ k \in CoreRecord /\ k.mode = "running" /\ k.pc # "boot" /\ Target!Runs(h, c)
  BY DEF CoresOK, Target!CanStop, Target!Runs
<1>2. /\ r \in CoreRecord /\ r.halt = k.halt /\ r.pc = "stray"
      /\ x \in CoreRecord /\ x.halt = k.halt /\ x.pc = "stray" /\ x.mode = "error"
  <2> HIDE DEF k
  <2>1. r \in CoreRecord /\ r.halt = k.halt /\ r.pc = "stray"
    BY <1>1 DEF CoreRecord
  <2> HIDE DEF r
  <2> QED BY <2>1 DEF CoreRecord, Modes
<1>3. g = IF "BE" \in k.flags THEN Target!EnterDebug(e, {c})
          ELSE [e EXCEPT !.core[c].mode = "error"]
  <2> DEFINE s == [h EXCEPT !.core[c].pc = "stray", !.core[c].tt = t, !.core[c].tbrtt = tb]
  <2>2. g = IF "BE" \in h.core[c].flags THEN Target!EnterDebug(s, {c})
            ELSE [s EXCEPT !.core[c].mode = "error"]
    BY DEF Target!Stop
  <2>1. s = e
    <3> DEFINE r1 == [k EXCEPT !.pc = "stray"]
               r2 == [r1 EXCEPT !.tt = t]
               r3 == [r2 EXCEPT !.tbrtt = tb]
               h1 == [h EXCEPT !.core[c] = r1]
               h2 == [h1 EXCEPT !.core[c] = r2]
    <3>1. r3 = r
      OBVIOUS
    <3>2. h1.core[c] = r1 /\ Shape(h1)
      <4> HIDE DEF r1
      <4> QED BY <1>1, CoreSet DEF Shape, CoresOK
    <3> QED OBVIOUS
  <2> HIDE DEF s, e
  <2> QED BY <2>1, <2>2
<1>4. Replaced(h, c, r, e)
  <2> HIDE DEF r
  <2> QED BY <1>1, <1>2, CoreSetCores
<1>5. CASE "BE" \in k.flags
  <2>1. g = Target!EnterDebug(e, {c})
    BY <1>3, <1>5
  <2> HIDE DEF e, r, x, k
  <2>2. Entered(e, {c}, g)
    BY <1>1, <1>4, <2>1, EnterDebugCores DEF Replaced
  <2>3. g.core[c].halt = k.halt /\ g.core[c].pc = "stray"
    BY <1>1, <1>2, <1>4, <2>2 DEF Entered, Replaced, ModeOnly
  <2>4. \A d \in Cores : d # c => g.core[d] = h.core[d]
    <3>1. {c} \subseteq e.noforce
      BY <1>4 DEF Replaced
    <3> QED BY <1>4, <2>2, <3>1 DEF Entered, Replaced
  <2>5. CoresOK(g) /\ g.break = h.break /\ g.noforce = h.noforce
    BY <1>4, <2>2 DEF Entered, Replaced
  <2> QED BY <1>1, <2>3, <2>4, <2>5 DEF Stepped, k
<1>6. CASE "BE" \notin k.flags
  <2> HIDE DEF r, k, x
  <2>1. g = [e EXCEPT !.core[c] = x]
    BY <1>1, <1>3, <1>4, <1>6 DEF Replaced, x
  <2> HIDE DEF e
  <2>2. Replaced(e, c, x, g)
    BY <1>1, <1>2, <1>4, <2>1, CoreSetCores DEF Replaced
  <2> QED BY <1>1, <1>2, <1>4, <2>2 DEF Stepped, Replaced, k
<1> QED BY <1>5, <1>6

LEMMA ParkSteps ==
  ASSUME NEW h, Shape(h), CoresOK(h), NEW c \in Cores, Target!CanPark(h, c),
         NEW g, g = Target!Park(h, c)
  PROVE  Stepped(h, c, g) /\ g.core[c].mode # "debug"
<1> DEFINE k == h.core[c]
           r == [k EXCEPT !.down = TRUE]
<1>1. c \in Cores /\ k \in CoreRecord /\ k.mode = "running" /\ Target!Runs(h, c)
  BY DEF CoresOK, Target!CanPark, Target!Runs
<1>2. g = [h EXCEPT !.core[c] = r]
  BY DEF Target!Park
<1> HIDE DEF k
<1>3. r \in CoreRecord /\ r.halt = k.halt /\ r.pc = k.pc /\ r.mode = k.mode
  BY <1>1 DEF CoreRecord
<1> HIDE DEF r
<1>4. Replaced(h, c, r, g)
  BY <1>1, <1>2, <1>3, CoreSetCores
<1> QED BY <1>1, <1>3, <1>4 DEF Stepped, Replaced, k

LEMMA SendSteps ==
  ASSUME NEW h, Shape(h), CoresOK(h), NEW c \in Cores, Target!CanSend(h, c),
         NEW char \in Int, NEW g \in Target!SendChar(h, c, char)
  PROVE  Stepped(h, c, g) /\ g.core[c].mode # "debug"
<1> DEFINE k == h.core[c]
           r == [k EXCEPT !.left = @ - 1]
           e == [h EXCEPT !.core[c].left = @ - 1]
<1>1. c \in Cores /\ k \in CoreRecord /\ k.mode = "running" /\ Target!Runs(h, c)
  BY DEF CoresOK, Target!CanSend, Target!Runs
<1>2. e = [h EXCEPT !.core[c] = r]
  OBVIOUS
<1>3. g \in {e, [e EXCEPT !.uart.fifo = Append(@, char)]}
  BY DEF Target!SendChar
<1> HIDE DEF k, e
<1>4. r \in CoreRecord /\ r.halt = k.halt /\ r.pc = k.pc /\ r.mode = k.mode
  <2>1. k.left - 1 \in Int
    BY <1>1 DEF CoreRecord
  <2> DEFINE n == k.left - 1
  <2> HIDE DEF n
  <2>2. r = [k EXCEPT !.left = n]
    BY DEF n
  <2> HIDE DEF r
  <2> QED BY <1>1, <2>1, <2>2 DEF CoreRecord, n
<1> HIDE DEF r
<1>5. Replaced(h, c, r, e)
  BY <1>1, <1>2, <1>4, CoreSetCores
<1>6. g.core = e.core /\ g.break = e.break /\ g.noforce = e.noforce
  BY <1>3, <1>5 DEF Shape, Replaced
<1> QED BY <1>1, <1>4, <1>5, <1>6 DEF Stepped, Replaced, CoresOK, k

-----------------------------------------------------------------------------
(* The accesses of a command about core c *)

QuietCalls == {Put(r, v) : r \in Quiet \X Int, v \in SUBSET (Cores \cup {"debug"})}
Calls(c) ==
  {GetBase}
    \cup {PutBase(r) : r \in {<<"tbr", c>>, <<"pc", c>>}}
    \cup {Put(r, v) : r \in {<<"tbr", c>>, <<"pc", c>>}, v \in Target!Entries}
    \cup QuietCalls
    \cup {Put(Ctrl(0), v) : v \in {b \in SUBSET Bits : "PE" \in b}}
    \cup {Set(Ctrl(c), v) : v \in SUBSET Bits} \cup {Clear(Ctrl(c), v) : v \in SUBSET Bits}
    \cup {Set(NoForce, {c}), Set(Break, {c}), Clear(Break, {c})}

Forces(x) == x.do = "set" /\ x.reg[1] = "break"
Frees(x) == x.do = "clear" /\ x.reg[1] = "break"
Masks(x) == x.do = "set" /\ x.reg[1] = "noforce"
Halts(x) == x.do = "set" /\ x.reg[1] = "ctrl" /\ "HL" \in x.val
LetsGo(x) == x.do = "set" /\ x.reg[1] = "ctrl" /\ "PE" \in x.val
Starts(x) == x.do \in {"put", "put base"} /\ x.reg[1] = "pc"

(* A core is forced, or sent to where it may trap, when it is masked. *)
NeedsMask(x) == Forces(x) \/ (Starts(x) /\ (x.do = "put" => x.val = "ram"))

Forced(s) == \E k \in 1..Len(s) : Forces(s[k])
Freed(s) == \E k \in 1..Len(s) : Frees(s[k])
LetGo(s) == \E k \in 1..Len(s) : LetsGo(s[k])

(* A core that is forced is freed, once, and not by the last access; one   *)
(* that is halted is let go; what run starts it starts before it frees.    *)
Planned(s, fn) ==
  \A k \in 1..Len(s) :
    /\ Forces(s[k]) => /\ \E j \in k + 1..Len(s) : Frees(s[j])
                       /\ \A j \in k + 1..Len(s) : ~Forces(s[j])
    /\ Frees(s[k]) => /\ k < Len(s)
                      /\ \A j \in k + 1..Len(s) : ~Forces(s[j]) /\ ~Frees(s[j])
    /\ Halts(s[k]) => \E j \in k + 1..Len(s) : LetsGo(s[j])
    /\ Starts(s[k]) /\ fn = "run" => \E j \in k + 1..Len(s) : Frees(s[j])

MaskedFirst(s, masked) ==
  \A k \in 1..Len(s) : NeedsMask(s[k]) => masked \/ \E i \in 1..k - 1 : Masks(s[i])

(* What holds of the accesses of a whole command. *)
Program(s, c, fn) ==
  /\ s \in Seq(Calls(c))
  /\ Planned(s, fn)
  /\ MaskedFirst(s, FALSE)
  /\ Freed(s) => Forced(s)

(* Such a row s without its first access x is the row t. *)
NextOK(x, t, s, c, fn, m) ==
  /\ t \in Seq(Calls(c)) /\ x \in Calls(c)
  /\ Planned(t, fn)
  /\ MaskedFirst(t, m \/ Masks(x))
  /\ Forces(x) => Freed(t) /\ ~Forced(t)
  /\ Frees(x) => t # <<>> /\ ~Forced(t) /\ ~Freed(t)
  /\ Halts(x) => LetGo(t)
  /\ Starts(x) /\ fn = "run" => Freed(t)
  /\ NeedsMask(x) => m
  /\ ~Forces(x) => (Forced(t) <=> Forced(s))
  /\ ~Frees(x) => (Freed(t) <=> Freed(s))
  /\ ~LetsGo(x) => (LetGo(t) <=> LetGo(s))

LEMMA TailPlanned ==
  ASSUME NEW c, NEW fn, NEW m, NEW s \in Seq(Calls(c)), s # <<>>,
         Planned(s, fn), MaskedFirst(s, m)
  PROVE  NextOK(Head(s), Tail(s), s, c, fn, m)
<1> DEFINE t == Tail(s)
           n == Len(s)
<1>1. /\ t \in Seq(Calls(c)) /\ Head(s) = s[1] /\ Head(s) \in Calls(c)
      /\ n \in Nat /\ n >= 1 /\ Len(t) = n - 1
      /\ \A k \in 1..n - 1 : t[k] = s[k + 1]
  OBVIOUS
<1>2. n > 1 => t # <<>>
  <2>1. Len(<<>>) = 0
    OBVIOUS
  <2> HIDE DEF t, n
  <2> QED BY <1>1, <2>1
<1> HIDE DEF t, n
<1>3. \A j \in 2..n : j - 1 \in 1..n - 1 /\ s[j] = t[j - 1]
  <2> TAKE j \in 2..n
  <2>1. j - 1 \in 1..n - 1 /\ (j - 1) + 1 = j
    BY <1>1
  <2> QED BY <1>1, <2>1
<1>4. \A k \in 1..n - 1 : k + 1 \in 2..n /\ k + 1 \in 1..n
  BY <1>1
<1>5. 1 \in 1..n /\ 2..n = 1 + 1..n /\ \A j \in 2..n : j \in 1..n
  BY <1>1
<1>6. \A j \in 1..n : j = 1 \/ j \in 2..n
  BY <1>1
<1>7. Forced(t) <=> \E j \in 2..n : Forces(s[j])
  BY <1>1, <1>3, <1>4 DEF Forced
<1>8. Freed(t) <=> \E j \in 2..n : Frees(s[j])
  BY <1>1, <1>3, <1>4 DEF Freed
<1>9. LetGo(t) <=> \E j \in 2..n : LetsGo(s[j])
  BY <1>1, <1>3, <1>4 DEF LetGo
<1>10. /\ Forces(s[1]) => Freed(t) /\ ~Forced(t)
       /\ Frees(s[1]) => n > 1 /\ ~Forced(t) /\ ~Freed(t)
       /\ Halts(s[1]) => LetGo(t)
       /\ Starts(s[1]) /\ fn = "run" => Freed(t)
  BY <1>1, <1>5, <1>7, <1>8, <1>9 DEF Planned, n
<1>11. NeedsMask(s[1]) => m
  BY <1>1, <1>5 DEF MaskedFirst, n
<1>12. /\ ~Forces(s[1]) => (Forced(t) <=> Forced(s))
       /\ ~Frees(s[1]) => (Freed(t) <=> Freed(s))
       /\ ~LetsGo(s[1]) => (LetGo(t) <=> LetGo(s))
  BY <1>5, <1>6, <1>7, <1>8, <1>9 DEF Forced, Freed, LetGo, n
<1>13. Planned(t, fn)
  <2> SUFFICES ASSUME NEW k \in 1..n - 1
               PROVE  /\ Forces(t[k]) => /\ \E j \in k + 1..n - 1 : Frees(t[j])
                                         /\ \A j \in k + 1..n - 1 : ~Forces(t[j])
                      /\ Frees(t[k]) => /\ k < n - 1
                                        /\ \A j \in k + 1..n - 1 : ~Forces(t[j]) /\ ~Frees(t[j])
                      /\ Halts(t[k]) => \E j \in k + 1..n - 1 : LetsGo(t[j])
                      /\ Starts(t[k]) /\ fn = "run" => \E j \in k + 1..n - 1 : Frees(t[j])
    BY <1>1 DEF Planned
  <2> DEFINE i == k + 1
  <2>1. i \in 1..n /\ t[k] = s[i] /\ i \in Int /\ k \in Int
    BY <1>1, <1>4
  <2>2. \A j \in k + 1..n - 1 : j + 1 \in i + 1..n /\ t[j] = s[j + 1]
    BY <1>1, <2>1
  <2>3. \A j \in i + 1..n : j - 1 \in k + 1..n - 1 /\ s[j] = t[j - 1]
    BY <1>1, <1>3, <2>1
  <2>4. i < n => k < n - 1
    BY <1>1, <2>1
  <2>5. /\ Forces(s[i]) => /\ \E j \in i + 1..n : Frees(s[j])
                           /\ \A j \in i + 1..n : ~Forces(s[j])
        /\ Frees(s[i]) => /\ i < n
                          /\ \A j \in i + 1..n : ~Forces(s[j]) /\ ~Frees(s[j])
        /\ Halts(s[i]) => \E j \in i + 1..n : LetsGo(s[j])
        /\ Starts(s[i]) /\ fn = "run" => \E j \in i + 1..n : Frees(s[j])
    BY <2>1, Zenon DEF Planned, n
  <2> HIDE DEF i
  <2> QED BY <2>1, <2>2, <2>3, <2>4, <2>5
<1>14. MaskedFirst(t, m \/ Masks(s[1]))
  <2> SUFFICES ASSUME NEW k \in 1..n - 1, NeedsMask(t[k])
               PROVE  (m \/ Masks(s[1])) \/ \E i \in 1..k - 1 : Masks(t[i])
    BY <1>1 DEF MaskedFirst
  <2>1. k + 1 \in 1..n /\ t[k] = s[k + 1] /\ (k + 1) - 1 = k
    BY <1>1, <1>4
  <2>2. m \/ \E i \in 1..k : Masks(s[i])
    BY <2>1 DEF MaskedFirst, n
  <2>3. \A i \in 1..k : i = 1 \/ (i - 1 \in 1..k - 1 /\ s[i] = t[i - 1])
    BY <1>1, <1>3
  <2> QED BY <2>2, <2>3
<1> QED BY <1>1, <1>2, <1>10, <1>11, <1>12, <1>13, <1>14 DEF t, n, NextOK

-----------------------------------------------------------------------------
(* The commands *)

(* The kinds of accesses, one after the other. *)
LEMMA CallKinds ==
  ASSUME NEW c \in Cores
  PROVE  /\ GetBase \in Calls(c)
         /\ PutBase(<<"tbr", c>>) \in Calls(c) /\ PutBase(<<"pc", c>>) \in Calls(c)
         /\ \A v \in Target!Entries : /\ Put(<<"tbr", c>>, v) \in Calls(c)
                                      /\ Put(<<"pc", c>>, v) \in Calls(c)
         /\ \A q \in Quiet, n \in Int, v \in SUBSET (Cores \cup {"debug"}) :
              Put(<<q, n>>, v) \in Calls(c)
         /\ \A v \in SUBSET Bits : Set(Ctrl(c), v) \in Calls(c) /\ Clear(Ctrl(c), v) \in Calls(c)
         /\ \A v \in SUBSET Bits : "PE" \in v => Put(Ctrl(0), v) \in Calls(c)
         /\ Set(NoForce, {c}) \in Calls(c)
         /\ Set(Break, {c}) \in Calls(c) /\ Clear(Break, {c}) \in Calls(c)
<1>1. GetBase \in Calls(c)
  BY DEF Calls
<1>2. PutBase(<<"tbr", c>>) \in Calls(c) /\ PutBase(<<"pc", c>>) \in Calls(c)
  BY DEF Calls
<1>3. \A v \in Target!Entries : /\ Put(<<"tbr", c>>, v) \in Calls(c)
                               /\ Put(<<"pc", c>>, v) \in Calls(c)
  BY DEF Calls
<1>4. \A q \in Quiet, n \in Int, v \in SUBSET (Cores \cup {"debug"}) :
        Put(<<q, n>>, v) \in Calls(c)
  <2>1. \A q \in Quiet, n \in Int, v \in SUBSET (Cores \cup {"debug"}) :
          Put(<<q, n>>, v) \in QuietCalls
    <3>1. \A q \in Quiet, n \in Int : <<q, n>> \in Quiet \X Int
      OBVIOUS
    <3>2. \A r \in Quiet \X Int, v \in SUBSET (Cores \cup {"debug"}) : Put(r, v) \in QuietCalls
      BY DEF QuietCalls
    <3> TAKE q \in Quiet, n \in Int, v \in SUBSET (Cores \cup {"debug"})
    <3> DEFINE r == <<q, n>>
    <3>3. r \in Quiet \X Int
      BY <3>1
    <3> HIDE DEF r
    <3>4. Put(r, v) \in QuietCalls
      BY <3>2, <3>3
    <3> QED BY <3>4 DEF r
  <2>2. QuietCalls \subseteq Calls(c)
    BY DEF Calls
  <2> QED BY <2>1, <2>2
<1>5. \A v \in SUBSET Bits : Set(Ctrl(c), v) \in Calls(c) /\ Clear(Ctrl(c), v) \in Calls(c)
  BY DEF Calls
<1>6. \A v \in SUBSET Bits : "PE" \in v => Put(Ctrl(0), v) \in Calls(c)
  BY DEF Calls
<1>7. /\ Set(NoForce, {c}) \in Calls(c)
      /\ Set(Break, {c}) \in Calls(c) /\ Clear(Break, {c}) \in Calls(c)
  BY DEF Calls
<1> QED BY <1>1, <1>2, <1>3, <1>4, <1>5, <1>6, <1>7

(* The bits the accesses set and clear. *)
LEMMA BitSets ==
  /\ {"BW"} \in SUBSET Bits /\ {"HL"} \in SUBSET Bits /\ {"PE"} \in SUBSET Bits
  /\ {"TE", "BE", "BW", "BS", "BZ", "PE"} \in SUBSET Bits
  BY DEF Bits, Target!Flags, Target!Status

(* What the accesses of one kind do not do. *)
LEMMA Harmless ==
  ASSUME NEW c, NEW v
  PROVE  /\ \A q : LET x == Put(<<q, c>>, v) IN
                     ~Forces(x) /\ ~Frees(x) /\ ~Masks(x) /\ ~Halts(x) /\ ~LetsGo(x)
                       /\ (q # "pc" => ~Starts(x))
         /\ \A q : LET x == PutBase(<<q, c>>) IN
                     ~Forces(x) /\ ~Frees(x) /\ ~Masks(x) /\ ~Halts(x) /\ ~LetsGo(x)
                       /\ (q # "pc" => ~Starts(x))
         /\ LET x == Set(Ctrl(c), v) IN
              ~Forces(x) /\ ~Frees(x) /\ ~Masks(x) /\ ~Starts(x)
                /\ (Halts(x) <=> "HL" \in v) /\ (LetsGo(x) <=> "PE" \in v)
         /\ LET x == Clear(Ctrl(c), v) IN
              ~Forces(x) /\ ~Frees(x) /\ ~Masks(x) /\ ~Starts(x) /\ ~Halts(x) /\ ~LetsGo(x)
         /\ LET x == Set(NoForce, v) IN
              ~Forces(x) /\ ~Frees(x) /\ Masks(x) /\ ~Starts(x) /\ ~Halts(x) /\ ~LetsGo(x)
         /\ LET x == Set(Break, v) IN
              Forces(x) /\ ~Frees(x) /\ ~Masks(x) /\ ~Starts(x) /\ ~Halts(x) /\ ~LetsGo(x)
         /\ LET x == Clear(Break, v) IN
              ~Forces(x) /\ Frees(x) /\ ~Masks(x) /\ ~Starts(x) /\ ~Halts(x) /\ ~LetsGo(x)
         /\ LET x == GetBase IN
              ~Forces(x) /\ ~Frees(x) /\ ~Masks(x) /\ ~Starts(x) /\ ~Halts(x) /\ ~LetsGo(x)
  BY DEF Put, PutBase, Set, Clear, GetBase, Ctrl, NoForce, Break,
         Forces, Frees, Masks, Halts, LetsGo, Starts

(* Accesses that hold, free and start no core. *)
Inert(c) == {x \in Calls(c) : ~Forces(x) /\ ~Frees(x) /\ ~Halts(x) /\ ~Starts(x)}

(* A row of them is a program of its own. *)
LEMMA InertProgram ==
  ASSUME NEW c, NEW fn, NEW s \in Seq(Inert(c))
  PROVE  Program(s, c, fn)
<1>1. \A k \in 1..Len(s) : s[k] \in Inert(c)
  OBVIOUS
<1>2. s \in Seq(Calls(c))
  BY <1>1 DEF Inert
<1> QED BY <1>1, <1>2 DEF Inert, Program, Planned, MaskedFirst, Freed, NeedsMask

(* The APB registers concern no core's debug support. *)
LEMMA APBInert ==
  ASSUME NEW n \in Int, NEW v \in SUBSET (Cores \cup {"debug"}), NEW c \in Cores
  PROVE  Put(APB(n), v) \in Inert(c)
<1>1. \E q \in Quiet, m \in Int : APB(n) = <<q, m>>
  <2>1. CASE n = 264
    BY <2>1 DEF APB, Quiet
  <2>2. CASE n \in {792, 808, 824, 840}
    <3>1. (n - 776) \div 16 \in Int
      OBVIOUS
    <3>2. APB(n) = <<"timer", (n - 776) \div 16>>
      BY <2>2 DEF APB
    <3> QED BY <3>1, <3>2 DEF Quiet
  <2>3. CASE n = 528
    BY <2>3 DEF APB, Quiet
  <2>4. CASE n \notin {264, 792, 808, 824, 840, 528}
    BY <2>4 DEF APB, Quiet
  <2> QED BY <2>1, <2>2, <2>3, <2>4
<1>2. PICK q \in Quiet, m \in Int : APB(n) = <<q, m>>
  BY <1>1
<1>3. Put(<<q, m>>, v) \in Calls(c)
  BY CallKinds
<1>4. q # "pc"
  BY DEF Quiet
<1> QED BY <1>2, <1>3, <1>4, Harmless DEF Inert

(* The eight writes of init_core_1 and the read after them. *)
LEMMA OpenProgram ==
  ASSUME NEW fn
  PROVE  Program(init_core_1 \o <<GetBase>>, 0, fn)
<1> DEFINE x(k) == Put(APB(UART0_START_ADDRESS + 4 * (k - 1)), {})
           y(k) == Put(APB(UART0_START_ADDRESS + 776 + 16 * k), {})
           a == [k \in 1..4 |-> x(k)]
           b == [k \in 1..4 |-> y(k)]
           s == init_core_1 \o <<GetBase>>
<1>0. 0 \in Cores
  BY NumCoresAssumption DEF Cores
<1>1. \A n \in Int : Put(APB(n), {}) \in Inert(0)
  BY <1>0, APBInert
<1>2. a \in Seq(Inert(0)) /\ b \in Seq(Inert(0)) /\ <<GetBase>> \in Seq(Inert(0))
  <2>1. \A k \in 1..4 : /\ UART0_START_ADDRESS + 4 * (k - 1) \in Int
                        /\ UART0_START_ADDRESS + 776 + 16 * k \in Int
    BY DEF UART0_START_ADDRESS
  <2>2. \A k \in 1..4 : x(k) \in Inert(0) /\ y(k) \in Inert(0)
    <3> TAKE k \in 1..4
    <3>1. /\ UART0_START_ADDRESS + 4 * (k - 1) \in Int
          /\ UART0_START_ADDRESS + 776 + 16 * k \in Int
      BY <2>1
    <3> QED BY <1>1, <3>1
  <2>3. GetBase \in Inert(0)
    BY <1>0, CallKinds, Harmless DEF Inert
  <2> HIDE DEF x, y
  <2>4. a \in [1..4 -> Inert(0)] /\ b \in [1..4 -> Inert(0)]
    BY <2>2
  <2>5. <<GetBase>> \in Seq(Inert(0))
    BY <2>3
  <2>6. \A f \in [1..4 -> Inert(0)] : f \in Seq(Inert(0))
    BY SeqDef
  <2> QED BY <2>4, <2>5, <2>6
<1>3. s = (a \o b) \o <<GetBase>>
  BY DEF init_core_1
<1> HIDE DEF x, y, a, b, s
<1>4. s \in Seq(Inert(0))
  BY <1>2, <1>3
<1> QED BY <1>4, InertProgram DEF s

(* Where the accesses of two rows are in the two in a row. *)
InARow(a, b, u, S) ==
  /\ u \in Seq(S) /\ Len(u) = Len(a) + Len(b)
  /\ \A k \in 1..Len(a) : u[k] = a[k]
  /\ \A k \in 1..Len(b) : u[Len(a) + k] = b[k]

LEMMA Joining ==
  ASSUME NEW S, NEW a \in Seq(S), NEW b \in Seq(S)
  PROVE  InARow(a, b, a \o b, S)
  BY DEF InARow

(* A program with harmless accesses before it. *)
LEMMA Prefixed ==
  ASSUME NEW c, NEW fn, NEW p \in Seq(Calls(c)), NEW s, Program(s, c, fn),
         \A k \in 1..Len(p) : /\ ~Forces(p[k]) /\ ~Frees(p[k]) /\ ~Halts(p[k]) /\ ~NeedsMask(p[k])
                              /\ Starts(p[k]) /\ fn = "run" => Freed(s)
  PROVE  Program(p \o s, c, fn) /\ (Freed(s) => Freed(p \o s))
<1> DEFINE u == p \o s
           m == Len(p)
           n == Len(s)
<1>1. s \in Seq(Calls(c))
  BY DEF Program
<1>2. /\ u \in Seq(Calls(c)) /\ m \in Nat /\ n \in Nat /\ Len(u) = m + n
      /\ \A k \in 1..m : u[k] = p[k]
      /\ \A k \in 1..n : u[m + k] = s[k]
  BY <1>1
<1> HIDE DEF u, m, n
<1>3. \A k \in 1..m + n : k \in 1..m \/ (k - m \in 1..n /\ u[k] = s[k - m])
  <2> TAKE k \in 1..m + n
  <2>1. k \notin 1..m => k - m \in 1..n /\ m + (k - m) = k
    BY <1>2
  <2> QED BY <1>2, <2>1
<1>4. \A k \in 1..n : m + k \in 1..m + n /\ m + k \notin 1..m
  BY <1>2
<1>5. \A k \in 1..m : /\ ~Forces(u[k]) /\ ~Frees(u[k]) /\ ~Halts(u[k]) /\ ~NeedsMask(u[k])
                      /\ Starts(u[k]) /\ fn = "run" => Freed(s)
  BY <1>2 DEF m
<1>6. /\ Forced(u) <=> Forced(s)
      /\ Freed(u) <=> Freed(s)
  BY <1>2, <1>3, <1>4, <1>5 DEF Forced, Freed, n
<1>7. Planned(u, fn)
  <2> SUFFICES ASSUME NEW k \in 1..m + n
               PROVE  /\ Forces(u[k]) => /\ \E j \in k + 1..m + n : Frees(u[j])
                                         /\ \A j \in k + 1..m + n : ~Forces(u[j])
                      /\ Frees(u[k]) => /\ k < m + n
                                        /\ \A j \in k + 1..m + n : ~Forces(u[j]) /\ ~Frees(u[j])
                      /\ Halts(u[k]) => \E j \in k + 1..m + n : LetsGo(u[j])
                      /\ Starts(u[k]) /\ fn = "run" => \E j \in k + 1..m + n : Frees(u[j])
    BY <1>2 DEF Planned
  <2>1. CASE k \in 1..m
    <3>1. Freed(s) => \E j \in k + 1..m + n : Frees(u[j])
      <4>1. \A j \in 1..n : m + j \in k + 1..m + n
        BY <1>2, <2>1
      <4> QED BY <1>2, <4>1 DEF Freed, n
    <3> QED BY <1>5, <2>1, <3>1
  <2>2. CASE k \notin 1..m
    <3> DEFINE i == k - m
    <3>1. i \in 1..n /\ u[k] = s[i] /\ i \in Int
      BY <1>3, <2>2
    <3>2. \A j \in i + 1..n : m + j \in k + 1..m + n /\ u[m + j] = s[j]
      BY <1>2, <3>1
    <3>3. \A j \in k + 1..m + n : j - m \in i + 1..n /\ u[j] = s[j - m]
      <4> TAKE j \in k + 1..m + n
      <4>1. j - m \in i + 1..n /\ j \in 1..m + n /\ j \notin 1..m
        BY <1>2, <2>2
      <4> QED BY <1>3, <4>1
    <3>4. i < n => k < m + n
      BY <1>2
    <3>5. /\ Forces(s[i]) => /\ \E j \in i + 1..n : Frees(s[j])
                             /\ \A j \in i + 1..n : ~Forces(s[j])
          /\ Frees(s[i]) => /\ i < n
                            /\ \A j \in i + 1..n : ~Forces(s[j]) /\ ~Frees(s[j])
          /\ Halts(s[i]) => \E j \in i + 1..n : LetsGo(s[j])
          /\ Starts(s[i]) /\ fn = "run" => \E j \in i + 1..n : Frees(s[j])
      BY <3>1, Zenon DEF Program, Planned, n
    <3> HIDE DEF i
    <3> QED BY <3>1, <3>2, <3>3, <3>4, <3>5
  <2> QED BY <2>1, <2>2
<1>8. MaskedFirst(u, FALSE)
  <2> SUFFICES ASSUME NEW k \in 1..m + n, NeedsMask(u[k])
               PROVE  \E i \in 1..k - 1 : Masks(u[i])
    BY <1>2 DEF MaskedFirst
  <2>1. k - m \in 1..n /\ u[k] = s[k - m]
    BY <1>3, <1>5
  <2>2. PICK i \in 1..(k - m) - 1 : Masks(s[i])
    BY <2>1 DEF Program, MaskedFirst, n
  <2>3. m + i \in 1..k - 1 /\ i \in 1..n
    BY <1>2, <2>1
  <2> QED BY <1>2, <2>2, <2>3
<1> QED BY <1>2, <1>6, <1>7, <1>8 DEF Program, u

(* A program with inert accesses behind it. *)
LEMMA Suffixed ==
  ASSUME NEW c, NEW fn, NEW q \in Seq(Inert(c)), NEW s, Program(s, c, fn)
  PROVE  Program(s \o q, c, fn) /\ (Freed(s) => Freed(s \o q))
<1> DEFINE u == s \o q
           m == Len(s)
           n == Len(q)
<1>1. s \in Seq(Calls(c)) /\ q \in Seq(Calls(c))
  BY DEF Program, Inert
<1>2. /\ u \in Seq(Calls(c)) /\ m \in Nat /\ n \in Nat /\ Len(u) = m + n
      /\ \A k \in 1..m : u[k] = s[k]
      /\ \A k \in 1..n : u[m + k] = q[k]
  BY <1>1
<1>3. \A k \in 1..n : q[k] \in Inert(c)
  OBVIOUS
<1> HIDE DEF u, m, n
<1>4. \A k \in 1..m + n : k \in 1..m \/ u[k] \in Inert(c)
  <2> TAKE k \in 1..m + n
  <2>1. k \notin 1..m => k - m \in 1..n /\ m + (k - m) = k
    BY <1>2
  <2> QED BY <1>2, <1>3, <2>1
<1>5. \A k \in 1..m : k \in 1..m + n
  BY <1>2
<1>6. \A k \in 1..m + n : k \in 1..m \/ (~Forces(u[k]) /\ ~Frees(u[k]) /\ ~Halts(u[k]) /\ ~Starts(u[k]))
  BY <1>4 DEF Inert
<1>7. /\ Forced(u) <=> Forced(s)
      /\ Freed(u) <=> Freed(s)
  BY <1>2, <1>5, <1>6 DEF Forced, Freed, m
<1>8. Planned(u, fn)
  <2> SUFFICES ASSUME NEW k \in 1..m + n, k \in 1..m
               PROVE  /\ Forces(u[k]) => /\ \E j \in k + 1..m + n : Frees(u[j])
                                         /\ \A j \in k + 1..m + n : ~Forces(u[j])
                      /\ Frees(u[k]) => /\ k < m + n
                                        /\ \A j \in k + 1..m + n : ~Forces(u[j]) /\ ~Frees(u[j])
                      /\ Halts(u[k]) => \E j \in k + 1..m + n : LetsGo(u[j])
                      /\ Starts(u[k]) /\ fn = "run" => \E j \in k + 1..m + n : Frees(u[j])
    BY <1>2, <1>6 DEF Planned
  <2>1. \A j \in k + 1..m : j \in k + 1..m + n /\ j \in 1..m /\ u[j] = s[j]
    BY <1>2
  <2>2. \A j \in k + 1..m + n : j \in k + 1..m \/ (~Forces(u[j]) /\ ~Frees(u[j]))
    <3> TAKE j \in k + 1..m + n
    <3>1. j \in 1..m + n /\ (j \in 1..m => j \in k + 1..m)
      BY <1>2
    <3> QED BY <1>6, <3>1
  <2>3. k < m => k < m + n
    BY <1>2
  <2>4. /\ Forces(s[k]) => /\ \E j \in k + 1..m : Frees(s[j])
                           /\ \A j \in k + 1..m : ~Forces(s[j])
        /\ Frees(s[k]) => /\ k < m
                          /\ \A j \in k + 1..m : ~Forces(s[j]) /\ ~Frees(s[j])
        /\ Halts(s[k]) => \E j \in k + 1..m : LetsGo(s[j])
        /\ Starts(s[k]) /\ fn = "run" => \E j \in k + 1..m : Frees(s[j])
    BY Zenon DEF Program, Planned, m
  <2> QED BY <1>2, <2>1, <2>2, <2>3, <2>4
<1>9. MaskedFirst(u, FALSE)
  <2> SUFFICES ASSUME NEW k \in 1..m + n, NeedsMask(u[k])
               PROVE  \E i \in 1..k - 1 : Masks(u[i])
    BY <1>2 DEF MaskedFirst
  <2>1. k \in 1..m /\ u[k] = s[k]
    BY <1>2, <1>6 DEF NeedsMask
  <2>2. PICK i \in 1..k - 1 : Masks(s[i])
    BY <2>1 DEF Program, MaskedFirst, m
  <2>3. i \in 1..m
    BY <1>2, <2>1
  <2> QED BY <1>2, <2>2, <2>3
<1> QED BY <1>2, <1>7, <1>8, <1>9 DEF Program, u

LEMMA PutBaseIs ==
  ASSUME NEW r, NEW x, x = PutBase(r)
  PROVE  x.do = "put base" /\ x.reg = r
  BY DEF PutBase

(* What a call, one of a row, does not do. *)
Nothing(x) == ~Forces(x) /\ ~Frees(x) /\ ~Halts(x) /\ ~Starts(x)

LEMMA OtherCall ==
  ASSUME NEW c \in Cores
  PROVE  Others(c) \in Calls(c) /\ Nothing(Others(c))
<1>1. "other" \in Quiet /\ c \in Int /\ {} \in SUBSET (Cores \cup {"debug"}) /\ "other" # "pc"
  BY DEF Quiet, Cores
<1>2. Put(<<"other", c>>, {}) \in Calls(c)
  BY <1>1, CallKinds
<1> QED BY <1>2 DEF Others, Nothing, Put, Forces, Frees, Halts, Starts

(* A turn of set_other_cores_idle, and ftdi_set_cpu_idle after its read. *)
LEMMA SetIdleProgram ==
  ASSUME NEW c \in Cores, NEW fn
  PROVE  Program(SetIdle(c), c, fn) /\ Program(<<GetBase>> \o SetIdle(c), c, fn)
<1> DEFINE s == SetIdle(c)
<1>1. /\ Len(s) = 9
      /\ s[1] = Set(NoForce, {c}) /\ s[2] = Set(Ctrl(c), {"BW"}) /\ s[3] = Set(Break, {c})
      /\ s[4] = PutBase(<<"tbr", c>>) /\ s[5] = PutBase(<<"pc", c>>) /\ s[6] = Others(c)
      /\ s[7] = Clear(Ctrl(c), {"BW"}) /\ s[8] = Clear(Break, {c}) /\ s[9] = Set(Ctrl(c), {"PE"})
  BY DEF SetIdle
<1>2. s \in Seq(Calls(c))
  <2>1. /\ Set(NoForce, {c}) \in Calls(c) /\ Set(Ctrl(c), {"BW"}) \in Calls(c)
        /\ Set(Break, {c}) \in Calls(c) /\ PutBase(<<"tbr", c>>) \in Calls(c)
        /\ PutBase(<<"pc", c>>) \in Calls(c) /\ Others(c) \in Calls(c)
        /\ Clear(Ctrl(c), {"BW"}) \in Calls(c) /\ Clear(Break, {c}) \in Calls(c)
        /\ Set(Ctrl(c), {"PE"}) \in Calls(c)
    BY CallKinds, OtherCall, BitSets
  <2> QED BY <2>1 DEF SetIdle
<1> HIDE DEF s
<1>3. \A k \in 1..9 : k \in {1, 2, 3, 4, 5, 6, 7, 8, 9}
  OBVIOUS
<1>4. \A k \in 1..9 : /\ Forces(s[k]) <=> k = 3
                      /\ Frees(s[k]) <=> k = 8
                      /\ ~Halts(s[k])
                      /\ Starts(s[k]) => k = 5
  <2>1. Nothing(s[1]) /\ Nothing(s[2])
    BY <1>1 DEF Nothing, Set, NoForce, Ctrl, Forces, Frees, Halts, Starts
  <2>2. Forces(s[3]) /\ ~Frees(s[3]) /\ ~Halts(s[3]) /\ ~Starts(s[3])
    BY <1>1 DEF Set, Break, Forces, Frees, Halts, Starts
  <2>3. Nothing(s[4]) /\ ~Forces(s[5]) /\ ~Frees(s[5]) /\ ~Halts(s[5])
    <3>1. s[4].do = "put base" /\ s[4].reg[1] = "tbr" /\ s[5].do = "put base"
      <4>1. s[4] = PutBase(<<"tbr", c>>) /\ s[5] = PutBase(<<"pc", c>>)
        BY <1>1
      <4>3. s[4].do = "put base" /\ s[5].do = "put base" /\ s[4].reg = <<"tbr", c>>
        BY <4>1, PutBaseIs, Zenon
      <4>4. <<"tbr", c>>[1] = "tbr"
        OBVIOUS
      <4> QED BY <4>3, <4>4
    <3> QED BY <3>1 DEF Nothing, Forces, Frees, Halts, Starts
  <2>4. Nothing(s[6]) /\ Nothing(s[7])
    <3>1. Nothing(s[6])
      BY <1>1, OtherCall
    <3>2. Nothing(s[7])
      BY <1>1 DEF Nothing, Clear, Ctrl, Forces, Frees, Halts, Starts
    <3> QED BY <3>1, <3>2
  <2>5. Frees(s[8]) /\ ~Forces(s[8]) /\ ~Halts(s[8]) /\ ~Starts(s[8])
    BY <1>1 DEF Clear, Break, Forces, Frees, Halts, Starts
  <2>6. Nothing(s[9])
    BY <1>1 DEF Nothing, Set, Ctrl, Forces, Frees, Halts, Starts
  <2> QED BY <1>3, <2>1, <2>2, <2>3, <2>4, <2>5, <2>6 DEF Nothing
<1>5. Masks(s[1])
  BY <1>1 DEF Masks, Set, NoForce
<1>7. Program(s, c, fn)
  BY <1>1, <1>2, <1>4, <1>5 DEF Program, Planned, MaskedFirst, NeedsMask, Forced, Freed
<1>8. Program(<<GetBase>> \o s, c, fn)
  <2> DEFINE p == <<GetBase>>
  <2>1. p \in Seq(Calls(c)) /\ Len(p) = 1 /\ p[1] = GetBase
    <3>1. GetBase \in Calls(c)
      BY CallKinds
    <3> QED BY <3>1
  <2> HIDE DEF p
  <2>2. \A k \in 1..Len(p) : p[k] = GetBase
    BY <2>1
  <2>3. \A k \in 1..Len(p) : /\ ~Forces(p[k]) /\ ~Frees(p[k]) /\ ~Halts(p[k]) /\ ~NeedsMask(p[k])
                             /\ Starts(p[k]) /\ fn = "run" => Freed(s)
    BY <2>2, Harmless DEF NeedsMask
  <2> QED BY <1>7, <2>1, <2>3, Prefixed DEF p
<1> QED BY <1>7, <1>8 DEF s

(* The accesses of reset force and halt no core; the one it starts is in   *)
(* the boot software.                                                      *)
LEMMA ResetCalls ==
  ASSUME NEW c \in Cores
  PROVE  /\ Reset(c) \in Seq(Calls(c))
         /\ \A k \in 1..Len(Reset(c)) :
              LET x == Reset(c)[k] IN ~Forces(x) /\ ~Frees(x) /\ ~Halts(x) /\ ~NeedsMask(x)
<1> DEFINE s == Reset(c)
<1>1. /\ Len(s) = 5
      /\ s[1] = Others(c) /\ s[2] = Put(<<"tbr", c>>, "boot")
      /\ s[3] = Put(<<"pc", c>>, "boot") /\ s[4] = Others(c)
      /\ s[5] = Set(Ctrl(c), {"PE"})
  BY DEF Reset
<1>2. s \in Seq(Calls(c))
  <2>1. "boot" \in Target!Entries
    BY DEF Target!Entries
  <2>2. /\ Others(c) \in Calls(c) /\ Put(<<"tbr", c>>, "boot") \in Calls(c)
        /\ Put(<<"pc", c>>, "boot") \in Calls(c) /\ Set(Ctrl(c), {"PE"}) \in Calls(c)
    BY <2>1, CallKinds, OtherCall, BitSets
  <2> QED BY <2>2 DEF Reset
<1> HIDE DEF s
<1>3. \A k \in 1..5 : k \in {1, 2, 3, 4, 5}
  OBVIOUS
<1>4. /\ Nothing(s[1]) /\ Nothing(s[2]) /\ Nothing(s[4]) /\ Nothing(s[5])
      /\ ~Forces(s[3]) /\ ~Frees(s[3]) /\ ~Halts(s[3]) /\ ~NeedsMask(s[3])
  <2>1. Nothing(s[1]) /\ Nothing(s[4])
    BY <1>1, OtherCall
  <2>2. Nothing(s[2])
    BY <1>1 DEF Nothing, Put, Forces, Frees, Halts, Starts
  <2>3. Nothing(s[5])
    BY <1>1 DEF Nothing, Set, Ctrl, Forces, Frees, Halts, Starts
  <2>4. ~Forces(s[3]) /\ ~Frees(s[3]) /\ ~Halts(s[3]) /\ ~NeedsMask(s[3])
    BY <1>1 DEF Put, Forces, Frees, Halts, NeedsMask
  <2> QED BY <2>1, <2>2, <2>3, <2>4
<1>5. \A k \in 1..5 : ~Forces(s[k]) /\ ~Frees(s[k]) /\ ~Halts(s[k]) /\ ~NeedsMask(s[k])
  BY <1>3, <1>4 DEF Nothing, NeedsMask
<1> QED BY <1>1, <1>2, <1>5 DEF s

LEMMA ResetProgram ==
  ASSUME NEW c \in Cores, NEW fn, fn # "run"
  PROVE  Program(Reset(c), c, fn)
<1>1. /\ Reset(c) \in Seq(Calls(c))
      /\ \A k \in 1..Len(Reset(c)) :
           LET x == Reset(c)[k] IN ~Forces(x) /\ ~Frees(x) /\ ~Halts(x) /\ ~NeedsMask(x)
  BY ResetCalls
<1> QED BY <1>1 DEF Program, Planned, MaskedFirst, Freed

(* A core is woken with one access, or no access is made. *)
LEMMA WakeProgram ==
  ASSUME NEW c \in Cores, NEW fn
  PROVE  Program(<<Put(APB(WAKE_STATE), {c})>>, c, fn) /\ Program(<<>>, c, fn)
<1>1. Put(APB(WAKE_STATE), {c}) \in Inert(c)
  <2>1. {c} \in SUBSET (Cores \cup {"debug"})
    OBVIOUS
  <2>2. WAKE_STATE \in Int
    BY DEF WAKE_STATE
  <2> QED BY <2>1, <2>2, APBInert
<1> DEFINE x == Put(APB(WAKE_STATE), {c})
<1> HIDE DEF x
<1>2. <<x>> \in Seq(Inert(c)) /\ <<>> \in Seq(Inert(c))
  BY <1>1 DEF x
<1> QED BY <1>2, InertProgram DEF x

(* The part of runCPU's set-up that takes hold of the core, sets its       *)
(* program counter and lets it go.                                         *)
Go(c) ==
  <<Put(<<"tbr", c>>, "ram"), Put(<<"pc", c>>, "ram"), Others(c),
    Put(APB(WAKE_STATE), {c}), Clear(Ctrl(c), {"BW"}), Clear(Break, {c}),
    Set(Ctrl(c), {"PE"})>>

LEMMA GoProgram ==
  ASSUME NEW c \in Cores, NEW fn
  PROVE  /\ Program(Take(c) \o Go(c), c, fn) /\ Freed(Take(c) \o Go(c))
         /\ Take(c) \in Seq(Calls(c)) /\ Go(c) \in Seq(Calls(c))
<1> DEFINE s == Take(c) \o Go(c)
<1>1. /\ Take(c) \in Seq(Calls(c)) /\ Len(Take(c)) = 4
      /\ Take(c)[1] = Set(NoForce, {c}) /\ Take(c)[2] = Set(Ctrl(c), {"BW"})
      /\ Take(c)[3] = Set(Ctrl(c), {"HL"}) /\ Take(c)[4] = Set(Break, {c})
  <2>1. /\ Set(NoForce, {c}) \in Calls(c) /\ Set(Ctrl(c), {"BW"}) \in Calls(c)
        /\ Set(Ctrl(c), {"HL"}) \in Calls(c) /\ Set(Break, {c}) \in Calls(c)
    BY CallKinds, BitSets
  <2> QED BY <2>1 DEF Take
<1>2. Put(APB(WAKE_STATE), {c}) \in Inert(c)
  <2>1. {c} \in SUBSET (Cores \cup {"debug"}) /\ WAKE_STATE \in Int
    BY DEF WAKE_STATE
  <2> QED BY <2>1, APBInert
<1> DEFINE wake == Put(APB(WAKE_STATE), {c})
<1>3. /\ Go(c) \in Seq(Calls(c)) /\ Len(Go(c)) = 7
      /\ Go(c)[1] = Put(<<"tbr", c>>, "ram") /\ Go(c)[2] = Put(<<"pc", c>>, "ram")
      /\ Go(c)[3] = Others(c) /\ Go(c)[4] = wake
      /\ Go(c)[5] = Clear(Ctrl(c), {"BW"}) /\ Go(c)[6] = Clear(Break, {c})
      /\ Go(c)[7] = Set(Ctrl(c), {"PE"})
  <2>1. "ram" \in Target!Entries
    BY DEF Target!Entries
  <2>2. /\ Put(<<"tbr", c>>, "ram") \in Calls(c) /\ Put(<<"pc", c>>, "ram") \in Calls(c)
        /\ Others(c) \in Calls(c) /\ Clear(Ctrl(c), {"BW"}) \in Calls(c)
        /\ Clear(Break, {c}) \in Calls(c) /\ Set(Ctrl(c), {"PE"}) \in Calls(c)
    BY <2>1, CallKinds, OtherCall, BitSets
  <2>3. wake \in Calls(c)
    BY <1>2 DEF Inert
  <2>4. Go(c) = <<Put(<<"tbr", c>>, "ram"), Put(<<"pc", c>>, "ram"), Others(c),
                  wake, Clear(Ctrl(c), {"BW"}), Clear(Break, {c}), Set(Ctrl(c), {"PE"})>>
    BY DEF Go
  <2> HIDE DEF wake
  <2> QED BY <2>2, <2>3, <2>4
<1>4. Nothing(wake)
  BY <1>2 DEF Inert, Nothing
<1> HIDE DEF wake
<1> DEFINE a == Take(c)
           b == Go(c)
<1>14. /\ s \in Seq(Calls(c)) /\ Len(s) = 4 + 7
       /\ \A k \in 1..4 : s[k] = a[k]
       /\ \A k \in 1..7 : s[4 + k] = b[k]
  <2>1. a \in Seq(Calls(c)) /\ b \in Seq(Calls(c)) /\ Len(a) = 4 /\ Len(b) = 7 /\ s = a \o b
    BY <1>1, <1>3
  <2> HIDE DEF a, b, s
  <2>2. InARow(a, b, a \o b, Calls(c))
    BY <2>1, Joining
  <2> QED BY <2>1, <2>2 DEF InARow
<1> HIDE DEF s
<1>5. s \in Seq(Calls(c)) /\ Len(s) = 11
  BY <1>14
<1>6. /\ s[1] = Set(NoForce, {c}) /\ s[2] = Set(Ctrl(c), {"BW"})
      /\ s[3] = Set(Ctrl(c), {"HL"}) /\ s[4] = Set(Break, {c})
  BY <1>1, <1>14
<1>7. /\ s[5] = Put(<<"tbr", c>>, "ram") /\ s[6] = Put(<<"pc", c>>, "ram")
      /\ s[7] = Others(c) /\ s[8] = wake
      /\ s[9] = Clear(Ctrl(c), {"BW"}) /\ s[10] = Clear(Break, {c})
      /\ s[11] = Set(Ctrl(c), {"PE"})
  <2>1. /\ s[5] = b[1] /\ s[6] = b[2] /\ s[7] = b[3] /\ s[8] = b[4]
        /\ s[9] = b[5] /\ s[10] = b[6] /\ s[11] = b[7]
    <3> HIDE DEF b
    <3> QED BY <1>14
  <2> QED BY <1>3, <2>1
<1>8. \A k \in 1..11 : k \in {1, 2, 3, 4, 5, 6, 7, 8, 9, 10, 11}
  OBVIOUS
<1>9. \A k \in 1..11 : /\ Forces(s[k]) <=> k = 4
                       /\ Frees(s[k]) <=> k = 10
                       /\ Halts(s[k]) => k = 3
                       /\ Starts(s[k]) => k = 6
  <2>1. Nothing(s[1]) /\ Nothing(s[2])
    BY <1>6 DEF Nothing, Set, NoForce, Ctrl, Forces, Frees, Halts, Starts
  <2>2. ~Forces(s[3]) /\ ~Frees(s[3]) /\ ~Starts(s[3])
    BY <1>6 DEF Set, Ctrl, Forces, Frees, Starts
  <2>3. Forces(s[4]) /\ ~Frees(s[4]) /\ ~Halts(s[4]) /\ ~Starts(s[4])
    BY <1>6 DEF Set, Break, Forces, Frees, Halts, Starts
  <2>4. Nothing(s[5]) /\ ~Forces(s[6]) /\ ~Frees(s[6]) /\ ~Halts(s[6])
    <3>1. s[5].do = "put" /\ s[5].reg[1] = "tbr" /\ s[6].do = "put"
      BY <1>7 DEF Put
    <3> QED BY <3>1 DEF Nothing, Forces, Frees, Halts, Starts
  <2>5. Nothing(s[7]) /\ Nothing(s[8])
    BY <1>4, <1>7, OtherCall
  <2>6. Nothing(s[9])
    BY <1>7 DEF Nothing, Clear, Ctrl, Forces, Frees, Halts, Starts
  <2>7. Frees(s[10]) /\ ~Forces(s[10]) /\ ~Halts(s[10]) /\ ~Starts(s[10])
    BY <1>7 DEF Clear, Break, Forces, Frees, Halts, Starts
  <2>8. Nothing(s[11])
    BY <1>7 DEF Nothing, Set, Ctrl, Forces, Frees, Halts, Starts
  <2> QED BY <1>8, <2>1, <2>2, <2>3, <2>4, <2>5, <2>6, <2>7, <2>8 DEF Nothing
<1>10. Masks(s[1]) /\ LetsGo(s[11])
  BY <1>6, <1>7 DEF Masks, LetsGo, Set, NoForce, Ctrl
<1>11. Freed(s) /\ Forced(s)
  BY <1>5, <1>9 DEF Freed, Forced
<1>12. Planned(s, fn)
  BY <1>5, <1>9, <1>10 DEF Planned
<1>13. MaskedFirst(s, FALSE)
  BY <1>5, <1>9, <1>10 DEF MaskedFirst, NeedsMask
<1> QED BY <1>1, <1>3, <1>5, <1>11, <1>12, <1>13 DEF Program, s

(* The accesses that start the core: none of the others is looked at. *)
LEMMA ResumeInert ==
  ASSUME NEW c \in Cores
  PROVE  Resume \in Seq(Inert(c))
<1> DEFINE b == {"TE", "BE", "BW", "BS", "BZ", "PE"}
           x == Put(APB(UART0_START_ADDRESS + UART0_CTRL_REG), {"debug"})
           y == Put(Ctrl(0), b)
<1>1. x \in Inert(c)
  <2>1. UART0_START_ADDRESS + UART0_CTRL_REG \in Int /\ {"debug"} \in SUBSET (Cores \cup {"debug"})
    BY DEF UART0_START_ADDRESS, UART0_CTRL_REG
  <2> QED BY <2>1, APBInert
<1>2. y \in Inert(c)
  <2>1. b \in SUBSET Bits /\ "PE" \in b
    BY BitSets
  <2>2. y \in Calls(c)
    <3> HIDE DEF b
    <3> QED BY <2>1, CallKinds
  <2>3. y.do = "put" /\ y.reg[1] = "ctrl"
    BY DEF Put, Ctrl
  <2> HIDE DEF y
  <2> QED BY <2>2, <2>3 DEF Inert, Forces, Frees, Halts, Starts
<1>3. Resume = <<x, y>>
  BY DEF Resume
<1> HIDE DEF x, y
<1> QED BY <1>1, <1>2, <1>3

(* The set-up of runCPU, the first time and for the retry. *)
LEMMA PrepareProgram ==
  ASSUME NEW c \in Cores, NEW fn
  PROVE  Program(Prepare(c), c, fn) /\ Freed(Prepare(c))
<1> DEFINE s == Take(c) \o Go(c)
           t == s \o Resume
<1>1. Program(s, c, fn) /\ Freed(s)
  BY GoProgram
<1>2. Program(t, c, fn) /\ Freed(t)
  <2> HIDE DEF s
  <2> QED BY <1>1, ResumeInert, Suffixed
<1>3. /\ Reset(c) \in Seq(Calls(c))
      /\ \A k \in 1..Len(Reset(c)) :
           LET x == Reset(c)[k] IN ~Forces(x) /\ ~Frees(x) /\ ~Halts(x) /\ ~NeedsMask(x)
  BY ResetCalls
<1>4. Program(Reset(c) \o t, c, fn) /\ Freed(Reset(c) \o t)
  <2> HIDE DEF t
  <2> QED BY <1>2, <1>3, Prefixed
<1>5. Prepare(c) = Reset(c) \o t
  <2>1. Prepare(c) = ((Reset(c) \o Take(c)) \o Go(c)) \o Resume
    BY DEF Prepare, Go
  <2>2. /\ Reset(c) \in Seq(Calls(c)) /\ Take(c) \in Seq(Calls(c))
        /\ Go(c) \in Seq(Calls(c)) /\ Resume \in Seq(Calls(c))
    <3>1. Take(c) \in Seq(Calls(c)) /\ Go(c) \in Seq(Calls(c))
      BY GoProgram
    <3>2. Resume \in Seq(Calls(c))
      <4>1. Inert(c) \subseteq Calls(c)
        BY DEF Inert
      <4> QED BY <4>1, ResumeInert, SeqMonotonic
    <3> QED BY <1>3, <3>1, <3>2
  <2>3. (Reset(c) \o Take(c)) \o Go(c) = Reset(c) \o s /\ s \in Seq(Calls(c))
    BY <2>2, ConcatAssociative
  <2>4. (Reset(c) \o s) \o Resume = Reset(c) \o t
    <3> HIDE DEF s
    <3> QED BY <2>2, <2>3, ConcatAssociative, SMTT(30)
  <2> QED BY <2>1, <2>3, <2>4
<1> QED BY <1>4, <1>5

-----------------------------------------------------------------------------
(* The invariant *)

(* The masks as they will be when the parked write has taken effect. *)
BreakNow == IF parked.reg[1] = "break" THEN parked.val ELSE hw.break
MaskNow == IF parked.reg[1] = "noforce" THEN parked.val ELSE hw.noforce

(* What is still to be done makes up for what was done. *)
PlanOK ==
  /\ todo \in Seq(Calls(task.cpu))
  /\ Planned(todo, task.fn)
  /\ MaskedFirst(todo, task.cpu \in MaskNow)
  /\ pc # "calls" => todo = <<>>

(* What a read-modify-write has read is still what the register holds. *)
ReadOK ==
  read # NotRead =>
    /\ pc = "calls" /\ todo # <<>> /\ parked = NoWrite /\ Head(todo).do \in {"set", "clear"}
    /\ \E v : /\ read = <<v>>
              /\ Head(todo).reg[1] = "break" => v = hw.break
              /\ Head(todo).reg[1] = "noforce" => v = hw.noforce
              /\ Head(todo).reg[1] = "ctrl" =>
                   v \subseteq Bits /\ ("HL" \in v => hw.core[task.cpu].halt)

(* The parked write forces only the command's core, masked, and frees it   *)
(* when it is forced; a mask grows.                                        *)
ParkedOK ==
  /\ WriteOK(parked)
  /\ parked.reg[1] = "pc" /\ parked.val = "ram" => parked.reg[2] \in hw.noforce
  /\ parked.reg[1] = "noforce" => hw.noforce \subseteq parked.val
  /\ parked.reg[1] = "break" =>
       /\ todo # <<>> /\ parked.val \subseteq hw.noforce /\ parked.val \subseteq {task.cpu}
       /\ parked.val = {} => task.cpu \in hw.break

(* The core the command is about is forced from the access that forces it  *)
(* to the one that frees it; a core that runs a program is masked.         *)
HeldOK ==
  /\ BreakNow = IF Freed(todo) /\ ~Forced(todo) THEN {task.cpu} ELSE {}
  /\ hw.break \subseteq hw.noforce /\ hw.break \subseteq {task.cpu}
  /\ \A c \in Cores : hw.core[c].pc # "boot" => c \in hw.noforce

(* A core that is halted, or will be, is the command's, and will be let go. *)
HaltOK ==
  \A c \in Cores :
    hw.core[c].halt \/ (parked.reg = Ctrl(c) /\ "HL" \in parked.val) =>
      (c = task.cpu /\ LetGo(todo)) \/ (parked.reg = Ctrl(c) /\ "PE" \in parked.val)

(* From where run has freed its core on, debug mode means that it stopped. *)
Watched ==
  task.fn = "run" /\ parked.reg[1] # "break" /\ ~Freed(todo) =>
    (hw.core[task.cpu].mode = "debug" => task.cpu \in stopped)

StageOK ==
  /\ task = [fn |-> task.fn, cpu |-> task.cpu]
  /\ pc \in {"poll", "drain", "check", "trap", "tbr"} => task.fn = "run"
  /\ pc \in {"drain", "check", "trap", "tbr"} => parked = NoWrite
  /\ pc \in {"trap", "tbr"} => hw.core[task.cpu].mode = "debug"
  /\ pc = "tbr" => tt = hw.core[task.cpu].tt
  /\ pc = "probe" => task.cpu \in Activable

RunInv ==
  /\ UartInv /\ Len(hw.uart.fifo) <= FifoDepth
  /\ CoresOK(hw) /\ TypeOK
  /\ PlanOK /\ ReadOK /\ ParkedOK /\ HeldOK /\ HaltOK /\ Watched /\ StageOK

(* The target when the parked write has taken effect. *)
Settled(h) ==
  /\ Shape(h) /\ CoresOK(h) /\ h.uart.fifo = hw.uart.fifo
  /\ h.break = BreakNow /\ h.noforce = MaskNow /\ hw.noforce \subseteq h.noforce
  /\ h.break \subseteq h.noforce /\ h.break \subseteq {task.cpu}
  /\ \A c \in Cores :
       /\ h.core[c].pc # "boot" => c \in h.noforce
       /\ h.core[c].halt => c = task.cpu /\ LetGo(todo)
       /\ h.core[c].mode = "debug" => hw.core[c].mode = "debug" \/ c \in h.break
  /\ task.fn = "run" /\ ~Freed(todo) => (h.core[task.cpu].mode = "debug" => task.cpu \in stopped)

LEMMA HandOver ==
  ASSUME RunInv, NEW h \in HandedOver
  PROVE  Settled(h)
<1>1. Shape(hw) /\ CoresOK(hw) /\ WriteOK(parked) /\ task.cpu \in Cores
  BY DEF RunInv, UartInv, ParkedOK, TypeOK
<1>2. Effect(hw, parked, h) /\ Shape(h) /\ h.uart.fifo = hw.uart.fifo
  BY <1>1, WrittenEffect, WrittenKeeps DEF HandedOver
<1>3. h.break = BreakNow /\ h.noforce = MaskNow /\ CoresOK(h)
  BY <1>2 DEF Effect, BreakNow, MaskNow
<1>4. hw.noforce \subseteq h.noforce
  BY <1>3 DEF MaskNow, RunInv, ParkedOK
<1>5. h.break \subseteq h.noforce /\ h.break \subseteq {task.cpu}
  BY <1>3, <1>4 DEF BreakNow, RunInv, ParkedOK, HeldOK
<1>6. ASSUME NEW c \in Cores
      PROVE  /\ h.core[c].pc # "boot" => c \in h.noforce
             /\ h.core[c].halt => c = task.cpu /\ LetGo(todo)
             /\ h.core[c].mode = "debug" => hw.core[c].mode = "debug" \/ c \in h.break
  <2>1. h.core[c].pc # "boot" => c \in h.noforce
    <3>1. CASE h.core[c].pc = hw.core[c].pc
      BY <1>4, <3>1 DEF RunInv, HeldOK
    <3>2. CASE parked.reg[1] = "pc" /\ parked.reg[2] = c /\ h.core[c].pc = parked.val
      <4>1. parked.val \in {"boot", "ram"}
        BY <1>1, <3>2 DEF WriteOK, Quiet, Target!Entries
      <4> QED BY <1>4, <3>2, <4>1 DEF RunInv, ParkedOK
    <3> QED BY <1>2, <3>1, <3>2 DEF Effect
  <2>2. h.core[c].halt => c = task.cpu /\ LetGo(todo)
    <3> SUFFICES ASSUME h.core[c].halt PROVE c = task.cpu /\ LetGo(todo)
      OBVIOUS
    <3>1. ~(parked.reg[1] = "ctrl" /\ parked.reg[2] = c /\ "PE" \in parked.val)
      BY <1>2 DEF Effect
    <3>2. hw.core[c].halt \/ (parked.reg[1] = "ctrl" /\ parked.reg[2] = c /\ "HL" \in parked.val)
      BY <1>2 DEF Effect
    <3>3. parked.reg = Ctrl(c) => parked.reg[1] = "ctrl" /\ parked.reg[2] = c
      BY DEF Ctrl
    <3>4. parked.reg[1] = "ctrl" /\ parked.reg[2] = c => parked.reg = Ctrl(c)
      BY <1>1 DEF WriteOK, Quiet
    <3> QED BY <3>1, <3>2, <3>3, <3>4 DEF RunInv, HaltOK
  <2>3. h.core[c].mode = "debug" => hw.core[c].mode = "debug" \/ c \in h.break
    BY <1>2, <1>5 DEF Effect
  <2> QED BY <2>1, <2>2, <2>3
<1>7. task.fn = "run" /\ ~Freed(todo) => (h.core[task.cpu].mode = "debug" => task.cpu \in stopped)
  <2> SUFFICES ASSUME task.fn = "run", ~Freed(todo), h.core[task.cpu].mode = "debug"
               PROVE  task.cpu \in stopped
    OBVIOUS
  <2>1. BreakNow = {}
    BY DEF RunInv, HeldOK
  <2>2. CASE parked.reg[1] = "break"
    <3>1. parked.val = {} /\ task.cpu \in hw.break
      BY <2>1, <2>2 DEF BreakNow, RunInv, ParkedOK
    <3>2. h.core[task.cpu].mode # "debug"
      BY <1>1, <1>2, <1>5, <2>2, <3>1 DEF Effect
    <3> QED BY <3>2
  <2>3. CASE parked.reg[1] # "break"
    <3>1. hw.core[task.cpu].mode = "debug"
      BY <1>1, <1>3, <1>6, <2>1
    <3> QED BY <2>3, <3>1 DEF RunInv, Watched
  <2> QED BY <2>2, <2>3
<1> QED BY <1>2, <1>3, <1>4, <1>5, <1>6, <1>7 DEF Settled

(* Nothing is parked: nothing changes. *)
LEMMA NothingParked ==
  ASSUME NEW h \in HandedOver, parked = NoWrite
  PROVE  h = hw
  BY DEF HandedOver, Target!Written, NoWrite

-----------------------------------------------------------------------------
(* The start *)

LEMMA InitRun == Init => RunInv
<1> SUFFICES ASSUME Init PROVE RunInv
  OBVIOUS
<1>1. PICK mode \in {"running", "debug"} : hw = Target!PowerOn(mode)
  BY DEF Init
<1>2. 0 \in Cores
  BY NumCoresAssumption DEF Cores
<1>3. UartInv
  BY InitUart
<1>4. PICK f : f = [c \in Cores |-> IF c = 0 THEN Target!Core(mode, FALSE)
                                             ELSE Target!Core("running", TRUE)]
  OBVIOUS
<1>5. hw = [core |-> f, break |-> {}, noforce |-> {}, timers |-> {4},
            uart |-> [debug |-> FALSE, fifo |-> <<>>]]
  BY <1>1, <1>4 DEF Target!PowerOn, Cores, Target!Cores
<1>6. hw.core = f /\ hw.break = {} /\ hw.noforce = {} /\ hw.uart.fifo = <<>>
  BY <1>5
<1>7. \A m \in {"running", "debug"}, d \in BOOLEAN :
        /\ Target!Core(m, d) \in CoreRecord
        /\ ~Target!Core(m, d).halt /\ Target!Core(m, d).pc = "boot" /\ Target!Core(m, d).mode = m
  BY DEF Target!Core, CoreRecord, Modes, Target!Entries, Target!Traps
<1>8. \A c \in Cores : /\ f[c] \in CoreRecord /\ ~f[c].halt /\ f[c].pc = "boot"
                       /\ f[c].mode \in {"running", "debug"}
  BY <1>4, <1>7
<1>9. CoresOK(hw)
  BY <1>4, <1>6, <1>8 DEF CoresOK
<1>10. Len(hw.uart.fifo) <= FifoDepth
  <2>1. Len(<<>>) = 0
    OBVIOUS
  <2> QED BY <1>6, <2>1, BoundsAssumption
<1>11. /\ pc = "open" /\ task.fn = "none" /\ task.cpu = 0 /\ todo = <<>> /\ read = NotRead
       /\ parked = NoWrite /\ parked.reg[1] = "none" /\ base = "boot" /\ count = 0 /\ tt = "ok"
       /\ active_cpu = 0
  BY DEF Init, Idle, NoWrite
<1>12. TypeOK
  BY <1>2, <1>6, <1>8, <1>11, BoundsAssumption DEF TypeOK, Target!Traps, Target!Entries
<1>13. ~Forced(<<>>) /\ ~Freed(<<>>) /\ Planned(<<>>, task.fn) /\ \A m : MaskedFirst(<<>>, m)
  BY DEF Forced, Freed, Planned, MaskedFirst
<1>14. PlanOK
  BY <1>11, <1>13 DEF PlanOK
<1>15. ReadOK /\ ParkedOK /\ StageOK
  <2>1. task = [fn |-> task.fn, cpu |-> task.cpu]
    BY DEF Init, Idle
  <2> QED BY <1>11, <2>1 DEF ReadOK, ParkedOK, StageOK, WriteOK
<1>16. HeldOK /\ HaltOK /\ Watched
  <2>1. BreakNow = {}
    BY <1>6, <1>11 DEF BreakNow
  <2>2. \A c \in Cores : parked.reg # Ctrl(c)
    BY <1>11 DEF Ctrl
  <2> QED BY <1>6, <1>8, <1>11, <1>13, <2>1, <2>2 DEF HeldOK, HaltOK, Watched
<1> QED BY <1>3, <1>9, <1>10, <1>12, <1>14, <1>15, <1>16 DEF RunInv

-----------------------------------------------------------------------------
(* The steps *)

(* What an access can be. *)
CallIs(x, c) ==
  \/ x.do = "get base"
  \/ x.do = "put base" /\ x.reg[1] \in {"tbr", "pc"} /\ x.reg[2] = c
  \/ /\ x.do = "put" /\ x.reg[1] \in {"tbr", "pc"} /\ x.reg[2] = c
     /\ x.val \in Target!Entries
  \/ x.do = "put" /\ x.reg[1] \in Quiet
  \/ x.do = "put" /\ x.reg = Ctrl(0) /\ x.val \subseteq Bits /\ "PE" \in x.val
  \/ x.do \in {"set", "clear"} /\ x.reg = Ctrl(c) /\ x.val \subseteq Bits
  \/ x.do = "set" /\ x.reg = NoForce /\ x.val = {c}
  \/ x.do \in {"set", "clear"} /\ x.reg = Break /\ x.val = {c}

LEMMA CallCases ==
  ASSUME NEW c, NEW x \in Calls(c)
  PROVE  CallIs(x, c)
<1>1. CASE x = GetBase
  BY <1>1 DEF CallIs, GetBase
<1>2. ASSUME NEW r \in {<<"tbr", c>>, <<"pc", c>>}, x = PutBase(r) PROVE CallIs(x, c)
  <2>1. x.do = "put base" /\ x.reg = r
    BY <1>2 DEF PutBase
  <2>2. r[1] \in {"tbr", "pc"} /\ r[2] = c
    OBVIOUS
  <2> QED BY <2>1, <2>2 DEF CallIs
<1>3. ASSUME NEW r \in {<<"tbr", c>>, <<"pc", c>>}, NEW v \in Target!Entries, x = Put(r, v)
      PROVE  CallIs(x, c)
  <2>1. x.do = "put" /\ x.reg = r /\ x.val = v
    BY <1>3 DEF Put
  <2>2. r[1] \in {"tbr", "pc"} /\ r[2] = c
    OBVIOUS
  <2> QED BY <2>1, <2>2 DEF CallIs
<1>4. ASSUME x \in QuietCalls PROVE CallIs(x, c)
  <2>1. PICK r \in Quiet \X Int, v \in SUBSET (Cores \cup {"debug"}) : x = Put(r, v)
    BY <1>4 DEF QuietCalls
  <2>2. x.do = "put" /\ x.reg = r
    BY <2>1 DEF Put
  <2> QED BY <2>2 DEF CallIs
<1>5. ASSUME NEW v \in SUBSET Bits, "PE" \in v, x = Put(Ctrl(0), v) PROVE CallIs(x, c)
  <2>1. x.do = "put" /\ x.reg = Ctrl(0) /\ x.val = v
    BY <1>5 DEF Put
  <2> QED BY <1>5, <2>1 DEF CallIs
<1>6. ASSUME NEW v \in SUBSET Bits, x = Set(Ctrl(c), v) \/ x = Clear(Ctrl(c), v)
      PROVE  CallIs(x, c)
  <2>1. x.do \in {"set", "clear"} /\ x.reg = Ctrl(c) /\ x.val = v
    BY <1>6 DEF Set, Clear
  <2> QED BY <2>1 DEF CallIs
<1>7. ASSUME x \in {Set(NoForce, {c}), Set(Break, {c}), Clear(Break, {c})} PROVE CallIs(x, c)
  <2>1. CASE x = Set(NoForce, {c})
    <3>1. x.do = "set" /\ x.reg = NoForce /\ x.val = {c}
      BY <2>1 DEF Set
    <3> QED BY <3>1 DEF CallIs
  <2>2. CASE x = Set(Break, {c}) \/ x = Clear(Break, {c})
    <3>1. x.do \in {"set", "clear"} /\ x.reg = Break /\ x.val = {c}
      BY <2>2 DEF Set, Clear
    <3> QED BY <3>1 DEF CallIs
  <2> QED BY <1>7, <2>1, <2>2
<1>8. \/ x = GetBase
      \/ \E r \in {<<"tbr", c>>, <<"pc", c>>} : x = PutBase(r)
      \/ \E r \in {<<"tbr", c>>, <<"pc", c>>}, v \in Target!Entries : x = Put(r, v)
      \/ x \in QuietCalls
      \/ \E v \in SUBSET Bits : "PE" \in v /\ x = Put(Ctrl(0), v)
      \/ \E v \in SUBSET Bits : x = Set(Ctrl(c), v) \/ x = Clear(Ctrl(c), v)
      \/ x \in {Set(NoForce, {c}), Set(Break, {c}), Clear(Break, {c})}
  BY DEF Calls
<1> QED BY <1>1, <1>2, <1>3, <1>4, <1>5, <1>6, <1>7, <1>8

(* The parked write has taken effect, and nothing else changed that counts. *)
LEMMA Settles ==
  ASSUME RunInv, hw' \in HandedOver, parked' = NoWrite, UNCHANGED <<task, stopped>>,
         Freed(todo)' = Freed(todo), Forced(todo)' = Forced(todo), LetGo(todo)' = LetGo(todo),
         pc' \in {"drain", "check", "poll", "calls"}, pc \in {"calls", "poll", "probe"},
         pc # "calls" => pc' # "calls" \/ pc = "probe"
  PROVE  /\ Settled(hw') /\ CoresOK(hw)' /\ Len(hw'.uart.fifo) <= FifoDepth
         /\ ParkedOK' /\ HeldOK' /\ HaltOK' /\ Watched'
         /\ BreakNow' = BreakNow /\ MaskNow' = MaskNow
<1>1. Settled(hw')
  BY HandOver
<1>2. parked'.reg[1] = "none" /\ \A c : parked'.reg # Ctrl(c)
  BY DEF NoWrite, Ctrl
<1>3. CoresOK(hw)' /\ Len(hw'.uart.fifo) <= FifoDepth
  BY <1>1 DEF Settled, RunInv, CoresOK
<1>4. BreakNow' = BreakNow /\ MaskNow' = MaskNow
  BY <1>1, <1>2 DEF Settled, BreakNow, MaskNow
<1>5. ParkedOK'
  BY <1>2 DEF ParkedOK, WriteOK
<1>6. HeldOK'
  BY <1>1, <1>4 DEF RunInv, HeldOK, Settled
<1>7. HaltOK'
  BY <1>1, <1>2 DEF HaltOK, Settled
<1>8. Watched'
  BY <1>1, <1>2 DEF Watched, Settled
<1> QED BY <1>1, <1>3, <1>4, <1>5, <1>6, <1>7, <1>8

(* Between two commands no core is forced. *)
LEMMA NothingHeld ==
  ASSUME RunInv, todo = <<>>
  PROVE  /\ BreakNow = {} /\ hw.break = {} /\ parked.reg[1] # "break" /\ read = NotRead
         /\ \A c \in Cores : hw.core[c].halt \/ (parked.reg = Ctrl(c) /\ "HL" \in parked.val) =>
                               parked.reg = Ctrl(c) /\ "PE" \in parked.val
<1>1. ~Freed(todo) /\ ~Forced(todo) /\ ~LetGo(todo)
  BY DEF Freed, Forced, LetGo
<1>2. BreakNow = {} /\ parked.reg[1] # "break" /\ read = NotRead
  BY <1>1 DEF RunInv, HeldOK, ParkedOK, ReadOK
<1> QED BY <1>1, <1>2 DEF BreakNow, RunInv, HaltOK

(* A command begins, or goes on with a further row of accesses. *)
LEMMA Begins ==
  ASSUME RunInv, todo = <<>>, UNCHANGED <<hw, parked, read, stopped, made, shown, kept, count>>,
         UartInv', TypeOK', StageOK',
         Program(todo', task'.cpu, task'.fn), task'.fn = "run" => Freed(todo'),
         pc' # "calls" => todo' = <<>>
  PROVE  RunInv'
<1>1. /\ BreakNow = {} /\ hw.break = {} /\ parked.reg[1] # "break" /\ read = NotRead
      /\ \A c \in Cores : hw.core[c].halt \/ (parked.reg = Ctrl(c) /\ "HL" \in parked.val) =>
                            parked.reg = Ctrl(c) /\ "PE" \in parked.val
  BY NothingHeld
<1>2. PlanOK'
  BY DEF Program, PlanOK, MaskedFirst
<1>3. ReadOK' /\ ParkedOK'
  BY <1>1 DEF ReadOK, ParkedOK, RunInv
<1>4. HeldOK'
  BY <1>1 DEF HeldOK, BreakNow, Program, RunInv
<1>5. HaltOK'
  BY <1>1 DEF HaltOK
<1>6. Watched'
  BY DEF Watched
<1> QED BY <1>2, <1>3, <1>4, <1>5, <1>6 DEF RunInv, CoresOK

(* The access a command makes next. *)
LEMMA NextCall ==
  ASSUME RunInv, todo # <<>>
  PROVE  /\ NextOK(Head(todo), Tail(todo), todo, task.cpu, task.fn, task.cpu \in MaskNow)
         /\ CallIs(Head(todo), task.cpu)
<1>1. /\ todo \in Seq(Calls(task.cpu)) /\ Planned(todo, task.fn)
      /\ MaskedFirst(todo, task.cpu \in MaskNow)
  BY DEF RunInv, PlanOK
<1>2. NextOK(Head(todo), Tail(todo), todo, task.cpu, task.fn, task.cpu \in MaskNow)
  BY <1>1, TailPlanned, Zenon
<1>3. Head(todo) \in Calls(task.cpu)
  BY <1>2, Zenon DEF NextOK
<1> QED BY <1>2, <1>3, CallCases

(* A read-modify-write reads, or the base is read. *)
LEMMA ReadRegisterStep == RunInv /\ UartInv' /\ ReadRegister => RunInv'
<1> SUFFICES ASSUME RunInv, UartInv', ReadRegister PROVE RunInv'
  OBVIOUS
<1> DEFINE x == Head(todo)
<1>1. /\ pc = "calls" /\ todo # <<>> /\ read = NotRead /\ hw' \in HandedOver
      /\ parked' = NoWrite
      /\ UNCHANGED <<pc, task, stopped, count, tt, active_cpu>>
      /\ \/ /\ x.do \in {"set", "clear"} /\ read' = <<Target!Read(hw', x.reg)>>
            /\ UNCHANGED <<todo, base>>
         \/ /\ x.do = "get base" /\ base' = hw'.core[0].tbr /\ todo' = Tail(todo)
            /\ read' = read
  BY DEF ReadRegister, history
<1>2. /\ NextOK(x, Tail(todo), todo, task.cpu, task.fn, task.cpu \in MaskNow)
      /\ CallIs(x, task.cpu)
  BY <1>1, NextCall
<1>3. Settled(hw')
  BY <1>1, HandOver
<1>4. 0 \in Cores /\ task.cpu \in Cores
  BY NumCoresAssumption DEF Cores, RunInv, TypeOK
<1>5. ASSUME x.do \in {"set", "clear"}, read' = <<Target!Read(hw', x.reg)>>,
             UNCHANGED <<todo, base>>
      PROVE  RunInv'
  <2>1. /\ CoresOK(hw)' /\ Len(hw'.uart.fifo) <= FifoDepth
        /\ ParkedOK' /\ HeldOK' /\ HaltOK' /\ Watched'
        /\ BreakNow' = BreakNow /\ MaskNow' = MaskNow
    BY <1>1, <1>5, Settles
  <2>2. TypeOK'
    BY <1>1, <1>5, <2>1 DEF TypeOK, RunInv, CoresOK, CoreRecord, Modes
  <2>3. PlanOK'
    BY <1>1, <1>5, <2>1 DEF PlanOK, RunInv
  <2>4. StageOK'
    BY <1>1 DEF StageOK, RunInv
  <2>5. ReadOK'
    <3>2. PICK v : v = Target!Read(hw', x.reg)
      OBVIOUS
    <3>3. x.reg[1] = "break" => v = hw'.break
      BY <3>2 DEF Target!Read
    <3>4. x.reg[1] = "noforce" => v = hw'.noforce
      BY <3>2 DEF Target!Read
    <3>5. ASSUME x.reg[1] = "ctrl"
          PROVE  v \subseteq Bits /\ ("HL" \in v => hw'.core[task.cpu].halt)
      <4>1. x.reg = Ctrl(task.cpu)
        <5> HIDE DEF x
        <5>1. NoForce[1] # "ctrl" /\ Break[1] # "ctrl"
          BY DEF NoForce, Break
        <5> QED BY <1>2, <1>5, <3>5, <5>1 DEF CallIs
      <4>2. x.reg[2] = task.cpu
        BY <4>1 DEF Ctrl
      <4> DEFINE k == hw'.core[task.cpu]
      <4>3. v = k.flags \cup {s \in Target!Status : \/ s = "DM" /\ k.mode = "debug"
                                                    \/ s = "PE" /\ k.mode = "error"
                                                    \/ s = "HL" /\ k.halt}
        BY <3>2, <3>5, <4>2 DEF Target!Read
      <4>4. k.flags \subseteq Target!Flags
        BY <1>4, <2>1 DEF CoresOK, CoreRecord
      <4> HIDE DEF k
      <4>5. v \subseteq Bits
        BY <4>3, <4>4 DEF Bits
      <4>6. "HL" \in v => k.halt
        BY <4>3, <4>4 DEF Target!Flags
      <4> QED BY <4>5, <4>6 DEF k
    <3>6. read' = <<v>> /\ pc' = "calls" /\ todo' # <<>> /\ parked' = NoWrite /\ todo' = todo
      BY <1>1, <1>5, <3>2
    <3> HIDE DEF x
    <3>7. Head(todo') = x
      BY <3>6 DEF x
    <3>8. x.do \in {"set", "clear"}
      BY <1>5
    <3>9. /\ x.reg[1] = "break" => v = hw'.break
          /\ x.reg[1] = "noforce" => v = hw'.noforce
          /\ x.reg[1] = "ctrl" => v \subseteq Bits /\ ("HL" \in v => hw'.core[task'.cpu].halt)
      BY <1>1, <3>3, <3>4, <3>5
    <3> QED BY <3>6, <3>7, <3>8, <3>9, Zenon DEF ReadOK
  <2> QED BY <2>1, <2>2, <2>3, <2>4, <2>5 DEF RunInv
<1>6. ASSUME x.do = "get base", base' = hw'.core[0].tbr, todo' = Tail(todo), read' = read
      PROVE  RunInv'
  <2>1. ~Forces(x) /\ ~Frees(x) /\ ~Masks(x) /\ ~LetsGo(x)
    BY <1>6 DEF Forces, Frees, Masks, LetsGo
  <2>2. /\ Tail(todo) \in Seq(Calls(task.cpu)) /\ Planned(Tail(todo), task.fn)
        /\ MaskedFirst(Tail(todo), task.cpu \in MaskNow \/ Masks(x))
        /\ Forced(Tail(todo)) <=> Forced(todo)
        /\ Freed(Tail(todo)) <=> Freed(todo)
        /\ LetGo(Tail(todo)) <=> LetGo(todo)
    BY <1>2, <2>1, Zenon DEF NextOK
  <2>3. Freed(todo)' = Freed(todo) /\ Forced(todo)' = Forced(todo) /\ LetGo(todo)' = LetGo(todo)
    BY <1>6, <2>2 DEF Freed, Forced, LetGo
  <2>4. /\ CoresOK(hw)' /\ Len(hw'.uart.fifo) <= FifoDepth
        /\ ParkedOK' /\ HeldOK' /\ HaltOK' /\ Watched'
        /\ BreakNow' = BreakNow /\ MaskNow' = MaskNow
    BY <1>1, <2>3, Settles
  <2>5. base' \in Target!Entries
    BY <1>4, <1>6, <2>4 DEF CoresOK, CoreRecord
  <2>6. TypeOK'
    BY <1>1, <1>6, <2>4, <2>5 DEF TypeOK, RunInv, CoresOK, CoreRecord, Modes
  <2>7. MaskedFirst(Tail(todo), task.cpu \in MaskNow)
    BY <2>1, <2>2 DEF MaskedFirst
  <2>8. PlanOK'
    BY <1>1, <1>6, <2>2, <2>4, <2>7 DEF PlanOK
  <2>9. StageOK' /\ ReadOK'
    BY <1>1, <1>6 DEF StageOK, ReadOK, RunInv
  <2> QED BY <2>4, <2>6, <2>8, <2>9 DEF RunInv
<1> QED BY <1>1, <1>5, <1>6

(* The characters are counted. *)
LEMMA PollUartStep == RunInv /\ UartInv' /\ PollUart => RunInv'
<1> SUFFICES ASSUME RunInv, UartInv', PollUart PROVE RunInv'
  OBVIOUS
<1>1. /\ pc = "poll" /\ hw' \in HandedOver /\ parked' = NoWrite
      /\ count' = Len(hw'.uart.fifo) /\ pc' = IF count' > 0 THEN "drain" ELSE "check"
      /\ UNCHANGED <<task, todo, read, base, tt, active_cpu, stopped>>
  BY DEF PollUart, history
<1>2. /\ Settled(hw') /\ CoresOK(hw)' /\ Len(hw'.uart.fifo) <= FifoDepth
      /\ ParkedOK' /\ HeldOK' /\ HaltOK' /\ Watched'
      /\ BreakNow' = BreakNow /\ MaskNow' = MaskNow
  BY <1>1, Settles
<1>3. todo = <<>> /\ read = NotRead /\ task.fn = "run"
  BY <1>1 DEF RunInv, PlanOK, ReadOK, StageOK
<1>4. count' \in 0..FifoDepth
  <2>1. hw'.uart.fifo \in Seq(Int)
    BY <1>2 DEF Settled, Shape
  <2>2. Len(hw'.uart.fifo) \in Nat
    BY <2>1
  <2> QED BY <1>1, <1>2, <2>2, BoundsAssumption
<1>5. TypeOK'
  BY <1>1, <1>2, <1>3, <1>4, BoundsAssumption DEF TypeOK, RunInv, CoresOK, CoreRecord, Modes
<1>6. PlanOK' /\ ReadOK' /\ StageOK'
  BY <1>1, <1>2, <1>3 DEF PlanOK, ReadOK, StageOK, RunInv
<1> QED BY <1>2, <1>5, <1>6 DEF RunInv

(* A core is made active, and woken if it is powered down. *)
LEMMA ProbeStep == RunInv /\ UartInv' /\ Probe => RunInv'
<1> SUFFICES ASSUME RunInv, UartInv', Probe PROVE RunInv'
  OBVIOUS
<1> DEFINE wake == <<Put(APB(WAKE_STATE), {task.cpu})>>
<1>1. /\ pc = "probe" /\ hw' \in HandedOver /\ parked' = NoWrite
      /\ todo' \in {wake, <<>>} /\ active_cpu' = task.cpu /\ pc' = "calls"
      /\ UNCHANGED <<task, read, base, count, tt, stopped>>
  BY DEF Probe, history
<1>2. todo = <<>> /\ read = NotRead /\ task.cpu \in Cores /\ task.cpu \in Activable
  BY <1>1 DEF RunInv, PlanOK, ReadOK, TypeOK, StageOK
<1>3. Program(todo', task.cpu, task.fn)
  BY <1>1, <1>2, WakeProgram
<1>4. ~Freed(<<>>) /\ ~Forced(<<>>) /\ ~LetGo(<<>>)
  BY DEF Freed, Forced, LetGo
<1>5. ~Freed(todo') /\ ~Forced(todo')
  <2> DEFINE w == Put(APB(WAKE_STATE), {task.cpu})
  <2>1. w \in Inert(task.cpu)
    <3>1. {task.cpu} \in SUBSET (Cores \cup {"debug"})
      BY <1>2
    <3>2. WAKE_STATE \in Int
      BY DEF WAKE_STATE
    <3> QED BY <1>2, <3>1, <3>2, APBInert
  <2>2. ~Forces(w) /\ ~Frees(w)
    BY <2>1 DEF Inert
  <2> HIDE DEF w
  <2>3. ~Freed(<<w>>) /\ ~Forced(<<w>>)
    BY <2>2 DEF Freed, Forced
  <2> QED BY <1>1, <1>4, <2>3 DEF w
<1>6. Settled(hw')
  BY <1>1, HandOver
<1>7. /\ BreakNow = {} /\ hw'.break = {} /\ parked'.reg[1] = "none"
      /\ \A c : parked'.reg # Ctrl(c)
  BY <1>1, <1>2, <1>6, NothingHeld DEF Settled, NoWrite, Ctrl
<1>8. CoresOK(hw)' /\ Len(hw'.uart.fifo) <= FifoDepth
  BY <1>6 DEF Settled, RunInv, CoresOK
<1>9. TypeOK'
  BY <1>1, <1>2, <1>8 DEF TypeOK, RunInv, CoresOK, CoreRecord, Modes
<1>10. PlanOK'
  BY <1>1, <1>3 DEF PlanOK, Program, MaskedFirst
<1>11. ReadOK' /\ ParkedOK' /\ StageOK'
  BY <1>1, <1>2, <1>7 DEF ReadOK, ParkedOK, StageOK, RunInv, WriteOK
<1>12. HeldOK'
  BY <1>1, <1>5, <1>6, <1>7 DEF HeldOK, BreakNow, Settled
<1>13. HaltOK'
  BY <1>1, <1>2, <1>4, <1>6, <1>7 DEF HaltOK, Settled
<1>14. Watched'
  BY <1>1, <1>2, <1>4, <1>6 DEF Watched, Settled
<1> QED BY <1>8, <1>9, <1>10, <1>11, <1>12, <1>13, <1>14 DEF RunInv

-----------------------------------------------------------------------------
(* An access that writes *)

(* The write of access x, of v, becomes the parked one. *)
NewWrite(x, c, v) ==
  \/ /\ x.do \in {"put", "put base"} /\ x.reg[1] \in {"tbr", "pc"} /\ x.reg[2] = c
     /\ v \in Target!Entries /\ (x.do = "put" => v = x.val)
  \/ x.do = "put" /\ x.reg[1] \in Quiet
  \/ x.do = "put" /\ x.reg = Ctrl(0) /\ v \subseteq Bits /\ "PE" \in v
  \/ /\ x.do \in {"set", "clear"} /\ x.reg = Ctrl(c) /\ v \subseteq Bits
     /\ "HL" \in v => Halts(x) \/ hw.core[c].halt
     /\ LetsGo(x) => "PE" \in v
  \/ x.do = "set" /\ x.reg[1] = "noforce" /\ v = hw.noforce \cup {c}
  \/ x.do = "set" /\ x.reg[1] = "break" /\ v = hw.break \cup {c}
  \/ x.do = "clear" /\ x.reg[1] = "break" /\ v = hw.break \ {c}

WriteBegins(x, v) ==
  /\ pc = "calls" /\ todo # <<>> /\ pc' = pc /\ todo' = Tail(todo) /\ read' = NotRead
  /\ hw' \in HandedOver
  /\ parked' = [reg |-> x.reg, val |-> v] /\ parked'.reg = x.reg /\ parked'.val = v
  /\ stopped' = IF x.reg[1] = "pc" THEN stopped \ {x.reg[2]} ELSE stopped
  /\ UNCHANGED <<task, count, tt, active_cpu, base>>
  /\ NewWrite(x, task.cpu, v)
  /\ x.do \in {"set", "clear"} => hw' = hw /\ parked = NoWrite

(* What was read, if anything was. *)
LEMMA RangeOfRead == Range(<<>>) = {} /\ \A u : Range(<<u>>) = {u}
<1>1. Range(<<>>) = {}
  <2>1. DOMAIN <<>> = 1..0 /\ 1..0 = {}
    OBVIOUS
  <2> QED BY <2>1 DEF Range
<1>2. ASSUME NEW u PROVE Range(<<u>>) = {u}
  <2> DEFINE f == <<u>>
  <2>1. DOMAIN f = {1} /\ f[1] = u
    OBVIOUS
  <2> HIDE DEF f
  <2>2. Range(f) = {u}
    BY <2>1 DEF Range
  <2> QED BY <2>2 DEF f
<1> QED BY <1>1, <1>2

LEMMA WriteRegisterBegins ==
  ASSUME RunInv, WriteRegister
  PROVE  \E v : WriteBegins(Head(todo), v)
<1> DEFINE x == Head(todo)
           val == CASE x.do = "put" -> {x.val}
                    [] x.do = "put base" -> {base}
                    [] x.do = "set" -> {r \cup x.val : r \in Range(read)}
                    [] x.do = "clear" -> {r \ x.val : r \in Range(read)}
                    [] OTHER -> {}
<1>1. /\ pc = "calls" /\ todo # <<>> /\ pc' = pc /\ todo' = Tail(todo) /\ read' = NotRead
      /\ hw' \in HandedOver
      /\ \E v \in val : parked' = [reg |-> x.reg, val |-> v]
      /\ stopped' = IF x.reg[1] = "pc" THEN stopped \ {x.reg[2]} ELSE stopped
      /\ UNCHANGED <<task, count, tt, active_cpu, base>>
  BY DEF WriteRegister
<1>2. PICK v \in val : parked' = [reg |-> x.reg, val |-> v]
  BY <1>1
<1>3. parked'.reg = x.reg /\ parked'.val = v
  BY <1>2
<1>4. CallIs(x, task.cpu)
  BY <1>1, NextCall
<1>5. base \in Target!Entries
  BY DEF RunInv, TypeOK
<1>6. NewWrite(x, task.cpu, v) /\ (x.do \in {"set", "clear"} => hw' = hw /\ parked = NoWrite)
  <2>1. CASE x.do = "put"
    <3>1. v = x.val
      BY <1>2, <2>1
    <3> HIDE DEF x
    <3> QED BY <1>4, <2>1, <3>1 DEF CallIs, NewWrite
  <2>2. CASE x.do = "put base"
    <3>1. v = base
      BY <1>2, <2>2
    <3> HIDE DEF x
    <3> QED BY <1>4, <1>5, <2>2, <3>1 DEF CallIs, NewWrite
  <2>3. CASE x.do \in {"set", "clear"}
    <3>1. PICK r \in Range(read) : /\ x.do = "set" => v = r \cup x.val
                                   /\ x.do = "clear" => v = r \ x.val
      BY <1>2, <2>3
    <3>2. read # NotRead
      <4>1. Range(<<>>) = {}
        BY RangeOfRead
      <4> QED BY <3>1, <4>1 DEF NotRead
    <3>3. /\ parked = NoWrite
          /\ \E u : /\ read = <<u>>
                    /\ x.reg[1] = "break" => u = hw.break
                    /\ x.reg[1] = "noforce" => u = hw.noforce
                    /\ x.reg[1] = "ctrl" => u \subseteq Bits /\ ("HL" \in u => hw.core[task.cpu].halt)
      BY <3>2 DEF RunInv, ReadOK
    <3>4. \A u : Range(<<u>>) = {u}
      BY RangeOfRead
    <3>5. /\ x.reg[1] = "break" => r = hw.break
          /\ x.reg[1] = "noforce" => r = hw.noforce
          /\ x.reg[1] = "ctrl" => r \subseteq Bits /\ ("HL" \in r => hw.core[task.cpu].halt)
      <4>1. PICK u : /\ read = <<u>>
                     /\ x.reg[1] = "break" => u = hw.break
                     /\ x.reg[1] = "noforce" => u = hw.noforce
                     /\ x.reg[1] = "ctrl" =>
                          u \subseteq Bits /\ ("HL" \in u => hw.core[task.cpu].halt)
        BY <3>3
      <4>2. r = u
        BY <3>1, <3>4, <4>1
      <4> HIDE DEF x
      <4> QED BY <4>1, <4>2, Zenon
    <3>6. hw' = hw
      BY <1>1, <3>3, NothingParked
    <3>7. Ctrl(task.cpu)[1] = "ctrl" /\ NoForce[1] = "noforce" /\ Break[1] = "break"
      BY DEF Ctrl, NoForce, Break
    <3> HIDE DEF x
    <3>8. CASE x.reg = Ctrl(task.cpu) /\ x.val \subseteq Bits
      <4>1. v \subseteq Bits
        BY <2>3, <3>1, <3>5, <3>7, <3>8
      <4>2. "HL" \in v => Halts(x) \/ hw.core[task.cpu].halt
        BY <2>3, <3>1, <3>5, <3>7, <3>8 DEF Halts
      <4>3. LetsGo(x) => "PE" \in v
        BY <3>1 DEF LetsGo
      <4> QED BY <2>3, <3>3, <3>6, <3>8, <4>1, <4>2, <4>3 DEF NewWrite
    <3>9. CASE x.do = "set" /\ x.reg = NoForce /\ x.val = {task.cpu}
      BY <3>1, <3>3, <3>5, <3>6, <3>7, <3>9 DEF NewWrite
    <3>10. CASE x.reg = Break /\ x.val = {task.cpu}
      BY <2>3, <3>1, <3>3, <3>5, <3>6, <3>7, <3>10 DEF NewWrite
    <3> QED BY <1>4, <2>3, <3>8, <3>9, <3>10 DEF CallIs
  <2>4. CASE x.do \notin {"put", "put base", "set", "clear"}
    <3>1. val = {}
      BY <2>4
    <3> QED BY <1>2, <3>1
  <2> QED BY <2>1, <2>2, <2>3, <2>4
<1> HIDE DEF x, val
<1>7. WriteBegins(x, v)
  BY <1>1, <1>2, <1>3, <1>6 DEF WriteBegins
<1> QED BY <1>7 DEF x

(* An access writes: the write before it takes effect, its own is parked. *)
LEMMA WriteRegisterStep == RunInv /\ UartInv' /\ WriteRegister => RunInv'
<1> SUFFICES ASSUME RunInv, UartInv', WriteRegister PROVE RunInv'
  OBVIOUS
<1>1. PICK x, v : x = Head(todo) /\ WriteBegins(x, v)
  BY WriteRegisterBegins
<1>2. PICK c : c = task.cpu
  OBVIOUS
<1>3. PICK t : t = Tail(todo)
  OBVIOUS
<1>4. /\ pc = "calls" /\ todo # <<>> /\ pc' = pc /\ todo' = t /\ read' = NotRead
      /\ hw' \in HandedOver /\ parked'.reg = x.reg /\ parked'.val = v
      /\ stopped' = IF x.reg[1] = "pc" THEN stopped \ {x.reg[2]} ELSE stopped
      /\ UNCHANGED <<task, count, tt, active_cpu, base>>
      /\ NewWrite(x, c, v)
      /\ x.do \in {"set", "clear"} => hw' = hw /\ parked = NoWrite
  BY <1>1, <1>2, <1>3 DEF WriteBegins
<1>5. NextOK(x, t, todo, c, task.fn, c \in MaskNow)
  BY <1>1, <1>2, <1>3, <1>4, NextCall
<1>6. /\ Settled(hw') /\ c \in Cores /\ 0 \in Cores
  BY <1>2, <1>4, HandOver, NumCoresAssumption DEF RunInv, TypeOK, Cores
<1>7. /\ CoresOK(hw') /\ hw'.break = BreakNow /\ hw'.noforce = MaskNow
      /\ hw'.uart.fifo = hw.uart.fifo
      /\ hw'.break \subseteq hw'.noforce /\ hw'.break \subseteq {c}
      /\ \A d \in Cores : /\ hw'.core[d].pc # "boot" => d \in hw'.noforce
                          /\ hw'.core[d].halt => d = c /\ LetGo(todo)
      /\ task.fn = "run" /\ ~Freed(todo) => (hw'.core[c].mode = "debug" => c \in stopped)
  BY <1>2, <1>6 DEF Settled
<1>8. CoresOK(hw)' /\ Len(hw'.uart.fifo) <= FifoDepth
  BY <1>7 DEF RunInv, CoresOK
<1>9. /\ \A d : Ctrl(d)[1] = "ctrl" /\ Ctrl(d)[2] = d /\ (\A e : Ctrl(d) = Ctrl(e) => d = e)
      /\ NoForce[1] = "noforce" /\ Break[1] = "break"
      /\ "pc" \notin Quiet /\ "break" \notin Quiet /\ "noforce" \notin Quiet /\ "ctrl" \notin Quiet
      /\ "tbr" \notin Quiet
  <2>1. \A d : Ctrl(d)[1] = "ctrl" /\ Ctrl(d)[2] = d
    BY DEF Ctrl
  <2> QED BY <2>1 DEF NoForce, Break, Quiet
<1>10. /\ x.reg[1] = "break" <=> Forces(x) \/ Frees(x)
       /\ x.reg[1] = "noforce" <=> Masks(x)
       /\ Forces(x) => v = hw.break \cup {c}
       /\ Frees(x) => v = hw.break \ {c}
       /\ Masks(x) => v = hw.noforce \cup {c}
       /\ Forces(x) \/ Frees(x) \/ Masks(x) => x.do \in {"set", "clear"}
       /\ ~(Forces(x) /\ Frees(x))
  BY <1>4, <1>9 DEF NewWrite, Forces, Frees, Masks
<1>11. x.do \in {"set", "clear"} => BreakNow = hw.break /\ MaskNow = hw.noforce
  BY <1>4 DEF BreakNow, MaskNow, NoWrite
<1>12. /\ BreakNow' = IF Forces(x) \/ Frees(x) THEN v ELSE BreakNow
       /\ MaskNow' = IF Masks(x) THEN v ELSE MaskNow
  BY <1>4, <1>7, <1>10 DEF BreakNow, MaskNow
<1>13. /\ t \in Seq(Calls(c)) /\ Planned(t, task.fn)
       /\ MaskedFirst(t, c \in MaskNow \/ Masks(x))
       /\ Forces(x) => Freed(t) /\ ~Forced(t)
       /\ Frees(x) => t # <<>> /\ ~Forced(t) /\ ~Freed(t)
       /\ Halts(x) => LetGo(t)
       /\ Starts(x) /\ task.fn = "run" => Freed(t)
       /\ NeedsMask(x) => c \in MaskNow
       /\ ~Forces(x) => (Forced(t) <=> Forced(todo))
       /\ ~Frees(x) => (Freed(t) <=> Freed(todo))
       /\ ~LetsGo(x) => (LetGo(t) <=> LetGo(todo))
  BY <1>5, Zenon DEF NextOK
<1>14. PlanOK'
  <2>1. (c \in MaskNow \/ Masks(x)) => c \in MaskNow'
    BY <1>10, <1>12
  <2>2. MaskedFirst(t, c \in MaskNow')
    BY <1>13, <2>1 DEF MaskedFirst
  <2> QED BY <1>2, <1>4, <1>13, <2>2, Zenon DEF PlanOK
<1>15. Frees(x) => BreakNow = {c}
  <2>1. Frees(x) => Freed(todo)
    <3>1. todo \in Seq(Calls(c)) /\ Len(todo) >= 1 /\ x = todo[1]
      BY <1>1, <1>2, <1>4 DEF RunInv, PlanOK
    <3> QED BY <3>1 DEF Freed
  <2> QED BY <1>2, <1>10, <1>13, <2>1 DEF RunInv, HeldOK
<1>16. ParkedOK'
  <2>1. WriteOK(parked')
    <3>1. CASE x.reg = Ctrl(0) \/ x.reg = Ctrl(c)
      <4>1. v \subseteq Bits
        BY <1>4, <1>9, <3>1 DEF NewWrite
      <4> QED BY <1>4, <1>6, <1>9, <3>1, <4>1 DEF WriteOK
    <3>2. CASE x.reg[1] \in {"tbr", "pc"}
      <4>1. v \in Target!Entries /\ x.reg[2] = c
        BY <1>4, <1>9, <3>2 DEF NewWrite, Quiet
      <4> QED BY <1>4, <1>6, <3>2, <4>1 DEF WriteOK
    <3>3. CASE x.reg[1] \in Quiet
      BY <1>4, <3>3 DEF WriteOK
    <3>4. CASE Forces(x) \/ Frees(x) \/ Masks(x)
      <4>1. v \subseteq Cores /\ x.reg[1] \in {"noforce", "break"}
        BY <1>6, <1>10, <3>4 DEF RunInv, CoresOK
      <4> QED BY <1>4, <4>1 DEF WriteOK
    <3> QED BY <1>4, <1>9, <3>1, <3>2, <3>3, <3>4 DEF NewWrite, Forces, Frees, Masks
  <2>2. x.reg[1] = "pc" /\ v = "ram" => x.reg[2] \in hw'.noforce
    <3> SUFFICES ASSUME x.reg[1] = "pc", v = "ram" PROVE x.reg[2] \in hw'.noforce
      OBVIOUS
    <3>1. /\ x.do \in {"put", "put base"} /\ x.reg[2] = c
          /\ x.do = "put" => v = x.val
      BY <1>4, <1>9 DEF NewWrite
    <3>2. NeedsMask(x)
      BY <3>1 DEF NeedsMask, Starts
    <3> QED BY <1>7, <1>13, <3>1, <3>2
  <2>3. x.reg[1] = "noforce" => hw'.noforce \subseteq v
    BY <1>4, <1>10
  <2>4. ASSUME x.reg[1] = "break"
        PROVE  /\ t # <<>> /\ v \subseteq hw'.noforce /\ v \subseteq {c}
               /\ v = {} => c \in hw'.break
    <3>1. Freed(t) => t # <<>>
      BY DEF Freed
    <3>2. Forces(x) => c \in hw'.noforce
      BY <1>7, <1>13 DEF NeedsMask
    <3> QED BY <1>4, <1>7, <1>10, <1>11, <1>13, <1>15, <2>4, <3>1, <3>2
  <2> QED BY <1>2, <1>4, <2>1, <2>2, <2>3, <2>4 DEF ParkedOK
<1>17. HeldOK'
  <2>1. BreakNow' = IF Freed(t) /\ ~Forced(t) THEN {c} ELSE {}
    <3>1. CASE Forces(x)
      BY <1>4, <1>7, <1>10, <1>11, <1>12, <1>13, <3>1
    <3>2. CASE Frees(x)
      BY <1>10, <1>11, <1>12, <1>13, <1>15, <3>2
    <3>3. CASE ~Forces(x) /\ ~Frees(x)
      BY <1>2, <1>12, <1>13, <3>3 DEF RunInv, HeldOK
    <3> QED BY <3>1, <3>2, <3>3
  <2> QED BY <1>2, <1>4, <1>7, <2>1 DEF HeldOK
<1>18. HaltOK'
  <2>1. ASSUME NEW d \in Cores, hw'.core[d].halt \/ (x.reg = Ctrl(d) /\ "HL" \in v)
        PROVE  (d = c /\ LetGo(t)) \/ (x.reg = Ctrl(d) /\ "PE" \in v)
    <3>1. LetsGo(x) => x.reg = Ctrl(c) /\ "PE" \in v
      BY <1>4, <1>9 DEF NewWrite, LetsGo
    <3>2. CASE hw'.core[d].halt
      BY <1>7, <1>13, <3>1, <3>2
    <3>3. CASE x.reg = Ctrl(d) /\ "HL" \in v
      <4>1. "PE" \in v \/ (d = c /\ (Halts(x) \/ hw.core[c].halt) /\ hw' = hw)
        BY <1>4, <1>9, <3>3 DEF NewWrite
      <4>2. hw' = hw /\ hw.core[c].halt => LetGo(todo)
        BY <1>6, <1>7
      <4> QED BY <1>13, <3>1, <3>3, <4>1, <4>2
    <3> QED BY <2>1, <3>2, <3>3
  <2> QED BY <1>2, <1>4, <2>1 DEF HaltOK
<1>19. Watched'
  <2> SUFFICES ASSUME task.fn = "run", x.reg[1] # "break", ~Freed(t), hw'.core[c].mode = "debug"
               PROVE  c \in stopped'
    BY <1>2, <1>4 DEF Watched
  <2>1. ~Freed(todo)
    BY <1>10, <1>13
  <2>2. x.reg[1] = "pc" => Starts(x)
    BY <1>4, <1>9 DEF NewWrite, Starts
  <2> QED BY <1>4, <1>7, <1>13, <2>1, <2>2
<1>20. TypeOK'
  BY <1>4, <1>8 DEF TypeOK, RunInv, CoresOK, CoreRecord, Modes
<1>21. ReadOK' /\ StageOK'
  BY <1>4 DEF ReadOK, StageOK, RunInv
<1> QED BY <1>8, <1>14, <1>16, <1>17, <1>18, <1>19, <1>20, <1>21 DEF RunInv

-----------------------------------------------------------------------------
(* The commands, the loop of runCPU, the steps of the cores *)

(* A turn of the loop over the other cores begins. *)
LEMMA IdleNextCoreStep == RunInv /\ UartInv' /\ IdleNextCore => RunInv'
<1> SUFFICES ASSUME RunInv, UartInv', IdleNextCore PROVE RunInv'
  OBVIOUS
<1> DEFINE c == task.cpu + 1
<1>1. /\ pc = "calls" /\ todo = <<>> /\ task.fn = "open" /\ task.cpu < NumCores - 1
      /\ task' = [task EXCEPT !.cpu = c] /\ todo' = SetIdle(task'.cpu)
      /\ UNCHANGED <<pc, read, parked, base, count, tt, active_cpu, hw>>
      /\ UNCHANGED <<made, shown, kept, stopped>>
  BY DEF IdleNextCore, MoreToIdle, history
<1>2. task.cpu \in 0..NumCores - 1 /\ read = NotRead /\ TypeOK /\ StageOK
  BY <1>1, NothingHeld DEF RunInv, TypeOK, Cores
<1>3. c \in Cores
  BY <1>1, <1>2, NumCoresAssumption DEF Cores
<1>4. task'.fn = "open" /\ task'.cpu = c
  <2>1. task = [fn |-> task.fn, cpu |-> task.cpu]
    BY DEF RunInv, StageOK
  <2> HIDE DEF c
  <2>2. task' = [fn |-> task.fn, cpu |-> c]
    BY <1>1, <2>1
  <2> QED BY <1>1, <2>2
<1>5. Program(todo', task'.cpu, task'.fn)
  <2> HIDE DEF c
  <2> QED BY <1>1, <1>3, <1>4, SetIdleProgram
<1>6. TypeOK'
  BY <1>1, <1>2, <1>3, <1>4 DEF TypeOK
<1>7. StageOK'
  <2>1. task' = [fn |-> task'.fn, cpu |-> task'.cpu]
    BY <1>1, <1>2 DEF StageOK
  <2> QED BY <1>1, <2>1 DEF StageOK
<1> QED BY <1>1, <1>4, <1>5, <1>6, <1>7, Begins

(* The last access of a command has been made. *)
LEMMA CallsDoneStep == RunInv /\ UartInv' /\ CallsDone => RunInv'
<1> SUFFICES ASSUME RunInv, UartInv', CallsDone PROVE RunInv'
  OBVIOUS
<1>1. /\ pc = "calls" /\ todo = <<>>
      /\ IF task.fn = "run" THEN pc' = "poll" /\ task' = task ELSE pc' = "idle" /\ task' = Idle
      /\ UNCHANGED <<todo, read, parked, base, count, tt, active_cpu, hw>>
      /\ UNCHANGED <<made, shown, kept, stopped>>
  BY DEF CallsDone, history
<1>2. read = NotRead
  BY <1>1, NothingHeld
<1>3. 0 \in Cores /\ Idle.cpu = 0 /\ Idle.fn = "none"
  BY NumCoresAssumption DEF Cores, Idle
<1>4. task'.cpu \in Cores /\ (task'.fn = "run" => pc' = "poll")
  BY <1>1, <1>3 DEF RunInv, TypeOK
<1>5. TypeOK'
  BY <1>1, <1>2, <1>4 DEF RunInv, TypeOK
<1>6. StageOK'
  <2>1. task' = [fn |-> task'.fn, cpu |-> task'.cpu]
    BY <1>1 DEF StageOK, RunInv, Idle
  <2> QED BY <1>1, <1>4, <2>1 DEF StageOK
<1>7. CASE task.fn = "run"
  BY <1>1, <1>2, <1>5, <1>6, <1>7
     DEF RunInv, PlanOK, ReadOK, ParkedOK, HeldOK, HaltOK, Watched, BreakNow, MaskNow, CoresOK
<1>8. CASE task.fn # "run"
  <2>1. Program(todo', task'.cpu, task'.fn)
    BY <1>1, <1>4, WakeProgram
  <2>2. task'.fn # "run"
    BY <1>1, <1>3, <1>8
  <2> QED BY <1>1, <1>2, <1>5, <1>6, <2>1, <2>2, Begins
<1> QED BY <1>7, <1>8

(* The device has been opened; a command of the user begins. *)
LEMMA CommandStep == RunInv /\ UartInv' /\ (Open \/ User) => RunInv'
<1> SUFFICES ASSUME RunInv, UartInv', Open \/ User PROVE RunInv'
  OBVIOUS
<1>1. /\ pc \in {"open", "idle"}
      /\ UNCHANGED <<read, parked, base, count, tt, active_cpu, hw>>
      /\ UNCHANGED <<made, shown, kept, stopped>>
  BY DEF Open, User, cli_run, Direct, Activate, Command, history
<1>2. todo = <<>> /\ read = NotRead
  BY <1>1, NothingHeld DEF RunInv, PlanOK
<1>3. 0 \in Cores /\ active_cpu \in Cores /\ Activable \subseteq Cores
  BY NumCoresAssumption, ActivableAssumption DEF Cores, RunInv, TypeOK
<1> DEFINE Begun(c, fn, next, calls) ==
             /\ task' = [fn |-> fn, cpu |-> c] /\ todo' = calls /\ pc' = next
<1>4. ASSUME NEW c \in Cores, NEW fn, NEW next, NEW calls, Begun(c, fn, next, calls),
             Program(calls, c, fn), fn = "run" => Freed(calls),
             next = "calls" \/ (next = "probe" /\ calls = <<>> /\ c \in Activable)
      PROVE  RunInv'
  <2>1. /\ task'.cpu = c /\ task'.fn = fn /\ todo' = calls /\ pc' = next
        /\ next \in {"calls", "probe"}
    BY <1>4
  <2>2. TypeOK'
    BY <1>1, <1>2, <2>1 DEF RunInv, TypeOK
  <2>3. StageOK'
    BY <1>4, <2>1 DEF StageOK
  <2> QED BY <1>1, <1>2, <1>4, <2>1, <2>2, <2>3, Begins
<1>5. CASE Open
  <2>1. Begun(0, "open", "calls", init_core_1 \o <<GetBase>>)
    BY <1>5 DEF Open
  <2> HIDE DEF Begun
  <2> QED BY <1>3, <1>4, <2>1, OpenProgram
<1>6. CASE cli_run
  <2>1. Begun(active_cpu, "run", "calls", Prepare(active_cpu))
    BY <1>6 DEF cli_run, Command
  <2> HIDE DEF Begun
  <2> QED BY <1>3, <1>4, <2>1, PrepareProgram
<1>7. CASE Direct
  <2>1. \/ Begun(0, "reset", "calls", Reset(0))
        \/ \E c \in Cores : \/ Begun(c, "enable", "calls", <<Put(APB(WAKE_STATE), {c})>>)
                            \/ Begun(c, "disable", "calls", <<GetBase>> \o SetIdle(c))
    BY <1>7 DEF Direct, Command
  <2> HIDE DEF Begun
  <2>2. CASE Begun(0, "reset", "calls", Reset(0))
    BY <1>3, <1>4, <2>2, ResetProgram
  <2>3. ASSUME NEW c \in Cores, Begun(c, "enable", "calls", <<Put(APB(WAKE_STATE), {c})>>)
        PROVE  RunInv'
    BY <1>4, <2>3, WakeProgram
  <2>4. ASSUME NEW c \in Cores, Begun(c, "disable", "calls", <<GetBase>> \o SetIdle(c))
        PROVE  RunInv'
    BY <1>4, <2>4, SetIdleProgram
  <2> QED BY <2>1, <2>2, <2>3, <2>4
<1>8. CASE Activate
  <2>1. PICK c \in Activable : Begun(c, "active", "probe", <<>>)
    BY <1>8 DEF Activate, Command
  <2> HIDE DEF Begun
  <2> QED BY <1>3, <1>4, <2>1, WakeProgram
<1> QED BY <1>5, <1>6, <1>7, <1>8 DEF User

(* A character is fetched. *)
LEMMA DrainKeepsRun == RunInv /\ UartInv' /\ Drain => RunInv'
<1> SUFFICES ASSUME RunInv, UartInv', Drain PROVE RunInv'
  OBVIOUS
<1> DEFINE q == hw.uart.fifo
<1>1. /\ pc = "drain" /\ count' = count - 1
      /\ pc' = IF count = 1 THEN "poll" ELSE "drain"
      /\ hw' = [hw EXCEPT !.uart.fifo = IF @ = <<>> THEN @ ELSE Tail(@)]
      /\ UNCHANGED <<task, todo, read, parked, base, tt, active_cpu, stopped>>
  BY DEF Drain
<1>2. /\ Shape(hw) /\ q \in Seq(Int) /\ Len(q) <= FifoDepth
      /\ q # <<>> /\ count \in 0..FifoDepth /\ count > 0
  BY <1>1 DEF RunInv, UartInv, Shape, TypeOK
<1>3. hw' = [hw EXCEPT !.uart.fifo = Tail(q)]
  BY <1>1, <1>2
<1>4. hw'.core = hw.core /\ hw'.break = hw.break /\ hw'.noforce = hw.noforce
  BY <1>3
<1>5. Tail(q) \in Seq(Int) /\ Len(Tail(q)) = Len(q) - 1 /\ Len(q) \in Nat
  BY <1>2
<1>6. hw'.uart.fifo = Tail(q)
  <2> DEFINE s == Tail(q)
  <2> HIDE DEF s
  <2>1. s \in Seq(Int)
    BY <1>5 DEF s
  <2>2. [hw EXCEPT !.uart.fifo = s].uart.fifo = s
    BY <1>2, <2>1, FifoSet
  <2> QED BY <1>3, <2>2 DEF s
<1>7. Len(hw'.uart.fifo) <= FifoDepth
  BY <1>2, <1>5, <1>6, BoundsAssumption
<1>8. count' \in 0..FifoDepth /\ (pc' = "drain" <=> count' > 0) /\ pc' \in {"poll", "drain"}
  BY <1>1, <1>2, BoundsAssumption
<1>9. todo = <<>> /\ read = NotRead /\ task.fn = "run" /\ parked = NoWrite
  BY <1>1 DEF RunInv, PlanOK, ReadOK, StageOK
<1>10. CoresOK(hw)' /\ TypeOK'
  BY <1>1, <1>4, <1>8, <1>9 DEF TypeOK, RunInv, CoresOK
<1>11. PlanOK' /\ ReadOK' /\ ParkedOK' /\ HeldOK' /\ HaltOK' /\ Watched'
  BY <1>1, <1>4, <1>9
     DEF RunInv, PlanOK, ReadOK, ParkedOK, HeldOK, HaltOK, Watched, BreakNow, MaskNow
<1>12. StageOK'
  BY <1>1, <1>8, <1>9 DEF StageOK, RunInv
<1> QED BY <1>7, <1>10, <1>11, <1>12 DEF RunInv

(* The control register, the trap type, the one in TBR are read; a run     *)
(* ends, or begins again.                                                  *)
LEMMA LoopStep == RunInv /\ UartInv' /\ (CheckDebugMode \/ ReadTrap \/ ReadTbr) => RunInv'
<1> SUFFICES ASSUME RunInv, UartInv', CheckDebugMode \/ ReadTrap \/ ReadTbr PROVE RunInv'
  OBVIOUS
<1>1. /\ pc \in {"check", "trap", "tbr"} /\ pc' # "drain" /\ pc' # "open"
      /\ pc' \in {"trap", "poll", "tbr", "calls", "idle"}
      /\ UNCHANGED <<read, parked, base, count, active_cpu, hw>>
      /\ UNCHANGED <<made, shown, kept, stopped>>
  BY DEF CheckDebugMode, ReadTrap, ReadTbr, history
<1>2. todo = <<>> /\ read = NotRead /\ parked = NoWrite /\ task.fn = "run" /\ task.cpu \in Cores
  BY <1>1 DEF RunInv, PlanOK, ReadOK, StageOK, TypeOK
<1>3. 0 \in Cores /\ Idle.cpu = 0 /\ Idle.fn = "none"
  BY NumCoresAssumption DEF Cores, Idle
<1>4. hw.core[task.cpu].tt \in Target!Traps /\ hw.core[task.cpu].tbrtt \in Target!Traps
  BY <1>2 DEF RunInv, CoresOK, CoreRecord
<1>5. ASSUME UNCHANGED <<task, todo>>, pc' \in {"trap", "poll", "tbr"}, tt' \in Target!Traps,
             pc' \in {"trap", "tbr"} => hw.core[task.cpu].mode = "debug",
             pc' = "tbr" => tt' = hw.core[task.cpu].tt
      PROVE  RunInv'
  <2>1. TypeOK'
    BY <1>1, <1>2, <1>5 DEF RunInv, TypeOK
  <2>2. StageOK'
    BY <1>1, <1>2, <1>5 DEF RunInv, StageOK
  <2>3. PlanOK' /\ ReadOK' /\ ParkedOK' /\ HeldOK' /\ HaltOK' /\ Watched'
    BY <1>1, <1>2, <1>5
       DEF RunInv, PlanOK, ReadOK, ParkedOK, HeldOK, HaltOK, Watched, BreakNow, MaskNow
  <2> QED BY <1>1, <2>1, <2>2, <2>3 DEF RunInv, CoresOK
<1>6. CASE CheckDebugMode
  <2>1. /\ pc' = IF "DM" \in Target!Read(hw, Ctrl(task.cpu)) THEN "trap" ELSE "poll"
        /\ UNCHANGED <<task, todo, tt>>
    BY <1>6 DEF CheckDebugMode
  <2>2. "DM" \in Target!Read(hw, Ctrl(task.cpu)) => hw.core[task.cpu].mode = "debug"
    <3> DEFINE k == hw.core[task.cpu]
               r == Ctrl(task.cpu)
    <3>1. r[1] = "ctrl" /\ r[2] = task.cpu
      BY DEF Ctrl
    <3> HIDE DEF r
    <3>2. Target!Read(hw, r) =
            k.flags \cup {s \in Target!Status : \/ s = "DM" /\ k.mode = "debug"
                                                \/ s = "PE" /\ k.mode = "error"
                                                \/ s = "HL" /\ k.halt}
      BY <3>1 DEF Target!Read
    <3>3. k.flags \subseteq Target!Flags
      BY <1>2 DEF RunInv, CoresOK, CoreRecord
    <3>4. "DM" \notin Target!Flags
      BY DEF Target!Flags
    <3> HIDE DEF k
    <3>5. "DM" \in Target!Read(hw, r) => k.mode = "debug"
      BY <3>2, <3>3, <3>4
    <3> QED BY <3>5 DEF k, r
  <2>3. tt' \in Target!Traps
    BY <2>1 DEF RunInv, TypeOK
  <2> QED BY <1>5, <2>1, <2>2, <2>3
<1>7. CASE ReadTrap
  BY <1>4, <1>5, <1>7 DEF ReadTrap, RunInv, StageOK
<1>8. CASE ReadTbr
  <2> DEFINE tbr_tt == hw.core[task.cpu].tbrtt
  <2>1. \/ /\ todo' = Prepare(task.cpu) /\ pc' = "calls" /\ UNCHANGED <<tt, task>>
        \/ /\ tt' = IF tt = "ok" THEN tbr_tt ELSE tt
           /\ pc' = "idle" /\ task' = Idle /\ todo' = todo
    BY <1>8 DEF ReadTbr
  <2>2. tt' \in Target!Traps
    BY <1>4, <2>1 DEF RunInv, TypeOK
  <2>3. task'.cpu \in Cores /\ task' = [fn |-> task'.fn, cpu |-> task'.cpu]
    BY <1>2, <1>3, <2>1 DEF RunInv, StageOK, Idle
  <2>4. Program(todo', task'.cpu, task'.fn) /\ (task'.fn = "run" => Freed(todo'))
    <3>1. CASE todo' = Prepare(task.cpu) /\ UNCHANGED task
      BY <1>2, <3>1, PrepareProgram
    <3>2. CASE todo' = todo /\ task' = Idle
      BY <1>2, <1>3, <3>2, WakeProgram
    <3> QED BY <2>1, <3>1, <3>2
  <2>5. pc' \in {"calls", "idle"} /\ (pc' # "calls" => todo' = <<>>)
    BY <1>2, <2>1
  <2>6. TypeOK'
    BY <1>1, <1>2, <2>2, <2>3, <2>5 DEF RunInv, TypeOK
  <2>7. StageOK'
    BY <2>3, <2>5 DEF StageOK
  <2> QED BY <1>1, <1>2, <2>4, <2>5, <2>6, <2>7, Begins
<1> QED BY <1>6, <1>7, <1>8

(* What a step of a core leaves of the invariant. *)
LEMMA CoreKeepsRun ==
  ASSUME RunInv, UartInv', UNCHANGED <<host, parked>>, NEW c, Stepped(hw, c, hw'),
         stopped \subseteq stopped', hw'.core[c].mode = "debug" => c \in stopped',
         Len(hw'.uart.fifo) <= FifoDepth
  PROVE  RunInv'
<1>1. /\ CoresOK(hw)' /\ hw'.break = hw.break /\ hw'.noforce = hw.noforce
      /\ c \in Cores /\ hw.core[c].mode = "running"
      /\ \A d \in Cores : d # c => hw'.core[d] = hw.core[d]
      /\ hw'.core[c].halt = hw.core[c].halt
      /\ hw'.core[c].pc = hw.core[c].pc \/ hw.core[c].pc # "boot"
  BY DEF Stepped, CoresOK, Target!Runs
<1>2. UNCHANGED <<pc, task, todo, read, base, count, tt, active_cpu>> /\ parked' = parked
  BY DEF host
<1>3. task.cpu \in Cores /\ TypeOK'
  BY <1>1, <1>2 DEF RunInv, TypeOK, CoresOK, CoreRecord, Modes
<1>4. PlanOK'
  BY <1>1, <1>2 DEF RunInv, PlanOK, MaskNow
<1>5. \A d \in Cores : hw'.core[d].halt = hw.core[d].halt
  BY <1>1
<1>6. ReadOK'
  <2> SUFFICES ASSUME read # NotRead
               PROVE  \E v : /\ read = <<v>>
                             /\ Head(todo).reg[1] = "break" => v = hw'.break
                             /\ Head(todo).reg[1] = "noforce" => v = hw'.noforce
                             /\ Head(todo).reg[1] = "ctrl" =>
                                  v \subseteq Bits /\ ("HL" \in v => hw'.core[task.cpu].halt)
    BY <1>2 DEF RunInv, ReadOK
  <2> QED BY <1>1, <1>3, <1>5 DEF RunInv, ReadOK
<1>7. ParkedOK'
  BY <1>1, <1>2 DEF RunInv, ParkedOK
<1>8. HeldOK'
  BY <1>1, <1>2 DEF RunInv, HeldOK, BreakNow
<1>9. HaltOK'
  BY <1>2, <1>5 DEF RunInv, HaltOK
<1>10. Watched'
  BY <1>1, <1>2, <1>3 DEF RunInv, Watched
<1>11. StageOK'
  BY <1>1, <1>2, <1>3 DEF RunInv, StageOK
<1> QED BY <1>1, <1>3, <1>4, <1>6, <1>7, <1>8, <1>9, <1>10, <1>11 DEF RunInv

LEMMA CoresStep == RunInv /\ UartInv' /\ CoreStep => RunInv'
<1> SUFFICES ASSUME RunInv, UartInv', CoreStep PROVE RunInv'
  OBVIOUS
<1>1. Shape(hw) /\ CoresOK(hw) /\ hw.uart.fifo \in Seq(Int) /\ made \in Int
      /\ Len(hw.uart.fifo) <= FifoDepth
  BY DEF RunInv, UartInv, Shape
<1>2. CASE CoreSends
  <2>1. PICK c \in Cores : Target!CanSend(hw, c) /\ hw' \in Target!SendChar(hw, c, made + 1)
    BY <1>2 DEF CoreSends
  <2>2. Stepped(hw, c, hw') /\ hw'.core[c].mode # "debug"
    BY <1>1, <2>1, SendSteps
  <2>3. hw'.uart.fifo = hw.uart.fifo \/ hw'.uart.fifo = Append(hw.uart.fifo, made + 1)
    BY <1>1, <2>1, SendCharKeeps
  <2>4. Len(Append(hw.uart.fifo, made + 1)) = Len(hw.uart.fifo) + 1 /\ Len(hw.uart.fifo) \in Nat
    BY <1>1
  <2>5. Len(hw.uart.fifo) < FifoDepth
    BY <2>1 DEF Target!CanSend
  <2>6. Len(hw'.uart.fifo) <= FifoDepth
    BY <1>1, <2>3, <2>4, <2>5, BoundsAssumption
  <2>7. UNCHANGED <<host, parked>> /\ stopped' = stopped
    BY <1>2 DEF CoreSends
  <2> QED BY <2>2, <2>6, <2>7, CoreKeepsRun
<1>3. CASE CoreParks
  <2>1. PICK c \in Cores : Target!CanPark(hw, c) /\ hw' = Target!Park(hw, c)
    BY <1>3 DEF CoreParks
  <2>2. Stepped(hw, c, hw') /\ hw'.core[c].mode # "debug"
    BY <1>1, <2>1, ParkSteps
  <2>3. hw'.uart = hw.uart
    BY <1>1, <2>1, ParkKeeps
  <2>4. UNCHANGED <<host, parked>> /\ stopped' = stopped
    BY <1>3 DEF CoreParks, history
  <2> QED BY <1>1, <2>2, <2>3, <2>4, CoreKeepsRun
<1>4. ASSUME NEW c \in Cores, CoreStops(c) PROVE RunInv'
  <2>1. PICK t \in Target!Traps, tb \in Target!Traps : hw' = Target!Stop(hw, c, t, tb)
    BY <1>4 DEF CoreStops
  <2>2. Target!CanStop(hw, c) /\ stopped' = stopped \cup {c} /\ UNCHANGED <<host, parked>>
    BY <1>4 DEF CoreStops
  <2>3. c \in hw.noforce
    BY <2>2 DEF Target!CanStop, RunInv, HeldOK
  <2>4. Stepped(hw, c, hw')
    BY <1>1, <2>1, <2>2, <2>3, StopSteps
  <2>5. hw'.uart = hw.uart
    BY <1>1, <2>1, StopKeeps
  <2> QED BY <1>1, <2>2, <2>4, <2>5, CoreKeepsRun
<1> QED BY <1>2, <1>3, <1>4 DEF CoreStep

LEMMA StutterStep == RunInv /\ UNCHANGED vars => RunInv'
  BY DEF vars, host, history, RunInv, UartInv, ShownInOrder, CoresOK, TypeOK, PlanOK, ReadOK,
         ParkedOK, HeldOK, HaltOK, Watched, StageOK, BreakNow, MaskNow

LEMMA RunStep == RunInv /\ [Next]_vars => RunInv'
<1> SUFFICES ASSUME RunInv, [Next]_vars PROVE RunInv'
  OBVIOUS
<1>1. UartInv'
  BY UartStep DEF RunInv
<1>2. CASE Open \/ User
  BY <1>1, <1>2, CommandStep
<1>3. CASE HostStep
  BY <1>1, <1>3, ReadRegisterStep, WriteRegisterStep, IdleNextCoreStep, CallsDoneStep,
     PollUartStep, DrainKeepsRun, LoopStep, ProbeStep DEF HostStep
<1>4. CASE CoreStep
  BY <1>1, <1>4, CoresStep
<1>5. CASE UNCHANGED vars
  BY <1>5, StutterStep
<1> QED BY <1>2, <1>3, <1>4, <1>5 DEF Next

-----------------------------------------------------------------------------
(* The results *)

LEMMA RunAlways == Spec => []RunInv
  BY InitRun, RunStep, PTL DEF Spec

(* Every command names cores that exist, the characters runCPU counted in  *)
(* TCNT_bits are at most what the UART holds, and the accesses of          *)
(* leon3_dsu.c leave the mask and break registers with a bit per core.     *)
THEOREM TypeCorrect == Spec => []TypeOK
<1>1. RunInv => TypeOK
  BY DEF RunInv
<1> QED BY <1>1, RunAlways, PTL

(* Whatever runCPU, reset, ftdi_set_cpu_idle and the start-up did, and     *)
(* however the cores ran in between: when the console waits for a command, *)
(* no core is forced into debug mode, and a halted one only until the      *)
(* write of dsu_clear_cpu_halt_mode that is on its way takes effect.       *)
THEOREM NoneLeftHeldCorrect == Spec => []NoneLeftHeld
<1>1. RunInv => NoneLeftHeld
  <2> SUFFICES ASSUME RunInv, pc = "idle"
               PROVE  /\ hw.break = {}
                      /\ \A c \in Cores : hw.core[c].halt =>
                           parked.reg = Ctrl(c) /\ "PE" \in parked.val
    BY DEF NoneLeftHeld
  <2>1. todo = <<>>
    BY DEF RunInv, PlanOK
  <2> QED BY <2>1, NothingHeld
<1> QED BY <1>1, RunAlways, PTL

(* The trap type runCPU returns is one the core stopped with after its     *)
(* program counter was set for this run or its retry: debug mode is not    *)
(* what dsu_set_force_debug_mode left, because that mask bit is cleared in *)
(* the target before the first look at it.                                 *)
THEOREM ReportsCorrect == Spec => ReportsThisRun
<1> DEFINE A == pc = "tbr" /\ pc' = "idle" =>
                  /\ task.cpu \in stopped
                  /\ tt' = "ok" <=> hw.core[task.cpu].tt = "ok" /\ hw.core[task.cpu].tbrtt = "ok"
<1>1. RunInv /\ [Next]_vars => [A]_vars
  <2> SUFFICES ASSUME RunInv, Next, pc = "tbr", pc' = "idle"
               PROVE  /\ task.cpu \in stopped
                      /\ tt' = "ok" <=> hw.core[task.cpu].tt = "ok" /\ hw.core[task.cpu].tbrtt = "ok"
    OBVIOUS
  <2>1. CASE ReadTbr
    <3>1. tt' = IF tt = "ok" THEN hw.core[task.cpu].tbrtt ELSE tt
      BY <2>1 DEF ReadTbr
    <3>2. /\ tt = hw.core[task.cpu].tt /\ hw.core[task.cpu].mode = "debug"
          /\ task.fn = "run" /\ parked = NoWrite /\ todo = <<>>
      BY DEF RunInv, StageOK, PlanOK
    <3>3. task.cpu \in stopped
      BY <3>2 DEF RunInv, Watched, Freed, NoWrite
    <3> QED BY <3>1, <3>2, <3>3
  <2>2. CASE CoreStep
    <3>1. pc' = pc
      BY <2>2 DEF CoreStep, CoreSends, CoreParks, CoreStops, host
    <3> QED BY <3>1
  <2>3. CASE HostStep
    BY <2>1, <2>3 DEF HostStep, ReadRegister, WriteRegister, IdleNextCore, CallsDone, PollUart,
                      Drain, CheckDebugMode, ReadTrap, Probe
  <2>4. CASE Open \/ User
    BY <2>4 DEF Open, User, cli_run, Direct, Activate, Command
  <2> QED BY <2>2, <2>3, <2>4 DEF Next
<1> HIDE DEF A
<1>2. []RunInv /\ [][Next]_vars => [][A]_vars
  BY <1>1, PTL
<1> QED BY <1>2, RunAlways, PTL DEF Spec, ReportsThisRun, A

(* A core that runs is put in debug mode by a trap of its own or by the    *)
(* command about it: the mask that runCPU and ftdi_set_cpu_idle set before *)
(* they force a core keeps it from taking the others along.                *)
THEOREM OthersCorrect == Spec => OthersUndisturbed
<1> DEFINE A == \A c \in Cores : Target!Runs(hw, c) /\ hw'.core[c].mode = "debug" =>
                  task.cpu = c \/ hw'.core[c].pc = "stray"
<1>1. RunInv /\ [Next]_vars => [A]_vars
  <2> SUFFICES ASSUME RunInv, Next, NEW c \in Cores, Target!Runs(hw, c), hw'.core[c].mode = "debug"
               PROVE  task.cpu = c \/ hw'.core[c].pc = "stray"
    BY DEF A
  <2>1. hw.core[c].mode # "debug" /\ Shape(hw) /\ CoresOK(hw) /\ made \in Int
    BY DEF Target!Runs, RunInv, UartInv
  <2>2. CASE hw' \in HandedOver
    BY <2>1, <2>2, HandOver DEF Settled
  <2>3. CASE hw'.core = hw.core
    BY <2>1, <2>3
  <2>4. CASE CoreStep
    <3>1. \E d \in Cores : Stepped(hw, d, hw')
      <4>1. CASE CoreSends
        BY <2>1, <4>1, SendSteps DEF CoreSends
      <4>2. CASE CoreParks
        BY <2>1, <4>2, ParkSteps DEF CoreParks
      <4>3. ASSUME NEW d \in Cores, CoreStops(d) PROVE Stepped(hw, d, hw')
        <5>1. d \in hw.noforce
          BY <4>3 DEF CoreStops, Target!CanStop, RunInv, HeldOK
        <5> QED BY <2>1, <4>3, <5>1, StopSteps DEF CoreStops
      <4> QED BY <2>4, <4>1, <4>2, <4>3 DEF CoreStep
    <3> QED BY <2>1, <3>1 DEF Stepped
  <2>5. CASE HostStep
    <3>1. CASE Drain
      <4>1. hw'.core = hw.core
        BY <3>1 DEF Drain
      <4> QED BY <2>3, <4>1
    <3>2. CASE ~Drain
      BY <2>2, <2>3, <2>5, <3>2
         DEF HostStep, ReadRegister, WriteRegister, IdleNextCore, CallsDone, PollUart,
             CheckDebugMode, ReadTrap, ReadTbr, Probe
    <3> QED BY <3>1, <3>2
  <2>6. CASE Open \/ User
    BY <2>3, <2>6 DEF Open, User, cli_run, Direct, Activate, Command
  <2> QED BY <2>4, <2>5, <2>6 DEF Next
<1> HIDE DEF A
<1>2. []RunInv /\ [][Next]_vars => [][A]_vars
  BY <1>1, PTL
<1> QED BY <1>2, RunAlways, PTL DEF Spec, OthersUndisturbed, A
=============================================================================
