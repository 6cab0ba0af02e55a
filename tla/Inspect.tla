------------------------------- MODULE Inspect -------------------------------
(***************************************************************************)
(* The commands reg and inst against a core that may run meanwhile: one    *)
(* action per access to its debug support unit.  reg reads the window      *)
(* pointer first and the register by it afterwards; inst reads the pointer *)
(* of the trace buffer, then lines, page after page, and prints the pages  *)
(* from memory it reads again.                                             *)
(*                                                                         *)
(* The accesses are as DebugMemory promises.  A read that fails may leave  *)
(* its reply behind ("synced" is FALSE): nothing ever drops it, so reads   *)
(* after it, in this command or in later ones, return without a failure    *)
(* and answer something else, until the queue happens to be in step again. *)
(***************************************************************************)
EXTENDS RegisterNames, TraceBuffer, FiniteSets, SequencesExt

CONSTANTS
  Names,      \* register names the user enters
  Values,     \* numbers the user enters, below 32
  Counts,     \* numbers of instructions the user enters
  Sizes,      \* lines an instruction takes
  Pointers,   \* places of the trace pointer at the start
  Late,       \* what a late answer may be, below 32
  Actives,    \* cores that may be the active one
  MaxFaults,  \* bound: accesses that fail
  MaxPages,   \* bound: pages back on which answers may go on being late
  MaxMoves,   \* bound: instructions executed
  MaxCommands \* bound: commands

(* Names are strings of characters, numbers of instructions are positive,  *)
(* an instruction takes no more lines than the buffer has.                 *)
ASSUME InputsAssumption ==
  /\ Names \subseteq Seq(STRING) /\ Values \subseteq 0..31 /\ Late \subseteq 0..31
  /\ Actives \subseteq {0, 1} /\ 0 \in Actives
  /\ Counts \subseteq Nat \ {0}
  /\ Sizes \subseteq 1..Lines /\ Pointers \subseteq 0..(Lines - 1)

VARIABLES
  file,     \* the registers, by their word in the debug support unit
  zero,     \* the word at bus address 0
  ring, pointer, \* trace buffers and their pointers, by core
  cpu,      \* the active core
  pc, cmd,  \* the place in the command, and the command
  desc,     \* struct register_desc
  k,        \* words of the register written or read; groups of a summary
  shown,    \* values printed by reg
  phase,    \* count or print: what inst reads the lines for
  page, first, buffer, cntr, firstLine, \* locals of cli_inst
  pages,    \* pages inst went back
  listing,  \* lines printed by inst
  synced,   \* DebugMemory: the reply queue is in step
  calm,     \* the present or last command: it began in step, no access failed
            \* and the core stood still
  faults, moves, commands

target == <<file, zero, ring, pointer>>
regVars == <<desc, k, shown>>
instVars == <<phase, page, first, buffer, cntr, firstLine, pages, listing>>
bounds == <<faults, moves, commands>>
vars == <<target, cpu, pc, cmd, regVars, instVars, synced, calm, bounds>>

-----------------------------------------------------------------------------
CWP == file[DSU_REG_PSR] % 32
Words == IuWords \cup FpuWords \cup SpecialWords
Read(a) == IF a = Nowhere THEN zero ELSE file[a]

Garbage == -1
OldRing(c, p) ==
  [a \in 0..(Lines - 1) |-> [core |-> c, id |-> ((a - p) % Lines) - Lines, part |-> 0]]
GarbageLine(part) == [core |-> Garbage, id |-> 0, part |-> part]

Init ==
  /\ file = [a \in Words |-> IF a = DSU_REG_PSR THEN NWINDOWS - 1 ELSE a + 1000]
  /\ zero = 100 /\ cpu \in Actives
  /\ \E p \in Pointers :
       /\ pointer = [c \in {0, 1} |-> p]
       /\ ring = [c \in {0, 1} |-> OldRing(c, p)]
  /\ pc = "idle" /\ cmd = [name |-> "none"]
  /\ desc = Invalid(0) /\ k = 0 /\ shown = <<>>
  /\ phase = "count" /\ page = 0 /\ first = 0 /\ buffer = <<>> /\ cntr = 0
  /\ firstLine = 0 /\ pages = 0 /\ listing = <<>>
  /\ synced = TRUE /\ calm = TRUE /\ faults = 0 /\ moves = 0 /\ commands = 0

(* The active core executes an instruction: one that takes some lines of   *)
(* the trace, or a SAVE or RESTORE, which moves the window.                *)
Executes(size) ==
  /\ moves < MaxMoves
  /\ ring' = [ring EXCEPT ![cpu] = Record(@, pointer[cpu], cpu, moves, size)]
  /\ pointer' = [pointer EXCEPT ![cpu] = (@ + size) % Lines]
  /\ moves' = moves + 1 /\ calm' = FALSE
  /\ UNCHANGED <<zero, cpu, pc, cmd, regVars, instVars, synced, faults, commands>>
Execute == \E size \in Sizes : Executes(size) /\ UNCHANGED file
MoveWindow ==
  /\ Executes(1)
  /\ \E w \in {(CWP + 1) % NWINDOWS, (CWP - 1) % NWINDOWS} : file' = [file EXCEPT ![DSU_REG_PSR] = w]

(* An access works, or fails; a read does so in step or behind, and is the *)
(* only one that can change that.                                          *)
Works == UNCHANGED <<faults, calm>>
Fails == faults < MaxFaults /\ faults' = faults + 1 /\ calm' = FALSE
ReadWorks == synced /\ synced' = TRUE /\ Works
ReadLate == ~synced /\ (synced' \in IF pages < MaxPages THEN BOOLEAN ELSE {TRUE}) /\ Works
ReadFails == synced' \in BOOLEAN /\ Fails

Command(c, place) ==
  /\ pc = "idle" /\ commands < MaxCommands
  /\ commands' = commands + 1 /\ calm' = synced
  /\ cmd' = c /\ pc' = place
  /\ shown' = <<>> /\ listing' = <<>> /\ k' = 0
  /\ phase' = "count" /\ page' = 0 /\ pages' = 0 /\ cntr' = 0 /\ buffer' = <<>> /\ first' = 0
  /\ firstLine' = 0 /\ desc' = Invalid(0)
  /\ UNCHANGED <<target, cpu, synced, faults, moves>>

-----------------------------------------------------------------------------
(* reg *)

(* No name: the summary of the current window. *)
cli_reg ==
  \/ Command([name |-> "reg", reg |-> <<>>, val |-> <<>>], "psr")
  \/ \E reg \in Names, val \in {<<>>} \cup {<<v, v + 100>> : v \in Values} :
       Command([name |-> "reg", reg |-> reg, val |-> val], "psr")

Parsed(w) == IF cmd.reg = <<>> THEN Desc("w", 0, w) ELSE parse_register(cmd.reg, w)

(* A read that fails answers 0, window 0; a late answer is any word. *)
ReadPsr ==
  /\ pc = "psr"
  /\ \E w \in {CWP, 0} \cup Late :
       /\ (w = CWP /\ ReadWorks) \/ ReadLate \/ (w = 0 /\ ReadFails)
       /\ desc' = Parsed(w)
  /\ pc' = CASE desc'.name = "inv" -> "idle"
             [] desc'.name = "w" -> "summary"
             [] OTHER -> IF cmd.val # <<>> THEN "set" ELSE "get"
  /\ k' = 1
  /\ UNCHANGED <<target, cpu, cmd, shown, instVars, moves, commands>>

(* dsu_set_reg_sp, dsu_set_reg_fp and dsu_get_reg_sp do nothing where the  *)
(* window is refused; the other functions use address 0.                   *)
Refused(names) == desc.name \in names /\ Target(desc) = <<Nowhere>>

Put(a, v) ==
  IF a = Nowhere THEN zero' = v /\ UNCHANGED file
  ELSE file' = [file EXCEPT ![a] = IF a = DSU_REG_PSR THEN v % 32 ELSE v] /\ UNCHANGED zero

(* Variant: the second word of a double is written one word too far. *)
SetWordApart ==
  /\ pc = "set"
  /\ IF Refused({"sp", "fp"}) THEN UNCHANGED <<file, zero, faults, calm>>
     ELSE Put(Target(desc)[1] + 2 * (k - 1), cmd.val[k]) /\ Works
  /\ IF k < Len(Target(desc)) THEN k' = k + 1 /\ UNCHANGED pc ELSE k' = 1 /\ pc' = "get"
  /\ UNCHANGED <<ring, pointer, cpu, cmd, desc, shown, instVars, synced, moves, commands>>
SetWord ==
  /\ pc = "set"
  /\ IF Refused({"sp", "fp"}) THEN UNCHANGED <<file, zero, faults, calm>>
     ELSE LET a == Target(desc)[k]
          IN  \/ Put(a, cmd.val[k]) /\ Works
              \/ (UNCHANGED <<file, zero>> \/ Put(a, 31)) /\ Fails
  /\ IF k < Len(Target(desc)) THEN k' = k + 1 /\ UNCHANGED pc ELSE k' = 1 /\ pc' = "get"
  /\ UNCHANGED <<ring, pointer, cpu, cmd, desc, shown, instVars, synced, moves, commands>>

GetWord ==
  /\ pc = "get"
  /\ IF Refused({"sp"}) THEN shown' = <<0>> /\ Works /\ UNCHANGED synced
     ELSE \/ shown' = Append(shown, Read(Target(desc)[k])) /\ ReadWorks
          \/ shown' = Append(shown, Garbage) /\ ReadLate
          \/ shown' = Append(shown, 0) /\ ReadFails
  /\ IF k < Len(Target(desc)) THEN k' = k + 1 /\ UNCHANGED pc ELSE k' = k /\ pc' = "idle"
  /\ UNCHANGED <<target, cpu, cmd, desc, instVars, moves, commands>>

(* register_print_summary: four accesses of eight words, then six of one   *)
(* word.  Those that are arguments of one printf may be done in any order; *)
(* they are taken as written.                                              *)
Block(a) == [i \in 1..8 |-> a + i - 1]
SummarySpecials == <<"psr", "wim", "tbr", "y", "pc", "npc">>
SummaryWords(w) ==
  << Block(DSU_REG_IN(w)), Block(DSU_REG_LOCAL(w)), Block(DSU_REG_OUT(w)), Block(DSU_REG_GLOBAL) >>
    \o [i \in 1..6 |-> <<DSU_REG_SPECIAL(SummarySpecials[i])>>]

register_print_summary ==
  /\ pc = "summary"
  /\ LET words == SummaryWords(desc.window)[k]
     IN  \/ shown' = shown \o [i \in DOMAIN words |-> file[words[i]]] /\ ReadWorks
         \/ shown' = shown \o [i \in DOMAIN words |-> Garbage] /\ (ReadLate \/ ReadFails)
  /\ IF k < 10 THEN k' = k + 1 /\ UNCHANGED pc ELSE k' = k /\ pc' = "idle"
  /\ UNCHANGED <<target, cpu, cmd, desc, instVars, moves, commands>>

-----------------------------------------------------------------------------
(* inst *)

cli_inst == \E n \in Counts : Command([name |-> "inst", n |-> n], "pointer")

PageSize == 2 * cmd.n

(* Counted from the active core, printed from core 0 but for the oldest    *)
(* page.                                                                   *)
Who == IF phase = "count" THEN cpu ELSE 0

ReadPointer ==
  /\ pc = "pointer"
  /\ \E p \in {pointer[Who], 0} \cup {l % Lines : l \in Late} :
       /\ (p = pointer[Who] /\ ReadWorks) \/ ReadLate \/ (p = 0 /\ ReadFails)
       /\ first' = FirstLine(p, page * PageSize, PageSize)
  /\ pc' = "lines"
  /\ UNCHANGED <<target, cpu, cmd, regVars, phase, page, buffer, cntr, firstLine, pages, listing,
                 moves, commands>>

(* One access per word: the first lines come late, or all of them.  After  *)
(* a failure the copy is whatever the array held.                          *)
FetchedOr(first0, n) ==
  LET lines == Fetch(ring[Who], first0, n)
  IN  \/ buffer' = buffer \o lines /\ ReadWorks
      \/ \E late \in 1..n, part \in [1..n -> {0, 1}] :
           /\ buffer' = buffer \o [i \in 1..n |-> IF i > late THEN lines[i] ELSE GarbageLine(part[i])]
           /\ ReadLate /\ (late < n => synced')
      \/ \E part \in {0, 1} : buffer' = buffer \o [i \in 1..n |-> GarbageLine(part)] /\ ReadFails

ReadLines ==
  /\ pc = "lines"
  /\ FetchedOr(first, ReadSize(first, PageSize))
  /\ pc' = IF ReadSize(first, PageSize) < PageSize THEN "rest" ELSE phase
  /\ UNCHANGED <<target, cpu, cmd, regVars, phase, page, first, cntr, firstLine, pages, listing,
                 moves, commands>>

(* Variant: the rest begins with the second line of the buffer. *)
ReadRestLate ==
  /\ pc = "rest"
  /\ FetchedOr(1, PageSize - ReadSize(first, PageSize))
  /\ pc' = phase
  /\ UNCHANGED <<target, cpu, cmd, regVars, phase, page, first, cntr, firstLine, pages, listing,
                 moves, commands>>
ReadRest ==
  /\ pc = "rest"
  /\ FetchedOr(0, PageSize - ReadSize(first, PageSize))
  /\ pc' = phase
  /\ UNCHANGED <<target, cpu, cmd, regVars, phase, page, first, cntr, firstLine, pages, listing,
                 moves, commands>>

(* The count goes down from one line past the end of the buffer, which     *)
(* nothing has set.                                                        *)
Seen(beyond, i) ==
  Cardinality({j \in i..PageSize : Begins(IF j = PageSize THEN beyond ELSE buffer[j + 1])})

(* Variant: the page just read is read again. *)
SamePage == page
NextPage == page + 1

CountPage ==
  /\ pc = "count"
  /\ \E part \in {0, 1} :
       LET hits == {i \in 0..PageSize : cntr + Seen(GarbageLine(part), i) = cmd.n}
       IN  IF hits # {}
             THEN /\ firstLine' = Max(hits) /\ cntr' = cmd.n
                  /\ phase' = "print" /\ pc' = "print"
                  /\ UNCHANGED <<page, pages, buffer>>
             ELSE /\ cntr' = cntr + Seen(GarbageLine(part), 0)
                  /\ page' = NextPage /\ pages' = NextPage /\ buffer' = <<>> /\ pc' = "pointer"
                  /\ UNCHANGED <<firstLine, phase>>
  /\ UNCHANGED <<target, cpu, cmd, regVars, first, listing, synced, calm, bounds>>

(* Variant: the pages are printed from the newest. *)
PrintPageNewest ==
  /\ pc = "print"
  /\ listing' = SubSeq(buffer, firstLine + 1, PageSize) \o listing
  /\ IF page = 0 THEN pc' = "idle" /\ UNCHANGED <<page, buffer>>
     ELSE page' = page - 1 /\ buffer' = <<>> /\ pc' = "pointer"
  /\ UNCHANGED <<target, cpu, cmd, regVars, phase, first, cntr, firstLine, pages, synced,
                 calm, bounds>>
PrintPage ==
  /\ pc = "print"
  /\ listing' = listing \o SubSeq(buffer, firstLine + 1, PageSize)
  /\ IF page = 0 THEN pc' = "idle" /\ UNCHANGED <<page, buffer>>
     ELSE page' = page - 1 /\ buffer' = <<>> /\ pc' = "pointer"
  /\ UNCHANGED <<target, cpu, cmd, regVars, phase, first, cntr, firstLine, pages, synced,
                 calm, bounds>>

-----------------------------------------------------------------------------
Host ==
  \/ ReadPsr \/ SetWord \/ GetWord \/ register_print_summary
  \/ ReadPointer \/ ReadLines \/ ReadRest \/ CountPage \/ PrintPage

Next == Execute \/ MoveWindow \/ cli_reg \/ cli_inst \/ Host

(* The program is sequential and every access returns. *)
Spec == Init /\ [][Next]_vars /\ WF_vars(Host)

-----------------------------------------------------------------------------
TypeOK ==
  /\ pc \in {"idle", "psr", "set", "get", "summary", "pointer", "lines", "rest", "count", "print"}
  /\ phase \in {"count", "print"} /\ cpu \in {0, 1}
  /\ DOMAIN file = Words /\ file[DSU_REG_PSR] \in 0..31
  /\ DOMAIN ring[cpu] = 0..(Lines - 1) /\ pointer[cpu] \in 0..(Lines - 1)
  /\ first \in 0..(Space - 1)
  /\ pc \in {"set", "get"} => k \in 1..Len(Target(desc))
  /\ pc \in {"count", "print"} => Len(buffer) = PageSize /\ firstLine \in 0..PageSize
  /\ page \in 0..pages /\ (pc = "idle" => page = 0)
  /\ calm => synced

(* The words of the register a name means in window w; of the summary. *)
MeantWords(w) ==
  IF cmd.reg[1] = "d" THEN <<Means(cmd.reg, w), Means(cmd.reg, w) + 1>> ELSE <<Means(cmd.reg, w)>>
Row(kind, w) == [i \in 1..8 |-> Word(kind, i - 1, w)]
SummaryMeans(w) ==
  Row("i", w) \o Row("l", w) \o Row("o", w) \o Row("g", w)
    \o [i \in 1..6 |-> Word(SummarySpecials[i], 0, w)]
Contents(words) == [i \in DOMAIN words |-> file[words[i]]]

(* If the reply queue is in step when reg begins, none of its accesses     *)
(* fails and the core stands still in a window it has, reg shows what the  *)
(* register of that name holds in the core, and that is what was entered,  *)
(* if something was; the summary shows the window asked for (cli_reg,      *)
(* uviemon_reg.c and the addresses of leon3_dsu.c).  After a failed read   *)
(* of an earlier command it may show something else without an error.      *)
(* Of the floating-point registers this holds of those whose number is     *)
(* read right (uviemon_reg.c 296-318).                                     *)
RegShowsItsRegister ==
  pc = "idle" /\ cmd.name = "reg" /\ calm /\ desc.name # "inv" =>
    IF desc.name = "w"
      THEN desc.window < NWINDOWS => shown = Contents(SummaryMeans(desc.window))
      ELSE (Literal(cmd.reg) /\ desc.window < NWINDOWS) =>
             /\ shown = Contents(MeantWords(CWP))
             /\ cmd.val # <<>> => shown = SubSeq(cmd.val, 1, Len(shown))

(* Whatever fails or is late, and wherever the core moves its window, reg  *)
(* changes no register but one of the kind and number named; in a command  *)
(* begun in step in which nothing fails and nothing moves, the one of the  *)
(* current window.  Bus address 0 is written only when the window reg took *)
(* for the current one is none the core has.                               *)
Changed == {a \in Words : file'[a] # file[a]}
OnlyItsRegister ==
  [][moves' = moves =>
       /\ Changed # {} /\ Literal(cmd.reg) =>
            \E w \in 0..(NWINDOWS - 1) :
              /\ Changed \subseteq Range(MeantWords(w))
              /\ calm' /\ CWP < NWINDOWS => w = CWP
       /\ zero' # zero => desc.window >= NWINDOWS]_vars

(* inst lists the end of the trace of the active core, from the beginning  *)
(* of an instruction, and as many instructions as were asked for or one    *)
(* less (the line past the buffer may be counted), if it need not go back  *)
(* a second page, the queue was in step when it began and nothing fails or *)
(* moves.                                                                  *)
ListingIsTail ==
  pc = "idle" /\ cmd.name = "inst" /\ calm /\ pages = 0 /\ PageSize <= Lines =>
    LET len == Len(listing)
    IN  /\ listing = Fetch(ring[cpu], FirstLine(pointer[cpu], 0, len), len)
        /\ len > 0 => Begins(listing[1])
        /\ Cardinality({i \in 1..len : Begins(listing[i])}) \in {cmd.n - 1, cmd.n}

(* When, under the same conditions, it goes back over several pages, the   *)
(* lines it lists of core 0 are in the order of execution, none twice, and *)
(* end with the newest (uviemon_cli.c 723-790).                            *)
Before(l, m) == l.id < m.id \/ (l.id = m.id /\ l.part < m.part)
ListingInOrder ==
  pc = "idle" /\ cmd.name = "inst" /\ calm /\ cpu = 0 /\ PageSize * (pages + 1) <= Lines =>
    /\ \A i \in 1..(Len(listing) - 1) : Before(listing[i], listing[i + 1])
    /\ listing # <<>> => Last(listing) = At(ring[0], pointer[0] - 1)

(* Every command returns to the prompt: going back over the pages ends,    *)
(* also when lines change meanwhile and a read fails, unless answers are   *)
(* late for good: words taken for lines need not ever count.               *)
CommandReturns == []<>(pc = "idle" \/ ~synced)
=============================================================================
