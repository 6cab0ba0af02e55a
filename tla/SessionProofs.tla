---------------------------- MODULE SessionProofs ----------------------------
(***************************************************************************)
(* For any console commands and any number of lines, failing calls and cut *)
(* writes: the driver is called with an open handle only, no command for   *)
(* the chain is taken by a chip that is not ready for it, no more bytes    *)
(* are read than have come in, and a session that is left has reset the    *)
(* chip.                                                                   *)
(*                                                                         *)
(* JtagOnlyWhenReady looks at the command the chip takes next.  The        *)
(* strengthening, SetUpInv, looks at every place of the inbox: a chip that *)
(* takes what is before it is ready then (ReadyAt).  While the set-up is   *)
(* under way this holds of the place behind the inbox, part by part, as    *)
(* long as no call has failed; that all parts are there is what the one    *)
(* look at the status at the end of the set-up is for.                     *)
(***************************************************************************)
EXTENDS Session, SequenceTheorems, TLAPS

Msgs == Settings \cup {"loop_on", "loop_off", "bad", "jtag"}
Chips == [mode : {"fifo", "mpsse"}, loop : BOOLEAN, conf : SUBSET Settings]

(* Groups of places in the program. *)
FirstPlaces == {"open", "version", "reset", "usb_parameters", "purge", "timeouts",
                "bitmode_reset", "bitmode_mpsse"}
EchoPlaces == {"queue_empty", "bad_command", "poll", "read", "loop_off"}
LoopedOff == {"queue_empty_again", "clock", "divisor", "low", "high"}
GoneWrong == {"bitmode_off", "close_failed"}
OnChain == {"jtag_reset", "detect", "scans", "console", "parse", "bitmode"}
Leaving == {"reset_last", "close", "closed"}
AllPlaces == FirstPlaces \cup {"loop_on"} \cup EchoPlaces \cup LoopedOff \cup GoneWrong
               \cup OnChain \cup Leaving \cup {"left"}

(* What has been sent before a place of the set-up. *)
SentBefore ==
  [divisor |-> {"clock"}, low |-> {"clock", "divisor"}, high |-> {"clock", "divisor", "low"}]
Sent == IF pc \in DOMAIN SentBefore THEN SentBefore[pc] ELSE {}

(* What the chip is when it has taken the commands before place j. *)
LoopOffAt(j) ==
  (chip.loop \/ \E k \in 1..Len(inbox) : inbox[k] = "loop_on")
    => \E m \in 1..(j - 1) : inbox[m] = "loop_off"
SetAt(s, j) == s \in chip.conf \/ \E m \in 1..(j - 1) : inbox[m] = s
ReadyAt(j) == chip.mode = "mpsse" /\ LoopOffAt(j) /\ \A s \in Settings : SetAt(s, j)

End == Len(inbox) + 1

Types ==
  /\ pc \in AllPlaces
  /\ inbox \in Seq(Msgs) /\ chip \in Chips
  /\ cuts \in Nat /\ failed \in BOOLEAN /\ faults \in Nat

NothingYet == pc \in FirstPlaces \cup {"loop_on"} => inbox = <<>>
InMpsse ==
  pc \in {"loop_on"} \cup EchoPlaces \cup LoopedOff => chip.mode = "mpsse"
NoJtagYet ==
  pc \notin OnChain \cup {"left"} =>
    \A k \in 1..Len(inbox) : inbox[k] # "jtag"
OffAfterOn ==
  \A k, m \in 1..Len(inbox) : inbox[k] = "loop_on" /\ inbox[m] = "loop_off" => k < m
UnderWay ==
  pc \in LoopedOff /\ ~ failed => LoopOffAt(End) /\ \A s \in Sent : SetAt(s, End)
ReadyForNext == pc \in OnChain => ReadyAt(End)
Ready ==
  \A j \in 1..Len(inbox) : inbox[j] = "jtag" => ReadyAt(j)

SetUpInv ==
  /\ Types
  /\ cuts = 0 /\ pc \notin Leaving =>
       NothingYet /\ InMpsse /\ NoJtagYet /\ OffAfterOn /\ UnderWay
         /\ ReadyForNext /\ Ready

-----------------------------------------------------------------------------
(* A command that is appended, or lost, changes nothing for the places     *)
(* before it, and a place behind it is no worse off.                       *)
LEMMA SameOrAppended ==
  ASSUME Types, Types', OffAfterOn, Ready, chip' = chip,
         NEW c \in Msgs \ {"loop_on"}, inbox' \in {inbox, Append(inbox, c)},
         c = "jtag" => ReadyAt(End)
  PROVE  /\ OffAfterOn' /\ Ready'
         /\ LoopOffAt(End) => LoopOffAt(End)'
         /\ \A x : SetAt(x, End) => SetAt(x, End)'
         /\ chip.mode = "mpsse" => (chip.mode = "mpsse")'
<1>1. CASE inbox' = inbox
  BY <1>1 DEF OffAfterOn, Ready, ReadyAt, LoopOffAt, SetAt, End
<1>2. CASE inbox' = Append(inbox, c)
  <2>1. /\ Len(inbox') = Len(inbox) + 1 /\ Len(inbox) \in Nat
        /\ \A k \in 1..Len(inbox) : inbox'[k] = inbox[k]
        /\ inbox'[Len(inbox) + 1] = c
    BY <1>2 DEF Types
  <2>2. ASSUME NEW j \in 1..End, LoopOffAt(j)
        PROVE  \A n \in {j, End + 1} : LoopOffAt(n)'
    BY <2>1, <2>2 DEF LoopOffAt, End
  <2>3. ASSUME NEW x, NEW j \in 1..End, SetAt(x, j)
        PROVE  \A n \in {j, End + 1} : SetAt(x, n)'
    BY <2>1, <2>3 DEF SetAt, End
  <2>4. End \in 1..End /\ End' = End + 1
    BY <2>1 DEF End
  <2>5. OffAfterOn'
    BY <2>1 DEF OffAfterOn
  <2>6. Ready'
    <3>1. SUFFICES ASSUME NEW j \in 1..(Len(inbox) + 1), inbox'[j] = "jtag"
                   PROVE  ReadyAt(j)'
      BY <2>1 DEF Ready
    <3>2. ReadyAt(j) /\ j \in 1..End
      BY <2>1, <3>1 DEF Ready, End
    <3> QED BY <2>2, <2>3, <3>2 DEF ReadyAt
  <2>7. LoopOffAt(End) => LoopOffAt(End)'
    BY <2>2, <2>4
  <2>8. \A x : SetAt(x, End) => SetAt(x, End)'
    BY <2>3, <2>4
  <2> QED BY <2>5, <2>6, <2>7, <2>8
<1> QED BY <1>1, <1>2

(* What is appended is before the place behind it. *)
LEMMA AppendedIsSent ==
  ASSUME Types, NEW c, inbox' = Append(inbox, c)
  PROVE  /\ c = "loop_off" => LoopOffAt(End)'
         /\ SetAt(c, End)'
<1>1. Len(inbox') = Len(inbox) + 1 /\ inbox'[Len(inbox) + 1] = c /\ Len(inbox) \in Nat
  BY DEF Types
<1> QED BY <1>1 DEF LoopOffAt, SetAt, End

(* Whatever it is, a command leaves the chip what a chip can be. *)
LEMMA TakeType ==
  ASSUME chip \in Chips, NEW c \in Msgs, Take(c)
  PROVE  chip' \in Chips
<1>1. CASE chip.mode # "mpsse"
  BY <1>1 DEF Take
<1>2. CASE chip.mode = "mpsse"
  <2>1. \/ c \in Settings /\ chip' = [chip EXCEPT !.conf = @ \cup {c}]
        \/ chip' = [chip EXCEPT !.loop = TRUE]
        \/ chip' = [chip EXCEPT !.loop = FALSE]
        \/ chip' = chip
    BY <1>2, Zenon DEF Take, Settings, Msgs
  <2> QED BY <2>1 DEF Chips
<1> QED BY <1>1, <1>2

(* The chip takes a command: what was before a place of the inbox is what  *)
(* is before it now, or is done.                                           *)
LEMMA TakenIsDone ==
  ASSUME Types, OffAfterOn, Ready, inbox # <<>>, Take(Head(inbox)), inbox' = Tail(inbox)
  PROVE  /\ inbox' \in Seq(Msgs) /\ chip' \in Chips /\ chip'.mode = chip.mode
         /\ OffAfterOn' /\ Ready'
         /\ chip.mode = "mpsse" /\ LoopOffAt(End) => LoopOffAt(End)'
         /\ chip.mode = "mpsse" => \A x \in Settings : SetAt(x, End) => SetAt(x, End)'
<1> DEFINE h == Head(inbox)
<1>1. /\ h \in Msgs /\ h = inbox[1]
      /\ Len(inbox) \in Nat \ {0} /\ Len(inbox') = Len(inbox) - 1
      /\ \A k \in 1..(Len(inbox) - 1) : inbox'[k] = inbox[k + 1]
      /\ inbox' \in Seq(Msgs)
  BY DEF Types
<1>2. OffAfterOn'
  BY <1>1 DEF OffAfterOn
<1>3. CASE chip.mode # "mpsse"
  <2>1. chip' = chip
    BY <1>3 DEF Take
  <2>2. \A j \in 1..Len(inbox) : inbox[j] # "jtag"
    BY <1>3 DEF Ready, ReadyAt
  <2>3. Ready'
    BY <1>1, <2>2 DEF Ready
  <2> QED BY <1>1, <1>2, <1>3, <2>1, <2>3 DEF Types
<1>4. CASE chip.mode = "mpsse"
  <2>1. /\ h \in Settings => chip' = [chip EXCEPT !.conf = @ \cup {h}]
        /\ h = "loop_on" => chip' = [chip EXCEPT !.loop = TRUE]
        /\ h = "loop_off" => chip' = [chip EXCEPT !.loop = FALSE]
        /\ h \in {"bad", "jtag"} => chip' = chip
    BY <1>4, Zenon DEF Take, Settings
  <2>2. /\ chip' \in Chips /\ chip'.mode = "mpsse"
        /\ chip'.conf = IF h \in Settings THEN chip.conf \cup {h} ELSE chip.conf
        /\ h = "loop_on" => chip'.loop = TRUE
        /\ h = "loop_off" => chip'.loop = FALSE
        /\ h \notin {"loop_on", "loop_off"} => chip'.loop = chip.loop
    <3>1. chip \in Chips
      BY DEF Types
    <3>2. CASE h \in Settings
      <4>1. chip' = [chip EXCEPT !.conf = chip.conf \cup {h}]
        BY <2>1, <3>2
      <4>2. h \notin {"loop_on", "loop_off"}
        BY <3>2 DEF Settings
      <4> HIDE DEF h
      <4> QED BY <1>4, <3>1, <3>2, <4>1, <4>2 DEF Chips
    <3>3. CASE h \in {"loop_on", "loop_off"}
      <4>1. h \notin Settings
        BY <3>3 DEF Settings
      <4> HIDE DEF h
      <4> QED BY <1>4, <2>1, <3>1, <3>3, <4>1 DEF Chips
    <3>4. CASE h \in {"bad", "jtag"}
      <4>1. h \notin Settings
        BY <3>4 DEF Settings
      <4> HIDE DEF h
      <4> QED BY <1>4, <2>1, <3>1, <3>4, <4>1
    <3> QED BY <1>1, <3>2, <3>3, <3>4 DEF Msgs
  <2>3. ASSUME NEW j \in 1..Len(inbox), LoopOffAt(j + 1)
        PROVE  LoopOffAt(j)'
    <3>1. SUFFICES ASSUME chip'.loop \/ \E k \in 1..Len(inbox') : inbox'[k] = "loop_on"
                   PROVE  \E m \in 1..(j - 1) : inbox'[m] = "loop_off"
      BY DEF LoopOffAt
    <3>2. h # "loop_off"
      <4>1. SUFFICES ASSUME h = "loop_off" PROVE FALSE
        OBVIOUS
      <4>2. PICK k \in 1..(Len(inbox) - 1) : inbox[k + 1] = "loop_on"
        BY <1>1, <2>2, <3>1, <4>1
      <4>3. k + 1 < 1
        BY <1>1, <4>1, <4>2 DEF OffAfterOn
      <4> QED BY <4>3
    <3>3. chip.loop \/ \E k \in 1..Len(inbox) : inbox[k] = "loop_on"
      <4>1. CASE chip'.loop
        <5>1. CASE h = "loop_on"
          BY <1>1, <5>1
        <5>2. CASE h # "loop_on"
          <6>1. chip'.loop = chip.loop
            BY <2>2, <3>2, <5>2
          <6> QED BY <4>1, <6>1
        <5> QED BY <5>1, <5>2
      <4>2. CASE \E k \in 1..Len(inbox') : inbox'[k] = "loop_on"
        BY <1>1, <4>2
      <4> QED BY <3>1, <4>1, <4>2
    <3>4. PICK m \in 1..((j + 1) - 1) : inbox[m] = "loop_off"
      BY <2>3, <3>3 DEF LoopOffAt
    <3>5. m - 1 \in 1..(j - 1) /\ inbox'[m - 1] = inbox[m]
      BY <1>1, <3>2, <3>4
    <3> QED BY <3>4, <3>5
  <2>4. ASSUME NEW x \in Settings, NEW j \in 1..Len(inbox), SetAt(x, j + 1)
        PROVE  SetAt(x, j)'
    <3>1. CASE x \in chip.conf \/ x = h
      BY <2>2, <3>1 DEF SetAt
    <3>2. CASE \E m \in 1..j : inbox[m] = x /\ m # 1
      <4>1. PICK m \in 2..j : inbox[m] = x
        BY <3>2
      <4>2. m - 1 \in 1..(j - 1) /\ inbox'[m - 1] = x
        BY <1>1, <4>1
      <4> QED BY <4>2 DEF SetAt
    <3> QED BY <1>1, <2>4, <3>1, <3>2 DEF SetAt
  <2>5. Ready'
    <3>1. SUFFICES ASSUME NEW j \in 1..(Len(inbox) - 1), inbox'[j] = "jtag"
                   PROVE  ReadyAt(j)'
      BY <1>1 DEF Ready
    <3>2. ReadyAt(j + 1)
      BY <1>1, <3>1 DEF Ready
    <3> QED BY <1>1, <2>2, <2>3, <2>4, <3>2 DEF ReadyAt
  <2>6. Len(inbox) \in 1..Len(inbox) /\ End = Len(inbox) + 1 /\ End' = Len(inbox)
    BY <1>1 DEF End
  <2> QED BY <1>1, <1>2, <1>4, <2>2, <2>3, <2>4, <2>5, <2>6
<1> QED BY <1>3, <1>4

-----------------------------------------------------------------------------
LEMMA InitInv == Init => SetUpInv
<1> SUFFICES ASSUME Init PROVE SetUpInv
  OBVIOUS
<1>1. Types
  <2>1. Fifo \in Chips /\ [mode |-> "mpsse", loop |-> FALSE, conf |-> Settings] \in Chips
    BY DEF Fifo, Chips
  <2>2. pc \in AllPlaces /\ inbox \in Seq(Msgs)
    BY DEF Init, AllPlaces, FirstPlaces
  <2>3. chip \in Chips
    BY <2>1 DEF Init
  <2>4. cuts \in Nat /\ failed \in BOOLEAN /\ faults \in Nat
    BY DEF Init
  <2> QED BY <2>2, <2>3, <2>4 DEF Types
<1>2. inbox = <<>> /\ pc = "open" /\ Len(inbox) = 0
  BY DEF Init
<1>3. NothingYet /\ InMpsse /\ NoJtagYet /\ OffAfterOn /\ UnderWay /\ ReadyForNext /\ Ready
  BY <1>2 DEF NothingYet, InMpsse, NoJtagYet, OffAfterOn, UnderWay, ReadyForNext, Ready,
              EchoPlaces, LoopedOff, OnChain
<1> QED BY <1>1, <1>3 DEF SetUpInv

(* The calls at the beginning come one after the other. *)
LEMMA AfterFirst ==
  ASSUME NEW c \in {FirstCalls[i] : i \in 1..8}
  PROVE  /\ c \in FirstPlaces
         /\ c = "bitmode_mpsse" => After(c) = "loop_on"
         /\ c # "bitmode_mpsse" => After(c) \in FirstPlaces
<1>1. \A i \in 1..8 : FirstCalls[i] \in FirstPlaces
  BY DEF FirstCalls, FirstPlaces
<1>2. FirstCalls[8] = "bitmode_mpsse"
  BY DEF FirstCalls
<1>3. ASSUME c # "bitmode_mpsse" PROVE After(c) \in FirstPlaces
  <2> DEFINE i == CHOOSE n \in 1..7 : FirstCalls[n] = c
  <2>1. \E n \in 1..7 : FirstCalls[n] = c
    <3>1. PICK n \in 1..8 : FirstCalls[n] = c
      OBVIOUS
    <3> QED BY <1>2, <1>3, <3>1
  <2>2. i \in 1..7
    BY <2>1
  <2>3. After(c) = FirstCalls[i + 1]
    BY <1>3 DEF After
  <2> HIDE DEF i
  <2>4. i + 1 \in 1..8
    BY <2>2
  <2> QED BY <1>1, <2>3, <2>4
<1> QED BY <1>1, <1>3 DEF After

(* FT_Write, when nothing was cut. *)
LEMMA WriteOutcome ==
  ASSUME Types, NEW c \in Msgs, Write(c)
  PROVE  /\ inbox' \in Seq(Msgs) /\ chip' \in Chips /\ cuts' \in Nat
         /\ failed' \in BOOLEAN /\ faults' \in Nat
         /\ chip' = chip
         /\ cuts' = 0 => /\ cuts = 0
                         /\ inbox' \in {inbox, Append(inbox, c)}
                         /\ (failed' = failed /\ inbox' = Append(inbox, c)) \/ failed' = TRUE
         /\ cuts' = 0 /\ faults' = faults => inbox' = Append(inbox, c) /\ failed' = failed
<1>1. Append(inbox, c) \in Seq(Msgs) /\ chip' = chip
  BY DEF Types, Write
<1>2. CASE inbox' = Append(inbox, c) /\ NoFault /\ UNCHANGED failed
  BY <1>1, <1>2 DEF Types, NoFault, bounds
<1>3. CASE inbox' \in {inbox, Append(inbox, c)} /\ Fault /\ failed' = TRUE
  <2>1. faults' # faults /\ faults' \in Nat /\ cuts' = cuts
    BY <1>3 DEF Types, Fault
  <2> QED BY <1>1, <1>3, <2>1 DEF Types
<1>4. CASE cuts < MaxCuts /\ cuts' = cuts + 1 /\ UNCHANGED <<inbox, failed, faults>>
  BY <1>1, <1>4 DEF Types
<1> QED BY <1>2, <1>3, <1>4 DEF Write

-----------------------------------------------------------------------------
(* What the invariant says where no write was cut and the device is not    *)
(* being closed.                                                           *)
Core ==
  /\ NothingYet /\ InMpsse /\ NoJtagYet
  /\ OffAfterOn /\ UnderWay /\ ReadyForNext /\ Ready

(* A step that sends nothing and leaves the chip alone. *)
LEMMA NothingSent ==
  ASSUME Types, Core, chip' = chip, inbox' = inbox
  PROVE  /\ OffAfterOn' /\ Ready'
         /\ ReadyAt(End) => ReadyAt(End)'
         /\ \A x : SetAt(x, End) => SetAt(x, End)'
         /\ LoopOffAt(End) => LoopOffAt(End)'
  BY DEF Core, OffAfterOn, Ready, ReadyAt, LoopOffAt, SetAt, End

LEMMA SetUpStep ==
  ASSUME SetUpInv, SetUp
  PROVE  SetUpInv'
<1>1. /\ pc \in FirstPlaces
      /\ pc = "bitmode_mpsse" => After(pc) = "loop_on"
      /\ pc # "bitmode_mpsse" => After(pc) \in FirstPlaces
  BY AfterFirst DEF SetUp
<1>2. Types /\ cuts' = cuts /\ failed' = failed /\ pc \notin Leaving
  <2>1. Types
    BY DEF SetUpInv
  <2> QED BY <1>1, <2>1 DEF SetUp, NoFault, Fault, bounds, hostVars, FirstPlaces, Leaving
<1>3. /\ \/ pc' = After(pc) /\ Effect(pc)
         \/ pc' \in {"left", "close_failed"}
      /\ Effect(pc) \/ (chip' = chip /\ inbox' = inbox)
      /\ faults' \in Nat
  BY <1>2 DEF SetUp, NoFault, Fault, bounds, wires, Types
<1>4. ASSUME Effect(pc)
      PROVE  /\ chip' \in Chips
             /\ inbox' \in {<<>>, inbox}
             /\ pc = "bitmode_mpsse" => chip'.mode = "mpsse"
  <2>1. Fifo \in Chips /\ [Fifo EXCEPT !.mode = "mpsse"] \in Chips
        /\ [Fifo EXCEPT !.mode = "mpsse"].mode = "mpsse"
    BY DEF Fifo, Chips
  <2>2. inbox' \in {<<>>, inbox}
    BY <1>4 DEF Effect
  <2>3. chip' \in {Fifo, [Fifo EXCEPT !.mode = "mpsse"], chip}
    BY <1>4, Zenon DEF Effect
  <2>4. pc = "bitmode_mpsse" => chip' = [Fifo EXCEPT !.mode = "mpsse"]
    <3>1. "bitmode_mpsse" \notin {"reset", "bitmode_reset"}
      OBVIOUS
    <3> QED BY <1>4, <3>1, Zenon DEF Effect
  <2> QED BY <1>2, <2>1, <2>2, <2>3, <2>4 DEF Types
<1>5. Types'
  <2>1. <<>> \in Seq(Msgs)
    OBVIOUS
  <2>2. pc' \in AllPlaces
    BY <1>1, <1>3 DEF AllPlaces, GoneWrong
  <2> QED BY <1>2, <1>3, <1>4, <2>1, <2>2 DEF Types
<1>6. ASSUME cuts' = 0
      PROVE  Core'
  <2>1. inbox = <<>> /\ inbox' = <<>>
    BY <1>1, <1>2, <1>3, <1>4, <1>6 DEF SetUpInv, NothingYet
  <2>2. Len(inbox') = 0
    BY <2>1
  <2>3. pc' \in FirstPlaces \cup {"loop_on", "left", "close_failed"}
        /\ (pc' = "loop_on" => chip'.mode = "mpsse")
    <3>1. "loop_on" \notin FirstPlaces \cup {"left", "close_failed"}
      BY DEF FirstPlaces
    <3> QED BY <1>1, <1>3, <1>4, <3>1
  <2> QED BY <2>1, <2>2, <2>3 DEF Core, NothingYet, InMpsse, NoJtagYet, OffAfterOn, UnderWay,
             ReadyForNext, Ready, FirstPlaces, EchoPlaces, LoopedOff, OnChain
<1> QED BY <1>5, <1>6 DEF SetUpInv, Core

(* A command is written: everything the places' own parts do not say. *)
LEMMA WriteStep ==
  ASSUME SetUpInv, NEW c \in Msgs, Write(c), pc \notin Leaving, pc' \in AllPlaces,
         c = "jtag" => pc \in OnChain,
         cuts' = 0 => NothingYet' /\ InMpsse' /\ NoJtagYet' /\ UnderWay' /\ ReadyForNext',
         c = "loop_on" => pc = "loop_on"
  PROVE  SetUpInv'
<1>1. Types /\ Types'
  BY WriteOutcome DEF SetUpInv, Types
<1>2. ASSUME cuts' = 0
      PROVE  OffAfterOn' /\ Ready'
  <2>1. cuts = 0 /\ inbox' \in {inbox, Append(inbox, c)} /\ chip' = chip
    BY <1>1, <1>2, WriteOutcome
  <2>2. Core
    BY <2>1 DEF SetUpInv, Core
  <2>3. CASE c # "loop_on"
    BY <1>1, <2>1, <2>2, <2>3, SameOrAppended DEF Core, ReadyForNext
  <2>4. CASE c = "loop_on"
    <3>1. inbox = <<>>
      BY <2>2, <2>4 DEF Core, NothingYet
    <3>2. Len(inbox') \in 0..1 /\ \A k \in 1..Len(inbox') : inbox'[k] = "loop_on"
      BY <2>1, <2>4, <3>1
    <3> QED BY <3>2 DEF OffAfterOn, Ready
  <2> QED BY <2>3, <2>4
<1> QED BY <1>1, <1>2 DEF SetUpInv

LEMMA LoopOnStep ==
  ASSUME SetUpInv, LoopOn
  PROVE  SetUpInv'
<1>1. /\ pc = "loop_on" /\ pc' = "queue_empty" /\ Write("loop_on")
      /\ "loop_on" \in Msgs /\ "loop_on" # "jtag" /\ Types
  BY DEF LoopOn, Msgs, SetUpInv
<1>2. pc \notin Leaving /\ pc' \in AllPlaces
  BY <1>1 DEF Leaving, AllPlaces, EchoPlaces
<1>3. ASSUME cuts' = 0
      PROVE  NothingYet' /\ InMpsse' /\ NoJtagYet' /\ UnderWay' /\ ReadyForNext'
  <2>1. /\ cuts = 0 /\ chip' = chip /\ inbox' \in {inbox, Append(inbox, "loop_on")}
    BY <1>1, <1>3, WriteOutcome
  <2>2. inbox = <<>> /\ chip.mode = "mpsse"
    BY <1>1, <1>2, <2>1 DEF SetUpInv, NothingYet, InMpsse
  <2>3. \A k \in 1..Len(inbox') : inbox'[k] # "jtag"
    BY <2>1, <2>2
  <2> QED BY <1>1, <2>1, <2>2, <2>3 DEF NothingYet, InMpsse, NoJtagYet, UnderWay, ReadyForNext,
             FirstPlaces, LoopedOff, OnChain
<1> QED BY <1>1, <1>2, <1>3, WriteStep

LEMMA BadCommandStep ==
  ASSUME SetUpInv, BadCommand
  PROVE  SetUpInv'
<1>1. /\ pc = "bad_command" /\ pc' = "poll" /\ Write("bad")
      /\ "bad" \in Msgs /\ "bad" \notin {"jtag", "loop_on"} /\ Types
  BY DEF BadCommand, Msgs, SetUpInv
<1>2. pc \notin Leaving /\ pc' \in AllPlaces
  BY <1>1 DEF Leaving, AllPlaces, EchoPlaces
<1>3. ASSUME cuts' = 0
      PROVE  NothingYet' /\ InMpsse' /\ NoJtagYet' /\ UnderWay' /\ ReadyForNext'
  <2>1. /\ cuts = 0 /\ chip' = chip /\ inbox' \in {inbox, Append(inbox, "bad")}
    BY <1>1, <1>3, WriteOutcome
  <2>2. chip.mode = "mpsse" /\ \A k \in 1..Len(inbox) : inbox[k] # "jtag"
    BY <1>1, <1>2, <2>1 DEF SetUpInv, InMpsse, NoJtagYet, EchoPlaces, OnChain
  <2>3. \A k \in 1..Len(inbox') : inbox'[k] # "jtag"
    BY <1>1, <2>1, <2>2 DEF Types
  <2> QED BY <1>1, <2>1, <2>2, <2>3 DEF NothingYet, InMpsse, NoJtagYet, UnderWay, ReadyForNext,
             FirstPlaces, LoopedOff, OnChain
<1> QED BY <1>1, <1>2, <1>3, WriteStep

LEMMA LoopOffStep ==
  ASSUME SetUpInv, LoopOff
  PROVE  SetUpInv'
<1>1. /\ pc = "loop_off" /\ pc' = "queue_empty_again" /\ Write("loop_off")
      /\ "loop_off" \in Msgs /\ "loop_off" \notin {"jtag", "loop_on"} /\ Types
  BY DEF LoopOff, Msgs, SetUpInv
<1>2. pc \notin Leaving /\ pc' \in AllPlaces
  BY <1>1 DEF Leaving, AllPlaces, EchoPlaces, LoopedOff
<1>3. ASSUME cuts' = 0
      PROVE  NothingYet' /\ InMpsse' /\ NoJtagYet' /\ UnderWay' /\ ReadyForNext'
  <2>1. /\ cuts = 0 /\ chip' = chip /\ inbox' \in {inbox, Append(inbox, "loop_off")}
        /\ inbox' = Append(inbox, "loop_off") \/ failed'
    BY <1>1, <1>3, WriteOutcome
  <2>2. chip.mode = "mpsse" /\ \A k \in 1..Len(inbox) : inbox[k] # "jtag"
    BY <1>1, <1>2, <2>1 DEF SetUpInv, InMpsse, NoJtagYet, EchoPlaces, OnChain
  <2>3. \A k \in 1..Len(inbox') : inbox'[k] # "jtag"
    BY <1>1, <2>1, <2>2 DEF Types
  <2>4. UnderWay'
    <3>1. Sent' = {}
      BY <1>1 DEF Sent, SentBefore
    <3>2. ~ failed' => LoopOffAt(End)'
      BY <1>1, <2>1, AppendedIsSent
    <3> QED BY <3>1, <3>2 DEF UnderWay
  <2> QED BY <1>1, <2>1, <2>2, <2>3, <2>4 DEF NothingYet, InMpsse, NoJtagYet, ReadyForNext,
             FirstPlaces, OnChain
<1> QED BY <1>1, <1>2, <1>3, WriteStep

(* The four writes of the configuration: with the last of them everything  *)
(* has been sent, unless a call has failed and the device is closed.       *)
LEMMA ConfigureStep ==
  ASSUME SetUpInv, Configure
  PROVE  SetUpInv'
<1>1. /\ pc \in Settings /\ Write(pc) /\ pc \in Msgs /\ pc \notin {"jtag", "loop_on"} /\ Types
      /\ pc \in LoopedOff
  BY DEF Configure, Settings, Msgs, LoopedOff, SetUpInv
<1>2. /\ pc = "clock" => pc' = "divisor"
      /\ pc = "divisor" => pc' = "low"
      /\ pc = "low" => pc' = "high"
      /\ pc = "high" => pc' = IF failed' THEN "close_failed" ELSE "jtag_reset"
  BY DEF Configure, ConfigureNext, FailedBefore
<1>3. pc \notin Leaving /\ pc' \in AllPlaces
  BY <1>1, <1>2 DEF Leaving, AllPlaces, LoopedOff, GoneWrong, OnChain, Settings
<1>4. ASSUME cuts' = 0
      PROVE  NothingYet' /\ InMpsse' /\ NoJtagYet' /\ UnderWay' /\ ReadyForNext'
  <2>1. /\ cuts = 0 /\ chip' = chip /\ inbox' \in {inbox, Append(inbox, pc)}
        /\ (inbox' = Append(inbox, pc) /\ failed' = failed) \/ failed' = TRUE
    BY <1>1, <1>4, WriteOutcome
  <2>2. Core
    BY <1>3, <2>1 DEF SetUpInv, Core
  <2>3. chip.mode = "mpsse" /\ \A k \in 1..Len(inbox) : inbox[k] # "jtag"
    BY <1>1, <2>2 DEF Core, InMpsse, NoJtagYet, Settings, OnChain
  <2>4. \A k \in 1..Len(inbox') : inbox'[k] # "jtag"
    BY <1>1, <2>1, <2>3 DEF Types
  <2>5. PICK c \in Settings, sent \in SUBSET Settings : c = pc /\ sent = Sent
    <3>1. Sent \subseteq Settings
      BY DEF Sent, SentBefore, Settings
    <3> QED BY <1>1, <3>1
  <2>6. ASSUME ~ failed'
        PROVE  /\ LoopOffAt(End)'
               /\ \A x \in sent \cup {c} : SetAt(x, End)'
    <3>1. inbox' = Append(inbox, c) /\ ~ failed
      BY <2>1, <2>5, <2>6
    <3>2. LoopOffAt(End) /\ \A x \in sent : SetAt(x, End)
      BY <1>1, <2>2, <2>5, <3>1 DEF Core, UnderWay
    <3>3. Types'
      BY <1>1, <1>3, WriteOutcome DEF Types
    <3>4. LoopOffAt(End)' /\ \A x : SetAt(x, End) => SetAt(x, End)'
      BY <1>1, <2>1, <2>2, <3>2, <3>3, SameOrAppended DEF Core
    <3>5. SetAt(c, End)'
      BY <1>1, <3>1, AppendedIsSent
    <3> QED BY <3>2, <3>4, <3>5
  <2>7. /\ pc # "high" => Sent' = sent \cup {c}
        /\ pc = "high" => sent \cup {c} = Settings
    BY <1>1, <1>2, <2>5 DEF Sent, SentBefore, Settings
  <2>8. UnderWay'
    <3>1. pc = "high" => pc' \notin LoopedOff
      BY <1>2 DEF LoopedOff
    <3> QED BY <2>6, <2>7, <3>1 DEF UnderWay
  <2>9. ReadyForNext'
    <3>1. SUFFICES ASSUME pc' \in OnChain PROVE ReadyAt(End)'
      BY DEF ReadyForNext
    <3>2. pc = "high" /\ ~ failed'
      BY <1>1, <1>2, <3>1 DEF OnChain, Settings
    <3> QED BY <2>1, <2>3, <2>6, <2>7, <3>2 DEF ReadyAt
  <2>10. NothingYet' /\ InMpsse' /\ NoJtagYet'
    <3>1. pc' \notin FirstPlaces \cup {"loop_on"}
      BY <1>1, <1>2 DEF Settings, FirstPlaces
    <3> QED BY <2>1, <2>3, <2>4, <3>1 DEF NothingYet, InMpsse, NoJtagYet
  <2> QED BY <2>8, <2>9, <2>10
<1> QED BY <1>1, <1>3, <1>4, WriteStep

(* Commands for the chain, from the prompt or before it. *)
LEMMA JtagStep ==
  ASSUME SetUpInv, Write("jtag"), pc \in OnChain, pc' \in OnChain \cup {"left"}
  PROVE  SetUpInv'
<1>1. "jtag" \in Msgs /\ "jtag" # "loop_on" /\ Types
  BY DEF Msgs, SetUpInv
<1>2. pc \notin Leaving /\ pc' \in AllPlaces
  BY DEF Leaving, AllPlaces, OnChain
<1>3. ASSUME cuts' = 0
      PROVE  NothingYet' /\ InMpsse' /\ NoJtagYet' /\ UnderWay' /\ ReadyForNext'
  <2>1. /\ cuts = 0 /\ chip' = chip /\ inbox' \in {inbox, Append(inbox, "jtag")}
    BY <1>1, <1>3, WriteOutcome
  <2>2. Core /\ ReadyAt(End)
    BY <1>2, <2>1 DEF SetUpInv, Core, ReadyForNext
  <2>3. Types'
    BY <1>1, <1>2, WriteOutcome DEF Types
  <2>4. LoopOffAt(End)' /\ \A x : SetAt(x, End) => SetAt(x, End)'
    BY <1>1, <2>1, <2>2, <2>3, SameOrAppended DEF Core, ReadyAt
  <2>5. ReadyAt(End)'
    BY <2>1, <2>2, <2>4 DEF ReadyAt
  <2>6. pc' \notin FirstPlaces \cup {"loop_on"} \cup EchoPlaces \cup LoopedOff
    BY DEF OnChain, FirstPlaces, EchoPlaces, LoopedOff
  <2> QED BY <2>5, <2>6 DEF NothingYet, InMpsse, NoJtagYet, UnderWay, ReadyForNext
<1> QED BY <1>1, <1>2, <1>3, WriteStep

-----------------------------------------------------------------------------
(* A step that sends nothing and leaves the chip alone moves within a      *)
(* group of places, or to one of which less is said.                       *)
LEMMA PlainStep ==
  ASSUME SetUpInv, chip' = chip, inbox' = inbox, cuts' = cuts,
         faults' \in Nat, failed' \in BOOLEAN, ~ failed' => ~ failed, pc' \in AllPlaces,
         pc \in Leaving => pc' \in Leaving,
         pc' \in FirstPlaces \cup {"loop_on"} => pc' = pc,
         pc' \in EchoPlaces => pc \in EchoPlaces,
         pc' \in LoopedOff => pc \in LoopedOff /\ Sent' = Sent,
         pc' \in OnChain => pc \in OnChain,
         pc' \notin OnChain \cup Leaving \cup {"left"} => pc \notin OnChain \cup {"left"}
  PROVE  SetUpInv'
<1>1. Types /\ Types'
  BY DEF SetUpInv, Types
<1>2. ASSUME cuts' = 0, pc' \notin Leaving
      PROVE  Core'
  <2>1. Core
    BY <1>2 DEF SetUpInv, Core
  <2>2. /\ OffAfterOn' /\ Ready'
        /\ ReadyAt(End) => ReadyAt(End)'
        /\ \A x : SetAt(x, End) => SetAt(x, End)'
        /\ LoopOffAt(End) => LoopOffAt(End)'
    BY <1>1, <2>1, NothingSent
  <2>3. UnderWay' /\ ReadyForNext'
    BY <2>1, <2>2 DEF Core, UnderWay, ReadyForNext
  <2>4. NothingYet' /\ InMpsse' /\ NoJtagYet'
    BY <1>2, <2>1 DEF Core, NothingYet, InMpsse, NoJtagYet
  <2> QED BY <2>2, <2>3, <2>4 DEF Core
<1> QED BY <1>1, <1>2 DEF SetUpInv, Core

(* A call of the driver counts, if it fails. *)
LEMMA Counted ==
  ASSUME Types, Fault \/ NoFault
  PROVE  faults' \in Nat /\ cuts' = cuts
BY DEF Types, Fault, NoFault, bounds

LEMMA QueueEmptyStep ==
  ASSUME SetUpInv, QueueEmpty
  PROVE  SetUpInv'
<1>1. Types
  BY DEF SetUpInv
<1>2. /\ chip' = chip /\ inbox' = inbox
      /\ \/ NoFault /\ failed' = failed
         \/ Fault /\ failed' = TRUE
  BY DEF QueueEmpty, wires
<1>3. \/ pc = "queue_empty" /\ pc' \in {"bitmode_off", "bad_command"}
      \/ pc = "queue_empty_again" /\ pc' \in {"bitmode_off", "clock"}
  BY DEF QueueEmpty, WhenEmpty
<1>4. pc' = "clock" => Sent' = Sent
  BY <1>3 DEF Sent, SentBefore
<1>5. faults' \in Nat /\ cuts' = cuts /\ failed' \in BOOLEAN /\ (~ failed' => ~ failed)
  BY <1>1, <1>2, Counted DEF Types
<1> QED BY <1>2, <1>3, <1>4, <1>5, PlainStep DEF AllPlaces, Leaving, FirstPlaces, EchoPlaces,
           LoopedOff, OnChain, GoneWrong

LEMMA EchoStep ==
  ASSUME SetUpInv, Poll \/ ReadEcho
  PROVE  SetUpInv'
<1>1. Types
  BY DEF SetUpInv
<1>2. /\ chip' = chip /\ inbox' = inbox
      /\ \/ NoFault /\ failed' = failed
         \/ Fault /\ failed' = TRUE
  BY DEF Poll, ReadEcho, wires
<1>3. \/ pc = "poll" /\ pc' \in {"poll", "read"}
      \/ pc = "read" /\ pc' \in {"loop_off", "close_failed"}
  BY DEF Poll, ReadEcho
<1>4. faults' \in Nat /\ cuts' = cuts /\ failed' \in BOOLEAN /\ (~ failed' => ~ failed)
  BY <1>1, <1>2, Counted DEF Types
<1> QED BY <1>2, <1>3, <1>4, PlainStep DEF AllPlaces, Leaving, FirstPlaces, EchoPlaces,
           LoopedOff, OnChain, GoneWrong

(* The set-up is given up: nothing has been sent down the chain, so what   *)
(* becomes of the chip does not matter.                                    *)
LEMMA GivenUpStep ==
  ASSUME SetUpInv, BitmodeOff \/ CloseFailed
  PROVE  SetUpInv'
<1>1. Types
  BY DEF SetUpInv
<1>2. /\ pc \in GoneWrong /\ pc' \in {"close_failed", "left"}
      /\ inbox' = inbox /\ chip' \in {chip, Fifo} /\ failed' = failed
      /\ Fault \/ NoFault
  BY DEF BitmodeOff, CloseFailed, GoneWrong, hostVars, wires, NoFault
<1>3. Fifo \in Chips
  BY DEF Fifo, Chips
<1>4. Types' /\ cuts' = cuts
  BY <1>1, <1>2, <1>3, Counted DEF Types, AllPlaces, GoneWrong
<1>5. ASSUME cuts = 0 PROVE Core'
  <2>1. OffAfterOn /\ \A k \in 1..Len(inbox) : inbox[k] # "jtag"
    BY <1>2, <1>5 DEF SetUpInv, NoJtagYet, GoneWrong, Leaving, OnChain
  <2> QED BY <1>2, <2>1 DEF Core, NothingYet, InMpsse, NoJtagYet, OffAfterOn, UnderWay,
             ReadyForNext, Ready, FirstPlaces, EchoPlaces, LoopedOff, OnChain
<1> QED BY <1>4, <1>5 DEF SetUpInv, Core

LEMMA ConsoleStep ==
  ASSUME SetUpInv, ReadLine \/ EndOfFile \/ Parse
  PROVE  SetUpInv'
<1>1. Types
  BY DEF SetUpInv
<1>2. CASE Write("jtag") /\ pc = "parse" /\ pc' = "console"
  BY <1>2, JtagStep DEF OnChain
<1>3. CASE /\ pc \in {"console", "parse"} /\ pc' \in {"console", "parse", "bitmode"}
           /\ UNCHANGED <<chip, inbox, bounds, failed>>
  <2>1. cuts' = cuts /\ faults' \in Nat /\ failed' \in BOOLEAN /\ failed' = failed
    BY <1>1, <1>3 DEF Types, bounds
  <2> QED BY <1>3, <2>1, PlainStep DEF AllPlaces, Leaving, FirstPlaces, EchoPlaces, LoopedOff,
             OnChain
<1>4. CASE ReadLine \/ EndOfFile
  BY <1>3, <1>4 DEF ReadLine, EndOfFile, hostVars, wires
<1>5. CASE Parse
  BY <1>2, <1>3, <1>5 DEF Parse
<1> QED BY <1>4, <1>5

LEMMA CloseStep ==
  ASSUME SetUpInv, Close
  PROVE  SetUpInv'
<1>1. Types /\ Fifo \in Chips /\ <<>> \in Seq(Msgs)
  BY DEF SetUpInv, Fifo, Chips
<1>2. pc' \in Leaving
  BY DEF Close, CloseNext, Leaving
<1>3. /\ chip' \in {chip, Fifo} /\ inbox' \in {inbox, <<>>} /\ failed' = failed
      /\ Fault \/ NoFault
  BY DEF Close, hostVars
<1>4. Types'
  BY <1>1, <1>2, <1>3, Counted DEF Types, AllPlaces
<1> QED BY <1>2, <1>4 DEF SetUpInv

LEMMA ChipTakesStep ==
  ASSUME SetUpInv, ChipTakes
  PROVE  SetUpInv'
<1>1. /\ inbox # <<>> /\ Take(Head(inbox)) /\ inbox' = Tail(inbox)
      /\ pc' = pc /\ failed' = failed /\ cuts' = cuts /\ faults' = faults
  BY DEF ChipTakes, hostVars, bounds
<1>2. Types
  BY DEF SetUpInv
<1>3. inbox' \in Seq(Msgs) /\ chip' \in Chips
  <2>1. inbox' \in Seq(Msgs) /\ Head(inbox) \in Msgs
    BY <1>1, <1>2 DEF Types
  <2> QED BY <1>1, <1>2, <2>1, TakeType DEF Types
<1>4. Types'
  BY <1>1, <1>2, <1>3 DEF Types
<1>5. ASSUME cuts = 0, pc \notin Leaving PROVE Core'
  <2>1. Core
    BY <1>5 DEF SetUpInv, Core
  <2>2. /\ chip'.mode = chip.mode /\ OffAfterOn' /\ Ready'
        /\ chip.mode = "mpsse" /\ LoopOffAt(End) => LoopOffAt(End)'
        /\ chip.mode = "mpsse" => \A x \in Settings : SetAt(x, End) => SetAt(x, End)'
    BY <1>1, <1>2, <2>1, TakenIsDone DEF Core
  <2>3. NothingYet' /\ InMpsse'
    BY <1>1, <2>1, <2>2 DEF Core, NothingYet, InMpsse
  <2>4. NoJtagYet'
    <3>1. Len(inbox') = Len(inbox) - 1 /\ Len(inbox) \in Nat
          /\ \A k \in 1..Len(inbox') : inbox'[k] = inbox[k + 1]
      BY <1>1, <1>2 DEF Types
    <3> QED BY <1>1, <2>1, <3>1 DEF Core, NoJtagYet
  <2>5. UnderWay'
    <3>1. Sent' = Sent /\ Sent \subseteq Settings
      BY <1>1 DEF Sent, SentBefore, Settings
    <3> QED BY <1>1, <2>1, <2>2, <3>1 DEF Core, UnderWay, InMpsse
  <2>6. ReadyForNext'
    BY <1>1, <2>1, <2>2 DEF Core, ReadyForNext, ReadyAt
  <2> QED BY <2>2, <2>3, <2>4, <2>5, <2>6 DEF Core
<1> QED BY <1>1, <1>4, <1>5 DEF SetUpInv, Core

LEMMA NextInv == SetUpInv /\ [Next]_vars => SetUpInv'
<1> SUFFICES ASSUME SetUpInv, [Next]_vars PROVE SetUpInv'
  OBVIOUS
<1>1. CASE SetUp
  BY <1>1, SetUpStep
<1>2. CASE LoopOn \/ BadCommand \/ LoopOff
  BY <1>2, LoopOnStep, BadCommandStep, LoopOffStep
<1>3. CASE QueueEmpty \/ Poll \/ ReadEcho
  BY <1>3, QueueEmptyStep, EchoStep
<1>4. CASE BitmodeOff \/ CloseFailed
  BY <1>4, GivenUpStep
<1>5. CASE Configure
  BY <1>5, ConfigureStep
<1>6. CASE JtagReset \/ Detect \/ Scans
  <2>1. /\ Write("jtag") /\ pc \in {"jtag_reset", "detect", "scans"}
        /\ pc' \in {"left", "detect", "scans", "console"}
    BY <1>6 DEF JtagReset, Detect, Scans
  <2> QED BY <2>1, JtagStep DEF OnChain
<1>7. CASE ReadLine \/ EndOfFile \/ Parse
  BY <1>7, ConsoleStep
<1>8. CASE Close
  BY <1>8, CloseStep
<1>9. CASE ChipTakes
  BY <1>9, ChipTakesStep
<1>10. CASE Deliver \/ UNCHANGED vars
  <2>1. UNCHANGED <<pc, chip, inbox, cuts, faults, failed>>
    BY <1>10 DEF Deliver, vars, hostVars, wires, bounds
  <2>2. Types /\ Sent' = Sent
    BY <2>1 DEF SetUpInv, Sent
  <2> QED BY <2>1, <2>2, PlainStep DEF Types
<1> QED BY <1>1, <1>2, <1>3, <1>4, <1>5, <1>6, <1>7, <1>8, <1>9, <1>10 DEF Next, Program

LEMMA ReadyWhenTaken == SetUpInv => JtagOnlyWhenReady
<1> SUFFICES ASSUME SetUpInv, inbox # <<>>, Head(inbox) = "jtag", cuts = 0, pc \notin Leaving
             PROVE  chip = [mode |-> "mpsse", loop |-> FALSE, conf |-> Settings]
  BY DEF JtagOnlyWhenReady, Leaving
<1>1. Types /\ Ready
  BY DEF SetUpInv
<1>2. Len(inbox) \in Nat \ {0} /\ inbox[1] = "jtag"
  BY <1>1 DEF Types
<1>3. ReadyAt(1)
  BY <1>1, <1>2 DEF Ready
<1>4. chip.mode = "mpsse" /\ ~ chip.loop /\ Settings \subseteq chip.conf
  BY <1>3 DEF ReadyAt, LoopOffAt, SetAt
<1>5. chip.loop = FALSE /\ chip.conf = Settings
  BY <1>1, <1>4 DEF Types, Chips
<1> QED BY <1>1, <1>4, <1>5 DEF Types, Chips

(* In every session, whatever calls fail: a command for the chain is taken *)
(* only by a chip that is in MPSSE mode, out of loop-back and configured,  *)
(* unless a write was cut and reported as done (ftdi_device.c 271-446).    *)
THEOREM ReadyCorrect == Spec => []JtagOnlyWhenReady
<1>1. Init => SetUpInv
  BY InitInv
<1>2. SetUpInv /\ [Next]_vars => SetUpInv'
  BY NextInv
<1>3. SetUpInv => JtagOnlyWhenReady
  BY ReadyWhenTaken
<1> QED BY <1>1, <1>2, <1>3, PTL DEF Spec

-----------------------------------------------------------------------------
(* The handle is open wherever the program has a call to make. *)
HandleInv == pc \notin {"open", "left", "closed"} => handle = "open"

(* What a step does to the handle, and the calls it makes. *)
LEMMA HandleStep ==
  ASSUME HandleInv, Next
  PROVE  HandleInv'
<1>1. CASE SetUp
  <2>1. pc \in FirstPlaces /\ call' = pc
    BY <1>1, AfterFirst DEF SetUp
  <2>2. handle' = handle \/ (pc = "open" /\ handle' = "open")
    BY <1>1 DEF SetUp, Effect
  <2>3. pc = "open" => handle' = "open" \/ pc' = "left"
    BY <1>1 DEF SetUp, Effect
  <2> QED BY <2>1, <2>2, <2>3 DEF HandleInv, FirstPlaces
<1>2. CASE LoopOn \/ BadCommand \/ LoopOff
  BY <1>2 DEF LoopOn, BadCommand, LoopOff, HandleInv
<1>3. CASE QueueEmpty \/ Poll \/ ReadEcho
  BY <1>3 DEF QueueEmpty, Poll, ReadEcho, HandleInv
<1>4. CASE BitmodeOff \/ CloseFailed
  BY <1>4 DEF BitmodeOff, CloseFailed, HandleInv
<1>5. CASE Configure
  BY <1>5 DEF Configure, Settings, HandleInv
<1>6. CASE JtagReset \/ Detect \/ Scans
  BY <1>6 DEF JtagReset, Detect, Scans, HandleInv
<1>7. CASE ReadLine \/ EndOfFile \/ Parse
  BY <1>7 DEF ReadLine, EndOfFile, Parse, HandleInv
<1>8. CASE Close
  <2>1. pc \in {"bitmode", "reset_last", "close"} /\ pc' = CloseNext[pc]
        /\ handle' = IF pc = "close" THEN "closed" ELSE handle
    BY <1>8 DEF Close
  <2> QED BY <2>1 DEF CloseNext, HandleInv
<1>9. CASE ChipTakes \/ Deliver
  BY <1>9 DEF ChipTakes, Deliver, HandleInv
<1> QED BY <1>1, <1>2, <1>3, <1>4, <1>5, <1>6, <1>7, <1>8, <1>9 DEF Next, Program

LEMMA ProgramRuns == Program => pc \notin {"left", "closed"}
<1> USE DEF Settings, FirstPlaces
<1>1. SetUp => pc \notin {"left", "closed"}
  <2>1. SetUp => pc \in FirstPlaces
    BY AfterFirst DEF SetUp
  <2> QED BY <2>1
<1>2. LoopOn \/ QueueEmpty \/ BitmodeOff \/ BadCommand \/ Poll \/ ReadEcho \/ LoopOff
        => pc \notin {"left", "closed"}
  BY DEF LoopOn, QueueEmpty, BitmodeOff, BadCommand, Poll, ReadEcho, LoopOff
<1>3. Configure \/ CloseFailed \/ JtagReset \/ Detect \/ Scans \/ Parse \/ Close
        => pc \notin {"left", "closed"}
  BY DEF Configure, CloseFailed, JtagReset, Detect, Scans, Parse, Close
<1> QED BY <1>1, <1>2, <1>3 DEF Program

(* On every way through the set-up and out of it, the program acts on a    *)
(* handle that is open, and so closes it no more than once                 *)
(* (ftdi_device.c 51-130, uviemon.c 158-217).                              *)
THEOREM HandleCorrect == Spec => HandleUsedOpen
<1>1. Init => HandleInv
  BY DEF Init, HandleInv
<1>2. HandleInv /\ [Next]_vars => HandleInv'
  BY HandleStep DEF HandleInv, vars
<1>3. HandleInv /\ [Next]_vars => [Program => handle = "open" \/ pc = "open"]_vars
  BY ProgramRuns DEF HandleInv
<1> QED BY <1>1, <1>2, <1>3, PTL DEF Spec, HandleUsedOpen
-----------------------------------------------------------------------------
(* The bytes on their way to the host: one may be left over from before,   *)
(* and the chip answers the one bad command it is sent with two.           *)
Echo == {"old", "FA", "AB"}
OnTheWay == Len(rx) + Len(outbox)

NoBad(q) == \A k \in 1..Len(q) : q[k] # "bad"
OneBad(q) == \A k, m \in 1..Len(q) : q[k] = "bad" /\ q[m] = "bad" => k = m
Within(q, bytes) == OneBad(q) /\ bytes \in 0..3 /\ (NoBad(q) \/ bytes < 2)

BeforeBad == FirstPlaces \cup {"loop_on", "queue_empty", "bad_command"}

Input ==
  /\ rx \in Seq(Echo) /\ outbox \in Seq(Echo)
  /\ Within(inbox, OnTheWay)
  /\ pc \in BeforeBad => NoBad(inbox) /\ OnTheWay < 2

Looked ==
  /\ toRead \in 0..3
  /\ pc \in BeforeBad \cup {"poll"} => toRead = 0
  /\ pc = "read" => toRead <= Len(rx) /\ (toRead = 0 => failed)

Entered ==
  /\ command \in Commands \cup {"nonsense", "unset"}
  /\ pc = "parse" => line \in Commands \cup {"blank", "nonsense"}
  /\ handle \in {"none", "open", "closed"}

EchoInv == SetUpInv /\ Input /\ Looked /\ Entered

(* A command is appended. *)
LEMMA AppendWithin ==
  ASSUME NEW q \in Seq(Msgs), NEW c \in Msgs, NEW b, Within(q, b)
  PROVE  /\ c # "bad" => Within(Append(q, c), b) /\ (NoBad(q) => NoBad(Append(q, c)))
         /\ NoBad(q) /\ b < 2 => Within(Append(q, c), b)
<1> DEFINE r == Append(q, c)
<1>1. /\ Len(q) \in Nat /\ Len(r) = Len(q) + 1 /\ r[Len(q) + 1] = c
      /\ \A k \in 1..Len(q) : r[k] = q[k]
  OBVIOUS
<1> HIDE DEF r
<1>2. c # "bad" => OneBad(r) /\ (NoBad(q) => NoBad(r))
  BY <1>1 DEF Within, OneBad, NoBad
<1>3. NoBad(q) => OneBad(r)
  BY <1>1 DEF OneBad, NoBad
<1>4. c # "bad" /\ b \in 0..3 => Within(r, b)
  BY <1>2 DEF Within
<1> QED BY <1>2, <1>3, <1>4 DEF Within, r

(* A command is taken; the bad one is answered. *)
LEMMA TailWithin ==
  ASSUME NEW q \in Seq(Msgs), q # <<>>, NEW b, Within(q, b)
  PROVE  /\ Within(Tail(q), b)
         /\ NoBad(q) => NoBad(Tail(q)) /\ Head(q) # "bad"
         /\ Head(q) = "bad" => Within(Tail(q), b + 2)
<1> DEFINE r == Tail(q)
<1>1. /\ Len(q) \in Nat \ {0} /\ Len(r) = Len(q) - 1 /\ Head(q) = q[1]
      /\ \A k \in 1..Len(r) : r[k] = q[k + 1]
  OBVIOUS
<1> HIDE DEF r
<1>2. \A k \in 1..Len(r) : k + 1 \in 1..Len(q) /\ k + 1 # 1
  BY <1>1
<1>3. OneBad(r) /\ (NoBad(q) => NoBad(r) /\ Head(q) # "bad")
  BY <1>1, <1>2 DEF Within, OneBad, NoBad
<1>4. Head(q) = "bad" => NoBad(r) /\ b < 2
  <2>1. SUFFICES ASSUME Head(q) = "bad" PROVE NoBad(r) /\ b < 2
    OBVIOUS
  <2>2. 1 \in 1..Len(q)
    BY <1>1
  <2>3. NoBad(r)
    BY <1>1, <1>2, <2>1, <2>2 DEF Within, OneBad, NoBad
  <2>4. ~ NoBad(q)
    BY <1>1, <2>1, <2>2 DEF NoBad
  <2> QED BY <2>3, <2>4 DEF Within
<1>5. b \in 0..3 /\ (b < 2 => b + 2 \in 0..3)
  BY DEF Within
<1> QED BY <1>3, <1>4, <1>5 DEF Within, r

LEMMA FewerWithin ==
  ASSUME NEW q, NEW b, Within(q, b), NEW d \in Nat, d <= b
  PROVE  Within(q, d) /\ (b < 2 => d < 2) /\ Within(<<>>, d) /\ NoBad(<<>>)
BY DEF Within, OneBad, NoBad

LEMMA Lengths ==
  ASSUME Input
  PROVE  /\ Len(rx) \in Nat /\ Len(outbox) \in Nat
         /\ OnTheWay \in 0..3 /\ Len(rx) \in 0..3
<1>1. Len(rx) \in Nat /\ Len(outbox) \in Nat
  BY DEF Input
<1>2. OnTheWay \in 0..3 /\ OnTheWay = Len(rx) + Len(outbox)
  BY DEF Input, Within, OnTheWay
<1>3. \A a, b \in Nat : a + b \in 0..3 => a \in 0..3
  OBVIOUS
<1> QED BY <1>1, <1>2, <1>3

LEMMA InitEcho == Init => EchoInv
<1> SUFFICES ASSUME Init PROVE EchoInv
  OBVIOUS
<1>1. /\ pc = "open" /\ inbox = <<>> /\ rx = <<>> /\ outbox \in {<<>>, <<"old">>}
      /\ toRead = 0 /\ command = "unset" /\ line = "blank" /\ handle = "none"
  BY DEF Init
<1>2. rx \in Seq(Echo) /\ outbox \in Seq(Echo) /\ OnTheWay \in 0..1
  <2>1. CASE outbox = <<>>
    BY <1>1, <2>1 DEF OnTheWay
  <2>2. CASE outbox = <<"old">>
    <3>1. "old" \in Echo
      BY DEF Echo
    <3>2. outbox \in Seq(Echo) /\ Len(outbox) = 1
      BY <2>2, <3>1
    <3> QED BY <1>1, <3>2 DEF OnTheWay
  <2> QED BY <1>1, <2>1, <2>2
<1>3. NoBad(inbox) /\ OneBad(inbox)
  BY <1>1 DEF NoBad, OneBad
<1>4. Input
  BY <1>2, <1>3 DEF Input, Within
<1>5. Looked /\ Entered
  BY <1>1 DEF Looked, Entered
<1> QED BY <1>4, <1>5, InitInv DEF EchoInv

-----------------------------------------------------------------------------
(* What a step does to the bytes, part by part. *)
LEMMA SetUpEcho ==
  ASSUME EchoInv, SetUp
  PROVE  Input' /\ Looked' /\ Entered'
<1>1. /\ pc \in FirstPlaces
      /\ pc' \in FirstPlaces \cup {"loop_on", "left", "close_failed"}
  BY AfterFirst DEF SetUp
<1>2. pc \in BeforeBad /\ pc' \notin {"poll", "read", "parse"}
  BY <1>1 DEF FirstPlaces, BeforeBad
<1>3. \/ inbox' = inbox /\ outbox' = outbox /\ rx' = rx
      \/ inbox' = <<>> /\ outbox' \in {<<>>, outbox} /\ rx' = <<>>
  BY DEF SetUp, Effect, wires
<1>4. /\ rx \in Seq(Echo) /\ outbox \in Seq(Echo) /\ Len(rx) \in Nat /\ Len(outbox) \in Nat
      /\ Within(inbox, OnTheWay) /\ NoBad(inbox) /\ OnTheWay < 2
  BY <1>2 DEF EchoInv, Input
<1>5. /\ rx' \in Seq(Echo) /\ outbox' \in Seq(Echo)
      /\ OnTheWay' \in Nat /\ OnTheWay' <= OnTheWay
  BY <1>3, <1>4 DEF OnTheWay
<1>6. Within(inbox', OnTheWay') /\ NoBad(inbox') /\ OnTheWay' < 2
  <2>1. Within(inbox, OnTheWay') /\ Within(<<>>, OnTheWay') /\ NoBad(<<>>) /\ OnTheWay' < 2
    BY <1>4, <1>5, FewerWithin
  <2> QED BY <1>3, <1>4, <2>1
<1>7. Input'
  BY <1>5, <1>6 DEF Input
<1>8. toRead = 0 /\ toRead' = toRead
  BY <1>2 DEF EchoInv, Looked, SetUp, hostVars
<1>9. Looked'
  BY <1>2, <1>8 DEF Looked
<1>10. Entered'
  BY <1>2 DEF EchoInv, Entered, SetUp, Effect, wires, userVars
<1> QED BY <1>7, <1>9, <1>10

(* A write sends its command or does not. *)
LEMMA WriteSends ==
  ASSUME NEW c, Write(c)
  PROVE  inbox' \in {inbox, Append(inbox, c)} /\ rx' = rx /\ outbox' = outbox
         /\ OnTheWay' = OnTheWay
BY DEF Write, OnTheWay

LEMMA WriteEcho ==
  ASSUME EchoInv, NEW c \in Msgs \ {"bad"}, Write(c), pc' \in BeforeBad => pc \in BeforeBad
  PROVE  Input'
<1>1. inbox \in Seq(Msgs) /\ Input
  BY DEF EchoInv, SetUpInv, Types
<1>2. Within(inbox', OnTheWay) /\ (NoBad(inbox) => NoBad(inbox'))
  <2>1. /\ Within(Append(inbox, c), OnTheWay)
        /\ NoBad(inbox) => NoBad(Append(inbox, c))
    BY <1>1, AppendWithin DEF Input
  <2> QED BY <1>1, <2>1, WriteSends DEF Input
<1>3. rx' = rx /\ outbox' = outbox /\ OnTheWay' = OnTheWay
  BY WriteSends
<1> QED BY <1>1, <1>2, <1>3 DEF Input

LEMMA BadEcho ==
  ASSUME EchoInv, BadCommand
  PROVE  Input' /\ Looked' /\ Entered'
<1>1. Write("bad") /\ pc = "bad_command" /\ pc' = "poll"
  BY DEF BadCommand
<1>2. inbox \in Seq(Msgs) /\ "bad" \in Msgs /\ Input
  BY DEF EchoInv, SetUpInv, Types, Msgs
<1>3. Within(inbox', OnTheWay)
  <2>1. NoBad(inbox) /\ OnTheWay < 2
    BY <1>1, <1>2 DEF Input, BeforeBad
  <2>2. Within(Append(inbox, "bad"), OnTheWay)
    BY <1>2, <2>1, AppendWithin DEF Input
  <2> QED BY <1>1, <1>2, <2>2, WriteSends DEF Input
<1>4. Input'
  <2>1. rx' = rx /\ outbox' = outbox /\ OnTheWay' = OnTheWay
    BY <1>1, WriteSends
  <2> QED BY <1>1, <1>2, <1>3, <2>1 DEF Input, BeforeBad, FirstPlaces
<1>5. Looked' /\ Entered'
  BY <1>1 DEF EchoInv, Looked, Entered, BadCommand, BeforeBad, userVars
<1> QED BY <1>4, <1>5

(* The other writes of the set-up and before the prompt. *)
LEMMA SendsEcho ==
  ASSUME EchoInv, LoopOn \/ LoopOff \/ Configure \/ JtagReset \/ Detect \/ Scans
  PROVE  Input' /\ Looked' /\ Entered'
<1>1. /\ pc \in {"loop_on", "loop_off", "jtag_reset", "detect", "scans"} \cup Settings
      /\ pc' \in {"queue_empty", "queue_empty_again", "left", "detect", "scans", "console",
                  "close_failed", "divisor", "low", "high", "jtag_reset"}
      /\ pc' \in BeforeBad => pc \in BeforeBad
      /\ \E c \in Msgs \ {"bad"} : Write(c)
      /\ toRead' = toRead /\ UNCHANGED <<handle, userVars>>
  <2>1. CASE LoopOn \/ LoopOff
    BY <2>1 DEF LoopOn, LoopOff, Msgs, BeforeBad, FirstPlaces
  <2>2. CASE Configure
    <3>1. pc \in Settings /\ pc' = IF pc = "high" /\ FailedBefore THEN "close_failed" ELSE ConfigureNext[pc]
      BY <2>2 DEF Configure
    <3>2. pc' \in {"close_failed", "divisor", "low", "high", "jtag_reset"}
      BY <3>1 DEF ConfigureNext, Settings
    <3>3. pc' \notin BeforeBad
      BY <3>2 DEF BeforeBad, FirstPlaces
    <3>4. pc \in Msgs \ {"bad"} /\ Write(pc)
      BY <2>2, <3>1 DEF Configure, Msgs, Settings
    <3> QED BY <2>2, <3>1, <3>2, <3>3, <3>4 DEF Configure
  <2>3. CASE JtagReset \/ Detect \/ Scans
    BY <2>3 DEF JtagReset, Detect, Scans, Msgs, BeforeBad, FirstPlaces
  <2> QED BY <2>1, <2>2, <2>3
<1>2. Input'
  BY <1>1, WriteEcho
<1>3. pc' \notin {"poll", "read", "parse"}
  BY <1>1
<1> QED BY <1>1, <1>2, <1>3 DEF EchoInv, Looked, Entered, userVars

(* Steps that send nothing and leave the bytes alone. *)
LEMMA StillEcho ==
  ASSUME Input, UNCHANGED <<inbox, outbox, rx>>, pc' \in BeforeBad => pc \in BeforeBad
  PROVE  Input' /\ OnTheWay' = OnTheWay
BY DEF Input, OnTheWay

LEMMA QueueEcho ==
  ASSUME EchoInv, QueueEmpty \/ BitmodeOff \/ CloseFailed
  PROVE  Input' /\ Looked' /\ Entered'
<1>1. /\ inbox' = inbox /\ outbox' = outbox /\ rx' = rx /\ userVars' = userVars
      /\ handle' \in {handle, "closed"}
  BY DEF QueueEmpty, BitmodeOff, CloseFailed, wires
<1>2. Len(rx) \in 0..3
  BY Lengths DEF EchoInv
<1>3. /\ pc \in {"queue_empty", "queue_empty_again", "bitmode_off", "close_failed"}
      /\ pc' \in {"bitmode_off", "bad_command", "clock", "close_failed", "left"}
      /\ pc' = "bad_command" => pc = "queue_empty"
  BY DEF QueueEmpty, BitmodeOff, CloseFailed, WhenEmpty
<1>4. toRead' \in {toRead, Len(rx)} /\ (pc = "queue_empty" => toRead' = toRead)
  BY DEF QueueEmpty, BitmodeOff, CloseFailed, hostVars
<1>5. pc' \in BeforeBad => pc = "queue_empty" /\ pc \in BeforeBad
  BY <1>3 DEF BeforeBad, FirstPlaces
<1>6. Input'
  BY <1>1, <1>5, StillEcho DEF EchoInv
<1>7. Looked'
  BY <1>2, <1>3, <1>4, <1>5 DEF EchoInv, Looked
<1>8. Entered'
  BY <1>1, <1>3 DEF EchoInv, Entered, userVars
<1> QED BY <1>6, <1>7, <1>8

LEMMA PollEcho ==
  ASSUME EchoInv, Poll
  PROVE  Input' /\ Looked' /\ Entered'
<1>1. /\ inbox' = inbox /\ outbox' = outbox /\ rx' = rx
      /\ userVars' = userVars /\ handle' = handle
      /\ pc = "poll" /\ pc' \in {"poll", "read"}
      /\ pc' = IF PollAgain(toRead') THEN "poll" ELSE "read"
  BY DEF Poll, wires
<1>2. Len(rx) \in 0..3 /\ Len(rx) = Len(rx')
  BY <1>1, Lengths DEF EchoInv
<1>3. \/ toRead' = Len(rx) /\ failed' = failed
      \/ toRead' = toRead /\ failed' = TRUE
  BY DEF Poll
<1>4. toRead = 0 /\ pc' \notin BeforeBad
  BY <1>1 DEF EchoInv, Looked, BeforeBad, FirstPlaces
<1>5. toRead' \in 0..3 /\ toRead' <= Len(rx')
  BY <1>2, <1>3, <1>4
<1>6. Looked'
  BY <1>1, <1>4, <1>5 DEF Looked, PollAgain
<1>7. Input'
  BY <1>1, <1>4, StillEcho DEF EchoInv
<1> QED BY <1>1, <1>6, <1>7 DEF EchoInv, Entered, userVars

LEMMA ReadEchoEcho ==
  ASSUME EchoInv, ReadEcho
  PROVE  Input' /\ Looked' /\ Entered'
<1>1. /\ inbox' = inbox /\ outbox' = outbox /\ toRead' = toRead
      /\ userVars' = userVars /\ handle' = handle
      /\ pc = "read" /\ pc' \in {"loop_off", "close_failed"}
      /\ rx' \in {rx, SubSeq(rx, toRead + 1, Len(rx))}
  BY DEF ReadEcho
<1>2. rx \in Seq(Echo) /\ Len(rx) \in Nat /\ toRead \in 0..Len(rx) /\ toRead \in 0..3
  BY <1>1 DEF EchoInv, Input, Looked
<1>3. rx' \in Seq(Echo) /\ Len(rx') \in Nat /\ Len(rx') <= Len(rx)
  <2>1. CASE toRead = Len(rx)
    <3>1. SubSeq(rx, Len(rx) + 1, Len(rx)) = <<>>
      BY <1>2, SubSeqEmpty
    <3> QED BY <1>1, <1>2, <2>1, <3>1
  <2>2. CASE toRead # Len(rx)
    <3>1. toRead + 1 \in 1..Len(rx)
      BY <1>2, <2>2
    <3> DEFINE s == SubSeq(rx, toRead + 1, Len(rx))
    <3>2. s \in Seq(Echo) /\ Len(s) = Len(rx) - (toRead + 1) + 1
      BY <1>2, <3>1
    <3>3. rx' \in {rx, s}
      BY <1>1
    <3> HIDE DEF s
    <3>4. Len(s) \in Nat /\ Len(s) <= Len(rx)
      BY <1>2, <3>2
    <3> QED BY <1>2, <3>2, <3>3, <3>4
  <2> QED BY <2>1, <2>2
<1>4. Within(inbox', OnTheWay')
  <2>1. OnTheWay' \in Nat /\ OnTheWay' <= OnTheWay
    BY <1>1, <1>2, <1>3 DEF OnTheWay, EchoInv, Input
  <2> QED BY <1>1, <2>1, FewerWithin DEF EchoInv, Input
<1>5. pc' \notin BeforeBad
  BY <1>1 DEF BeforeBad, FirstPlaces
<1>6. Input'
  BY <1>1, <1>3, <1>4, <1>5 DEF Input, EchoInv
<1> QED BY <1>1, <1>2, <1>5, <1>6 DEF EchoInv, Looked, Entered, userVars

LEMMA ConsoleEcho ==
  ASSUME EchoInv, ReadLine \/ EndOfFile \/ Parse
  PROVE  Input' /\ Looked' /\ Entered'
<1>1. /\ pc \in {"console", "parse"} /\ pc' \in {"console", "parse", "bitmode"}
      /\ toRead' = toRead /\ handle' = handle
  BY DEF ReadLine, EndOfFile, Parse, hostVars
<1>2. pc' \notin BeforeBad \cup {"poll", "read"}
  BY <1>1 DEF BeforeBad, FirstPlaces
<1>3. Input'
  <2>1. CASE Write("jtag")
    BY <1>2, <2>1, WriteEcho DEF Msgs
  <2>2. CASE UNCHANGED <<inbox, outbox, rx>>
    BY <1>2, <2>2, StillEcho DEF EchoInv
  <2> QED BY <2>1, <2>2 DEF ReadLine, EndOfFile, Parse, wires
<1>4. Looked'
  BY <1>1, <1>2 DEF EchoInv, Looked
<1>5. command' \in Commands \cup {"nonsense", "unset"}
  <2>1. CASE Parse
    BY <2>1 DEF Parse, Parsed, EchoInv, Entered
  <2>2. CASE ReadLine \/ EndOfFile
    BY <2>2 DEF ReadLine, EndOfFile, EchoInv, Entered
  <2> QED BY <2>1, <2>2
<1>6. pc' = "parse" => line' \in Commands \cup {"blank", "nonsense"}
  BY <1>1 DEF ReadLine, EndOfFile, Parse
<1> QED BY <1>1, <1>3, <1>4, <1>5, <1>6 DEF EchoInv, Entered

LEMMA CloseEcho ==
  ASSUME EchoInv, Close
  PROVE  Input' /\ Looked' /\ Entered'
<1>1. /\ pc' \in {"reset_last", "close", "closed"} /\ handle' \in {handle, "closed"}
      /\ UNCHANGED <<outbox, rx, hostVars, userVars>> /\ inbox' \in {inbox, <<>>}
  BY DEF Close, CloseNext
<1>2. pc' \notin BeforeBad \cup {"poll", "read", "parse"}
  BY <1>1 DEF BeforeBad, FirstPlaces
<1>3. Within(inbox', OnTheWay) /\ OnTheWay' = OnTheWay
  BY <1>1, FewerWithin DEF EchoInv, Input, Within, OnTheWay
<1> QED BY <1>1, <1>2, <1>3 DEF EchoInv, Input, Looked, Entered, hostVars, userVars

LEMMA ChipTakesEcho ==
  ASSUME EchoInv, ChipTakes
  PROVE  Input' /\ Looked' /\ Entered'
<1>1. /\ inbox # <<>> /\ inbox' = Tail(inbox) /\ rx' = rx /\ pc' = pc
      /\ UNCHANGED <<handle, hostVars, userVars>> /\ Take(Head(inbox))
  BY DEF ChipTakes
<1>2. inbox \in Seq(Msgs) /\ Input
  BY DEF EchoInv, SetUpInv, Types
<1>3. outbox' = outbox \/ (Head(inbox) = "bad" /\ outbox' = outbox \o <<"FA", "AB">>)
  <2>1. Head(inbox) \in Msgs
    BY <1>1, <1>2
  <2> QED BY <1>1, <2>1, Zenon DEF Take, Msgs
<1>4. /\ Within(Tail(inbox), OnTheWay)
      /\ NoBad(inbox) => NoBad(Tail(inbox)) /\ Head(inbox) # "bad"
      /\ Head(inbox) = "bad" => Within(Tail(inbox), OnTheWay + 2)
  BY <1>1, <1>2, TailWithin DEF Input
<1>5. CASE outbox' = outbox
  <2>1. OnTheWay' = OnTheWay
    BY <1>1, <1>5 DEF OnTheWay
  <2> QED BY <1>1, <1>2, <1>4, <1>5, <2>1 DEF EchoInv, Input, Looked, Entered, hostVars, userVars
<1>6. CASE Head(inbox) = "bad" /\ outbox' = outbox \o <<"FA", "AB">>
  <2>1. outbox' \in Seq(Echo) /\ Len(outbox') = Len(outbox) + 2
    <3>1. outbox \in Seq(Echo) /\ <<"FA", "AB">> \in Seq(Echo) /\ Len(<<"FA", "AB">>) = 2
      BY <1>2 DEF Input, Echo
    <3> QED BY <1>6, <3>1
  <2>2. OnTheWay' = OnTheWay + 2
    BY <1>1, <1>2, <2>1 DEF OnTheWay, Input
  <2>3. pc \notin BeforeBad
    BY <1>2, <1>4, <1>6 DEF Input
  <2> QED BY <1>1, <1>2, <1>4, <1>6, <2>1, <2>2, <2>3
          DEF EchoInv, Input, Looked, Entered, hostVars, userVars
<1> QED BY <1>3, <1>5, <1>6

LEMMA DeliverEcho ==
  ASSUME EchoInv, Deliver
  PROVE  Input' /\ Looked' /\ Entered'
<1>1. PICK n \in 1..Len(outbox) :
        /\ rx' = rx \o SubSeq(outbox, 1, n)
        /\ outbox' = SubSeq(outbox, n + 1, Len(outbox))
  BY DEF Deliver
<1>2. UNCHANGED <<pc, handle, hostVars, inbox, userVars>>
  BY DEF Deliver
<1>3. rx \in Seq(Echo) /\ outbox \in Seq(Echo) /\ Len(rx) \in Nat /\ Len(outbox) \in Nat
  BY DEF EchoInv, Input
<1>4. SubSeq(outbox, 1, n) \in Seq(Echo) /\ Len(SubSeq(outbox, 1, n)) = n
  BY <1>3
<1>5. rx' \in Seq(Echo) /\ Len(rx') = Len(rx) + n
  BY <1>1, <1>3, <1>4
<1>6. outbox' \in Seq(Echo) /\ Len(outbox') = Len(outbox) - n
  BY <1>1, <1>3
<1>7. OnTheWay' = OnTheWay
  BY <1>3, <1>5, <1>6 DEF OnTheWay
<1>8. Input'
  BY <1>2, <1>5, <1>6, <1>7 DEF EchoInv, Input
<1>9. Looked'
  BY <1>2, <1>3, <1>5 DEF EchoInv, Looked, hostVars
<1> QED BY <1>2, <1>8, <1>9 DEF EchoInv, Entered, userVars

LEMMA NextEcho == EchoInv /\ [Next]_vars => EchoInv'
<1> SUFFICES ASSUME EchoInv, [Next]_vars PROVE EchoInv'
  OBVIOUS
<1>1. SetUpInv'
  BY NextInv DEF EchoInv
<1>2. Input' /\ Looked' /\ Entered'
  <2>1. CASE SetUp
    BY <2>1, SetUpEcho
  <2>2. CASE BadCommand
    BY <2>2, BadEcho
  <2>3. CASE LoopOn \/ LoopOff \/ Configure \/ JtagReset \/ Detect \/ Scans
    BY <2>3, SendsEcho
  <2>4. CASE QueueEmpty \/ BitmodeOff \/ CloseFailed
    BY <2>4, QueueEcho
  <2>5. CASE Poll \/ ReadEcho
    BY <2>5, PollEcho, ReadEchoEcho
  <2>6. CASE ReadLine \/ EndOfFile \/ Parse
    BY <2>6, ConsoleEcho
  <2>7. CASE Close
    BY <2>7, CloseEcho
  <2>8. CASE ChipTakes \/ Deliver
    BY <2>8, ChipTakesEcho, DeliverEcho
  <2>9. CASE UNCHANGED vars
    BY <2>9 DEF EchoInv, Input, Looked, Entered, OnTheWay, vars, hostVars, wires, userVars
  <2> QED BY <2>1, <2>2, <2>3, <2>4, <2>5, <2>6, <2>7, <2>8, <2>9 DEF Next, Program
<1> QED BY <1>1, <1>2 DEF EchoInv

LEMMA EchoTyped == EchoInv => TypeOK
<1> SUFFICES ASSUME EchoInv PROVE TypeOK
  OBVIOUS
<1>1. pc \in Places
  <2>1. FirstPlaces \subseteq Places
    <3>1. \A i \in 1..8 : FirstCalls[i] \in Places
      BY DEF Places
    <3>2. /\ FirstCalls[1] = "open" /\ FirstCalls[2] = "version" /\ FirstCalls[3] = "reset"
          /\ FirstCalls[4] = "usb_parameters" /\ FirstCalls[5] = "purge"
          /\ FirstCalls[6] = "timeouts" /\ FirstCalls[7] = "bitmode_reset"
          /\ FirstCalls[8] = "bitmode_mpsse"
      BY DEF FirstCalls
    <3>3. \A i \in 1..8 : i \in {1, 2, 3, 4, 5, 6, 7, 8}
      OBVIOUS
    <3> QED BY <3>1, <3>2, <3>3 DEF FirstPlaces
  <2>2. pc \in AllPlaces
    BY DEF EchoInv, SetUpInv, Types
  <2>3. pc \notin FirstPlaces => pc \in Places
    BY <2>2 DEF AllPlaces, EchoPlaces, LoopedOff, GoneWrong, OnChain, Leaving, Settings, Places
  <2> QED BY <2>1, <2>3
<1>2. toRead <= 3 /\ (pc = "read" /\ ~ failed => toRead \in 1..Len(rx))
  BY DEF EchoInv, Looked, Input
<1>3. chip.mode \in {"fifo", "mpsse"} /\ chip.conf \subseteq Settings
  BY DEF EchoInv, SetUpInv, Types, Chips
<1> QED BY <1>1, <1>2, <1>3 DEF TypeOK, EchoInv, Entered

(* In every session, whatever calls fail and however the bytes are split:  *)
(* the count FT_Read is called with is never more than what the driver has *)
(* received, nor more than the echo and one byte left over, and without a  *)
(* failure it is not 0 (ftdi_device.c 340-376).                            *)
THEOREM TypeCorrect == Spec => []TypeOK
<1>1. Init => EchoInv
  BY InitEcho
<1>2. EchoInv /\ [Next]_vars => EchoInv'
  BY NextEcho
<1>3. EchoInv => TypeOK
  BY EchoTyped
<1> QED BY <1>1, <1>2, <1>3, PTL DEF Spec

-----------------------------------------------------------------------------
(* The calls of ftdi_close_device, one by one: a reset that worked is not  *)
(* undone, since a chip out of MPSSE mode takes nothing to heart.          *)
ClosingInv ==
  /\ chip \in Chips /\ faults \in Nat
  /\ pc = "reset_last" => chip = Fifo \/ faults > 0
  /\ pc \in {"close", "closed"} => chip = Fifo \/ faults > 1
  /\ pc = "closed" => handle = "closed"

LEMMA ClosingStep ==
  ASSUME SetUpInv, SetUpInv', ClosingInv, Next
  PROVE  ClosingInv'
<1>1. chip' \in Chips /\ faults' \in Nat /\ pc \in AllPlaces
  BY DEF SetUpInv, Types
<1>2. CASE Close
  <2>1. /\ pc \in {"bitmode", "reset_last", "close"} /\ pc' = CloseNext[pc]
        /\ handle' = IF pc = "close" THEN "closed" ELSE handle
        /\ \/ NoFault /\ chip' = (IF pc = "close" THEN chip ELSE Fifo)
           \/ pc # "close" /\ Fault /\ UNCHANGED chip
    BY <1>2 DEF Close
  <2>2. CASE pc = "bitmode"
    <3>1. pc' = "reset_last" /\ (chip' = Fifo \/ faults' = faults + 1)
      BY <2>1, <2>2 DEF CloseNext, Fault
    <3> QED BY <1>1, <3>1 DEF ClosingInv
  <2>3. CASE pc = "reset_last"
    <3>1. pc' = "close" /\ (chip' = Fifo \/ (chip' = chip /\ faults' = faults + 1))
      BY <2>1, <2>3 DEF CloseNext, Fault
    <3> QED BY <1>1, <2>3, <3>1 DEF ClosingInv
  <2>4. CASE pc = "close"
    <3>1. pc' = "closed" /\ handle' = "closed" /\ chip' = chip /\ faults' = faults
      BY <2>1, <2>4 DEF CloseNext, NoFault, bounds
    <3> QED BY <1>1, <2>4, <3>1 DEF ClosingInv
  <2> QED BY <2>1, <2>2, <2>3, <2>4
<1>3. CASE ChipTakes
  <2>1. chip = Fifo => chip' = Fifo
    <3>1. chip = Fifo => chip.mode # "mpsse"
      BY DEF Fifo
    <3> QED BY <1>3, <3>1 DEF ChipTakes, Take
  <2> QED BY <1>1, <1>3, <2>1 DEF ClosingInv, ChipTakes, bounds
<1>4. CASE Deliver
  BY <1>4 DEF ClosingInv, Deliver, bounds
<1>5. CASE ~ (Close \/ ChipTakes \/ Deliver)
  <2>1. pc' \notin {"reset_last", "close", "closed"}
    <3>1. CASE SetUp
      <4>1. pc' \in FirstPlaces \cup {"loop_on", "left", "close_failed"}
        BY <3>1, AfterFirst DEF SetUp
      <4> QED BY <4>1 DEF FirstPlaces
    <3>2. CASE LoopOn \/ BadCommand \/ LoopOff \/ Poll \/ ReadEcho
      BY <3>2 DEF LoopOn, BadCommand, LoopOff, Poll, ReadEcho
    <3>3. CASE QueueEmpty \/ BitmodeOff \/ CloseFailed
      BY <3>3 DEF QueueEmpty, BitmodeOff, CloseFailed, WhenEmpty
    <3>4. CASE Configure
      BY <3>4 DEF Configure, ConfigureNext, Settings
    <3>5. CASE JtagReset \/ Detect \/ Scans
      BY <3>5 DEF JtagReset, Detect, Scans
    <3>6. CASE ReadLine \/ EndOfFile \/ Parse
      BY <3>6 DEF ReadLine, EndOfFile, Parse
    <3> QED BY <1>5, <3>1, <3>2, <3>3, <3>4, <3>5, <3>6 DEF Next, Program
  <2> QED BY <1>1, <2>1 DEF ClosingInv
<1> QED BY <1>2, <1>3, <1>4, <1>5

(* When the program has closed the device, at the end of the console, the  *)
(* chip has been reset and the handle is closed, unless two calls of the   *)
(* driver failed in the session (ftdi_device.c 120-129).                   *)
THEOREM ResetCorrect == Spec => []LeavesChipReset
<1>1. Init => SetUpInv /\ ClosingInv
  <2>1. Init => pc = "open"
    BY DEF Init
  <2> QED BY <2>1, InitInv DEF ClosingInv, SetUpInv, Types
<1>2. SetUpInv /\ ClosingInv /\ [Next]_vars => SetUpInv' /\ ClosingInv'
  <2>1. SUFFICES ASSUME SetUpInv, ClosingInv, [Next]_vars PROVE SetUpInv' /\ ClosingInv'
    OBVIOUS
  <2>2. SetUpInv'
    BY <2>1, NextInv
  <2>3. CASE UNCHANGED vars
    BY <2>1, <2>2, <2>3 DEF ClosingInv, vars, wires, bounds
  <2> QED BY <2>1, <2>2, <2>3, ClosingStep
<1>3. ClosingInv => LeavesChipReset
  BY DEF ClosingInv, LeavesChipReset
<1> QED BY <1>1, <1>2, <1>3, PTL DEF Spec
=============================================================================
