--------------------------- MODULE JtagLinkProofs ---------------------------
(***************************************************************************)
(* JtagLink implements DebugLink: the batches of ftdi_device.c, clocked    *)
(* into the TAP, do what the word level says of them, whole or cut short,  *)
(* for every size of memory, word, transfer and number of failures.  The   *)
(* scans of JtagScan, over the same TAP, measure the registers they are    *)
(* meant to and write nothing of their own: the lemmas on what its batches *)
(* do are those of JtagTapProofs, the invariant is ScanInv.                *)
(***************************************************************************)
EXTENDS JtagLink, JtagScan, JtagTapProofs

Kinds == {"read", "readraw"} \cup Writes

(* What the host knows of the access it is in. *)
HostOnCourse ==
  /\ pc \in Sending \cup {"idle", "closed", "poll", "take"}
  /\ op.addr \in Addr /\ op.len \in Nat \ {0} /\ op.data \in [0..op.len - 1 -> Words]
  /\ i \in 0..op.len - 1
  /\ op.kind \in {"read", "write"} => op.len = 1
  /\ pc \in {"reset", "command", "select"} => i = 0
  /\ pc \in {"reset", "command"} => op.kind \in Kinds
  /\ pc \in {"select", "data"} => op.kind \in Writes

(* Where the TAP is and what its register holds when the host is there. *)
ChipOnCourse ==
  /\ chip \in Chips
  /\ pc \in {"idle", "closed", "reset"} => chip.tap \in Parking
  /\ pc = "command" => chip.tap = "TestLogicReset"
  /\ pc = "select" => chip.tap = "Exit1DR" /\ chip.ir = "ADDR"
  /\ pc = "data" => WordOpen(chip)
  /\ pc = "fetch" => Fresh(chip)
  /\ pc \in {"poll", "take", "next"} => Spent(chip)

TapInv == HostOnCourse /\ ChipOnCourse

-----------------------------------------------------------------------------
(* What each batch does *)

(* The reset hands over what is parked, or has not clocked anything. *)
Resets(d) ==
  /\ d \in Chips /\ d.tap = "TestLogicReset" /\ d.out = chip.out
  /\ Passed(ParkedIn(chip), chip, d)
  /\ Does(chip, BatchAt, d, {chip, d})

LEMMA BatchOfReset ==
  ASSUME TapInv, pc = "reset"
  PROVE  \E d : Resets(d)
<1> DEFINE d == Do(chip, Tms(5, 63))
<1>1. d \in Chips /\ d.tap = "TestLogicReset" /\ d.out = chip.out
      /\ Passed(ParkedIn(chip), chip, d)
  BY ResetHandsOver DEF TapInv, ChipOnCourse
<1>2. Does(chip, ResetBatch, d, {chip, d})
  BY DoesOne DEF ResetBatch
<1>3. BatchAt = ResetBatch
  BY DEF BatchAt
<1> HIDE DEF d
<1> QED BY <1>1, <1>2, <1>3 DEF Resets

CommandsWrite(d) ==
  /\ d \in Chips /\ d.tap = "Exit1DR" /\ d.ir = "ADDR" /\ SameBus(chip, d) /\ d.out = chip.out
  /\ Content("ADDR", d.dreg) = Address(op.addr, TRUE)
  /\ Does(chip, BatchAt, d,
          Left(chip, {NoShift, Address(Junk, FALSE), Address(op.addr, FALSE),
                      Address(op.addr, TRUE)}))

LEMMA BatchOfWriteCommand ==
  ASSUME TapInv, pc = "command", op.kind \in Writes
  PROVE  \E d : CommandsWrite(d)
<1>1. BatchAt = SelectAddress \o AddressPhase(op.addr, RW_DWORD, 1)
  BY DEF BatchAt, CommandBatch, Writes
<1>2. PICK d : SendsCommand(op.addr, chip, d)
  BY WriteCommand DEF TapInv, ChipOnCourse, HostOnCourse
<1> QED BY <1>1, <1>2 DEF CommandsWrite, SendsCommand

CommandsRead(d, x) ==
  /\ d \in Chips /\ Spent(d) /\ Passed(Address(op.addr, FALSE), chip, d)
  /\ d.out = Append(chip.out, x) /\ ReadField("word", x) = d.rdata
  /\ Does(chip, BatchAt, d, PartOfRead(op.addr, chip) \cup {d})

LEMMA BatchOfReadCommand ==
  ASSUME TapInv, pc = "command", op.kind = "read"
  PROVE  \E d, x : CommandsRead(d, x)
<1>1. BatchAt = SelectAddress \o FlushZeros \o AddressPhase(op.addr, RW_DWORD, 0)
                  \o SelectDataReg \o ReadData
  BY DEF BatchAt, CommandBatch, Writes
<1>2. PICK d, x : ReadsWord(op.addr, chip, d, x)
  BY ReadCommand DEF TapInv, ChipOnCourse, HostOnCourse
<1> QED BY <1>1, <1>2 DEF CommandsRead, ReadsWord

CommandsRaw(d) ==
  /\ d \in Chips /\ Fresh(d) /\ Passed(Address(op.addr, FALSE), chip, d) /\ d.out = chip.out
  /\ Does(chip, BatchAt, d, PartOfRead(op.addr, chip))

LEMMA BatchOfRawCommand ==
  ASSUME TapInv, pc = "command", op.kind = "readraw"
  PROVE  \E d : CommandsRaw(d)
<1>1. BatchAt = SelectAddress \o FlushZeros \o AddressPhase(op.addr, RW_DWORD, 0)
                  \o SelectDataReg
  BY DEF BatchAt, CommandBatch, Writes
<1>2. PICK d : OpensRead(op.addr, chip, d)
  BY ReadCommand DEF TapInv, ChipOnCourse, HostOnCourse
<1> QED BY <1>1, <1>2 DEF CommandsRaw, OpensRead

SelectsDataReg(d) ==
  /\ d \in Chips /\ Fresh(d) /\ Passed(ParkedIn(chip), chip, d) /\ d.out = chip.out
  /\ Does(chip, BatchAt, d,
          {chip} \cup After(ParkedIn(chip), chip, {NoShift, Datum(Junk, FALSE)}))

LEMMA BatchOfSelect ==
  ASSUME TapInv, pc = "select"
  PROVE  \E d : SelectsDataReg(d)
<1>1. BatchAt = SelectDataReg /\ chip \in Chips /\ chip.tap = "Exit1DR"
  BY DEF BatchAt, TapInv, ChipOnCourse
<1>2. PICK d : SelectsWord(Content(chip.ir, chip.dreg), chip, d)
  BY <1>1, SelectsData
<1>3. ParkedIn(chip) = Content(chip.ir, chip.dreg)
  BY <1>1 DEF ParkedIn
<1> QED BY <1>1, <1>2, <1>3 DEF SelectsDataReg, SelectsWord

FetchesIt(d, x) ==
  /\ d \in Chips /\ Spent(d) /\ SameBus(chip, d)
  /\ d.out = Append(chip.out, x) /\ ReadField("word", x) = chip.rdata
  /\ Does(chip, BatchAt, d, {chip, d})

LEMMA BatchOfFetch ==
  ASSUME TapInv, pc = "fetch"
  PROVE  \E d, x : FetchesIt(d, x)
<1>1. BatchAt = ReadData /\ chip \in Chips /\ Fresh(chip)
  BY DEF BatchAt, TapInv, ChipOnCourse
<1>2. PICK d, x : Fetches(chip, d, x)
  BY <1>1, FetchesWord
<1> QED BY <1>1, <1>2 DEF FetchesIt, Fetches

StepsOn(d) ==
  /\ d \in Chips /\ Fresh(d) /\ Passed(Datum(Junk, TRUE), chip, d) /\ d.out = chip.out
  /\ Does(chip, BatchAt, d, {chip, d})

LEMMA BatchOfNext ==
  ASSUME TapInv, pc = "next"
  PROVE  \E d : StepsOn(d)
<1>1. BatchAt = LoopAfterRead /\ chip \in Chips /\ Spent(chip)
  BY DEF BatchAt, TapInv, ChipOnCourse
<1>2. PICK d : Loops(Datum(Junk, TRUE), LoopAfterRead, chip, d)
  BY <1>1, LoopsAfterRead
<1> QED BY <1>1, <1>2 DEF StepsOn, Loops

(* The word of the access, and the SEQ bit iowrite32raw puts behind it. *)
ToWrite == Datum(op.data[i], op.kind = "writeraw")
Written == {Datum(Junk, FALSE), Datum(op.data[i], FALSE), ToWrite}

PutsWord(d) ==
  /\ d \in Chips /\ d.tap = "Exit1DR" /\ d.ir = "DATA" /\ SameBus(chip, d) /\ d.out = chip.out
  /\ ParkedIn(d) = ToWrite
  /\ Does(chip, BatchAt, d, Left(chip, Written))

PutsAndLoops(d) ==
  /\ d \in Chips /\ Fresh(d) /\ Passed(ToWrite, chip, d) /\ d.out = chip.out
  /\ Does(chip, BatchAt, d, Left(chip, Written) \cup {d})

LEMMA BatchOfData ==
  ASSUME TapInv, pc = "data"
  PROVE  /\ i = op.len - 1 => \E d : PutsWord(d)
         /\ i < op.len - 1 => \E d : PutsAndLoops(d)
<1> DEFINE seq == IF op.kind = "writeraw" THEN 1 ELSE 0
           s == DataPhase(op.data[i], seq)
<1>1. /\ chip \in Chips /\ WordOpen(chip) /\ op.data[i] \in Words /\ op.kind \in Writes
      /\ op.len \in Nat /\ i \in Nat
      /\ op.kind = "write" => op.len = 1
  BY DEF TapInv, ChipOnCourse, HostOnCourse
<1>2. seq \in {0, 1} /\ (seq = 1) = (op.kind = "writeraw")
  OBVIOUS
<1>3. BatchAt = IF op.kind = "write" THEN DataPhase(op.data[i], 0)
                ELSE DataPhase(op.data[i], 1)
                       \o (IF i < op.len - 1 THEN LoopAfterWrite ELSE <<>>)
  BY DEF BatchAt, WordBatch
<1>4. /\ i = op.len - 1 => BatchAt = s \/ BatchAt = s \o <<>>
      /\ i < op.len - 1 => BatchAt = s \o LoopAfterWrite
  <2>1. CASE op.kind = "write"
    BY <1>1, <1>3, <2>1
  <2>2. CASE op.kind = "writeraw"
    <3>1. seq = 1 /\ op.kind # "write"
      BY <2>2
    <3>2. s = DataPhase(op.data[i], 1)
      BY <3>1
    <3> HIDE DEF seq, s
    <3>3. BatchAt = s \o (IF i < op.len - 1 THEN LoopAfterWrite ELSE <<>>)
      BY <1>3, <3>1, <3>2
    <3>4. i = op.len - 1 => ~(i < op.len - 1)
      BY <1>1
    <3>5. CASE i < op.len - 1
      <4>1. BatchAt = s \o LoopAfterWrite
        BY <3>3, <3>5
      <4> QED BY <3>4, <3>5, <4>1
    <3>6. CASE ~(i < op.len - 1)
      <4>1. BatchAt = s \o <<>>
        BY <3>3, <3>6
      <4> QED BY <3>6, <4>1
    <3> QED BY <3>5, <3>6
  <2> QED BY <1>1, <2>1, <2>2 DEF Writes
<1> HIDE DEF seq
<1>5. s \in Seq(Commands)
  BY <1>1, <1>2, DataPhaseType
<1>6. PICK c : ParksDatum(chip, op.data[i], seq, c)
  BY <1>1, <1>2, ParksWord
<1> HIDE DEF s
<1>7. /\ c \in Chips /\ c.tap = "Exit1DR" /\ c.ir = "DATA" /\ SameBus(chip, c)
      /\ c.out = chip.out /\ Content("DATA", c.dreg) = ToWrite
      /\ Does(chip, s, c, Left(chip, Written))
  BY <1>2, <1>6 DEF ParksDatum, ToWrite, Written, s
<1>8. ParkedIn(c) = ToWrite
  BY <1>7 DEF ParkedIn
<1>9. ASSUME i = op.len - 1
      PROVE  \E d : PutsWord(d)
  <2>1. BatchAt = s
    BY <1>4, <1>5, <1>9
  <2> QED BY <1>7, <1>8, <2>1 DEF PutsWord
<1>10. ASSUME i < op.len - 1
       PROVE  \E d : PutsAndLoops(d)
  <2>1. PICK d : Loops(ToWrite, LoopAfterWrite, c, d)
    BY <1>7, LoopsAfterWrite
  <2>2. /\ d \in Chips /\ Fresh(d) /\ Passed(ToWrite, c, d) /\ d.out = c.out
        /\ Does(c, LoopAfterWrite, d, {c, d})
    BY <2>1 DEF Loops
  <2>3. LoopAfterWrite \in Seq(Commands)
    BY SmallBatchTypes
  <2>4. Does(chip, s \o LoopAfterWrite, d, Left(chip, Written) \cup {c, d})
    BY <1>5, <1>7, <2>2, <2>3, DoesBoth
  <2>5. c \in Left(chip, Written)
    <3>1. ParkedIn(c) \in Written
      BY <1>8 DEF Written
    <3> QED BY <1>7, <3>1, LeftOpen
  <2>6. Does(chip, BatchAt, d, Left(chip, Written) \cup {d})
    BY <1>4, <1>10, <2>4, <2>5 DEF Does
  <2>7. Passed(ToWrite, chip, d)
    <3>1. SameBus(c, chip) /\ SameBus(d, d)
      BY <1>7 DEF SameBus
    <3> QED BY <2>2, <3>1, SamePass
  <2> QED BY <1>7, <2>2, <2>6, <2>7 DEF PutsAndLoops
<1> QED BY <1>9, <1>10

-----------------------------------------------------------------------------
(* The inductive invariant *)

LEMMA Quiet ==
  ASSUME TapInv
  PROVE  chip \in Chips /\ chip.tap \in Parking
<1>1. chip \in Chips
  BY DEF TapInv, ChipOnCourse
<1>2. pc \in {"reset", "command", "select", "data", "fetch", "next", "idle", "closed", "poll", "take"}
  BY DEF TapInv, HostOnCourse, Sending
<1>3. CASE pc \in {"idle", "closed", "reset"}
  BY <1>1, <1>3 DEF TapInv, ChipOnCourse
<1>4. CASE pc \in {"command", "select"}
  BY <1>1, <1>4, Tapped DEF TapInv, ChipOnCourse
<1>5. CASE pc \in {"data", "fetch"}
  <2>1. WordOpen(chip)
    BY <1>5 DEF TapInv, ChipOnCourse, Fresh
  <2> QED BY <1>1, <2>1, Tapped DEF WordOpen
<1>6. CASE pc \in {"poll", "take", "next"}
  <2>1. WordOpen(chip)
    BY <1>6, SpentIsOpen DEF TapInv, ChipOnCourse
  <2> QED BY <1>1, <2>1, Tapped DEF WordOpen
<1> QED BY <1>2, <1>3, <1>4, <1>5, <1>6

(* Wherever a batch is cut, the next reset knows the place. *)
LEMMA CutsPark ==
  ASSUME TapInv, pc \in Sending, NEW d \in Cuts(chip, BatchAt)
  PROVE  d \in Chips /\ d.tap \in Parking
<1>1. chip \in Chips /\ chip.tap \in Parking
  BY Quiet
<1>2. CASE pc = "reset"
  <2>1. PICK e : Resets(e)
    BY <1>2, BatchOfReset
  <2> QED BY <1>1, <2>1, Tapped DEF Resets, Does
<1>3. CASE pc = "command" /\ op.kind \in Writes
  <2>1. PICK e : CommandsWrite(e)
    BY <1>3, BatchOfWriteCommand
  <2> QED BY <2>1 DEF CommandsWrite, Does, Left
<1>4. CASE pc = "command" /\ op.kind = "read"
  <2>1. PICK e, x : CommandsRead(e, x)
    BY <1>4, BatchOfReadCommand
  <2>2. WordOpen(e) /\ e \in Chips
    BY <2>1, SpentIsOpen DEF CommandsRead
  <2>3. e.tap \in Parking
    BY <2>2, Tapped DEF WordOpen
  <2> QED BY <2>1, <2>2, <2>3 DEF CommandsRead, Does, PartOfRead, Left, After
<1>5. CASE pc = "command" /\ op.kind = "readraw"
  <2>1. PICK e : CommandsRaw(e)
    BY <1>5, BatchOfRawCommand
  <2> QED BY <2>1 DEF CommandsRaw, Does, PartOfRead, Left, After
<1>6. CASE pc = "select"
  <2>1. PICK e : SelectsDataReg(e)
    BY <1>6, BatchOfSelect
  <2> QED BY <1>1, <2>1 DEF SelectsDataReg, Does, After
<1>7. CASE pc = "data"
  <2>1. op.len \in Nat /\ i \in 0..op.len - 1
    BY DEF TapInv, HostOnCourse
  <2>2. CASE i = op.len - 1
    <3>1. PICK e : PutsWord(e)
      BY <1>7, <2>2, BatchOfData
    <3> QED BY <3>1 DEF PutsWord, Does, Left
  <2>3. CASE i < op.len - 1
    <3>1. PICK e : PutsAndLoops(e)
      BY <1>7, <2>3, BatchOfData
    <3>2. e \in Chips /\ e.tap \in Parking
      BY <3>1, Tapped DEF PutsAndLoops, Fresh, WordOpen
    <3> QED BY <3>1, <3>2 DEF PutsAndLoops, Does, Left
  <2> QED BY <2>1, <2>2, <2>3
<1>8. CASE pc = "fetch"
  <2>1. PICK e, x : FetchesIt(e, x)
    BY <1>8, BatchOfFetch
  <2>2. WordOpen(e) /\ e \in Chips
    BY <2>1, SpentIsOpen DEF FetchesIt
  <2> QED BY <1>1, <2>1, <2>2, Tapped DEF FetchesIt, Does, WordOpen
<1>9. CASE pc = "next"
  <2>1. PICK e : StepsOn(e)
    BY <1>9, BatchOfNext
  <2> QED BY <1>1, <2>1, Tapped DEF StepsOn, Does, Fresh, WordOpen
<1>10. pc = "command" => op.kind \in {"read", "readraw"} \cup Writes
  BY DEF TapInv, HostOnCourse, Kinds
<1> QED BY <1>2, <1>3, <1>4, <1>5, <1>6, <1>7, <1>8, <1>9, <1>10 DEF Sending

LEMMA InitInv == Init => TapInv
<1> SUFFICES ASSUME Init PROVE TapInv
  OBVIOUS
<1>1. HostOnCourse
  <2>1. op = [kind |-> "none", addr |-> 0, len |-> 1, data |-> [j \in 0..0 |-> Zero]]
    BY DEF Init, NoAccess, Access, NoData
  <2>2. 0 \in Addr
    BY NumWordsAssumption DEF Addr
  <2> QED BY <2>1, <2>2, ZeroAssumption DEF Init, HostOnCourse, Sending
<1>2. PICK m \in [Addr -> Words] : chip = PowerOn(m)
  BY DEF Init
<1>3. chip \in Chips /\ chip.tap = "TestLogicReset"
  BY <1>2, PowerOnType
<1>4. chip.tap \in Parking
  BY <1>3 DEF Parking
<1> QED BY <1>1, <1>3, <1>4 DEF TapInv, ChipOnCourse, Init

(* A step of the host inside the access. *)
LEMMA SameAccess ==
  ASSUME HostOnCourse, UNCHANGED <<op, i>>, pc' \in Sending \cup {"poll", "take"},
         pc' \in {"reset", "command", "select"} => i = 0,
         pc' \in {"reset", "command"} => op.kind \in Kinds,
         pc' \in {"select", "data"} => op.kind \in Writes
  PROVE  HostOnCourse'
BY DEF HostOnCourse

LEMMA ReturnIsIdle ==
  ASSUME Return
  PROVE  HostOnCourse' /\ pc' = "idle"
<1>1. NoAccess = [kind |-> "none", addr |-> 0, len |-> 1, data |-> [j \in 0..0 |-> Zero]]
  BY DEF NoAccess, Access, NoData
<1>2. 0 \in Addr
  BY NumWordsAssumption DEF Addr
<1> QED BY <1>1, <1>2, ZeroAssumption DEF Return, HostOnCourse, Sending, Writes

LEMMA ParkedIdle ==
  ASSUME HostOnCourse', pc' = "idle", chip' \in Chips, chip'.tap \in Parking
  PROVE  TapInv'
BY DEF TapInv, ChipOnCourse

LEMMA StartKeeps ==
  ASSUME TapInv, NEW k \in Kinds, NEW a \in Addr, NEW n \in Nat \ {0},
         NEW w \in [0..n - 1 -> Words], k \in {"read", "write"} => n = 1, Start(k, a, n, w)
  PROVE  TapInv'
<1>1. op' = [kind |-> k, addr |-> a, len |-> n, data |-> w] /\ pc' = "reset" /\ i' = 0
      /\ chip' = chip
  BY DEF Start, Access
<1>2. HostOnCourse'
  BY <1>1 DEF HostOnCourse, Sending
<1>3. chip \in Chips /\ chip.tap \in Parking
  BY Quiet
<1> QED BY <1>1, <1>2, <1>3 DEF TapInv, ChipOnCourse

LEMMA CallKeeps ==
  ASSUME TapInv, StartRead \/ StartWrite
  PROVE  TapInv'
<1>1. \A n \in Nat \ {0} : NoData(n) \in [0..n - 1 -> Words]
  BY ZeroAssumption DEF NoData
<1>2. \A t \in Transfers : t[1] \in Addr /\ t[2] \in Nat \ {0}
  BY TransfersAssumption
<1>3. ASSUME NEW a \in Addr, Start("read", a, 1, NoData(1))
      PROVE  TapInv'
  <2> DEFINE w == NoData(1)
  <2>0. 1 \in Nat \ {0}
    OBVIOUS
  <2>1. w \in [0..1 - 1 -> Words] /\ "read" \in Kinds /\ 1 \in Nat \ {0}
    BY <1>1, <2>0 DEF Kinds
  <2>2. Start("read", a, 1, w)
    BY <1>3
  <2> HIDE DEF w
  <2> QED BY <2>1, <2>2, StartKeeps
<1>4. ASSUME NEW t \in Transfers, Start("readraw", t[1], t[2], NoData(t[2]))
      PROVE  TapInv'
  <2> DEFINE w == NoData(t[2])
             a == t[1]
             n == t[2]
  <2>1. w \in [0..n - 1 -> Words] /\ "readraw" \in Kinds /\ a \in Addr /\ n \in Nat \ {0}
    BY <1>1, <1>2 DEF Kinds
  <2>2. Start("readraw", a, n, w)
    BY <1>4
  <2> HIDE DEF w, a, n
  <2> QED BY <2>1, <2>2, StartKeeps
<1>5. ASSUME NEW a \in Addr, NEW w \in [0..0 -> Words], Start("write", a, 1, w)
      PROVE  TapInv'
  <2>1. w \in [0..1 - 1 -> Words] /\ "write" \in Kinds /\ 1 \in Nat \ {0}
    BY DEF Kinds, Writes
  <2> QED BY <1>5, <2>1, StartKeeps
<1>6. ASSUME NEW t \in Transfers, NEW w \in [0..t[2] - 1 -> Words],
             Start("writeraw", t[1], t[2], w)
      PROVE  TapInv'
  <2> DEFINE a == t[1]
             n == t[2]
  <2>1. w \in [0..n - 1 -> Words] /\ "writeraw" \in Kinds /\ a \in Addr /\ n \in Nat \ {0}
    BY <1>2 DEF Kinds, Writes
  <2>2. Start("writeraw", a, n, w)
    BY <1>6
  <2> HIDE DEF a, n
  <2> QED BY <2>1, <2>2, StartKeeps
<1> QED BY <1>3, <1>4, <1>5, <1>6 DEF StartRead, StartWrite

LEMMA FailureKeeps ==
  ASSUME TapInv, Abort, chip' \in Chips, chip'.tap \in Parking
  PROVE  TapInv'
BY ReturnIsIdle, ParkedIdle DEF Abort

(* A batch cut short is one of the cuts. *)
LEMMA CutOfBatch ==
  ASSUME SendFails
  PROVE  pc \in Sending /\ chip' \in Cuts(chip, BatchAt) /\ Abort /\ rx' = rx
BY DEF SendFails, Cuts

LEMMA SendKeeps ==
  ASSUME TapInv, Send
  PROVE  TapInv'
<1>1. HostOnCourse /\ ChipOnCourse /\ chip' = Run(chip, BatchAt) /\ pc \in Sending
  BY DEF TapInv, Send
<1>2. CASE pc = "reset"
  <2>1. PICK d : Resets(d)
    BY <1>2, BatchOfReset
  <2>2. pc' = "command" /\ UNCHANGED <<op, i>>
    BY <1>2 DEF Send, GoOn
  <2>3. chip' \in Chips /\ chip'.tap = "TestLogicReset"
    BY <1>1, <2>1 DEF Resets, Does
  <2>4. HostOnCourse'
    BY <1>1, <1>2, <2>2, SameAccess DEF HostOnCourse, Sending
  <2> QED BY <2>2, <2>3, <2>4 DEF TapInv, ChipOnCourse
<1>3. CASE pc = "command" /\ op.kind \in Writes
  <2>1. PICK d : CommandsWrite(d)
    BY <1>3, BatchOfWriteCommand
  <2>2. pc' = "select" /\ UNCHANGED <<op, i>>
    BY <1>3 DEF Send, GoOn, Writes
  <2>3. chip' \in Chips /\ chip'.tap = "Exit1DR" /\ chip'.ir = "ADDR"
    BY <1>1, <2>1 DEF CommandsWrite, Does
  <2>4. HostOnCourse'
    BY <1>1, <1>3, <2>2, SameAccess DEF HostOnCourse, Sending
  <2> QED BY <2>2, <2>3, <2>4 DEF TapInv, ChipOnCourse
<1>4. CASE pc = "command" /\ op.kind = "read"
  <2>1. PICK d, x : CommandsRead(d, x)
    BY <1>4, BatchOfReadCommand
  <2>2. pc' = "poll" /\ UNCHANGED <<op, i>>
    BY <1>4 DEF Send, GoOn, Writes
  <2>3. chip' \in Chips /\ Spent(chip')
    BY <1>1, <2>1 DEF CommandsRead, Does
  <2>4. HostOnCourse'
    BY <1>1, <1>4, <2>2, SameAccess DEF HostOnCourse, Sending
  <2> QED BY <2>2, <2>3, <2>4 DEF TapInv, ChipOnCourse
<1>5. CASE pc = "command" /\ op.kind = "readraw"
  <2>1. PICK d : CommandsRaw(d)
    BY <1>5, BatchOfRawCommand
  <2>2. pc' = "fetch" /\ UNCHANGED <<op, i>>
    BY <1>5 DEF Send, GoOn, Writes
  <2>3. chip' \in Chips /\ Fresh(chip')
    BY <1>1, <2>1 DEF CommandsRaw, Does
  <2>4. HostOnCourse'
    BY <1>1, <1>5, <2>2, SameAccess DEF HostOnCourse, Sending
  <2> QED BY <2>2, <2>3, <2>4 DEF TapInv, ChipOnCourse
<1>6. CASE pc = "select"
  <2>1. PICK d : SelectsDataReg(d)
    BY <1>6, BatchOfSelect
  <2>2. pc' = "data" /\ UNCHANGED <<op, i>>
    BY <1>6 DEF Send, GoOn
  <2>3. chip' \in Chips /\ WordOpen(chip')
    BY <1>1, <2>1 DEF SelectsDataReg, Does, Fresh
  <2>4. HostOnCourse'
    BY <1>1, <1>6, <2>2, SameAccess DEF HostOnCourse, Sending
  <2> QED BY <2>2, <2>3, <2>4 DEF TapInv, ChipOnCourse
<1>7. CASE pc = "data" /\ i < op.len - 1
  <2>1. PICK d : PutsAndLoops(d)
    BY <1>7, BatchOfData
  <2>2. op.len \in Nat /\ i \in Nat /\ op.kind \in Writes
    BY <1>1, <1>7 DEF HostOnCourse
  <2>3. pc' = "data" /\ op' = op /\ i' = i + 1
    BY <1>7, <2>2 DEF Send
  <2>4. chip' \in Chips /\ WordOpen(chip')
    BY <1>1, <2>1 DEF PutsAndLoops, Does, Fresh
  <2>5. i + 1 \in 0..op.len - 1
    BY <1>7, <2>2
  <2>6. HostOnCourse'
    BY <1>1, <1>7, <2>2, <2>3, <2>5 DEF HostOnCourse, Sending
  <2> QED BY <2>3, <2>4, <2>6 DEF TapInv, ChipOnCourse
<1>8. CASE pc = "data" /\ i = op.len - 1
  <2>1. op.len \in Nat
    BY <1>1 DEF HostOnCourse
  <2>2. Return
    BY <1>8, <2>1 DEF Send
  <2>3. PICK d : PutsWord(d)
    BY <1>8, BatchOfData
  <2>4. chip' \in Chips /\ chip'.tap \in Parking
    BY <1>1, <2>3, Tapped DEF PutsWord, Does
  <2> QED BY <2>2, <2>4, ReturnIsIdle, ParkedIdle
<1>9. CASE pc = "fetch"
  <2>1. PICK d, x : FetchesIt(d, x)
    BY <1>9, BatchOfFetch
  <2>2. pc' = "poll" /\ UNCHANGED <<op, i>>
    BY <1>9 DEF Send, GoOn
  <2>3. chip' \in Chips /\ Spent(chip')
    BY <1>1, <2>1 DEF FetchesIt, Does
  <2>4. HostOnCourse'
    BY <1>1, <1>9, <2>2, SameAccess DEF HostOnCourse, Sending
  <2> QED BY <2>2, <2>3, <2>4 DEF TapInv, ChipOnCourse
<1>10. CASE pc = "next"
  <2>1. PICK d : StepsOn(d)
    BY <1>10, BatchOfNext
  <2>2. chip' \in Chips /\ Fresh(chip')
    BY <1>1, <2>1 DEF StepsOn, Does
  <2>3. op.len \in Nat /\ i \in Nat
    BY <1>1 DEF HostOnCourse
  <2>4. \/ pc' = "fetch" /\ op' = op /\ i' = i + 1 /\ i + 1 < op.len
        \/ Return
    BY <1>10 DEF Send
  <2>5. CASE Return
    <3>1. chip'.tap \in Parking
      BY <2>2, Tapped DEF Fresh, WordOpen
    <3> QED BY <2>2, <2>5, <3>1, ReturnIsIdle, ParkedIdle
  <2>6. CASE pc' = "fetch" /\ op' = op /\ i' = i + 1 /\ i + 1 < op.len
    <3>1. i + 1 \in 0..op.len - 1
      BY <2>3, <2>6
    <3>2. op.kind \in {"read", "write"} => op.len = 1
      BY <1>1 DEF HostOnCourse
    <3>3. HostOnCourse'
      BY <1>1, <1>10, <2>6, <3>1, <3>2 DEF HostOnCourse, Sending
    <3> QED BY <2>2, <2>6, <3>3 DEF TapInv, ChipOnCourse
  <2> QED BY <2>4, <2>5, <2>6
<1>11. /\ pc = "command" => op.kind \in {"read", "readraw"} \cup Writes
       /\ pc = "data" => i < op.len - 1 \/ i = op.len - 1
  <2>1. op.len \in Nat /\ i \in 0..op.len - 1
    BY <1>1 DEF HostOnCourse
  <2> QED BY <1>1, <2>1 DEF HostOnCourse, Kinds
<1> QED BY <1>1, <1>2, <1>3, <1>4, <1>5, <1>6, <1>7, <1>8, <1>9, <1>10, <1>11 DEF Sending

(* Replies leave the chip; nothing else of it changes. *)
LEMMA DeliverKeeps ==
  ASSUME TapInv, Deliver
  PROVE  TapInv'
<1>1. chip \in Chips /\ chip.out \in Seq(Seq(Signals)) /\ chip.out # <<>>
  BY DEF TapInv, ChipOnCourse, Deliver, Chips
<1>2. Tail(chip.out) \in Seq(Seq(Signals))
  BY <1>1
<1>3. chip' \in Chips
  BY <1>1, <1>2 DEF Deliver, Chips
<1>4. chip'.tap = chip.tap /\ chip'.ir = chip.ir /\ chip'.dreg = chip.dreg
      /\ chip'.rdata = chip.rdata
  BY <1>1 DEF Deliver, Chips
<1>5. UNCHANGED <<pc, op, i>>
  BY DEF Deliver
<1>6. HostOnCourse'
  BY <1>5 DEF TapInv, HostOnCourse
<1> QED BY <1>3, <1>4, <1>5, <1>6 DEF TapInv, ChipOnCourse, WordOpen, Fresh, Spent

(* Every step keeps the host and the chip on course. *)
LEMMA NextKeeps ==
  ASSUME TapInv, [Next]_vars
  PROVE  TapInv'
<1>1. chip \in Chips /\ chip.tap \in Parking
  BY Quiet
<1>2. CASE StartRead \/ StartWrite
  BY <1>2, CallKeeps
<1>3. CASE Close
  <2>1. pc' = "closed" /\ UNCHANGED <<op, i, chip>> /\ pc = "idle"
    BY <1>3 DEF Close
  <2>2. HostOnCourse'
    BY <2>1 DEF TapInv, HostOnCourse, Sending
  <2> QED BY <1>1, <2>1, <2>2 DEF TapInv, ChipOnCourse
<1>4. CASE Send
  BY <1>4, SendKeeps
<1>5. CASE SendFails
  BY <1>5, CutOfBatch, CutsPark, FailureKeeps
<1>6. CASE Deliver
  BY <1>6, DeliverKeeps
<1>7. CASE PollQueue
  <2>1. pc = "poll" /\ pc' = "take" /\ UNCHANGED <<op, i, chip>>
    BY <1>7 DEF PollQueue
  <2>2. HostOnCourse'
    BY <2>1, SameAccess DEF TapInv, HostOnCourse, Sending
  <2> QED BY <2>1, <2>2 DEF TapInv, ChipOnCourse
<1>8. CASE PollFails
  BY <1>1, <1>8, FailureKeeps DEF PollFails
<1>9. CASE TakeReply
  <2>1. pc = "take" /\ chip' = chip /\ (Return \/ (pc' = "next" /\ UNCHANGED <<op, i>>))
    BY <1>9 DEF TakeReply, GoOn
  <2>2. CASE Return
    BY <1>1, <2>1, <2>2, ReturnIsIdle, ParkedIdle
  <2>3. CASE pc' = "next" /\ UNCHANGED <<op, i>>
    <3>1. HostOnCourse'
      BY <2>3, SameAccess DEF TapInv, HostOnCourse, Sending
    <3> QED BY <2>1, <2>3, <3>1 DEF TapInv, ChipOnCourse
  <2> QED BY <2>1, <2>2, <2>3
<1>10. CASE TakeFails
  BY <1>1, <1>10, FailureKeeps DEF TakeFails
<1>11. CASE UNCHANGED vars
  BY <1>11 DEF vars, TapInv, HostOnCourse, ChipOnCourse
<1> QED BY <1>2, <1>3, <1>4, <1>5, <1>6, <1>7, <1>8, <1>9, <1>10, <1>11 DEF Next

LEMMA TapOnCourse == Spec => []TapInv
<1>1. TapInv /\ [Next]_vars => TapInv'
  BY NextKeeps
<1> QED BY <1>1, InitInv, PTL DEF Spec

(* Between two FT_Writes the TAP stands in one of the six places that the  *)
(* reset is known to lead out of, whichever write was cut short and where: *)
(* no batch of ftdi_device.c stops inside Capture, Pause or Update.        *)
THEOREM TapIsParked == Spec => []ParkingPlaces
<1>1. TapInv => ParkingPlaces
  BY Quiet DEF ParkingPlaces, Parking
<1> QED BY <1>1, TapOnCourse, PTL

-----------------------------------------------------------------------------
(* The refinement mapping *)

Wire(c) == [k \in DOMAIN c.out |-> ReadField("word", c.out[k])]

(* Parked, as a function of the chip, is ParkedIn. *)
RegisterOf(c) ==
  CASE c.tap = "Exit1DR" -> c.dreg
    [] c.tap = "ShiftDR" -> ShiftIn(c.dreg, <<Bit(0)>>)
    [] OTHER -> <<>>

HeldIn(ir, reg) ==
  IF reg = <<>> \/ ir \notin {"ADDR", "DATA"} THEN [reg |-> "NONE"]
  ELSE IF ir = "ADDR"
         THEN [reg |-> "ADDR", addr |-> ReadField("addr", reg), write |-> reg[35] = Bit(1)]
         ELSE [reg |-> "DATA", data |-> ReadField("word", reg), seq |-> reg[33] = Bit(1)]

LEMMA HeldIsContent ==
  ASSUME NEW ir, NEW reg, reg # <<>>
  PROVE  HeldIn(ir, reg) = Content(ir, reg)
<1>1. CASE ir = "ADDR"
  BY <1>1 DEF HeldIn, Content
<1>2. CASE ir = "DATA"
  BY <1>2 DEF HeldIn, Content
<1>3. CASE ir \notin {"ADDR", "DATA"}
  BY <1>3 DEF HeldIn, Content
<1> QED BY <1>1, <1>2, <1>3

LEMMA HeldIsParked ==
  ASSUME NEW c \in Chips
  PROVE  HeldIn(c.ir, RegisterOf(c)) = ParkedIn(c)
<1>1. c.dreg \in Registers
  BY DEF Chips
<1>2. c.dreg # <<>> /\ ShiftIn(c.dreg, <<Bit(0)>>) # <<>>
  <2>1. ShiftIn(c.dreg, <<Bit(0)>>) \in Registers
    BY <1>1, ShiftInOne, Lows
  <2> QED BY <1>1, <2>1 DEF Registers
<1>3. CASE c.tap = "Exit1DR"
  BY <1>2, <1>3, HeldIsContent DEF RegisterOf, ParkedIn
<1>4. CASE c.tap = "ShiftDR"
  <2>1. RegisterOf(c) = ShiftIn(c.dreg, <<Bit(0)>>)
    BY <1>4 DEF RegisterOf
  <2>2. ParkedIn(c) = Content(c.ir, ShiftIn(c.dreg, <<Bit(0)>>))
    BY <1>4 DEF ParkedIn
  <2> QED BY <1>2, <2>1, <2>2, HeldIsContent
<1>5. CASE c.tap \notin {"Exit1DR", "ShiftDR"}
  <2>1. RegisterOf(c) = <<>> /\ ParkedIn(c) = [reg |-> "NONE"]
    BY <1>5 DEF RegisterOf, ParkedIn
  <2> QED BY <2>1 DEF HeldIn
<1> QED BY <1>3, <1>4, <1>5

LEMMA ParkedNow ==
  ASSUME chip \in Chips
  PROVE  Parked = ParkedIn(chip)
<1>1. Parked = HeldIn(chip.ir, RegisterOf(chip))
  BY DEF Parked, HeldIn, RegisterOf
<1> QED BY <1>1, HeldIsParked

LEMMA ParkedThen ==
  ASSUME chip' \in Chips
  PROVE  Parked' = ParkedIn(chip')
<1>1. Parked' = HeldIn(chip'.ir, RegisterOf(chip'))
  BY DEF Parked, HeldIn, RegisterOf
<1> QED BY <1>1, HeldIsParked

LEMMA UpdateMaps ==
  ASSUME NEW s, Passed(s, chip, chip')
  PROVE  WordLevel!UpdateDR(s)
BY DEF Passed, SameBus, WordLevel!UpdateDR, WordLevel!ahb, WordLevel!AhbRead,
       WordLevel!Following, WordLevel!Addr, AhbRead, Following, Addr

LEMMA BusMaps ==
  ASSUME SameBus(chip, chip')
  PROVE  UNCHANGED WordLevel!ahb
BY DEF SameBus, WordLevel!ahb

LEMMA WireMaps ==
  ASSUME chip \in Chips
  PROVE  /\ \A x : chip'.out = Append(chip.out, x)
                     => Wire(chip') = Append(Wire(chip), ReadField("word", x))
         /\ chip.out # <<>> => /\ Wire(chip) # <<>>
                               /\ Head(Wire(chip)) = ReadField("word", Head(chip.out))
         /\ chip.out # <<>> /\ chip'.out = Tail(chip.out) => Wire(chip') = Tail(Wire(chip))
<1> DEFINE s == chip.out
           t == chip'.out
           R(x) == ReadField("word", x)
<1>1. s \in Seq(Seq(Signals))
  BY DEF Chips
<1> HIDE DEF s, t, R
<1> DEFINE W(u) == [k \in DOMAIN u |-> R(u[k])]
<1>2. ASSUME NEW x, t = Append(s, x)
      PROVE  W(t) = Append(W(s), R(x))
  BY <1>1, <1>2
<1>3. ASSUME s # <<>>
      PROVE  W(s) # <<>> /\ Head(W(s)) = R(Head(s))
  BY <1>1, <1>3
<1>4. ASSUME s # <<>>, t = Tail(s)
      PROVE  W(t) = Tail(W(s))
  BY <1>1, <1>4
<1> QED BY <1>2, <1>3, <1>4 DEF Wire, s, t, R

(* What the pairs of steps have in common. *)
LEMMA AbortMaps ==
  ASSUME Abort
  PROVE  WordLevel!Abort
BY DEF Abort, Return, NoAccess, Access, NoData, WordLevel!Abort, WordLevel!Return,
       WordLevel!NoAccess, WordLevel!Access, WordLevel!NoData

LEMMA ReturnMaps ==
  ASSUME Return
  PROVE  WordLevel!Return
BY DEF Return, NoAccess, Access, NoData, WordLevel!Return,
       WordLevel!NoAccess, WordLevel!Access, WordLevel!NoData

LEMMA QueueMaps ==
  ASSUME chip'.out = chip.out, rx' = rx
  PROVE  UNCHANGED WordLevel!queue
BY DEF WordLevel!queue

(* The register between the batches of an access. *)
LEMMA OpenHere ==
  ASSUME TapInv, pc \in {"data", "fetch", "poll", "take", "next"}
  PROVE  Parked = WordLevel!Open
<1>1. WordOpen(chip)
  BY SpentIsOpen DEF TapInv, ChipOnCourse, Fresh
<1>2. ParkedIn(chip) = Datum(Junk, FALSE) /\ chip \in Chips
  BY <1>1, OpenWordParks, Quiet
<1> QED BY <1>2, ParkedNow DEF WordLevel!Open, WordLevel!Data, Datum

LEMMA OpenThere ==
  ASSUME chip' \in Chips, WordOpen(chip')
  PROVE  Parked' = WordLevel!Open
<1>1. ParkedIn(chip') = Datum(Junk, FALSE)
  BY OpenWordParks
<1> QED BY <1>1, ParkedThen DEF WordLevel!Open, WordLevel!Data, Datum

-----------------------------------------------------------------------------
(* Whole batches *)

LEMMA MapsReset ==
  ASSUME TapInv, Send, pc = "reset"
  PROVE  WordLevel!ResetJtag
<1>1. PICK d : Resets(d)
  BY BatchOfReset
<1>2. chip' = d /\ chip' \in Chips /\ chip'.tap = "TestLogicReset" /\ chip'.out = chip.out
      /\ Passed(ParkedIn(chip), chip, chip')
  BY <1>1 DEF Send, Resets, Does
<1>3. Parked = ParkedIn(chip) /\ Parked' = ParkedIn(chip')
  BY <1>2, Quiet, ParkedNow, ParkedThen
<1>4. Parked' = WordLevel!None
  BY <1>2, <1>3 DEF ParkedIn, WordLevel!None
<1>5. WordLevel!UpdateDR(Parked)
  BY <1>2, <1>3, UpdateMaps
<1>6. pc' = "command" /\ UNCHANGED <<op, i, polled, loaded, rx, faults>>
  BY DEF Send, GoOn
<1>7. UNCHANGED WordLevel!queue
  BY <1>2, <1>6, QueueMaps
<1> QED BY <1>4, <1>5, <1>6, <1>7 DEF WordLevel!ResetJtag, WordLevel!GoOn

LEMMA MapsWriteCommand ==
  ASSUME TapInv, Send, pc = "command", op.kind \in Writes
  PROVE  WordLevel!SendCommand
<1>1. PICK d : CommandsWrite(d)
  BY BatchOfWriteCommand
<1>2. chip' \in Chips /\ chip'.tap = "Exit1DR" /\ chip'.ir = "ADDR" /\ SameBus(chip, chip')
      /\ chip'.out = chip.out /\ Content("ADDR", chip'.dreg) = Address(op.addr, TRUE)
  BY <1>1 DEF Send, CommandsWrite, Does
<1>3. Parked' = WordLevel!Command(op.addr, TRUE)
  BY <1>2, ParkedThen DEF ParkedIn, WordLevel!Command, Address
<1>4. UNCHANGED WordLevel!ahb
  BY <1>2, BusMaps
<1>5. pc' = "select" /\ UNCHANGED <<op, i, polled, loaded, rx, faults>>
  BY DEF Send, GoOn, Writes
<1>6. UNCHANGED WordLevel!queue
  BY <1>2, <1>5, QueueMaps
<1> QED BY <1>3, <1>4, <1>5, <1>6
        DEF WordLevel!SendCommand, WordLevel!GoOn, WordLevel!Writes, Writes

LEMMA MapsReadCommand ==
  ASSUME TapInv, Send, pc = "command", op.kind = "read"
  PROVE  WordLevel!ReadWord
<1>1. PICK d, x : CommandsRead(d, x)
  BY BatchOfReadCommand
<1>2. chip' \in Chips /\ Spent(chip') /\ Passed(Address(op.addr, FALSE), chip, chip')
      /\ chip'.out = Append(chip.out, x) /\ ReadField("word", x) = chip'.rdata
  BY <1>1 DEF Send, CommandsRead, Does
<1>3. Parked' = WordLevel!Open
  BY <1>2, SpentIsOpen, OpenThere
<1>4. WordLevel!UpdateDR(WordLevel!Command(op.addr, FALSE))
  <2>1. WordLevel!Command(op.addr, FALSE) = Address(op.addr, FALSE)
    BY DEF WordLevel!Command, Address
  <2> QED BY <1>2, <2>1, UpdateMaps
<1>5. Wire(chip') = Append(Wire(chip), chip'.rdata)
  BY <1>2, Quiet, WireMaps
<1>6. pc' = "poll" /\ UNCHANGED <<op, i, polled, loaded, rx, faults>>
  BY DEF Send, GoOn, Writes
<1> QED BY <1>3, <1>4, <1>5, <1>6 DEF WordLevel!ReadWord, WordLevel!GoOn, Wire

LEMMA MapsRawCommand ==
  ASSUME TapInv, Send, pc = "command", op.kind = "readraw"
  PROVE  WordLevel!OpenRead
<1>1. PICK d : CommandsRaw(d)
  BY BatchOfRawCommand
<1>2. chip' \in Chips /\ WordOpen(chip') /\ Passed(Address(op.addr, FALSE), chip, chip')
      /\ chip'.out = chip.out
  BY <1>1 DEF Send, CommandsRaw, Does, Fresh
<1>3. Parked' = WordLevel!Open
  BY <1>2, OpenThere
<1>4. WordLevel!UpdateDR(WordLevel!Command(op.addr, FALSE))
  <2>1. WordLevel!Command(op.addr, FALSE) = Address(op.addr, FALSE)
    BY DEF WordLevel!Command, Address
  <2> QED BY <1>2, <2>1, UpdateMaps
<1>5. pc' = "fetch" /\ UNCHANGED <<op, i, polled, loaded, rx, faults>>
  BY DEF Send, GoOn, Writes
<1>6. UNCHANGED WordLevel!queue
  BY <1>2, <1>5, QueueMaps
<1> QED BY <1>3, <1>4, <1>5, <1>6 DEF WordLevel!OpenRead, WordLevel!GoOn

LEMMA MapsSelect ==
  ASSUME TapInv, Send, pc = "select"
  PROVE  WordLevel!SelectData
<1>1. PICK d : SelectsDataReg(d)
  BY BatchOfSelect
<1>2. chip' \in Chips /\ WordOpen(chip') /\ Passed(ParkedIn(chip), chip, chip')
      /\ chip'.out = chip.out
  BY <1>1 DEF Send, SelectsDataReg, Does, Fresh
<1>3. Parked' = WordLevel!Open
  BY <1>2, OpenThere
<1>4. WordLevel!UpdateDR(Parked)
  <2>1. Parked = ParkedIn(chip)
    BY Quiet, ParkedNow
  <2> QED BY <1>2, <2>1, UpdateMaps
<1>5. pc' = "data" /\ UNCHANGED <<op, i, polled, loaded, rx, faults>>
  BY DEF Send, GoOn
<1>6. UNCHANGED WordLevel!queue
  BY <1>2, <1>5, QueueMaps
<1> QED BY <1>3, <1>4, <1>5, <1>6 DEF WordLevel!SelectData, WordLevel!GoOn

LEMMA ToWriteMaps == WordLevel!WordToWrite = ToWrite
BY DEF WordLevel!WordToWrite, WordLevel!Data, ToWrite, Datum

LEMMA MapsData ==
  ASSUME TapInv, Send, pc = "data"
  PROVE  WordLevel!ShiftWord \/ WordLevel!ShiftLastWord
<1>1. op.len \in Nat /\ i \in 0..op.len - 1
  BY DEF TapInv, HostOnCourse
<1>2. UNCHANGED <<loaded, rx, faults>> /\ chip' = Run(chip, BatchAt)
  BY DEF Send
<1>3. CASE i < op.len - 1
  <2>1. PICK d : PutsAndLoops(d)
    BY <1>3, BatchOfData
  <2>2. chip' \in Chips /\ WordOpen(chip') /\ Passed(ToWrite, chip, chip')
        /\ chip'.out = chip.out
    BY <1>2, <2>1 DEF PutsAndLoops, Does, Fresh
  <2>3. Parked' = WordLevel!Open
    BY <2>2, OpenThere
  <2>4. WordLevel!UpdateDR(WordLevel!WordToWrite)
    BY <2>2, ToWriteMaps, UpdateMaps
  <2>5. ~(i = op.len - 1)
    BY <1>1, <1>3
  <2>6. i' = i + 1 /\ UNCHANGED <<pc, op, polled>>
    BY <2>5 DEF Send
  <2>7. UNCHANGED WordLevel!queue
    BY <1>2, <2>2, QueueMaps
  <2> QED BY <1>2, <1>3, <2>3, <2>4, <2>6, <2>7 DEF WordLevel!ShiftWord
<1>4. CASE i = op.len - 1
  <2>1. PICK d : PutsWord(d)
    BY <1>4, BatchOfData
  <2>2. chip' \in Chips /\ SameBus(chip, chip') /\ ParkedIn(chip') = ToWrite
        /\ chip'.out = chip.out
    BY <1>2, <2>1 DEF PutsWord, Does
  <2>3. Parked' = WordLevel!WordToWrite
    BY <2>2, ParkedThen, ToWriteMaps
  <2>4. UNCHANGED WordLevel!ahb
    BY <2>2, BusMaps
  <2>5. ~(i < op.len - 1)
    BY <1>1, <1>4
  <2>6. Return
    BY <2>5 DEF Send
  <2>7. UNCHANGED WordLevel!queue
    BY <1>2, <2>2, QueueMaps
  <2> QED BY <1>2, <1>4, <2>3, <2>4, <2>6, <2>7, ReturnMaps DEF WordLevel!ShiftLastWord
<1>5. i < op.len - 1 \/ i = op.len - 1
  BY <1>1
<1> QED BY <1>3, <1>4, <1>5

LEMMA MapsFetch ==
  ASSUME TapInv, Send, pc = "fetch"
  PROVE  WordLevel!FetchWord
<1>1. PICK d, x : FetchesIt(d, x)
  BY BatchOfFetch
<1>2. chip' \in Chips /\ Spent(chip') /\ SameBus(chip, chip')
      /\ chip'.out = Append(chip.out, x) /\ ReadField("word", x) = chip.rdata
  BY <1>1 DEF Send, FetchesIt, Does
<1>3. Parked' = Parked
  BY <1>2, SpentIsOpen, OpenHere, OpenThere
<1>4. UNCHANGED WordLevel!ahb
  BY <1>2, BusMaps
<1>5. Wire(chip') = Append(Wire(chip), chip.rdata)
  BY <1>2, Quiet, WireMaps
<1>6. pc' = "poll" /\ UNCHANGED <<op, i, polled, loaded, rx, faults>>
  BY DEF Send, GoOn
<1> QED BY <1>3, <1>4, <1>5, <1>6 DEF WordLevel!FetchWord, WordLevel!GoOn, Wire

LEMMA MapsNext ==
  ASSUME TapInv, Send, pc = "next"
  PROVE  WordLevel!NextWord
<1>1. PICK d : StepsOn(d)
  BY BatchOfNext
<1>2. chip' \in Chips /\ WordOpen(chip') /\ Passed(Datum(Junk, TRUE), chip, chip')
      /\ chip'.out = chip.out
  BY <1>1 DEF Send, StepsOn, Does, Fresh
<1>3. Parked' = WordLevel!Open
  BY <1>2, OpenThere
<1>4. WordLevel!UpdateDR(WordLevel!Data(Junk, TRUE))
  <2>1. WordLevel!Data(Junk, TRUE) = Datum(Junk, TRUE)
    BY DEF WordLevel!Data, Datum
  <2> QED BY <1>2, <2>1, UpdateMaps
<1>5. UNCHANGED <<loaded, rx, faults>>
  BY DEF Send
<1>6. IF i + 1 < op.len THEN pc' = "fetch" /\ i' = i + 1 /\ UNCHANGED <<op, polled>>
                        ELSE WordLevel!Return
  <2>1. op.len \in Nat /\ i \in 0..op.len - 1
    BY DEF TapInv, HostOnCourse
  <2>2. i + 1 < op.len <=> ~(i + 1 = op.len)
    BY <2>1
  <2> QED BY <2>2, ReturnMaps DEF Send
<1>7. UNCHANGED WordLevel!queue
  BY <1>2, <1>5, QueueMaps
<1> QED BY <1>3, <1>4, <1>5, <1>6, <1>7 DEF WordLevel!NextWord

-----------------------------------------------------------------------------
(* Batches cut short *)

(* A cut leaves the bus alone, or has handed s over. *)
LEMMA LeftMaps ==
  ASSUME NEW S, chip' \in Left(chip, S)
  PROVE  Parked' \in S /\ UNCHANGED WordLevel!ahb /\ chip'.out = chip.out
BY ParkedThen, BusMaps DEF Left

LEMMA AfterMaps ==
  ASSUME NEW S, NEW s, chip' \in After(s, chip, S)
  PROVE  Parked' \in S /\ WordLevel!UpdateDR(s) /\ chip'.out = chip.out
BY ParkedThen, UpdateMaps DEF After

LEMMA SameMaps ==
  ASSUME chip' = chip
  PROVE  Parked' = Parked /\ UNCHANGED WordLevel!ahb /\ chip'.out = chip.out
BY DEF Parked, WordLevel!ahb

LEMMA Shiftings ==
  /\ WordLevel!None = NoShift
  /\ \A a, w : WordLevel!Command(a, w) = Address(a, w)
  /\ \A v, s : WordLevel!Data(v, s) = Datum(v, s)
  /\ WordLevel!Open = Datum(Junk, FALSE)
BY DEF WordLevel!None, WordLevel!Command, WordLevel!Data, WordLevel!Open,
       NoShift, Address, Datum

LEMMA MapsResetFails ==
  ASSUME TapInv, SendFails, pc = "reset"
  PROVE  WordLevel!ResetFails
<1>1. PICK d : Resets(d)
  BY BatchOfReset
<1>2. chip' \in {chip, d} /\ WordLevel!Abort /\ rx' = rx
  BY <1>1, CutOfBatch, AbortMaps DEF Resets, Does
<1>3. CASE chip' = chip
  BY <1>2, <1>3, SameMaps, QueueMaps DEF WordLevel!ResetFails
<1>4. CASE chip' = d
  <2>1. chip' \in Chips /\ chip'.tap = "TestLogicReset" /\ chip'.out = chip.out
        /\ Passed(ParkedIn(chip), chip, chip')
    BY <1>1, <1>4 DEF Resets
  <2>2. Parked = ParkedIn(chip) /\ Parked' = ParkedIn(chip')
    BY <2>1, Quiet, ParkedNow, ParkedThen
  <2>3. Parked' = WordLevel!None
    BY <2>1, <2>2 DEF ParkedIn, WordLevel!None
  <2>4. WordLevel!UpdateDR(Parked)
    BY <2>1, <2>2, UpdateMaps
  <2>5. UNCHANGED WordLevel!queue
    BY <1>2, <2>1, QueueMaps
  <2> QED BY <1>2, <2>3, <2>4, <2>5 DEF WordLevel!ResetFails
<1> QED BY <1>2, <1>3, <1>4

LEMMA MapsWriteCommandFails ==
  ASSUME TapInv, SendFails, pc = "command", op.kind \in Writes
  PROVE  WordLevel!SendCommandFails
<1>1. PICK d : CommandsWrite(d)
  BY BatchOfWriteCommand
<1> DEFINE S == {NoShift, Address(Junk, FALSE), Address(op.addr, FALSE), Address(op.addr, TRUE)}
<1>2. chip' \in Left(chip, S) /\ WordLevel!Abort /\ rx' = rx
  BY <1>1, CutOfBatch, AbortMaps DEF CommandsWrite, Does
<1>3. Parked' \in S /\ UNCHANGED WordLevel!ahb /\ chip'.out = chip.out
  <2> HIDE DEF S
  <2> QED BY <1>2, LeftMaps
<1>4. UNCHANGED WordLevel!queue
  BY <1>2, <1>3, QueueMaps
<1>5. Parked = NoShift
  <2>1. chip.tap = "TestLogicReset"
    BY DEF TapInv, ChipOnCourse
  <2> QED BY <2>1, Quiet, ParkedNow DEF ParkedIn, NoShift
<1>6. WordLevel!PartOfCommand(TRUE)
  BY <1>3, <1>5, Shiftings DEF WordLevel!PartOfCommand
<1> QED BY <1>2, <1>4, <1>6 DEF WordLevel!SendCommandFails, WordLevel!Writes, Writes

LEMMA MapsReadCommandFails ==
  ASSUME TapInv, SendFails, pc = "command", op.kind \in {"read", "readraw"}
  PROVE  WordLevel!ReadCommandFails
<1> DEFINE S == {NoShift, Address(Junk, FALSE), Address(op.addr, FALSE)}
           T == {NoShift, Datum(Junk, FALSE)}
           a == op.addr
<1>1. WordLevel!Abort /\ rx' = rx
  BY CutOfBatch, AbortMaps
<1>2. Parked = NoShift
  <2>1. chip.tap = "TestLogicReset"
    BY DEF TapInv, ChipOnCourse
  <2> QED BY <2>1, Quiet, ParkedNow DEF ParkedIn, NoShift
<1>3. op.kind \in WordLevel!Reads
  BY DEF WordLevel!Reads
<1>4. chip'.out = chip.out => Wire(chip') = Wire(chip)
  BY DEF Wire
<1>5. CASE chip' \in Left(chip, S)
  <2>1. Parked' \in S /\ UNCHANGED WordLevel!ahb /\ chip'.out = chip.out
    <3> HIDE DEF S
    <3> QED BY <1>5, LeftMaps
  <2>2. WordLevel!PartOfCommand(FALSE)
    BY <1>2, <2>1, Shiftings DEF WordLevel!PartOfCommand
  <2> QED BY <1>1, <1>3, <1>4, <2>1, <2>2 DEF WordLevel!ReadCommandFails, Wire
<1>6. CASE chip' \in After(Address(op.addr, FALSE), chip, T)
  <2>1. Parked' \in T /\ WordLevel!UpdateDR(Address(op.addr, FALSE)) /\ chip'.out = chip.out
    <3> HIDE DEF T
    <3> QED BY <1>6, AfterMaps
  <2>2. /\ WordLevel!UpdateDR(WordLevel!Command(op.addr, FALSE))
        /\ Parked' \in {WordLevel!None, WordLevel!Open}
    BY <2>1, Shiftings
  <2> QED BY <1>1, <1>3, <1>4, <2>1, <2>2 DEF WordLevel!ReadCommandFails, Wire
<1>7. CASE op.kind = "read" /\ ~(chip' \in PartOfRead(op.addr, chip))
  <2>1. PICK d, x : CommandsRead(d, x)
    BY <1>7, BatchOfReadCommand
  <2>2. chip' = d
    BY <1>7, <2>1, CutOfBatch DEF CommandsRead, Does
  <2>3. chip' \in Chips /\ Spent(chip') /\ Passed(Address(op.addr, FALSE), chip, chip')
        /\ chip'.out = Append(chip.out, x) /\ ReadField("word", x) = chip'.rdata
    BY <2>1, <2>2 DEF CommandsRead
  <2>4. Parked' = WordLevel!Open
    BY <2>3, SpentIsOpen, OpenThere
  <2>5. WordLevel!UpdateDR(WordLevel!Command(op.addr, FALSE))
    BY <2>3, Shiftings, UpdateMaps
  <2>6. Wire(chip') = Append(Wire(chip), chip'.rdata)
    BY <2>3, Quiet, WireMaps
  <2> QED BY <1>1, <1>3, <1>7, <2>4, <2>5, <2>6 DEF WordLevel!ReadCommandFails, Wire
<1>8. CASE op.kind = "readraw" /\ ~(chip' \in PartOfRead(op.addr, chip))
  <2>1. PICK d : CommandsRaw(d)
    BY <1>8, BatchOfRawCommand
  <2> QED BY <1>8, <2>1, CutOfBatch DEF CommandsRaw, Does
<1>9. PartOfRead(op.addr, chip) = Left(chip, S) \cup After(Address(op.addr, FALSE), chip, T)
  BY DEF PartOfRead
<1> HIDE DEF S, T
<1> QED BY <1>5, <1>6, <1>7, <1>8, <1>9

LEMMA MapsSelectFails ==
  ASSUME TapInv, SendFails, pc = "select"
  PROVE  WordLevel!SelectDataFails
<1>1. PICK d : SelectsDataReg(d)
  BY BatchOfSelect
<1> DEFINE T == {NoShift, Datum(Junk, FALSE)}
<1>2. chip' \in {chip} \cup After(ParkedIn(chip), chip, T) /\ WordLevel!Abort /\ rx' = rx
  BY <1>1, CutOfBatch, AbortMaps DEF SelectsDataReg, Does
<1>3. CASE chip' = chip
  BY <1>2, <1>3, SameMaps, QueueMaps DEF WordLevel!SelectDataFails
<1>4. CASE chip' \in After(ParkedIn(chip), chip, T)
  <2>1. Parked' \in T /\ WordLevel!UpdateDR(ParkedIn(chip)) /\ chip'.out = chip.out
    <3> HIDE DEF T
    <3> QED BY <1>4, AfterMaps
  <2>2. Parked = ParkedIn(chip)
    BY Quiet, ParkedNow
  <2>3. WordLevel!UpdateDR(Parked) /\ Parked' \in {WordLevel!None, WordLevel!Open}
    BY <2>1, <2>2, Shiftings
  <2>4. UNCHANGED WordLevel!queue
    BY <1>2, <2>1, QueueMaps
  <2> QED BY <1>2, <2>3, <2>4 DEF WordLevel!SelectDataFails
<1> HIDE DEF T
<1> QED BY <1>2, <1>3, <1>4

LEMMA MapsDataFails ==
  ASSUME TapInv, SendFails, pc = "data"
  PROVE  WordLevel!ShiftWordFails
<1>1. op.len \in Nat /\ i \in 0..op.len - 1 /\ WordLevel!Abort /\ rx' = rx
  BY CutOfBatch, AbortMaps DEF TapInv, HostOnCourse
<1>2. Parked = WordLevel!Open
  BY OpenHere
<1>3. CASE chip' \in Left(chip, Written)
  <2>1. Parked' \in Written /\ UNCHANGED WordLevel!ahb /\ chip'.out = chip.out
    BY <1>3, LeftMaps
  <2>2. Parked' \in {Parked, WordLevel!Data(op.data[i], FALSE), WordLevel!WordToWrite}
    BY <1>2, <2>1, Shiftings, ToWriteMaps DEF Written
  <2>3. UNCHANGED WordLevel!queue
    BY <1>1, <2>1, QueueMaps
  <2> QED BY <1>1, <2>1, <2>2, <2>3 DEF WordLevel!ShiftWordFails
<1>4. CASE ~(chip' \in Left(chip, Written)) /\ i < op.len - 1
  <2>1. PICK d : PutsAndLoops(d)
    BY <1>4, BatchOfData
  <2>2. chip' = d
    BY <1>4, <2>1, CutOfBatch DEF PutsAndLoops, Does
  <2>3. chip' \in Chips /\ WordOpen(chip') /\ Passed(ToWrite, chip, chip')
        /\ chip'.out = chip.out
    BY <2>1, <2>2 DEF PutsAndLoops, Fresh
  <2>4. Parked' = WordLevel!Open
    BY <2>3, OpenThere
  <2>5. WordLevel!UpdateDR(WordLevel!WordToWrite)
    BY <2>3, ToWriteMaps, UpdateMaps
  <2>6. UNCHANGED WordLevel!queue
    BY <1>1, <2>3, QueueMaps
  <2> QED BY <1>1, <1>4, <2>4, <2>5, <2>6 DEF WordLevel!ShiftWordFails
<1>5. CASE ~(chip' \in Left(chip, Written)) /\ i = op.len - 1
  <2>1. PICK d : PutsWord(d)
    BY <1>5, BatchOfData
  <2> QED BY <1>5, <2>1, CutOfBatch DEF PutsWord, Does
<1>6. i < op.len - 1 \/ i = op.len - 1
  BY <1>1
<1> QED BY <1>3, <1>4, <1>5, <1>6

LEMMA MapsFetchFails ==
  ASSUME TapInv, SendFails, pc = "fetch"
  PROVE  WordLevel!FetchWordFails
<1>1. PICK d, x : FetchesIt(d, x)
  BY BatchOfFetch
<1>2. chip' \in {chip, d} /\ WordLevel!Abort /\ rx' = rx
  BY <1>1, CutOfBatch, AbortMaps DEF FetchesIt, Does
<1>3. CASE chip' = chip
  <2>1. Parked' = Parked /\ UNCHANGED WordLevel!ahb /\ Wire(chip') = Wire(chip)
    BY <1>3, SameMaps
  <2> QED BY <1>2, <2>1 DEF WordLevel!FetchWordFails, Wire
<1>4. CASE chip' = d
  <2>1. chip' \in Chips /\ Spent(chip') /\ SameBus(chip, chip')
        /\ chip'.out = Append(chip.out, x) /\ ReadField("word", x) = chip.rdata
    BY <1>1, <1>4 DEF FetchesIt
  <2>2. Parked' = Parked
    BY <2>1, SpentIsOpen, OpenHere, OpenThere
  <2>3. UNCHANGED WordLevel!ahb
    BY <2>1, BusMaps
  <2>4. Wire(chip') = Append(Wire(chip), chip.rdata)
    BY <2>1, Quiet, WireMaps
  <2> QED BY <1>2, <2>2, <2>3, <2>4 DEF WordLevel!FetchWordFails, Wire
<1> QED BY <1>2, <1>3, <1>4

LEMMA MapsNextFails ==
  ASSUME TapInv, SendFails, pc = "next"
  PROVE  WordLevel!NextWordFails
<1>1. PICK d : StepsOn(d)
  BY BatchOfNext
<1>2. chip' \in {chip, d} /\ WordLevel!Abort /\ rx' = rx
  BY <1>1, CutOfBatch, AbortMaps DEF StepsOn, Does
<1>3. CASE chip' = chip
  BY <1>2, <1>3, SameMaps, QueueMaps DEF WordLevel!NextWordFails
<1>4. CASE chip' = d
  <2>1. chip' \in Chips /\ WordOpen(chip') /\ Passed(Datum(Junk, TRUE), chip, chip')
        /\ chip'.out = chip.out
    BY <1>1, <1>4 DEF StepsOn, Fresh
  <2>2. Parked' = WordLevel!Open
    BY <2>1, OpenThere
  <2>3. WordLevel!UpdateDR(WordLevel!Data(Junk, TRUE))
    BY <2>1, Shiftings, UpdateMaps
  <2>4. UNCHANGED WordLevel!queue
    BY <1>2, <2>1, QueueMaps
  <2> QED BY <1>2, <2>2, <2>3, <2>4 DEF WordLevel!NextWordFails
<1> QED BY <1>2, <1>3, <1>4

-----------------------------------------------------------------------------
(* The refinement *)

LEMMA InitMaps == Init => WordLevel!Init
<1> SUFFICES ASSUME Init PROVE WordLevel!Init
  OBVIOUS
<1>1. PICK m \in [Addr -> Words] : chip = PowerOn(m)
  BY DEF Init
<1>2. chip.cmd = [addr |-> Junk, write |-> FALSE] /\ chip.mem = m /\ chip.rdata = Junk
      /\ chip.out = <<>> /\ chip.tap = "TestLogicReset"
  BY <1>1 DEF PowerOn
<1>3. Parked = WordLevel!None
  <2>1. chip \in Chips
    BY InitInv, Quiet
  <2> QED BY <1>2, <2>1, ParkedNow DEF ParkedIn, WordLevel!None
<1>4. Wire(chip) = <<>>
  BY <1>2 DEF Wire
<1>5. m \in [WordLevel!Addr -> Words]
  BY DEF Addr, WordLevel!Addr
<1> QED BY <1>2, <1>3, <1>4, <1>5
        DEF Init, NoAccess, Access, NoData, WordLevel!Init, WordLevel!NoAccess,
            WordLevel!Access, WordLevel!NoData, Wire

LEMMA StartMaps ==
  ASSUME NEW k, NEW a, NEW n, NEW w, Start(k, a, n, w)
  PROVE  WordLevel!Start(k, a, n, w)
<1>1. chip' = chip /\ rx' = rx
  BY DEF Start
<1>2. Parked' = Parked /\ UNCHANGED WordLevel!ahb /\ UNCHANGED WordLevel!queue
  BY <1>1, SameMaps, QueueMaps
<1> QED BY <1>2 DEF Start, Access, WordLevel!Start, WordLevel!Access

LEMMA CallMaps ==
  ASSUME StartRead \/ StartWrite
  PROVE  WordLevel!StartRead \/ WordLevel!StartWrite
<1>1. Addr = WordLevel!Addr /\ \A n : NoData(n) = WordLevel!NoData(n)
  BY DEF Addr, WordLevel!Addr, NoData, WordLevel!NoData
<1>2. CASE StartRead
  BY <1>1, <1>2, StartMaps DEF StartRead, WordLevel!StartRead
<1>3. CASE StartWrite
  BY <1>1, <1>3, StartMaps DEF StartWrite, WordLevel!StartWrite
<1> QED BY <1>2, <1>3

LEMMA DeliverMaps ==
  ASSUME TapInv, Deliver
  PROVE  WordLevel!Deliver
<1>1. chip \in Chips /\ chip.out # <<>> /\ chip'.out = Tail(chip.out)
  BY Quiet DEF Deliver, Chips
<1>2. /\ Wire(chip) # <<>> /\ Head(Wire(chip)) = ReadField("word", Head(chip.out))
      /\ Wire(chip') = Tail(Wire(chip))
  BY <1>1, WireMaps
<1>3. rx' = Append(rx, Head(Wire(chip)))
  BY <1>2 DEF Deliver
<1>4. Parked' = Parked /\ UNCHANGED WordLevel!ahb
  <2>1. chip'.tap = chip.tap /\ chip'.ir = chip.ir /\ chip'.dreg = chip.dreg
        /\ SameBus(chip, chip')
    BY <1>1 DEF Deliver, Chips, SameBus
  <2> QED BY <2>1, BusMaps DEF Parked
<1>5. UNCHANGED WordLevel!host /\ faults' = faults
  BY DEF Deliver, WordLevel!host
<1> QED BY <1>2, <1>3, <1>4, <1>5 DEF WordLevel!Deliver, Wire

LEMMA SendMaps ==
  ASSUME TapInv, Send
  PROVE  WordLevel!Next
<1>1. pc \in Sending /\ (pc = "command" => op.kind \in {"read", "readraw"} \cup Writes)
  BY DEF Send, TapInv, HostOnCourse, Kinds
<1>2. CASE pc = "reset"
  BY <1>2, MapsReset DEF WordLevel!Next
<1>3. CASE pc = "command"
  BY <1>1, <1>3, MapsWriteCommand, MapsReadCommand, MapsRawCommand
     DEF WordLevel!Next, WordLevel!ReadSteps, WordLevel!WriteSteps
<1>4. CASE pc = "select"
  BY <1>4, MapsSelect DEF WordLevel!Next, WordLevel!WriteSteps
<1>5. CASE pc = "data"
  BY <1>5, MapsData DEF WordLevel!Next, WordLevel!WriteSteps
<1>6. CASE pc = "fetch"
  BY <1>6, MapsFetch DEF WordLevel!Next, WordLevel!ReadSteps
<1>7. CASE pc = "next"
  BY <1>7, MapsNext DEF WordLevel!Next, WordLevel!ReadSteps
<1> QED BY <1>1, <1>2, <1>3, <1>4, <1>5, <1>6, <1>7 DEF Sending

LEMMA SendFailsMaps ==
  ASSUME TapInv, SendFails
  PROVE  WordLevel!Failures
<1>1. pc \in Sending /\ (pc = "command" => op.kind \in {"read", "readraw"} \cup Writes)
  BY DEF SendFails, TapInv, HostOnCourse, Kinds
<1>2. CASE pc = "reset"
  BY <1>2, MapsResetFails DEF WordLevel!Failures
<1>3. CASE pc = "command"
  BY <1>1, <1>3, MapsWriteCommandFails, MapsReadCommandFails DEF WordLevel!Failures
<1>4. CASE pc = "select"
  BY <1>4, MapsSelectFails DEF WordLevel!Failures
<1>5. CASE pc = "data"
  BY <1>5, MapsDataFails DEF WordLevel!Failures
<1>6. CASE pc = "fetch"
  BY <1>6, MapsFetchFails DEF WordLevel!Failures
<1>7. CASE pc = "next"
  BY <1>7, MapsNextFails DEF WordLevel!Failures
<1> QED BY <1>1, <1>2, <1>3, <1>4, <1>5, <1>6, <1>7 DEF Sending

(* Every step of the TAP level is one of the word level, or stutters. *)
LEMMA NextMaps ==
  ASSUME TapInv, [Next]_vars
  PROVE  [WordLevel!Next]_(WordLevel!vars)
<1>1. chip' = chip => Parked' = Parked /\ UNCHANGED WordLevel!ahb /\ chip'.out = chip.out
  BY SameMaps
<1>2. chip' = chip => Wire(chip') = Wire(chip)
  OBVIOUS
<1>3. CASE StartRead \/ StartWrite
  BY <1>3, CallMaps DEF WordLevel!Next
<1>4. CASE Close
  <2>1. UNCHANGED WordLevel!queue
    BY <1>1, <1>4, QueueMaps DEF Close
  <2>2. WordLevel!Close
    BY <1>1, <1>4, <2>1 DEF Close, WordLevel!Close
  <2> QED BY <2>2 DEF WordLevel!Next
<1>5. CASE Send
  BY <1>5, SendMaps
<1>6. CASE SendFails
  BY <1>6, SendFailsMaps DEF WordLevel!Next
<1>7. CASE Deliver
  BY <1>7, DeliverMaps DEF WordLevel!Next
<1>8. CASE PollQueue
  <2>1. UNCHANGED WordLevel!queue
    BY <1>1, <1>8, QueueMaps DEF PollQueue
  <2>2. WordLevel!PollQueue
    BY <1>1, <1>8, <2>1 DEF PollQueue, WordLevel!PollQueue
  <2> QED BY <2>2 DEF WordLevel!Next, WordLevel!ReadSteps
<1>9. CASE PollFails
  <2>1. WordLevel!PollFails
    BY <1>1, <1>2, <1>9, AbortMaps DEF PollFails, WordLevel!PollFails, Wire
  <2> QED BY <2>1 DEF WordLevel!Next, WordLevel!Failures
<1>10. CASE TakeReply
  <2>1. WordLevel!TakeReply
    BY <1>1, <1>2, <1>10, ReturnMaps DEF TakeReply, GoOn, WordLevel!TakeReply, Wire
  <2> QED BY <2>1 DEF WordLevel!Next, WordLevel!ReadSteps
<1>11. CASE TakeFails
  <2>1. WordLevel!TakeFails
    BY <1>1, <1>2, <1>11, AbortMaps DEF TakeFails, WordLevel!TakeFails, Wire
  <2> QED BY <2>1 DEF WordLevel!Next, WordLevel!Failures
<1>12. CASE UNCHANGED vars
  <2>1. UNCHANGED <<pc, op, i, polled, loaded, chip, rx, faults>>
    BY <1>12 DEF vars
  <2> QED BY <1>1, <1>2, <2>1 DEF WordLevel!vars, WordLevel!ahb, Wire
<1> QED BY <1>3, <1>4, <1>5, <1>6, <1>7, <1>8, <1>9, <1>10, <1>11, <1>12 DEF Next

(* The clock patterns and bit counts of ftdi_device.c do what DebugLink    *)
(* says of them, in every batch, complete or cut after any of its MPSSE    *)
(* commands: nothing at the word level is an idealisation of the TAP.      *)
THEOREM PatternsDoAsAsked == Spec => ImplementsDebugLink
<1>1. TapInv /\ [Next]_vars => [WordLevel!Next]_(WordLevel!vars)
  BY NextMaps
<1> QED BY <1>1, InitMaps, TapOnCourse, PTL DEF Spec, ImplementsDebugLink, WordLevel!Spec

-----------------------------------------------------------------------------
(* The memory *)

(* DebugLink once more, with its theorems: the same specification as       *)
(* WordLevel, definition by definition.                                    *)
Link == INSTANCE DebugLinkProofs WITH
  shift <- Parked,
  cmd <- chip.cmd,
  mem <- chip.mem,
  rdata <- chip.rdata,
  wire <- [k \in DOMAIN chip.out |-> ReadField("word", chip.out[k])]

LEMMA SameInit == WordLevel!Init => Link!Init
BY DEF WordLevel!Init, WordLevel!Addr, WordLevel!None, WordLevel!NoAccess, WordLevel!Access,
       WordLevel!NoData, Link!Init, Link!Addr, Link!None, Link!NoAccess, Link!Access,
       Link!NoData

LEMMA SameNext == WordLevel!Next => Link!Next
BY Zenon
   DEF WordLevel!Addr, WordLevel!host, WordLevel!ahb, WordLevel!queue, WordLevel!vars,
       WordLevel!None, WordLevel!Command, WordLevel!Data, WordLevel!Open, WordLevel!Writes,
       WordLevel!Reads, WordLevel!Access, WordLevel!NoData, WordLevel!NoAccess,
       WordLevel!AhbRead, WordLevel!Following, WordLevel!UpdateDR, WordLevel!Deliver,
       WordLevel!Start, WordLevel!StartRead, WordLevel!StartWrite, WordLevel!Close,
       WordLevel!Return, WordLevel!Abort, WordLevel!GoOn, WordLevel!PartOfCommand,
       WordLevel!ResetJtag, WordLevel!ResetFails, WordLevel!SendCommand,
       WordLevel!SendCommandFails, WordLevel!SelectData, WordLevel!SelectDataFails,
       WordLevel!WordToWrite, WordLevel!ShiftWord, WordLevel!ShiftLastWord,
       WordLevel!ShiftWordFails, WordLevel!ReadWord, WordLevel!OpenRead,
       WordLevel!ReadCommandFails, WordLevel!FetchWord, WordLevel!FetchWordFails,
       WordLevel!PollQueue, WordLevel!PollFails, WordLevel!TakeReply, WordLevel!TakeFails,
       WordLevel!NextWord, WordLevel!NextWordFails, WordLevel!WriteSteps,
       WordLevel!ReadSteps, WordLevel!Failures, WordLevel!Next, Link!Addr, Link!host,
       Link!ahb, Link!queue, Link!vars, Link!None, Link!Command, Link!Data, Link!Open,
       Link!Writes, Link!Reads, Link!Access, Link!NoData, Link!NoAccess, Link!AhbRead,
       Link!Following, Link!UpdateDR, Link!Deliver, Link!Start, Link!StartRead,
       Link!StartWrite, Link!Close, Link!Return, Link!Abort, Link!GoOn, Link!PartOfCommand,
       Link!ResetJtag, Link!ResetFails, Link!SendCommand, Link!SendCommandFails,
       Link!SelectData, Link!SelectDataFails, Link!WordToWrite, Link!ShiftWord,
       Link!ShiftLastWord, Link!ShiftWordFails, Link!ReadWord, Link!OpenRead,
       Link!ReadCommandFails, Link!FetchWord, Link!FetchWordFails, Link!PollQueue,
       Link!PollFails, Link!TakeReply, Link!TakeFails, Link!NextWord, Link!NextWordFails,
       Link!WriteSteps, Link!ReadSteps, Link!Failures, Link!Next

LEMMA LinkAssumptions ==
  /\ Link!NumWordsAssumption /\ Link!WordsAssumption /\ Link!JunkAssumption
  /\ Link!SeqNextAssumption /\ Link!TransfersAssumption /\ Link!MaxFaultsAssumption
BY NumWordsAssumption, JunkAssumption, SeqNextAssumption, ZeroAssumption,
   TransfersAssumption, MaxFaultsAssumption
   DEF Addr, Link!Addr, Link!NumWordsAssumption, Link!WordsAssumption, Link!JunkAssumption,
       Link!SeqNextAssumption, Link!TransfersAssumption, Link!MaxFaultsAssumption

(* Down to the clocks of the TAP, ioread and iowrite are reads and writes  *)
(* of a memory: as long as the transfers stay inside their blocks, every   *)
(* write takes effect once, in order and at its own address, every read    *)
(* sees the writes before it, and a D2XX call that fails spoils no more    *)
(* than the access it interrupts.                                          *)
THEOREM TapIsMemory ==
  ASSUME Link!TransfersInBlock
  PROVE  Spec => Link!ActsAsMemory
<1>1. [WordLevel!Next]_(WordLevel!vars) => [Link!Next]_(Link!vars)
  <2>1. UNCHANGED WordLevel!vars => UNCHANGED Link!vars
    BY DEF WordLevel!vars, Link!vars
  <2> QED BY <2>1, SameNext
<1>2. WordLevel!Spec => Link!Spec
  BY <1>1, SameInit, PTL DEF WordLevel!Spec, Link!Spec
<1>3. Link!Spec => Link!ActsAsMemory
  BY LinkAssumptions, Link!LinkIsMemory, PTL
<1> QED BY <1>2, <1>3, PatternsDoAsAsked, PTL DEF ImplementsDebugLink

-----------------------------------------------------------------------------
(* The scans: what there is to measure *)

Tasks == {Count, IdCode, IrLength} \cup {DrLength(o) : o \in 0..127}

LEMMA TaskCases ==
  ASSUME NEW t \in Tasks
  PROVE  \/ t = Count /\ t.fn = "count"
         \/ t = IdCode /\ t.fn = "idcode"
         \/ t = IrLength /\ t.fn = "ir"
         \/ t.fn = "dr" /\ t.opcode \in 0..127 /\ t = DrLength(t.opcode)
BY DEF Tasks, Count, IdCode, IrLength, DrLength

(* The length the answer is compared with is that of the register the     *)
(* opcode selects.                                                         *)
LEMMA WidthOf ==
  ASSUME NEW o \in 0..127
  PROVE  Length(DrLength(o)) = Width(Selected(Bits(6, o % 64)))
<1> DEFINE r == o % 64
<1>1. r \in 0..63
  BY OpcodeCut
<1>2. DrLength(o).fn = "dr" /\ DrLength(o).opcode % 64 = r
  BY DEF DrLength
<1> HIDE DEF r
<1>3. Length(DrLength(o)) = IF r = CODE_ADDR_COMM THEN 35 ELSE IF r = CODE_DATA THEN 33 ELSE 1
  BY <1>2, CodesAssumption DEF Length
<1>4. Selected(Bits(6, r)) = IF r = CODE_ADDR_COMM THEN "ADDR" ELSE IF r = CODE_DATA THEN "DATA"
                                                                ELSE "BYPASS"
  BY <1>1, CodesAssumption, SelectedBy, SameBits DEF Selected
<1> QED BY <1>3, <1>4 DEF Width, r

LEMMA LengthRange ==
  ASSUME NEW t \in Tasks, t.fn # "idcode"
  PROVE  Length(t) \in 1..35
BY TaskCases DEF Length

(* What a hundred ones push out of n zeros measures n. *)
LEMMA FirstOne ==
  ASSUME NEW x, NEW n \in 1..99, Pushed(n, x)
  PROVE  LET hits == {k \in 1..100 : x[k] # Bit(0)}
         IN  hits # {} /\ (CHOOSE k \in hits : \A j \in hits : k <= j) = n + 1
<1> DEFINE hits == {k \in 1..100 : x[k] # Bit(0)}
<1>1. \A k \in 1..100 : x[k] # Bit(0) <=> k > n
  BY BitsDiffer DEF Pushed
<1>2. hits = n + 1..100
  BY <1>1
<1> HIDE DEF hits
<1>3. n + 1 \in hits /\ \A j \in hits : n + 1 <= j
  BY <1>2
<1>4. \A k \in hits : (\A j \in hits : k <= j) => k = n + 1
  BY <1>2, <1>3
<1>5. (CHOOSE k \in hits : \A j \in hits : k <= j) = n + 1
  BY <1>3, <1>4
<1> QED BY <1>3, <1>5 DEF hits

(* The opcodes the console's scan has still to go through. *)
From(o) == [k \in 1..64 - o |-> DrLength(o + k - 1)]

LEMMA FromStep ==
  ASSUME NEW o \in 0..63
  PROVE  /\ From(o) \in Seq(Tasks) /\ From(o) # <<>> /\ Head(From(o)) = DrLength(o)
         /\ Tail(From(o)) = IF o = 63 THEN <<>> ELSE From(o + 1)
<1> DEFINE n == 64 - o
           s == From(o)
           t == Tail(s)
<1>1. n \in 1..64
  OBVIOUS
<1>2. \A k \in 1..n : o + k - 1 \in 0..127
  OBVIOUS
<1>3. \A k \in 1..n : DrLength(o + k - 1) \in Tasks
  BY <1>2 DEF Tasks
<1>4. s \in Seq(Tasks) /\ Len(s) = n /\ \A k \in 1..n : s[k] = DrLength(o + k - 1)
  BY <1>1, <1>3 DEF From
<1> HIDE DEF n, s
<1>5. s # <<>> /\ Head(s) = DrLength(o)
  BY <1>1, <1>4
<1>6. t \in Seq(Tasks) /\ Len(t) = n - 1 /\ \A k \in 1..n - 1 : t[k] = DrLength(o + k)
  BY <1>1, <1>4
<1> HIDE DEF t
<1>7. ASSUME o = 63 PROVE t = <<>>
  BY <1>6, <1>7 DEF n
<1>8. ASSUME o # 63 PROVE t = From(o + 1)
  <2>1. n - 1 = 64 - (o + 1)
    BY DEF n
  <2>2. t = [k \in 1..n - 1 |-> DrLength(o + k)]
    BY <1>6
  <2>3. \A k \in 1..n - 1 : (o + 1) + k - 1 = o + k
    BY <1>1
  <2> QED BY <2>1, <2>2, <2>3 DEF From
<1> QED BY <1>4, <1>5, <1>7, <1>8 DEF s, t

LEMMA WeightUp ==
  ASSUME NEW n \in 0..7
  PROVE  Weight[n + 1] \in 1..128 /\ (n = 6 => Weight[n + 1] = 64)
BY DEF Weight

(* The count comes first or not at all. *)
Later == {t \in Tasks : t.fn # "count"}

LEMMA LaterTasks ==
  ASSUME NEW s \in Seq(Later)
  PROVE  /\ s \in Seq(Tasks)
         /\ s # <<>> => Head(s).fn # "count" /\ Tail(s) \in Seq(Later)
<1>1. Later \subseteq Tasks /\ \A t \in Later : t.fn # "count"
  BY DEF Later
<1> HIDE DEF Later
<1>2. s # <<>> => Head(s) \in Later /\ Tail(s) \in Seq(Later)
  OBVIOUS
<1>3. s \in Seq(Tasks)
  <2>1. Len(s) \in Nat /\ \A k \in 1..Len(s) : s[k] \in Tasks
    BY <1>1
  <2>2. s = [k \in 1..Len(s) |-> s[k]]
    OBVIOUS
  <2> QED BY <2>1, <2>2
<1> QED BY <1>1, <1>2, <1>3

LEMMA OpcodesAre ==
  /\ \A n \in 0..7 : Opcodes(n) \in Seq(Later) /\ Opcodes(n) # <<>>
  /\ Opcodes(6) = From(0)
<1>1. ASSUME NEW n \in 0..7 PROVE Opcodes(n) \in Seq(Later) /\ Opcodes(n) # <<>>
  <2> DEFINE m == Weight[n + 1]
  <2>1. m \in 1..128
    BY WeightUp
  <2> HIDE DEF m
  <2>2. \A k \in 1..m : DrLength(k - 1) \in Later
    <3>1. \A k \in 1..m : k - 1 \in 0..127
      BY <2>1
    <3>2. \A o \in 0..127 : DrLength(o) \in Tasks /\ DrLength(o).fn # "count"
      <4>1. \A o \in 0..127 : DrLength(o) \in Tasks
        BY DEF Tasks
      <4>2. \A o : DrLength(o).fn = "dr"
        BY DEF DrLength
      <4> QED BY <4>1, <4>2
    <3>3. \A o \in 0..127 : DrLength(o) \in Later
      BY <3>2 DEF Later
    <3> HIDE DEF Later
    <3> QED BY <3>1, <3>3
  <2>3. Opcodes(n) = [k \in 1..m |-> DrLength(k - 1)]
    BY DEF Opcodes, m
  <2>4. Opcodes(n) \in Seq(Later) /\ Len(Opcodes(n)) = m
    <3> HIDE DEF Later
    <3> QED BY <2>1, <2>2, <2>3
  <2> QED BY <2>1, <2>4
<1>2. Opcodes(6) = From(0)
  <2>1. 6 \in 0..7
    OBVIOUS
  <2>2. Weight[6 + 1] = 64
    BY WeightUp, <2>1
  <2>3. \A k \in 1..64 : 0 + k - 1 = k - 1
    OBVIOUS
  <2> QED BY <2>2, <2>3 DEF Opcodes, From
<1> QED BY <1>1, <1>2

-----------------------------------------------------------------------------
(* Where a scan is, and what it has left behind *)

Measures == task.fn # "idcode"

ScanHost ==
  /\ phase \in {"open", "startup", "console", "exit"}
  /\ step \in {"idle", "reset", "setup", "flush", "clock", "finish"}
  /\ todo \in Seq(Tasks)
  /\ step # "idle" <=> todo # <<>>
  /\ step # "idle" => Tail(todo) \in Seq(Later)
  /\ phase = "open" => step = "idle" /\ failed = 0
  /\ failed \in 0..MaxFailed

(* The register a scan measures is full of zeros when the ones come: a     *)
(* count whose setup was cut short does not get that far.                  *)
ScanRegister ==
  /\ chain \in Chips
  /\ phase = "open" \/ step = "setup" => chain.tap = "TestLogicReset"
  /\ step = "flush" /\ chain.out # <<>> /\ Measures => Filled(chain, Length(task))
  /\ step = "clock" => Filled(chain, Length(task))
  /\ step = "clock" => Measures

(* Replies are left unread only by a call that fails. *)
ScanReplies ==
  /\ step \in {"clock", "finish"} => Len(chain.out) <= MaxLate
  /\ step \in {"reset", "setup"} /\ task.fn = "count" => failed = 0
  /\ failed = 0 => IF step = "flush" THEN Len(chain.out) = 1 ELSE chain.out = <<>>

ScanAnswers ==
  /\ step = "finish" /\ Measures =>
       /\ found.value \in Length(task)..Length(task) + MaxLate
       /\ failed = 0 => found.value = Length(task)
  /\ LengthsRight

(* Behind an access, or where the reset of a scan has left the TAP. *)
Harmless(c) ==
  \/ c.tap = "TestLogicReset"
  \/ c.tap = "Exit1DR" /\ c.ir = "DATA"
  \/ c.tap = "ShiftDR" /\ c.ir = "DATA" /\ ~c.cmd.write

Clocking == {"flush", "clock", "finish"}

MeasuresInstruction ==
  /\ todo = <<IrLength>>
  /\ step = "reset" => Harmless(chain)
  /\ step \in Clocking => chain.tap = "ShiftIR"

(* Behind the address register, the command is a read. *)
MeasuresData(o) ==
  /\ todo = From(o)
  /\ step = "reset" => chain.tap = "TestLogicReset"
  /\ step \in Clocking => /\ chain.tap = "ShiftDR" /\ chain.ir = Selected(Bits(6, o))
                          /\ Len(chain.dreg) = Width(chain.ir)
  /\ o > CODE_ADDR_COMM => ~chain.cmd.write

ConsoleScan ==
  failed = 0 /\ phase = "console" =>
    \/ step = "idle" /\ Harmless(chain)
    \/ step # "idle" /\ MeasuresInstruction
    \/ step # "idle" /\ \E o \in 0..63 : MeasuresData(o)

ScanInv == ScanHost /\ ScanRegister /\ ScanReplies /\ ScanAnswers /\ ConsoleScan

LEMMA TaskNow ==
  ASSUME ScanHost, step # "idle"
  PROVE  task \in Tasks /\ Tail(todo) \in Seq(Later)
BY DEF ScanHost, task

LEMMA AtMostOneLate == MaxLate \in 0..1 /\ MaxFailed \in Nat
BY BoundsAssumption

LEMMA TaskKept == UNCHANGED todo => UNCHANGED <<task, Measures>>
BY DEF task, Measures

LEMMA InstructionNow ==
  ASSUME MeasuresInstruction
  PROVE  task = IrLength /\ task.fn = "ir" /\ Length(task) = 6
BY DEF MeasuresInstruction, task, IrLength, Length

LEMMA DataNow ==
  ASSUME NEW o \in 0..63, MeasuresData(o)
  PROVE  task = DrLength(o) /\ task.fn = "dr" /\ task.opcode = o
<1>1. todo = From(o) /\ Head(From(o)) = DrLength(o)
  BY FromStep DEF MeasuresData
<1>2. task = DrLength(o)
  BY <1>1 DEF task
<1> QED BY <1>2 DEF DrLength

(* The host takes replies and leaves the rest of the chip as it is. *)
LEMMA KeptReplies ==
  ASSUME NEW c \in Chips, NEW d \in Kept(c)
  PROVE  /\ d \in Chips /\ d.tap = c.tap /\ d.ir = c.ir /\ d.ireg = c.ireg /\ d.dreg = c.dreg
         /\ SameBus(c, d) /\ Len(d.out) <= MaxLate
         /\ Len(c.out) = 1 => d.out = <<>>
<1>1. PICK n \in 1..Len(c.out) : d = [c EXCEPT !.out = SubSeq(c.out, n + 1, Len(c.out))]
  BY DEF Kept, Taken
<1>2. c.out \in Seq(Seq(Signals))
  BY DEF Chips
<1> DEFINE q == SubSeq(c.out, n + 1, Len(c.out))
<1>3. q \in Seq(Seq(Signals)) /\ (Len(c.out) = 1 => q = <<>>)
  <2> DEFINE S == Seq(Signals)
             r == c.out
  <2>1. r \in Seq(S) /\ n \in 1..Len(r)
    BY <1>2
  <2> HIDE DEF S, r
  <2>2. SubSeq(r, n + 1, Len(r)) \in Seq(S)
    BY <2>1
  <2>3. Len(r) = 1 => SubSeq(r, n + 1, Len(r)) = <<>>
    BY <2>1
  <2> QED BY <2>2, <2>3 DEF S, r
<1> HIDE DEF q
<1>4. d = [c EXCEPT !.out = q]
  BY <1>1 DEF q
<1>5. d \in Chips
  BY <1>3, <1>4, ChipFields
<1>6. /\ d.tap = c.tap /\ d.ir = c.ir /\ d.ireg = c.ireg /\ d.dreg = c.dreg
      /\ SameBus(c, d) /\ d.out = q
  BY <1>4 DEF Chips, SameBus
<1>7. Len(d.out) <= MaxLate
  BY DEF Kept
<1> QED BY <1>3, <1>5, <1>6, <1>7

-----------------------------------------------------------------------------
(* A scan function returns *)

LEMMA Answered ==
  ASSUME ScanHost, step # "idle", NEW n, NEW ok \in BOOLEAN, task.fn = "ir" => n \in 0..7,
         Answer(n, ok), failed' \in 0..MaxFailed
  PROVE  /\ ScanHost' /\ phase' # "open" /\ step' \in {"idle", "reset"}
         /\ found' = [of |-> task, value |-> n, ok |-> ok]
         /\ step' # "idle" => task'.fn # "count"
         /\ phase # "console" /\ phase' = "console" => step' = "idle"
         /\ phase = "console" => todo' = IF task.fn = "ir" THEN Opcodes(n) ELSE Tail(todo)
<1>1. Tail(todo) \in Seq(Later) /\ <<>> \in Seq(Later)
  BY TaskNow
<1>2. ASSUME task.fn = "ir" PROVE Opcodes(n) \in Seq(Later)
  BY <1>2, OpcodesAre
<1>3. todo' \in Seq(Later)
  BY <1>1, <1>2 DEF Answer
<1>4. /\ phase' \in {"startup", "console", "exit"}
      /\ phase # "console" /\ phase' = "console" => todo' = <<>>
  BY DEF Answer, ScanHost
<1>5. step' = IF todo' = <<>> THEN "idle" ELSE "reset"
  BY DEF Answer
<1>6. /\ todo' \in Seq(Tasks)
      /\ todo' # <<>> => Head(todo').fn # "count" /\ Tail(todo') \in Seq(Later)
  BY <1>3, LaterTasks
<1>7. ScanHost'
  BY <1>4, <1>5, <1>6 DEF ScanHost
<1>8. step' # "idle" => task'.fn # "count"
  BY <1>5, <1>6 DEF task
<1> QED BY <1>4, <1>5, <1>7, <1>8 DEF Answer

(* Between two scan functions the invariant asks little. *)
LEMMA BetweenScans ==
  ASSUME ScanHost', phase' # "open", step' \in {"idle", "reset"}, chain' \in Chips,
         failed' = 0 => chain'.out = <<>>, LengthsRight', ConsoleScan',
         step' # "idle" /\ task'.fn = "count" => failed' = 0
  PROVE  ScanInv'
<1>1. ScanRegister'
  BY DEF ScanRegister
<1>2. ScanReplies'
  BY DEF ScanReplies
<1>3. ScanAnswers'
  BY DEF ScanAnswers
<1> QED BY <1>1, <1>2, <1>3 DEF ScanInv

-----------------------------------------------------------------------------
(* What a step keeps, and what it does to the memory *)

HandsOver ==
  phase = "console" /\ step # "idle" /\ failed' = 0 => chain'.mem \in {chain.mem, Due}

LEMMA StayKeeps ==
  ASSUME ScanInv, UNCHANGED scanVars
  PROVE  ScanInv' /\ HandsOver
<1>1. UNCHANGED <<task, Measures>>
  BY TaskKept DEF scanVars
<1>2. ScanHost'
  BY DEF ScanInv, ScanHost, scanVars
<1>3. ScanRegister'
  BY <1>1 DEF ScanInv, ScanRegister, scanVars
<1>4. ScanReplies'
  BY <1>1 DEF ScanInv, ScanReplies, scanVars
<1>5. ScanAnswers'
  BY <1>1 DEF ScanInv, ScanAnswers, LengthsRight, scanVars
<1>6. ConsoleScan'
  BY DEF ScanInv, ConsoleScan, MeasuresInstruction, MeasuresData, scanVars
<1> QED BY <1>2, <1>3, <1>4, <1>5, <1>6 DEF ScanInv, HandsOver, scanVars

LEMMA ConfigureKeeps ==
  ASSUME ScanInv, ConfigureCores
  PROVE  ScanInv' /\ HandsOver
<1>1. phase = "open" /\ step = "idle" /\ phase' = "startup" /\ step' = "reset" /\ failed' = 0
  BY DEF ConfigureCores, ScanInv, ScanHost
<1>2. todo' \in Seq(Tasks) /\ todo' # <<>> /\ Tail(todo') \in Seq(Later)
  <2>1. Count \in Tasks
    BY DEF Tasks
  <2>2. /\ IdCode \in Later /\ IrLength \in Later
        /\ DrLength(CODE_DATA) \in Later /\ DrLength(CODE_ADDR_COMM) \in Later
    BY CodesAssumption DEF Tasks, Later, IdCode, IrLength, DrLength
  <2>3. Later \subseteq Tasks
    BY DEF Later
  <2> HIDE DEF Tasks, Later
  <2>4. todo' \in Seq(Tasks) /\ todo' # <<>>
    BY <2>1, <2>2, <2>3 DEF ConfigureCores, Startup
  <2> DEFINE a == Count
             b == IdCode
             c == IrLength
             d == DrLength(CODE_DATA)
             e == DrLength(CODE_ADDR_COMM)
  <2>5. todo' = <<a, b, c, d, e>>
    BY DEF ConfigureCores, Startup
  <2>6. b \in Later /\ c \in Later /\ d \in Later /\ e \in Later
    BY <2>2
  <2> HIDE DEF a, b, c, d, e
  <2>7. Tail(<<a, b, c, d, e>>) = <<b, c, d, e>>
    OBVIOUS
  <2> QED BY <2>4, <2>5, <2>6, <2>7
<1>3. PICK a \in Addr, w \in Words : chain' = Run(chain, WriteBatches(a, w))
  BY DEF ConfigureCores, Write
<1>4. chain' \in Chips /\ chain'.out = chain.out
  BY <1>3, WriteAccess DEF WriteBatches, ScanInv, ScanRegister
<1>5. ScanHost'
  BY <1>1, <1>2 DEF ConfigureCores, ScanInv, ScanHost
<1>6. failed' = 0 => chain'.out = <<>>
  BY <1>1, <1>4 DEF ConfigureCores, ScanInv, ScanReplies
<1>7. LengthsRight'
  BY DEF ConfigureCores, ScanInv, ScanAnswers, LengthsRight
<1>8. ConsoleScan'
  BY <1>1 DEF ConsoleScan
<1> QED BY <1>1, <1>4, <1>5, <1>6, <1>7, <1>8, BetweenScans DEF HandsOver

LEMMA UserWriteKeeps ==
  ASSUME ScanInv, UserWrite
  PROVE  ScanInv' /\ HandsOver
<1>1. phase = "console" /\ step = "idle" /\ UNCHANGED <<phase, todo, step, found, failed>>
  BY DEF UserWrite
<1>2. PICK a \in Addr, w \in Words : chain' = Run(chain, WriteBatches(a, w))
  BY DEF UserWrite, Write
<1>3. chain' \in Chips /\ chain'.out = chain.out /\ chain'.tap = "Exit1DR" /\ chain'.ir = "DATA"
  BY <1>2, WriteAccess DEF WriteBatches, ScanInv, ScanRegister
<1>4. ScanHost'
  BY <1>1 DEF ScanInv, ScanHost
<1>5. failed' = 0 => chain'.out = <<>>
  BY <1>1, <1>3 DEF ScanInv, ScanReplies
<1>6. LengthsRight'
  BY <1>1 DEF ScanInv, ScanAnswers, LengthsRight
<1>7. ConsoleScan'
  BY <1>1, <1>3 DEF ConsoleScan, Harmless
<1> QED BY <1>1, <1>3, <1>4, <1>5, <1>6, <1>7, BetweenScans DEF HandsOver

LEMMA UserReadKeeps ==
  ASSUME ScanInv, UserRead
  PROVE  ScanInv' /\ HandsOver
<1>1. phase = "console" /\ step = "idle" /\ UNCHANGED <<phase, todo, step, found, failed>>
  BY DEF UserRead
<1>2. PICK a \in Addr : chain' \in Kept(Run(chain, ReadBatches(a)))
  BY DEF UserRead
<1> DEFINE d == Run(chain, ReadBatches(a))
<1>3. /\ d \in Chips /\ d.tap = "ShiftDR" /\ d.ir = "DATA" /\ ~d.cmd.write
      /\ Len(d.out) = Len(chain.out) + 1
  BY ReadAccess DEF ReadBatches, ScanInv, ScanRegister
<1> HIDE DEF d
<1>4. chain' \in Kept(d)
  BY <1>2 DEF d
<1>5. /\ chain' \in Chips /\ chain'.tap = d.tap /\ chain'.ir = d.ir /\ SameBus(d, chain')
      /\ Len(d.out) = 1 => chain'.out = <<>>
  BY <1>3, <1>4, KeptReplies
<1>6. ScanHost'
  BY <1>1 DEF ScanInv, ScanHost
<1>7. failed' = 0 => chain'.out = <<>>
  BY <1>1, <1>3, <1>5 DEF ScanInv, ScanReplies
<1>8. LengthsRight'
  BY <1>1 DEF ScanInv, ScanAnswers, LengthsRight
<1>9. ConsoleScan'
  BY <1>1, <1>3, <1>5 DEF ConsoleScan, Harmless, SameBus
<1> QED BY <1>1, <1>5, <1>6, <1>7, <1>8, <1>9, BetweenScans DEF HandsOver

LEMMA UserScanKeeps ==
  ASSUME ScanInv, UserScan
  PROVE  ScanInv' /\ HandsOver
<1>1. /\ phase = "console" /\ step = "idle" /\ todo' = <<IrLength>> /\ step' = "reset"
      /\ UNCHANGED <<phase, found, chain, failed>>
  BY DEF UserScan
<1>2. /\ <<IrLength>> \in Seq(Tasks) /\ <<IrLength>> # <<>>
      /\ Head(<<IrLength>>) = IrLength /\ Tail(<<IrLength>>) \in Seq(Later)
  BY DEF Tasks
<1>3. ScanHost'
  BY <1>1, <1>2 DEF ScanInv, ScanHost
<1>4. chain' \in Chips /\ (failed' = 0 => chain'.out = <<>>)
  BY <1>1 DEF ScanInv, ScanRegister, ScanReplies
<1>5. LengthsRight'
  BY <1>1 DEF ScanInv, ScanAnswers, LengthsRight
<1>6. ConsoleScan'
  <2>1. failed = 0 => Harmless(chain)
    BY <1>1 DEF ScanInv, ConsoleScan
  <2> QED BY <1>1, <2>1 DEF ConsoleScan, MeasuresInstruction, Clocking
<1>7. task'.fn # "count"
  BY <1>1, <1>2 DEF task, IrLength
<1> QED BY <1>1, <1>3, <1>4, <1>5, <1>6, <1>7, BetweenScans DEF HandsOver

-----------------------------------------------------------------------------
(* The steps of a scan *)

(* A console scan, in either of its two parts. *)
LEMMA InConsole ==
  ASSUME ScanInv, phase = "console", step # "idle", failed = 0
  PROVE  MeasuresInstruction \/ \E o \in 0..63 : MeasuresData(o)
BY DEF ScanInv, ConsoleScan

LEMMA ResetKeeps ==
  ASSUME ScanInv, Reset
  PROVE  ScanInv' /\ HandsOver
<1> DEFINE d == Run(chain, ResetBatch)
<1>1. step = "reset" /\ step' = "setup" /\ UNCHANGED <<phase, todo, found, failed>> /\ chain' = d
  BY DEF Reset
<1>2. chain \in Chips
  BY DEF ScanInv, ScanRegister
<1>3. d \in Chips /\ d.tap = "TestLogicReset" /\ d.out = chain.out
  BY <1>2, ResetFromAnywhere
<1>4. /\ chain.tap \in {"TestLogicReset", "ShiftIR"} => SameBus(chain, d)
      /\ chain.tap = "Exit1DR" /\ chain.ir = "DATA" =>
           d.mem = IF chain.cmd.write /\ chain.cmd.addr \in Addr
                     THEN [chain.mem EXCEPT ![chain.cmd.addr] = ReadField("word", chain.dreg)]
                     ELSE chain.mem
      /\ chain.tap = "ShiftDR" /\ chain.ir = "DATA" /\ ~chain.cmd.write =>
           d.mem = chain.mem /\ ~d.cmd.write
  BY <1>2, ScanResets
<1> HIDE DEF d
<1>5. ScanHost'
  BY <1>1 DEF ScanInv, ScanHost
<1>6. ScanRegister'
  BY <1>1, <1>3 DEF ScanRegister
<1>7. ScanReplies'
  <2>1. UNCHANGED task
    BY <1>1, TaskKept
  <2> QED BY <1>1, <1>3, <2>1 DEF ScanInv, ScanReplies
<1>8. ScanAnswers'
  BY <1>1 DEF ScanInv, ScanAnswers, LengthsRight
<1>9. ConsoleScan'
  <2> SUFFICES ASSUME failed = 0, phase = "console"
               PROVE  MeasuresInstruction' \/ \E o \in 0..63 : MeasuresData(o)'
    BY <1>1 DEF ConsoleScan
  <2>1. ASSUME MeasuresInstruction PROVE MeasuresInstruction'
    BY <1>1, <2>1 DEF MeasuresInstruction, Clocking
  <2>2. ASSUME NEW o \in 0..63, MeasuresData(o) PROVE MeasuresData(o)'
    <3>1. d.cmd = chain.cmd
      BY <1>1, <1>4, <2>2 DEF MeasuresData, SameBus
    <3> QED BY <1>1, <2>2, <3>1 DEF MeasuresData, Clocking
  <2> QED BY <1>1, <2>1, <2>2, InConsole
<1>10. HandsOver
  <2> SUFFICES ASSUME failed = 0, phase = "console"
               PROVE  d.mem \in {chain.mem, Due}
    BY <1>1 DEF HandsOver
  <2>1. ASSUME MeasuresInstruction PROVE d.mem \in {chain.mem, Due}
    <3>1. Harmless(chain)
      BY <1>1, <2>1 DEF MeasuresInstruction
    <3>2. CASE chain.tap = "TestLogicReset"
      BY <1>4, <3>2 DEF SameBus
    <3>3. CASE chain.tap = "Exit1DR" /\ chain.ir = "DATA"
      <4>1. CASE chain.cmd.write /\ chain.cmd.addr \in Addr
        BY <1>4, <3>3, <4>1 DEF Due
      <4>2. CASE ~(chain.cmd.write /\ chain.cmd.addr \in Addr)
        BY <1>4, <3>3, <4>2
      <4> QED BY <4>1, <4>2
    <3>4. CASE chain.tap = "ShiftDR" /\ chain.ir = "DATA" /\ ~chain.cmd.write
      BY <1>4, <3>4
    <3> QED BY <3>1, <3>2, <3>3, <3>4 DEF Harmless
  <2>2. ASSUME NEW o \in 0..63, MeasuresData(o) PROVE d.mem \in {chain.mem, Due}
    BY <1>1, <1>4, <2>2 DEF MeasuresData, SameBus
  <2> QED BY <1>1, <2>1, <2>2, InConsole
<1> QED BY <1>5, <1>6, <1>7, <1>8, <1>9, <1>10 DEF ScanInv

(* What the setup of each function leaves in the chain. *)
Prepared(t, c, d) ==
  /\ d \in Chips /\ Len(d.out) = Len(c.out) + 1
  /\ t.fn # "idcode" => Filled(d, Length(t)) /\ SameBus(c, d)
  /\ t.fn = "ir" => d.tap = "ShiftIR"
  /\ t.fn = "dr" => /\ d.tap = "ShiftDR" /\ d.ir = Selected(Bits(6, t.opcode % 64))
                    /\ Len(d.dreg) = Width(d.ir)

LEMMA SetupPrepares ==
  ASSUME task \in Tasks, chain \in Chips, chain.tap = "TestLogicReset"
  PROVE  SetupBatch \in Seq(Commands) /\ Prepared(task, chain, Run(chain, SetupBatch))
<1> DEFINE d == Run(chain, SetupBatch)
<1>1. ASSUME task.fn = "count" PROVE SetupBatch \in Seq(Commands) /\ Prepared(task, chain, d)
  <2>1. SetupBatch = <<ToShiftIR, Tdi(Bits(7, 127)), Tms(1, 131), ToShiftDR>>
                       \o [k \in 1..10 |-> Tdi(Zeros(8))] \o <<Tdo(Zeros(8))>>
    BY <1>1 DEF SetupBatch, Times
  <2>2. CODE_ADDR_COMM # 63 /\ CODE_DATA # 63
    BY CodesAssumption, OpcodesAssumption
  <2>3. FilledFrom(chain, d, 1)
    BY <2>1, <2>2, FillsBypass
  <2>4. SetupBatch \in Seq(Commands)
    BY <2>1, FillTypes
  <2>5. Length(task) = 1
    BY <1>1 DEF Length
  <2> HIDE DEF d
  <2> QED BY <1>1, <2>3, <2>4, <2>5 DEF Prepared, FilledFrom
<1>2. ASSUME task.fn = "idcode" PROVE SetupBatch \in Seq(Commands) /\ Prepared(task, chain, d)
  <2>1. SetupBatch = <<Tms(5, 5), Tdo(Zeros(32))>>
    BY <1>2 DEF SetupBatch
  <2>2. d \in Chips /\ Len(d.out) = Len(chain.out) + 1
    BY <2>1, FillsIdCode
  <2>3. SetupBatch \in Seq(Commands)
    BY <2>1, FillTypes
  <2> HIDE DEF d
  <2> QED BY <1>2, <2>2, <2>3 DEF Prepared
<1>3. ASSUME task.fn = "ir" PROVE SetupBatch \in Seq(Commands) /\ Prepared(task, chain, d)
  <2>1. SetupBatch = <<ToShiftIR, Tdi(Zeros(8)), Tdo(Zeros(8))>>
    BY <1>3 DEF SetupBatch
  <2>2. FilledFrom(chain, d, 6) /\ d.tap = "ShiftIR"
    BY <2>1, FillsInstruction
  <2>3. SetupBatch \in Seq(Commands)
    BY <2>1, FillTypes
  <2>4. Length(task) = 6
    BY <1>3 DEF Length
  <2> HIDE DEF d
  <2> QED BY <1>3, <2>2, <2>3, <2>4 DEF Prepared, FilledFrom
<1>4. ASSUME task.fn = "dr" PROVE SetupBatch \in Seq(Commands) /\ Prepared(task, chain, d)
  <2> DEFINE o == task.opcode
             r == o % 64
  <2>1. o \in 0..127 /\ task = DrLength(o)
    BY <1>4, TaskCases DEF Count, IdCode, IrLength
  <2>2. r \in 0..63 /\ Opcode(o) = Opcode(r)
    BY <2>1, OpcodeCut
  <2>3. SetupBatch = <<ToShiftIR>> \o Opcode(o) \o <<ToShiftDR>> \o <<Tdi(Zeros(80)), Tdo(Zeros(8))>>
    BY <1>4 DEF SetupBatch, FillDR
  <2>4. SetupBatch \in Seq(Commands)
    BY <2>1, <2>3, FillTypes
  <2>5. Length(task) = Width(Selected(Bits(6, r)))
    BY <2>1, WidthOf
  <2> HIDE DEF r, o
  <2>6. /\ FilledFrom(chain, d, Width(d.ir)) /\ d.tap = "ShiftDR"
        /\ d.ir = Selected(Bits(6, r))
    <3> DEFINE e == Run(chain, <<ToShiftIR>> \o Opcode(r) \o <<ToShiftDR>>
                                 \o <<Tdi(Zeros(80)), Tdo(Zeros(8))>>)
    <3>1. FilledFrom(chain, e, Width(e.ir)) /\ e.tap = "ShiftDR" /\ e.ir = Selected(Bits(6, r))
      BY <2>2, FillsRegister
    <3>2. d = e
      BY <2>2, <2>3
    <3> HIDE DEF d, e
    <3> QED BY <3>1, <3>2
  <2> HIDE DEF d
  <2>7. Width(d.ir) \in Nat \ {0}
    BY DEF Width
  <2>8. Len(d.dreg) = Width(d.ir)
    BY <2>6, <2>7, ZeroRegister DEF FilledFrom, Filled
  <2> QED BY <1>4, <2>4, <2>5, <2>6, <2>8 DEF Prepared, FilledFrom, r, o
<1>5. task.fn \in {"count", "idcode", "ir", "dr"}
  BY TaskCases
<1> QED BY <1>1, <1>2, <1>3, <1>4, <1>5

LEMMA SetupKeeps ==
  ASSUME ScanInv, Setup
  PROVE  ScanInv' /\ HandsOver
<1> DEFINE d == Run(chain, SetupBatch)
<1>1. step = "setup" /\ step' = "flush" /\ UNCHANGED <<phase, todo, found, failed>> /\ chain' = d
  BY DEF Setup
<1>2. chain \in Chips /\ chain.tap = "TestLogicReset"
  BY <1>1 DEF ScanInv, ScanRegister
<1>3. task \in Tasks
  BY <1>1, TaskNow DEF ScanInv
<1>4. Prepared(task, chain, d)
  BY <1>2, <1>3, SetupPrepares
<1>5. UNCHANGED <<task, Measures>>
  BY <1>1, TaskKept
<1> HIDE DEF d
<1>6. ScanHost'
  BY <1>1 DEF ScanInv, ScanHost
<1>7. ScanRegister'
  <2>1. phase' # "open"
    BY <1>1, <1>6 DEF ScanHost
  <2> QED BY <1>1, <1>4, <1>5, <2>1 DEF ScanRegister, Prepared, Measures
<1>8. ScanReplies'
  <2>1. failed = 0 => Len(chain.out) = 0
    BY <1>1 DEF ScanInv, ScanReplies
  <2> QED BY <1>1, <1>4, <2>1 DEF ScanReplies, Prepared
<1>9. ScanAnswers'
  BY <1>1 DEF ScanInv, ScanAnswers, LengthsRight
<1>10. ASSUME MeasuresInstruction PROVE MeasuresInstruction' /\ d.mem = chain.mem
  BY <1>1, <1>4, <1>10, InstructionNow DEF MeasuresInstruction, Prepared, SameBus
<1>11. ASSUME NEW o \in 0..63, MeasuresData(o) PROVE MeasuresData(o)' /\ d.mem = chain.mem
  <2>1. task.fn = "dr" /\ task.opcode % 64 = o
    BY <1>11, DataNow
  <2> QED BY <1>1, <1>4, <1>11, <2>1 DEF MeasuresData, Prepared, SameBus
<1>12. ConsoleScan' /\ HandsOver
  BY <1>1, <1>10, <1>11, InConsole DEF ConsoleScan, HandsOver
<1> QED BY <1>6, <1>7, <1>8, <1>9, <1>12 DEF ScanInv

(* A batch that asks for nothing adds no reply. *)
LEMMA RunSilent ==
  ASSUME NEW c \in Chips, NEW batch \in Seq(Commands),
         \A k \in 1..Len(batch) : batch[k].do # "tdo"
  PROVE  Run(c, batch).out = c.out
<1> DEFINE n == Len(batch)
<1>1. n \in Nat /\ \A k \in 1..n : batch[k] \in Commands
  OBVIOUS
<1>2. PICK f : Chain(f, c, batch, n) /\ Run(c, batch) = f[n]
  BY CommandByCommand
<1> DEFINE S == {k \in 0..n : f[k] \in Chips /\ f[k].out = c.out}
<1>3. 0 \in S
  BY <1>2 DEF Chain
<1>4. ASSUME NEW k \in 1..n, k - 1 \in S PROVE k \in S
  <2>1. /\ f[k - 1] \in Chips /\ f[k - 1].out = c.out
        /\ f[k] = Do(f[k - 1], batch[k]) /\ batch[k] \in Commands /\ batch[k].do # "tdo"
    BY <1>1, <1>2, <1>4 DEF Chain
  <2>2. f[k] \in Chips
    BY <2>1, DoType
  <2>3. f[k].out = c.out
    BY <2>1, DoReplies
  <2> QED BY <2>2, <2>3
<1>5. 0..n \subseteq S
  <2> HIDE DEF S
  <2> QED BY <1>1, <1>3, <1>4, AllNumbers
<1> QED BY <1>2, <1>5

LEMMA TwoJoined ==
  ASSUME NEW S, NEW s \in Seq(S), NEW t \in Seq(S)
  PROVE  /\ s \o t \in Seq(S) /\ Len(s \o t) = Len(s) + Len(t)
         /\ \A k \in 1..Len(s) : (s \o t)[k] = s[k]
         /\ \A k \in 1..Len(t) : (s \o t)[Len(s) + k] = t[k]
OBVIOUS

LEMMA FirstOf ==
  ASSUME NEW S, NEW s \in Seq(S), NEW n \in 0..Len(s)
  PROVE  /\ SubSeq(s, 1, n) \in Seq(S) /\ Len(SubSeq(s, 1, n)) = n
         /\ \A k \in 1..n : SubSeq(s, 1, n)[k] = s[k]
<1>1. SubSeq(s, 1, n) = [k \in 1..n |-> s[k]]
  OBVIOUS
<1>2. \A k \in 1..n : s[k] \in S
  OBVIOUS
<1> QED BY <1>1, <1>2

(* Only the last command of the count's setup asks for a reply. *)
LEMMA CutIsSilent ==
  ASSUME task \in Tasks, task.fn = "count", chain \in Chips, chain.tap = "TestLogicReset",
         NEW n \in 0..Len(SetupBatch) - 1
  PROVE  LET d == Run(chain, SubSeq(SetupBatch, 1, n)) IN d \in Chips /\ d.out = chain.out
<1> DEFINE s == SetupBatch
           H == <<ToShiftIR, Tdi(Bits(7, 127)), Tms(1, 131), ToShiftDR>>
           x == Tdi(Zeros(8))
           y == Tdo(Zeros(8))
           b == SubSeq(s, 1, n)
<1>1. s = H \o [k \in 1..10 |-> x] \o <<y>>
  BY DEF SetupBatch, Times
<1>2. s \in Seq(Commands)
  BY SetupPrepares
<1>3. x.do # "tdo" /\ \A k \in 1..4 : H[k].do # "tdo"
  BY DEF Tdi, Tms, ToShiftIR, ToShiftDR
<1>4. Len(H) = 4
  OBVIOUS
<1> DEFINE C == Commands
<1> HIDE DEF s, H, x, y, C
<1>5. Len(s) = 15 /\ \A k \in 1..14 : s[k].do # "tdo"
  <2>1. ASSUME NEW G, G = [k \in 1..10 |-> x]
        PROVE  Len(G) = 10 /\ \A k \in 1..10 : G[k] = x
    BY <2>1
  <2>2. PICK G : G = [k \in 1..10 |-> x]
    OBVIOUS
  <2>3. H \in Seq(C) /\ G \in Seq(C) /\ y \in C
    <3>1. ToShiftIR \in Commands /\ ToShiftDR \in Commands /\ Tms(1, 131) \in Commands
      BY CommandTypes DEF ToShiftIR, ToShiftDR
    <3>2. 7 \in 0..8 /\ 127 \in Int
      OBVIOUS
    <3>3. Bits(7, 127) \in Seq(Signals)
      BY <3>2, BitsAre
    <3>4. Tdi(Bits(7, 127)) \in Commands /\ x \in C /\ y \in C
      BY <3>3, ZerosAre, CommandTypes DEF x, y, C
    <3>5. H \in Seq(Commands)
      BY <3>1, <3>4, TuplesOfCommands DEF H
    <3> QED BY <2>2, <3>4, <3>5 DEF C
  <2>4. s = H \o G \o <<y>> /\ Len(G) = 10 /\ \A k \in 1..10 : G[k] = x
    BY <1>1, <2>1, <2>2
  <2> DEFINE u == H \o G
             v == <<y>>
  <2>5. v \in Seq(C) /\ Len(v) = 1
    BY <2>3
  <2>6. /\ u \in Seq(C) /\ Len(u) = 14 /\ \A k \in 1..4 : u[k] = H[k]
        /\ \A k \in 1..10 : u[4 + k] = x
    <3>1. /\ u \in Seq(C) /\ Len(u) = Len(H) + Len(G)
          /\ \A k \in 1..Len(H) : u[k] = H[k]
          /\ \A k \in 1..Len(G) : u[Len(H) + k] = G[k]
      BY <2>3, TwoJoined
    <3> HIDE DEF u
    <3> QED BY <1>4, <2>4, <3>1
  <2>7. s = u \o v
    BY <2>4
  <2> HIDE DEF u, v
  <2>8. Len(s) = 15 /\ \A k \in 1..14 : s[k] = u[k]
    <3>1. u \in Seq(C) /\ v \in Seq(C)
      BY <2>5, <2>6
    <3>2. Len(u \o v) = Len(u) + Len(v) /\ \A k \in 1..Len(u) : (u \o v)[k] = u[k]
      BY <3>1, TwoJoined
    <3>3. Len(u) = 14 /\ Len(v) = 1
      BY <2>5, <2>6
    <3> DEFINE z == u \o v
    <3>4. Len(z) = 15 /\ \A k \in 1..14 : z[k] = u[k]
      <4>1. Len(z) = Len(u) + Len(v) /\ \A k \in 1..Len(u) : z[k] = u[k]
        BY <3>2
      <4> HIDE DEF z
      <4> QED BY <3>3, <4>1
    <3> QED BY <2>7, <3>4
  <2>9. ASSUME NEW k \in 1..14 PROVE s[k].do # "tdo"
    <3>1. CASE k \in 1..4
      BY <1>3, <2>6, <2>8, <3>1
    <3>2. CASE k \in 5..14
      <4>1. k - 4 \in 1..10 /\ 4 + (k - 4) = k
        BY <3>2
      <4>2. u[k] = x
        BY <2>6, <4>1
      <4> QED BY <1>3, <2>8, <4>2
    <3> QED BY <3>1, <3>2
  <2> QED BY <2>8, <2>9
<1>6. /\ s \in Seq(C) /\ n \in 0..14
  BY <1>2, <1>5 DEF s, C
<1>7. b \in Seq(C) /\ Len(b) = n /\ \A k \in 1..n : b[k] = s[k]
  <2>1. n \in 0..Len(s)
    BY <1>5, <1>6
  <2> QED BY <1>6, <2>1, FirstOf
<1>8. \A k \in 1..Len(b) : b[k].do # "tdo"
  BY <1>5, <1>6, <1>7
<1> HIDE DEF b
<1>9. Run(chain, b) \in Chips /\ Run(chain, b).out = chain.out
  BY <1>7, <1>8, RunType, RunSilent DEF C
<1> QED BY <1>9 DEF b, s

LEMMA SetupCutKeeps ==
  ASSUME ScanInv, SetupCut
  PROVE  ScanInv' /\ HandsOver
<1>1. /\ step = "setup" /\ task.fn = "count" /\ step' = "flush"
      /\ failed < MaxFailed /\ failed' = failed + 1 /\ UNCHANGED <<phase, todo, found>>
  BY DEF SetupCut
<1>2. chain \in Chips /\ chain.tap = "TestLogicReset" /\ task \in Tasks /\ ScanHost
  BY <1>1, TaskNow DEF ScanInv, ScanRegister
<1>3. chain.out = <<>>
  BY <1>1 DEF ScanInv, ScanReplies
<1>4. PICK n \in 0..Len(SetupBatch) - 1 : chain' = Run(chain, SubSeq(SetupBatch, 1, n))
  BY DEF SetupCut
<1>5. chain' \in Chips /\ chain'.out = <<>>
  BY <1>1, <1>2, <1>3, <1>4, CutIsSilent
<1>6. failed' \in 0..MaxFailed /\ failed' # 0
  BY <1>1, <1>2, AtMostOneLate DEF ScanHost
<1>7. ScanHost'
  BY <1>1, <1>2, <1>6 DEF ScanHost
<1>8. ScanRegister'
  BY <1>1, <1>5, <1>7 DEF ScanHost, ScanRegister
<1>9. ScanReplies'
  BY <1>1, <1>6 DEF ScanReplies
<1>10. LengthsRight'
  BY <1>1, <1>6 DEF ScanInv, ScanAnswers, LengthsRight
<1>11. ScanAnswers'
  BY <1>1, <1>10 DEF ScanAnswers
<1> QED BY <1>6, <1>7, <1>8, <1>9, <1>11 DEF ScanInv, ConsoleScan, HandsOver

LEMMA FlushKeeps ==
  ASSUME ScanInv, Flush
  PROVE  ScanInv' /\ HandsOver
<1>1. step = "flush" /\ chain.out # <<>> /\ chain' \in Kept(chain) /\ UNCHANGED failed
  BY DEF Flush
<1>2. chain \in Chips /\ task \in Tasks
  BY <1>1, TaskNow DEF ScanInv, ScanRegister
<1>3. /\ chain' \in Chips /\ chain'.tap = chain.tap /\ chain'.ir = chain.ir
      /\ chain'.ireg = chain.ireg /\ chain'.dreg = chain.dreg
      /\ SameBus(chain, chain') /\ Len(chain'.out) <= MaxLate
      /\ Len(chain.out) = 1 => chain'.out = <<>>
  BY <1>1, <1>2, KeptReplies
<1>4. failed = 0 => Len(chain.out) = 1
  BY <1>1 DEF ScanInv, ScanReplies
<1>5. HandsOver
  BY <1>3 DEF HandsOver, SameBus
<1>6. CASE task.fn # "idcode" /\ step' = "clock" /\ UNCHANGED <<phase, todo, found>>
  <2>1. UNCHANGED <<task, Measures>>
    BY <1>6, TaskKept
  <2>2. ScanHost'
    BY <1>1, <1>6 DEF ScanInv, ScanHost
  <2>3. ScanRegister'
    <3>1. phase' # "open" /\ Filled(chain, Length(task))
      BY <1>1, <1>6, <2>2 DEF ScanHost, ScanInv, ScanRegister, Measures
    <3>2. Filled(chain', Length(task))
      BY <1>3, <3>1 DEF Filled
    <3> QED BY <1>3, <1>6, <2>1, <3>1, <3>2 DEF ScanRegister, Measures
  <2>4. ScanReplies'
    BY <1>1, <1>3, <1>4, <1>6 DEF ScanReplies
  <2>5. ScanAnswers'
    BY <1>1, <1>6 DEF ScanInv, ScanAnswers, LengthsRight
  <2>6. ConsoleScan'
    BY <1>1, <1>3, <1>6, InConsole
       DEF ConsoleScan, MeasuresInstruction, MeasuresData, Clocking, SameBus
  <2> QED BY <1>5, <2>2, <2>3, <2>4, <2>5, <2>6 DEF ScanInv
<1>7. CASE task.fn = "idcode" /\ step' = "finish" /\ UNCHANGED <<phase, todo, found>>
  <2>1. UNCHANGED <<task, Measures>>
    BY <1>7, TaskKept
  <2>2. ScanHost'
    BY <1>1, <1>7 DEF ScanInv, ScanHost
  <2>3. ScanRegister'
    BY <1>1, <1>3, <1>7, <2>2 DEF ScanHost, ScanRegister
  <2>4. ScanReplies'
    BY <1>1, <1>3, <1>4, <1>7 DEF ScanReplies
  <2>5. ScanAnswers'
    BY <1>1, <1>7, <2>1 DEF ScanInv, ScanAnswers, LengthsRight, Measures
  <2>6. ConsoleScan'
    BY <1>1, <1>7, InConsole, InstructionNow, DataNow DEF ConsoleScan
  <2> QED BY <1>5, <2>2, <2>3, <2>4, <2>5, <2>6 DEF ScanInv
<1>8. CASE task.fn = "idcode" /\ Len(chain.out) > 1 /\ Answer(0, FALSE)
  <2>1. /\ ScanHost' /\ phase' # "open" /\ step' \in {"idle", "reset"}
        /\ found' = [of |-> task, value |-> 0, ok |-> FALSE]
        /\ step' # "idle" => task'.fn # "count"
    <3>1. step # "idle" /\ failed' \in 0..MaxFailed /\ ScanHost
      BY <1>1 DEF ScanInv, ScanHost
    <3> QED BY <1>8, <3>1, Answered
  <2>2. failed # 0
    <3>1. ~(1 > 1)
      OBVIOUS
    <3>2. Len(chain.out) # 1
      BY <1>8, <3>1
    <3> QED BY <1>4, <3>2
  <2>3. LengthsRight' /\ ConsoleScan'
    BY <1>1, <2>1, <2>2 DEF LengthsRight, ConsoleScan
  <2> QED BY <1>1, <1>3, <1>5, <2>1, <2>2, <2>3, BetweenScans
<1> QED BY <1>6, <1>7, <1>8 DEF Flush

(* The ones measure the register they are shifted into. *)
LEMMA MeasuredRight ==
  ASSUME chain \in Chips, task \in Tasks, Measures, Filled(chain, Length(task))
  PROVE  Measured = Length(task)
<1> DEFINE n == Length(task)
           c == [chain EXCEPT !.out = <<>>]
           hits(x) == {k \in 1..100 : x[k] # Bit(0)}
           ones == <<Ones(100)>>
<1>1. n \in 1..99
  <2>1. n \in 1..35
    BY LengthRange DEF Measures
  <2> QED BY <2>1
<1>2. c \in Chips /\ c.out = <<>> /\ Filled(c, n)
  <2>1. <<>> \in Seq(Seq(Signals))
    OBVIOUS
  <2>2. c \in Chips
    BY <2>1, ChipFields
  <2>3. c.out = <<>> /\ c.tap = chain.tap /\ c.ireg = chain.ireg /\ c.dreg = chain.dreg
    BY DEF Chips
  <2> HIDE DEF c, n
  <2>4. Filled(c, n)
    BY <2>3 DEF Filled, n
  <2> QED BY <2>2, <2>3, <2>4
<1> HIDE DEF c, n
<1>3. PICK x : Run(c, <<Tdo([k \in 1..100 |-> Bit(1)])>>).out = Append(c.out, x) /\ Pushed(n, x)
  BY <1>1, <1>2, OnesPush
<1>4. Run(c, ones).out[1] = x
  <2>1. ones = <<Tdo([k \in 1..100 |-> Bit(1)])>>
    BY DEF Ones, Times
  <2>2. Append(<<>>, x)[1] = x
    OBVIOUS
  <2> HIDE DEF ones
  <2> QED BY <1>2, <1>3, <2>1, <2>2
<1> DEFINE none == hits(x) = {}
           first == CHOOSE k \in hits(x) : \A j \in hits(x) : k <= j
<1>5. ~none /\ first = n + 1
  BY <1>1, <1>3, FirstOne
<1>6. Measured = LET h == hits(Run(c, ones).out[1])
                 IN  IF h = {} THEN 100 ELSE (CHOOSE k \in h : \A j \in h : k <= j) - 1
  BY DEF Measured, c
<1> HIDE DEF ones
<1>7. Measured = IF none THEN 100 ELSE first - 1
  BY <1>4, <1>6
<1> HIDE DEF none, first
<1>8. Measured = n
  BY <1>1, <1>5, <1>7
<1> QED BY <1>8 DEF n

LEMMA OnesAre == \A n \in Nat : Times(n, Bit(1)) \in Seq(Signals) /\ <<Ones(n)>> \in Seq(Commands)
<1> SUFFICES ASSUME NEW n \in Nat
             PROVE  Times(n, Bit(1)) \in Seq(Signals) /\ <<Ones(n)>> \in Seq(Commands)
  OBVIOUS
<1> DEFINE x == Times(n, Bit(1))
<1>1. x \in Seq(Signals)
  <2> DEFINE b == Bit(1)
  <2>1. b \in Signals /\ x = [k \in 1..n |-> b]
    BY Lows DEF Times
  <2> HIDE DEF b, x
  <2> QED BY <2>1
<1> HIDE DEF x
<1>2. Tdo(x) \in Commands
  BY <1>1, CommandTypes
<1>3. <<Tdo(x)>> \in Seq(Commands)
  BY <1>2, TuplesOfCommands
<1> QED BY <1>1, <1>3 DEF Ones, x

LEMMA ClockKeepsScan ==
  ASSUME ScanInv, ClockOnes
  PROVE  ScanInv' /\ HandsOver
<1>1. step = "clock" /\ step' = "finish" /\ UNCHANGED <<phase, todo, failed>>
  BY DEF ClockOnes
<1>2. chain \in Chips /\ task \in Tasks /\ Measures /\ Filled(chain, Length(task))
      /\ Len(chain.out) <= MaxLate /\ (failed = 0 => chain.out = <<>>)
  BY <1>1, TaskNow DEF ScanInv, ScanRegister, ScanReplies
<1> DEFINE L == Length(task)
<1>3. Measured = L /\ L \in 1..35
  BY <1>2, MeasuredRight, LengthRange DEF Measures
<1>4. PICK d \in 0..Len(chain.out) : \E late \in 0..d :
             LET n == Measured + d
                 c == Run(chain, <<Ones(IF n < 100 THEN n + 1 ELSE 100)>>)
             IN  /\ chain' = [c EXCEPT !.out = [k \in 1..late |-> <<Bit(1)>>]]
                 /\ found' = [of |-> task, value |-> IF n < 100 THEN n ELSE 0, ok |-> FALSE]
  BY DEF ClockOnes
<1>5. PICK late \in 0..d :
             LET n == Measured + d
                 c == Run(chain, <<Ones(IF n < 100 THEN n + 1 ELSE 100)>>)
             IN  /\ chain' = [c EXCEPT !.out = [k \in 1..late |-> <<Bit(1)>>]]
                 /\ found' = [of |-> task, value |-> IF n < 100 THEN n ELSE 0, ok |-> FALSE]
  BY <1>4
<1> HIDE DEF L
<1>6. Len(chain.out) \in Nat
  BY <1>2 DEF Chips
<1>7. d \in 0..MaxLate /\ late \in 0..MaxLate /\ (failed = 0 => d = 0 /\ late = 0)
  <2>1. failed = 0 => Len(chain.out) = 0
    BY <1>2
  <2> QED BY <1>2, <1>6, <2>1, AtMostOneLate
<1> DEFINE n == L + d
           x == Times(n + 1, Bit(1))
           c == Do(chain, Tdo(x))
           q == [k \in 1..late |-> <<Bit(1)>>]
<1>8. n \in 1..36 /\ n \in L..L + MaxLate /\ (failed = 0 => n = L) /\ n < 100
  BY <1>3, <1>7, AtMostOneLate
<1>9. Run(chain, <<Ones(n + 1)>>) = c
  BY RunOne DEF Ones
<1>10. x \in Seq(Signals)
  <2> HIDE DEF n
  <2>1. n + 1 \in Nat
    BY <1>8
  <2> QED BY <2>1, OnesAre
<1>11. chain' = [c EXCEPT !.out = q] /\ found' = [of |-> task, value |-> n, ok |-> FALSE]
  <2>1. Measured + d = n
    BY <1>3
  <2> HIDE DEF n
  <2> QED BY <1>5, <1>8, <1>9, <2>1
<1> HIDE DEF x, n
<1>12. Shifting(chain, c)
  <2>1. chain.tap \in {"ShiftDR", "ShiftIR"}
    BY <1>2 DEF Filled
  <2> QED BY <1>2, <1>10, <2>1, AsksWhileShifting
<1>13. q \in Seq(Seq(Signals)) /\ Len(q) = late /\ (late = 0 => q = <<>>)
  <2> DEFINE y == <<Bit(1)>>
  <2>1. y \in Seq(Signals)
    BY Lows
  <2>2. q = [k \in 1..late |-> y] /\ late \in Nat
    BY <1>7, AtMostOneLate
  <2> HIDE DEF y, q
  <2>3. q \in Seq(Seq(Signals)) /\ Len(q) = late
    BY <2>1, <2>2
  <2> QED BY <2>3
<1> HIDE DEF q, c
<1>14. /\ chain' \in Chips /\ chain'.tap = chain.tap /\ chain'.ir = chain.ir /\ SameBus(chain, chain')
       /\ Len(chain'.dreg) = Len(chain.dreg) /\ chain'.out = q
  <2>1. c \in Chips
    BY <1>12 DEF Shifting
  <2>2. chain' \in Chips
    BY <1>11, <1>13, <2>1, ChipFields
  <2>3. /\ chain'.tap = c.tap /\ chain'.ir = c.ir /\ SameBus(c, chain')
        /\ chain'.dreg = c.dreg /\ chain'.out = q
    BY <1>11, <2>1 DEF Chips, SameBus
  <2> QED BY <1>12, <2>2, <2>3 DEF Shifting, SameBus
<1>15. UNCHANGED <<task, Measures>>
  BY <1>1, TaskKept
<1>16. ScanHost'
  BY <1>1 DEF ScanInv, ScanHost
<1>17. ScanRegister'
  BY <1>1, <1>14, <1>16 DEF ScanHost, ScanRegister
<1>18. ScanReplies'
  <2>1. Len(chain'.out) <= MaxLate
    BY <1>7, <1>13, <1>14, AtMostOneLate
  <2>2. failed = 0 => chain'.out = <<>>
    BY <1>7, <1>13, <1>14
  <2> QED BY <1>1, <2>1, <2>2 DEF ScanReplies
<1>19. ScanAnswers'
  <2>1. found'.value = n /\ ~found'.ok
    BY <1>11
  <2>2. LengthsRight'
    BY <2>1 DEF LengthsRight
  <2> QED BY <1>1, <1>8, <1>15, <2>1, <2>2 DEF ScanAnswers, L
<1>20. ASSUME MeasuresInstruction PROVE MeasuresInstruction'
  BY <1>1, <1>14, <1>20 DEF MeasuresInstruction, Clocking
<1>21. ASSUME NEW o \in 0..63, MeasuresData(o) PROVE MeasuresData(o)'
  BY <1>1, <1>14, <1>21 DEF MeasuresData, Clocking, SameBus
<1>22. ConsoleScan' /\ HandsOver
  BY <1>1, <1>14, <1>20, <1>21, InConsole DEF ConsoleScan, HandsOver, SameBus
<1> QED BY <1>16, <1>17, <1>18, <1>19, <1>22 DEF ScanInv

LEMMA FinishKeeps ==
  ASSUME ScanInv, Finish
  PROVE  ScanInv' /\ HandsOver
<1> DEFINE d == Run(chain, ResetBatch)
           n == IF task.fn = "idcode" THEN 0 ELSE found.value
<1>1. step = "finish" /\ chain' = d /\ UNCHANGED failed /\ Answer(n, TRUE)
  BY DEF Finish
<1>2. chain \in Chips /\ task \in Tasks /\ ScanHost /\ (failed = 0 => chain.out = <<>>)
  BY <1>1, TaskNow DEF ScanInv, ScanRegister, ScanReplies
<1>3. d \in Chips /\ d.tap = "TestLogicReset" /\ d.out = chain.out
  BY <1>2, ResetFromAnywhere
<1>4. /\ chain.tap \in {"TestLogicReset", "ShiftIR"} => SameBus(chain, d)
      /\ chain.tap = "ShiftDR" /\ chain.ir = "ADDR" /\ Len(chain.dreg) = 35 =>
           d.mem = chain.mem /\ ~d.cmd.write
      /\ chain.tap = "ShiftDR" /\ chain.ir = "DATA" /\ ~chain.cmd.write =>
           d.mem = chain.mem /\ ~d.cmd.write
      /\ chain.tap = "ShiftDR" /\ chain.ir \notin {"ADDR", "DATA"} => SameBus(chain, d)
  BY <1>2, ScanResets
<1> HIDE DEF d
<1>5. task.fn # "idcode" => /\ n = found.value /\ n \in Length(task)..Length(task) + MaxLate
                            /\ failed = 0 => n = Length(task)
  BY <1>1 DEF ScanInv, ScanAnswers, Measures
<1> HIDE DEF n
<1>6. task.fn = "ir" => n \in 0..7
  <2>1. task.fn = "ir" => Length(task) = 6
    BY DEF Length
  <2> QED BY <1>5, <2>1, AtMostOneLate
<1>7. /\ ScanHost' /\ phase' # "open" /\ step' \in {"idle", "reset"}
      /\ found' = [of |-> task, value |-> n, ok |-> TRUE]
      /\ step' # "idle" => task'.fn # "count"
      /\ phase # "console" /\ phase' = "console" => step' = "idle"
      /\ phase = "console" => todo' = IF task.fn = "ir" THEN Opcodes(n) ELSE Tail(todo)
  <2>1. step # "idle" /\ failed' \in 0..MaxFailed
    BY <1>1, <1>2 DEF ScanHost
  <2> QED BY <1>1, <1>2, <1>6, <2>1, Answered
<1>8. LengthsRight'
  <2>1. found'.of = task /\ found'.value = n
    BY <1>7
  <2> QED BY <1>1, <1>5, <2>1 DEF LengthsRight
<1>9. ASSUME failed = 0, phase = "console", MeasuresInstruction
      PROVE  MeasuresData(0)' /\ d.mem = chain.mem
  <2>1. n = 6 /\ todo' = From(0)
    BY <1>5, <1>7, <1>9, InstructionNow, OpcodesAre
  <2>2. d.mem = chain.mem
    BY <1>1, <1>4, <1>9 DEF MeasuresInstruction, Clocking, SameBus
  <2>3. ~(0 > CODE_ADDR_COMM)
    BY CodesAssumption
  <2> QED BY <1>1, <1>3, <1>7, <2>1, <2>2, <2>3 DEF MeasuresData, Clocking
<1>10. ASSUME failed = 0, phase = "console", NEW o \in 0..63, MeasuresData(o)
       PROVE  /\ o = 63 => todo' = <<>>
              /\ o < 63 => MeasuresData(o + 1)'
              /\ d.mem = chain.mem
  <2>1. task.fn = "dr" /\ todo = From(o)
    BY <1>10, DataNow DEF MeasuresData
  <2>2. todo' = IF o = 63 THEN <<>> ELSE From(o + 1)
    BY <1>7, <1>10, <2>1, FromStep
  <2>3. /\ chain.tap = "ShiftDR" /\ chain.ir = Selected(Bits(6, o))
        /\ Len(chain.dreg) = Width(chain.ir)
        /\ o > CODE_ADDR_COMM => ~chain.cmd.write
    BY <1>1, <1>10 DEF MeasuresData, Clocking
  <2>4. d.mem = chain.mem /\ (o >= CODE_ADDR_COMM => ~d.cmd.write)
    <3>1. CASE o = CODE_ADDR_COMM
      <4>1. chain.ir = "ADDR" /\ Len(chain.dreg) = 35
        BY <2>3, <3>1, SelectedBy DEF Width
      <4> QED BY <1>4, <2>3, <4>1
    <3>2. CASE o = CODE_DATA
      <4>1. chain.ir = "DATA" /\ o > CODE_ADDR_COMM
        BY <2>3, <3>2, SelectedBy, CodesAssumption, OpcodesAssumption
      <4> QED BY <1>4, <2>3, <4>1
    <3>3. CASE o # CODE_ADDR_COMM /\ o # CODE_DATA
      <4>1. Bits(6, o) # Bits(6, CODE_ADDR_COMM) /\ Bits(6, o) # Bits(6, CODE_DATA)
        BY <3>3, CodesAssumption, SameBits
      <4>2. chain.ir \notin {"ADDR", "DATA"}
        BY <2>3, <4>1 DEF Selected
      <4>3. d.mem = chain.mem /\ d.cmd = chain.cmd
        BY <1>4, <2>3, <4>2 DEF SameBus
      <4>4. o >= CODE_ADDR_COMM => o > CODE_ADDR_COMM
        BY <3>3, CodesAssumption
      <4> QED BY <2>3, <4>3, <4>4
    <3> QED BY <3>1, <3>2, <3>3
  <2>5. ASSUME o < 63 PROVE MeasuresData(o + 1)'
    <3>1. todo' = From(o + 1)
      BY <2>2, <2>5
    <3>2. o + 1 > CODE_ADDR_COMM => ~d.cmd.write
      BY <2>4, CodesAssumption
    <3> QED BY <1>1, <1>3, <1>7, <3>1, <3>2 DEF MeasuresData, Clocking
  <2> QED BY <2>2, <2>4, <2>5
<1>11. ConsoleScan'
  <2> SUFFICES ASSUME failed = 0, phase' = "console"
               PROVE  \/ step' = "idle" /\ Harmless(chain')
                      \/ step' # "idle" /\ \E o \in 0..63 : MeasuresData(o)'
    BY <1>1 DEF ConsoleScan
  <2>1. Harmless(chain')
    BY <1>1, <1>3 DEF Harmless
  <2>2. ASSUME step' # "idle" PROVE \E o \in 0..63 : MeasuresData(o)'
    <3>1. phase = "console" /\ todo' # <<>>
      BY <1>7, <2>2 DEF ScanHost
    <3>2. CASE MeasuresInstruction
      <4>1. 0 \in 0..63
        OBVIOUS
      <4> QED BY <1>9, <3>1, <3>2, <4>1
    <3>3. CASE \E o \in 0..63 : MeasuresData(o)
      <4>1. PICK o \in 0..63 : MeasuresData(o)
        BY <3>3
      <4>2. o = 63 => todo' = <<>>
        BY <1>1, <1>10, <3>1, <4>1
      <4>3. o < 63 /\ o + 1 \in 0..63
        BY <3>1, <4>2
      <4>4. MeasuresData(o + 1)'
        BY <1>1, <1>10, <3>1, <4>1, <4>3
      <4> QED BY <4>3, <4>4
    <3> QED BY <1>1, <3>1, <3>2, <3>3, InConsole
  <2> QED BY <2>1, <2>2
<1>12. HandsOver
  BY <1>1, <1>9, <1>10, InConsole DEF HandsOver
<1>13. chain' \in Chips /\ (failed' = 0 => chain'.out = <<>>)
  BY <1>1, <1>2, <1>3
<1> QED BY <1>7, <1>8, <1>11, <1>12, <1>13, BetweenScans

LEMMA FailKeeps ==
  ASSUME ScanInv, ScanFails
  PROVE  ScanInv' /\ HandsOver
<1>1. failed' = failed + 1 /\ failed < MaxFailed /\ Answer(0, FALSE)
  BY DEF ScanFails
<1>2. step # "idle"
  BY DEF ScanFails
<1>3. chain \in Chips /\ task \in Tasks /\ ScanHost
  BY <1>2, TaskNow DEF ScanInv, ScanRegister
<1>4. failed' \in 0..MaxFailed /\ failed' # 0
  BY <1>1, <1>3, AtMostOneLate DEF ScanHost
<1>5. /\ ScanHost' /\ phase' # "open" /\ step' \in {"idle", "reset"}
      /\ found' = [of |-> task, value |-> 0, ok |-> FALSE]
      /\ step' # "idle" => task'.fn # "count"
  <2>1. 0 \in 0..7 /\ FALSE \in BOOLEAN
    OBVIOUS
  <2> QED BY <1>1, <1>2, <1>3, <1>4, <2>1, Answered
<1>6. chain' \in Chips
  <2>1. \A c \in Chips, n \in Nat : Run(c, <<Ones(n)>>) \in Chips
    BY RunType, OnesAre
  <2>2. 1 \in Nat /\ <<>> \in Seq(Seq(Signals)) /\ chain.out \in Seq(Seq(Signals))
    BY <1>3 DEF Chips
  <2>3. \A c \in Chips : [c EXCEPT !.out = <<>>] \in Chips /\ [c EXCEPT !.out = chain.out] \in Chips
    BY <2>2, ChipFields
  <2>4. CASE step \in {"reset", "finish"} /\ chain' \in {chain, Run(chain, ResetBatch)}
    BY <1>3, <2>4, ResetFromAnywhere
  <2>5. CASE step = "setup" /\ \E n \in 0..Len(SetupBatch) :
          /\ task.fn = "count" => n # Len(SetupBatch) - 1
          /\ chain' = Run(chain, SubSeq(SetupBatch, 1, n))
    <3>1. PICK n \in 0..Len(SetupBatch) : chain' = Run(chain, SubSeq(SetupBatch, 1, n))
      BY <2>5
    <3>2. SetupBatch \in Seq(Commands)
      BY <1>3, <2>5, SetupPrepares DEF ScanInv, ScanRegister
    <3>3. SubSeq(SetupBatch, 1, n) \in Seq(Commands)
      <4> DEFINE s == SetupBatch
                 C == Commands
      <4>1. s \in Seq(C) /\ n \in 0..Len(s)
        BY <3>2
      <4> HIDE DEF s, C
      <4>2. SubSeq(s, 1, n) \in Seq(C)
        BY <4>1
      <4> QED BY <4>2 DEF s, C
    <3> QED BY <1>3, <3>1, <3>3, RunType
  <2>6. CASE step = "flush" /\ chain' \in {chain, [chain EXCEPT !.out = <<>>]}
    BY <1>3, <2>3, <2>6
  <2>7. CASE \E c \in {chain, [chain EXCEPT !.out = <<>>]} : chain' \in {c, Run(c, <<Ones(1)>>)}
    <3>1. PICK c \in {chain, [chain EXCEPT !.out = <<>>]} : chain' \in {c, Run(c, <<Ones(1)>>)}
      BY <2>7
    <3>2. c \in Chips
      BY <1>3, <2>3, <3>1
    <3>3. Run(c, <<Ones(1)>>) \in Chips
      BY <2>1, <2>2, <3>2
    <3> QED BY <3>1, <3>2, <3>3
  <2>8. CASE step = "clock" /\ \E n \in 0..Measured : LET c == Run(chain, <<Ones(n)>>) IN
          chain' \in {[c EXCEPT !.out = chain.out], Run([c EXCEPT !.out = chain.out], <<Ones(1)>>),
                     [Run(c, <<Ones(1)>>) EXCEPT !.out = <<>>]}
    <3>1. Measured \in Nat
      <4>1. Measures /\ Filled(chain, Length(task))
        BY <2>8 DEF ScanInv, ScanRegister
      <4>2. Length(task) \in 1..35
        BY <1>3, <4>1, LengthRange DEF Measures
      <4>3. Measured = Length(task)
        BY <1>3, <4>1, MeasuredRight
      <4> QED BY <4>2, <4>3
    <3>2. PICK n \in 0..Measured : LET c == Run(chain, <<Ones(n)>>) IN
          chain' \in {[c EXCEPT !.out = chain.out], Run([c EXCEPT !.out = chain.out], <<Ones(1)>>),
                     [Run(c, <<Ones(1)>>) EXCEPT !.out = <<>>]}
      BY <2>8
    <3> DEFINE c == Run(chain, <<Ones(n)>>)
    <3>3. c \in Chips
      <4>1. n \in Nat
        BY <3>1
      <4> QED BY <1>3, <2>1, <4>1
    <3>4. chain' \in {[c EXCEPT !.out = chain.out], Run([c EXCEPT !.out = chain.out], <<Ones(1)>>),
                     [Run(c, <<Ones(1)>>) EXCEPT !.out = <<>>]}
      BY <3>2
    <3> HIDE DEF c
    <3>5. [c EXCEPT !.out = chain.out] \in Chips /\ Run(c, <<Ones(1)>>) \in Chips
      BY <2>1, <2>2, <2>3, <3>3
    <3>6. /\ Run([c EXCEPT !.out = chain.out], <<Ones(1)>>) \in Chips
          /\ [Run(c, <<Ones(1)>>) EXCEPT !.out = <<>>] \in Chips
      BY <2>1, <2>2, <2>3, <3>5
    <3> QED BY <3>4, <3>5, <3>6
  <2> QED BY <2>4, <2>5, <2>6, <2>7, <2>8 DEF ScanFails
<1>7. LengthsRight' /\ ConsoleScan' /\ HandsOver
  BY <1>4, <1>5 DEF LengthsRight, ConsoleScan, HandsOver
<1> QED BY <1>4, <1>5, <1>6, <1>7, BetweenScans

-----------------------------------------------------------------------------
(* All the steps together *)

LEMMA ScanStarts == ScanInit => ScanInv
<1> SUFFICES ASSUME ScanInit PROVE ScanInv
  OBVIOUS
<1>1. PICK m \in [Addr -> Words] : chain = PowerOn(m)
  BY DEF ScanInit
<1>2. chain \in Chips /\ chain.tap = "TestLogicReset" /\ chain.out = <<>>
  BY <1>1, PowerOnType
<1>3. ScanHost
  BY AtMostOneLate DEF ScanInit, ScanHost
<1>4. ScanRegister
  BY <1>2 DEF ScanInit, ScanRegister
<1>5. ScanReplies
  BY <1>2 DEF ScanInit, ScanReplies
<1>6. ScanAnswers
  BY DEF ScanInit, ScanAnswers, LengthsRight
<1>7. ConsoleScan
  BY DEF ScanInit, ConsoleScan
<1> QED BY <1>3, <1>4, <1>5, <1>6, <1>7 DEF ScanInv

LEMMA ScanSteps ==
  ScanInv /\ [ScanNext]_scanVars => ScanInv' /\ HandsOver
BY ConfigureKeeps, UserWriteKeeps, UserReadKeeps, UserScanKeeps, ResetKeeps, SetupKeeps, FlushKeeps,
   SetupCutKeeps, ClockKeepsScan, FinishKeeps, FailKeeps, StayKeeps DEF ScanNext, User, Scan

(* The host and the chip stay in step through accesses and scans, failed   *)
(* ones included, and no more replies wait than are late.                  *)
THEOREM ScansStayOnCourse == ScanSpec => []TypeOK
<1>1. ScanInv => TypeOK
  <2> SUFFICES ASSUME ScanInv PROVE TypeOK
    OBVIOUS
  <2>1. chain \in Chips
    BY DEF ScanInv, ScanRegister
  <2>2. chain.tap \in TapStates /\ chain.mem \in [Addr -> Words \cup {Junk}]
    BY <2>1 DEF Chips, Value
  <2> QED BY <2>2 DEF ScanInv, ScanHost, ScanReplies, TypeOK
<1> QED BY <1>1, ScanStarts, ScanSteps, PTL DEF ScanSpec

(* What the scan functions answer is the length of the register they were  *)
(* asked for, or, after a failed call, at most MaxLate more.               *)
THEOREM ScansMeasure == ScanSpec => []LengthsRight
<1>1. ScanInv => LengthsRight
  BY DEF ScanInv, ScanAnswers
<1> QED BY <1>1, ScanStarts, ScanSteps, PTL DEF ScanSpec

(* A scan of the console writes nothing but the word parked before it.     *)
THEOREM ScansWriteNothing == ScanSpec => ScanOnlyHandsOver
<1>1. ScanInv /\ [ScanNext]_scanVars =>
        [phase = "console" /\ step # "idle" /\ failed' = 0 => chain'.mem \in {chain.mem, Due}]_scanVars
  BY ScanSteps DEF HandsOver
<1> QED BY <1>1, ScanStarts, ScanSteps, PTL DEF ScanSpec, ScanOnlyHandsOver
=============================================================================
