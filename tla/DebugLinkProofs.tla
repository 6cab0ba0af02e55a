-------------------------- MODULE DebugLinkProofs --------------------------
(***************************************************************************)
(* Theorems about DebugLink, for every memory size, set of words, step of  *)
(* the sequential addresses, set of transfers and number of failures.  The *)
(* second half shows that it implements DebugMemory: every step of an      *)
(* access is a step of the abstract memory or leaves it as it is.          *)
(***************************************************************************)
EXTENDS DebugLink, SequenceTheorems, TLAPS

USE NumWordsAssumption, WordsAssumption, JunkAssumption, SeqNextAssumption,
    TransfersAssumption, MaxFaultsAssumption

(* FT_Read never asks for more than the queue has reported. *)
PolledIsThere == pc = "take" => polled \in 1..Len(rx)

TypeInv == TypeOK /\ PolledIsThere

-----------------------------------------------------------------------------
(* Type correctness *)

(* What Update-DR does to the AHB side is well typed. *)
LEMMA UpdateDRType ==
  ASSUME TypeOK, NEW s \in Shifts, UpdateDR(s)
  PROVE  /\ cmd' \in [addr : Addr \cup {Junk}, write : BOOLEAN]
         /\ mem' \in [Addr -> Value] /\ rdata' \in Value
<1> USE DEF TypeOK, Shifts, None, Command, Data, Value
<1>1. \A b \in BOOLEAN : Following(cmd.addr, b) \in Addr \cup {Junk}
  BY DEF Following
<1>2. \A a : AhbRead(a) \in Value
  BY DEF AhbRead
<1>3. CASE s.reg = "NONE"
  BY <1>3 DEF UpdateDR, ahb
<1>4. CASE s.reg = "ADDR"
  BY <1>2, <1>4 DEF UpdateDR
<1>5. CASE s.reg = "DATA"
  <2>1. s.data \in Value /\ s.seq \in BOOLEAN
    BY <1>5
  <2>2. CASE cmd.write
    <3>1. cmd' = [addr |-> Following(cmd.addr, s.seq), write |-> TRUE]
          /\ mem' = (IF cmd.addr \in Addr THEN [mem EXCEPT ![cmd.addr] = s.data] ELSE mem)
          /\ rdata' = rdata
      BY <1>5, <2>2 DEF UpdateDR
    <3>2. cmd' \in [addr : Addr \cup {Junk}, write : BOOLEAN]
      BY <1>1, <2>1, <3>1
    <3>3. mem' \in [Addr -> Value]
      BY <2>1, <3>1
    <3> QED BY <3>1, <3>2, <3>3
  <2>3. CASE ~cmd.write
    <3>1. cmd' = [addr |-> Following(cmd.addr, s.seq), write |-> FALSE]
          /\ mem' = mem
          /\ rdata' = (IF s.seq THEN AhbRead(Following(cmd.addr, TRUE)) ELSE rdata)
      BY <1>5, <2>3 DEF UpdateDR
    <3> QED BY <1>1, <1>2, <2>1, <3>1
  <2> QED BY <2>2, <2>3
<1> QED BY <1>3, <1>4, <1>5

(* The register contents the host builds. *)
LEMMA ShiftsType ==
  /\ None \in Shifts /\ Open \in Shifts
  /\ \A a \in Addr \cup {Junk}, w \in BOOLEAN : Command(a, w) \in Shifts
  /\ \A v \in Value, s \in BOOLEAN : Data(v, s) \in Shifts
BY DEF Shifts, Open, Value, None, Command, Data

LEMMA WordToWriteType ==
  ASSUME TypeOK
  PROVE  WordToWrite \in Shifts /\ Data(op.data[i], FALSE) \in Shifts
BY ShiftsType DEF TypeOK, WordToWrite, Value

(* Dropping the front of a queue leaves a queue. *)
LEMMA DropFront ==
  ASSUME NEW s \in Seq(Value), NEW n \in Nat, n <= Len(s)
  PROVE  SubSeq(s, n + 1, Len(s)) \in Seq(Value)
<1>1. \A k \in n + 1..Len(s) : s[k] \in Value
  BY ElementOfSeq
<1> QED BY <1>1, SubSeqProperties, LenProperties

LEMMA NoAccessType ==
  /\ NoAccess.kind = "none" /\ NoAccess.addr = 0 /\ NoAccess.len = 1
  /\ NoAccess.addr \in Addr /\ NoAccess.len \in Nat \ {0}
  /\ NoAccess.data \in [0..NoAccess.len - 1 -> Words]
  /\ 0 \in 0..NoAccess.len - 1
BY DEF NoAccess, Access, NoData, Addr

(* A return leaves the host without an access. *)
LEMMA ReturnType ==
  ASSUME Return
  PROVE  /\ pc' = "idle" /\ op'.kind = "none" /\ op'.addr \in Addr
         /\ op'.len \in Nat \ {0} /\ op'.data \in [0..op'.len - 1 -> Words]
         /\ i' \in 0..op'.len - 1 /\ polled' \in Nat
BY NoAccessType DEF Return

LEMMA InitType == Init => TypeInv
<1> SUFFICES ASSUME Init PROVE TypeInv
  OBVIOUS
<1>1. op.kind = "none" /\ op.addr \in Addr /\ op.len \in Nat \ {0}
      /\ op.data \in [0..op.len - 1 -> Words] /\ i \in 0..op.len - 1
  BY NoAccessType DEF Init
<1>2. shift \in Shifts /\ cmd \in [addr : Addr \cup {Junk}, write : BOOLEAN]
  BY ShiftsType DEF Init
<1>3. mem \in [Addr -> Value] /\ rdata \in Value /\ wire \in Seq(Value) /\ rx \in Seq(Value)
  BY DEF Init, Value
<1> QED BY <1>1, <1>2, <1>3 DEF Init, TypeInv, TypeOK, PolledIsThere

(* The part of the type invariant that a failed call re-establishes. *)
LEMMA AbortType ==
  ASSUME TypeOK, Abort
  PROVE  /\ pc' = "idle"
         /\ op'.kind \in Reads \cup Writes \cup {"none"}
         /\ op'.addr \in Addr /\ op'.len \in Nat \ {0}
         /\ op'.data \in [0..op'.len - 1 -> Words]
         /\ i' \in 0..op'.len - 1
         /\ polled' \in Nat
         /\ loaded' \in {<<>>} \cup (Int \X Value)
         /\ faults' \in 0..MaxFaults
<1>1. op.addr \in Int /\ Zero \in Value
  BY DEF TypeOK, Addr, Value
<1>2. Return /\ faults' = faults + 1 /\ faults < MaxFaults
  BY DEF Abort
<1>3. loaded' \in {<<>>} \cup (Int \X Value)
  <2>1. loaded' = <<op.addr, Zero>> \/ loaded' = loaded
    BY DEF Abort
  <2>2. loaded \in {<<>>} \cup (Int \X Value)
    BY DEF TypeOK
  <2> QED BY <1>1, <2>1, <2>2
<1>4. faults' \in 0..MaxFaults
  BY <1>2, MaxFaultsAssumption DEF TypeOK
<1>5. op'.kind \in Reads \cup Writes \cup {"none"}
  BY <1>2, ReturnType
<1> QED BY <1>2, <1>3, <1>4, <1>5, ReturnType

(* Every step keeps the types. *)
LEMMA StepType == TypeInv /\ [Next]_vars => TypeInv'
<1> SUFFICES ASSUME TypeOK, PolledIsThere, [Next]_vars PROVE TypeInv'
  BY DEF TypeInv
<1> USE DEF TypeInv, PolledIsThere
<1> DEFINE AhbTyped == /\ cmd' \in [addr : Addr \cup {Junk}, write : BOOLEAN]
                       /\ mem' \in [Addr -> Value] /\ rdata' \in Value
<1>1. \A s \in Shifts : UpdateDR(s) => AhbTyped
  BY UpdateDRType
<1>2. UNCHANGED ahb => AhbTyped
  BY DEF TypeOK, ahb
<1>3. shift \in Shifts /\ op.addr \in Addr /\ op.addr \in Int
  BY DEF TypeOK, Addr
<1>4. Command(Junk, FALSE) \in Shifts /\ Command(op.addr, FALSE) \in Shifts
      /\ Command(op.addr, TRUE) \in Shifts /\ Data(Junk, TRUE) \in Shifts
  BY <1>3, ShiftsType DEF Value
<1>a. CASE StartRead \/ StartWrite
  <2>1. ASSUME NEW k \in Reads \cup Writes, NEW a \in Addr, NEW n \in Nat \ {0},
               NEW d \in [0..n - 1 -> Words], Start(k, a, n, d)
        PROVE  TypeInv'
    <3>1. op'.kind = k /\ op'.addr = a /\ op'.len = n /\ op'.data = d /\ i' = 0
          /\ polled' = 0 /\ pc' = "reset"
      BY <2>1 DEF Start, Access
    <3>2. i' \in 0..op'.len - 1
      BY <3>1
    <3> QED BY <2>1, <3>1, <3>2 DEF Start, TypeOK, ahb, queue
  <2>2. \A n \in Nat \ {0} : NoData(n) \in [0..n - 1 -> Words]
    BY DEF NoData
  <2>3. \A t \in Transfers : t[1] \in Addr /\ t[2] \in Nat \ {0}
    OBVIOUS
  <2>4. CASE StartRead
    <3>1. CASE \E a \in Addr : Start("read", a, 1, NoData(1))
      BY <2>1, <2>2, <3>1 DEF Reads
    <3>2. CASE \E t \in Transfers : Start("readraw", t[1], t[2], NoData(t[2]))
      BY <2>1, <2>2, <2>3, <3>2 DEF Reads
    <3> QED BY <2>4, <3>1, <3>2 DEF StartRead
  <2>5. CASE StartWrite
    <3>1. CASE \E a \in Addr, d \in [0..0 -> Words] : Start("write", a, 1, d)
      <4>1. PICK a \in Addr, d \in [0..1 - 1 -> Words] : Start("write", a, 1, d)
        BY <3>1
      <4>2. "write" \in Reads \cup Writes /\ 1 \in Nat \ {0}
        BY DEF Writes
      <4> QED BY <2>1, <4>1, <4>2
    <3>2. CASE \E t \in Transfers : \E d \in [0..t[2] - 1 -> Words] :
                 Start("writeraw", t[1], t[2], d)
      BY <2>1, <2>3, <3>2 DEF Writes
    <3> QED BY <2>5, <3>1, <3>2 DEF StartWrite
  <2> QED BY <1>a, <2>4, <2>5
<1>b. CASE Close
  BY <1>b DEF Close, TypeOK, ahb, queue
<1>c. CASE ResetJtag
  <2>1. AhbTyped
    BY <1>c, <1>1, <1>3 DEF ResetJtag
  <2> QED BY <1>c, <2>1, ShiftsType DEF ResetJtag, GoOn, TypeOK, queue
<1>d. CASE SendCommand
  BY <1>d, <1>2, <1>4 DEF SendCommand, GoOn, TypeOK, queue
<1>e. CASE SelectData
  <2>1. AhbTyped
    BY <1>e, <1>1, <1>3 DEF SelectData
  <2> QED BY <1>e, <2>1, ShiftsType DEF SelectData, GoOn, TypeOK, queue
<1>f. CASE ShiftWord
  <2>1. AhbTyped
    BY <1>f, <1>1, WordToWriteType DEF ShiftWord
  <2>2. i' \in 0..op.len - 1
    BY <1>f DEF ShiftWord, TypeOK
  <2> QED BY <1>f, <2>1, <2>2, ShiftsType DEF ShiftWord, TypeOK, queue
<1>g. CASE ShiftLastWord
  BY <1>g, <1>2, WordToWriteType, NoAccessType DEF ShiftLastWord, Return, TypeOK, queue
<1>h. CASE ReadWord
  <2>1. AhbTyped
    BY <1>h, <1>1, <1>4 DEF ReadWord
  <2> QED BY <1>h, <2>1, ShiftsType DEF ReadWord, GoOn, TypeOK
<1>i. CASE OpenRead
  <2>1. AhbTyped
    BY <1>i, <1>1, <1>4 DEF OpenRead
  <2> QED BY <1>i, <2>1, ShiftsType DEF OpenRead, GoOn, TypeOK, queue
<1>j. CASE FetchWord
  BY <1>j, <1>2 DEF FetchWord, GoOn, TypeOK
<1>k. CASE PollQueue
  BY <1>k, <1>2 DEF PollQueue, TypeOK, queue
<1>l. CASE TakeReply
  <2>1. rx' \in Seq(Value)
    BY <1>l, DropFront DEF TakeReply, TypeOK
  <2>2. loaded' \in Int \X Value
    BY <1>l, <1>3 DEF TakeReply, TypeOK
  <2>3. CASE op.kind = "read"
    <3>1. Return
      BY <1>l, <2>3 DEF TakeReply
    <3> QED BY <1>l, <1>2, <2>1, <2>2, <3>1, ReturnType DEF TakeReply, TypeOK
  <2>4. CASE op.kind # "read"
    BY <1>l, <1>2, <2>1, <2>2, <2>4 DEF TakeReply, TypeOK
  <2> QED BY <2>3, <2>4
<1>m. CASE NextWord
  <2>1. AhbTyped
    BY <1>m, <1>1, <1>4 DEF NextWord
  <2>2. i + 1 < op.len => i + 1 \in 0..op.len - 1
    BY DEF TypeOK
  <2>3. CASE i + 1 < op.len
    BY <1>m, <2>1, <2>2, <2>3, ShiftsType DEF NextWord, TypeOK, queue
  <2>4. CASE ~(i + 1 < op.len)
    <3>1. Return
      BY <1>m, <2>4 DEF NextWord
    <3> QED BY <1>m, <2>1, <3>1, ShiftsType, ReturnType DEF NextWord, TypeOK, queue
  <2> QED BY <2>3, <2>4
<1>n. CASE Failures
  <2>1. Abort
    BY <1>n DEF Failures, ResetFails, SendCommandFails, SelectDataFails, ShiftWordFails,
         ReadCommandFails, FetchWordFails, PollFails, TakeFails, NextWordFails
  <2>2. AhbTyped
    BY <1>n, <1>1, <1>2, <1>3, <1>4, WordToWriteType
      DEF Failures, ResetFails, SendCommandFails, SelectDataFails, ShiftWordFails,
          ReadCommandFails, FetchWordFails, PollFails, TakeFails, NextWordFails,
          PartOfCommand, ahb
  <2>3. shift' \in Shifts
    BY <1>n, <1>3, <1>4, ShiftsType, WordToWriteType
      DEF Failures, ResetFails, SendCommandFails, SelectDataFails, ShiftWordFails,
          ReadCommandFails, FetchWordFails, PollFails, TakeFails, NextWordFails,
          PartOfCommand
  <2>a. wire \in Seq(Value) /\ rx \in Seq(Value) /\ rdata \in Value
    BY DEF TypeOK
  <2>4. wire' \in Seq(Value)
    <3>1. ASSUME ReadCommandFails PROVE wire' \in Seq(Value)
      <4>1. wire' = wire \/ wire' = Append(wire, rdata')
        BY <3>1 DEF ReadCommandFails
      <4>2. rdata' \in Value
        BY <2>2
      <4>3. Append(wire, rdata') \in Seq(Value)
        BY <2>a, <4>2, AppendProperties
      <4> QED BY <2>a, <4>1, <4>3
    <3>2. ASSUME FetchWordFails PROVE wire' \in Seq(Value)
      <4>1. wire' = wire \/ wire' = Append(wire, rdata)
        BY <3>2 DEF FetchWordFails
      <4> QED BY <2>a, <4>1, AppendProperties, SMTT(30)
    <3> QED BY <1>n, <3>1, <3>2
      DEF Failures, ResetFails, SendCommandFails, SelectDataFails, ShiftWordFails,
          PollFails, TakeFails, NextWordFails, queue, TypeOK
  <2>5. rx' \in Seq(Value)
    <3>1. ASSUME TakeFails PROVE rx' \in Seq(Value)
      BY <3>1, DropFront DEF TakeFails, TypeOK
    <3>2. ASSUME PollFails PROVE rx' \in Seq(Value)
      <4>1. rx' = rx \/ (rx # <<>> /\ rx' = Tail(rx))
        BY <3>2 DEF PollFails
      <4>2. rx # <<>> => Tail(rx) \in Seq(Value)
        BY <2>a, HeadTailProperties
      <4> QED BY <2>a, <4>1, <4>2
    <3> QED BY <1>n, <3>1, <3>2
      DEF Failures, ResetFails, SendCommandFails, SelectDataFails, ShiftWordFails,
          ReadCommandFails, FetchWordFails, NextWordFails, queue, TypeOK
  <2> QED BY <2>1, <2>2, <2>3, <2>4, <2>5, AbortType DEF TypeOK
<1>o. CASE Deliver
  <2>1. rx' \in Seq(Value) /\ wire' \in Seq(Value) /\ Len(rx') = Len(rx) + 1
    BY <1>o DEF Deliver, TypeOK
  <2> QED BY <1>o, <1>2, <2>1 DEF Deliver, TypeOK, host
<1>p. CASE UNCHANGED vars
  BY <1>p DEF vars, TypeOK
<1> QED BY <1>a, <1>b, <1>c, <1>d, <1>e, <1>f, <1>g, <1>h, <1>i, <1>j, <1>k, <1>l,
           <1>m, <1>n, <1>o, <1>p DEF Next, WriteSteps, ReadSteps

(* Every variable keeps its type, whatever fails. *)
THEOREM TypeCorrect == Spec => []TypeOK
<1>1. TypeInv => TypeOK
  BY DEF TypeInv
<1> QED BY <1>1, InitType, StepType, PTL DEF Spec

-----------------------------------------------------------------------------
(* How late a reply can be *)

(* A failed call leaves one reply more at most, or takes some away. *)
LEMMA LateFailures ==
  ASSUME TypeInv, LateByFailures, Failures
  PROVE  LateByFailures'
<1> DEFINE pending == Len(rx) + Len(wire)
<1>1. Len(rx) \in Nat /\ Len(wire) \in Nat /\ faults \in Nat
  BY LenProperties DEF TypeInv, TypeOK
<1>2. Abort
  BY DEF Failures, ResetFails, SendCommandFails, SelectDataFails, ShiftWordFails,
         ReadCommandFails, FetchWordFails, PollFails, TakeFails, NextWordFails
<1>3. pc' = "idle" /\ faults' = faults + 1
  BY <1>2, ReturnType DEF Abort
<1>4. /\ pending <= faults + 1
      /\ pc \notin {"poll", "take"} => pending <= faults
  BY <1>1 DEF LateByFailures
<1>5. CASE pc \notin {"poll", "take"}
  <2>1. rx' = rx
    BY <1>5 DEF Failures, ResetFails, SendCommandFails, SelectDataFails, ShiftWordFails,
                ReadCommandFails, FetchWordFails, PollFails, TakeFails, NextWordFails, queue
  <2>2. wire' = wire \/ \E v \in Value : wire' = Append(wire, v)
    <3>1. CASE ReadCommandFails
      <4>1. wire' = wire \/ wire' = Append(wire, rdata')
        BY <3>1 DEF ReadCommandFails
      <4>2. UpdateDR(Command(op.addr, FALSE)) => rdata' \in Value
        <5>1. Command(op.addr, FALSE) \in Shifts
          BY ShiftsType DEF TypeInv, TypeOK
        <5> QED BY <5>1, UpdateDRType DEF TypeInv
      <4> QED BY <3>1, <4>1, <4>2 DEF ReadCommandFails
    <3>2. CASE FetchWordFails
      BY <3>2 DEF FetchWordFails, TypeInv, TypeOK
    <3>3. CASE ~ReadCommandFails /\ ~FetchWordFails
      BY <1>5, <3>3 DEF Failures, ResetFails, SendCommandFails, SelectDataFails, ShiftWordFails,
                        PollFails, TakeFails, NextWordFails, queue
    <3> QED BY <3>1, <3>2, <3>3
  <2>3. Len(wire') = Len(wire) \/ Len(wire') = Len(wire) + 1
    BY <2>2, AppendProperties DEF TypeInv, TypeOK
  <2> QED BY <1>1, <1>3, <1>4, <1>5, <2>1, <2>3 DEF LateByFailures
<1>6. CASE pc \in {"poll", "take"}
  <2>1. wire' = wire
    BY <1>6 DEF Failures, ResetFails, SendCommandFails, SelectDataFails, ShiftWordFails,
                ReadCommandFails, FetchWordFails, PollFails, TakeFails, NextWordFails, queue
  <2>2. Len(rx') \in Nat /\ Len(rx') <= Len(rx)
    <3>1. CASE PollFails
      <4>1. rx # <<>> => Len(Tail(rx)) = Len(rx) - 1 /\ Len(rx) > 0
        BY HeadTailProperties, EmptySeq DEF TypeInv, TypeOK
      <4> QED BY <1>1, <3>1, <4>1 DEF PollFails
    <3>2. CASE TakeFails
      <4>1. PICK n \in 0..polled : rx' = SubSeq(rx, n + 1, Len(rx))
        BY <3>2 DEF TakeFails
      <4>2. n \in Nat /\ n <= Len(rx)
        BY <1>1, <3>2 DEF TakeFails, TypeInv, PolledIsThere
      <4>3. Len(rx') = Len(rx) - n
        BY <1>1, <4>1, <4>2, SubSeqProperties DEF TypeInv, TypeOK
      <4> QED BY <1>1, <4>2, <4>3
    <3> QED BY <1>6, <3>1, <3>2
            DEF Failures, ResetFails, SendCommandFails, SelectDataFails, ShiftWordFails,
                ReadCommandFails, FetchWordFails, NextWordFails
  <2> QED BY <1>1, <1>3, <1>4, <2>1, <2>2 DEF LateByFailures
<1> QED BY <1>5, <1>6

LEMMA LateStep == TypeInv /\ TypeInv' /\ LateByFailures /\ [Next]_vars => LateByFailures'
<1> SUFFICES ASSUME TypeInv, TypeInv', LateByFailures, [Next]_vars PROVE LateByFailures'
  OBVIOUS
<1>1. Len(rx) \in Nat /\ Len(wire) \in Nat /\ faults \in Nat /\ polled \in Nat
  BY LenProperties DEF TypeInv, TypeOK
<1>2. /\ Len(rx) + Len(wire) <= faults + 1
      /\ pc \notin {"poll", "take"} => Len(rx) + Len(wire) <= faults
  BY <1>1 DEF LateByFailures
(* Steps that neither ask for a reply nor take one. *)
<1>3. CASE /\ UNCHANGED queue /\ faults' = faults
           /\ pc' \in {"poll", "take"} => pc \in {"poll", "take"} /\ pc' = pc
           /\ pc \in {"poll", "take"} => pc' = pc /\ polled' = polled
  BY <1>1, <1>2, <1>3 DEF LateByFailures, queue
<1>4. CASE StartRead \/ StartWrite \/ Close \/ ResetJtag \/ WriteSteps \/ OpenRead \/ NextWord
           \/ UNCHANGED vars
  <2>1. CASE UNCHANGED vars
    BY <1>3, <2>1 DEF vars, queue
  <2>2. CASE StartRead \/ StartWrite \/ Close \/ ResetJtag \/ WriteSteps \/ OpenRead \/ NextWord
    <3>1. pc \notin {"poll", "take"}
      BY <2>2 DEF StartRead, StartWrite, Start, Close, ResetJtag, WriteSteps, SendCommand,
                  SelectData, ShiftWord, ShiftLastWord, OpenRead, NextWord
    <3>2. pc' \notin {"poll", "take"}
      BY <2>2, <3>1, ReturnType
         DEF StartRead, StartWrite, Start, Close, ResetJtag, WriteSteps, SendCommand,
             SelectData, ShiftWord, ShiftLastWord, OpenRead, NextWord, GoOn
    <3>3. UNCHANGED queue /\ faults' = faults
      BY <2>2 DEF StartRead, StartWrite, Start, Close, ResetJtag, WriteSteps, SendCommand,
                  SelectData, ShiftWord, ShiftLastWord, OpenRead, NextWord, GoOn, queue
    <3> QED BY <1>3, <3>1, <3>2, <3>3
  <2> QED BY <1>4, <2>1, <2>2
<1>5. CASE ReadWord \/ FetchWord
  <2>1. pc \notin {"poll", "take"} /\ pc' = "poll" /\ faults' = faults /\ rx' = rx
    BY <1>5 DEF ReadWord, FetchWord, GoOn
  <2>2. Len(wire') = Len(wire) + 1
    <3>1. rdata \in Value /\ rdata' \in Value /\ wire \in Seq(Value)
      BY DEF TypeInv, TypeOK
    <3>2. wire' = Append(wire, rdata) \/ wire' = Append(wire, rdata')
      BY <1>5 DEF ReadWord, FetchWord
    <3> QED BY <3>1, <3>2, AppendProperties
  <2> QED BY <1>1, <1>2, <2>1, <2>2 DEF LateByFailures
<1>6. CASE PollQueue
  <2>1. pc' = "take" /\ polled' = Len(rx) /\ UNCHANGED <<queue, faults>>
    BY <1>6 DEF PollQueue
  <2> QED BY <1>1, <1>2, <2>1 DEF LateByFailures, queue
<1>7. CASE TakeReply
  <2>1. polled \in 1..Len(rx) /\ wire' = wire /\ faults' = faults
        /\ rx' = SubSeq(rx, polled + 1, Len(rx))
    BY <1>7 DEF TakeReply, TypeInv, PolledIsThere
  <2>2. Len(rx') = Len(rx) - polled
    BY <1>1, <2>1, SubSeqProperties DEF TypeInv, TypeOK
  <2>3. pc' \notin {"poll", "take"}
    BY <1>7, ReturnType DEF TakeReply
  <2> QED BY <1>1, <1>2, <2>1, <2>2, <2>3 DEF LateByFailures
<1>8. CASE Deliver
  <2>1. wire # <<>> /\ rx' = Append(rx, Head(wire)) /\ wire' = Tail(wire)
        /\ UNCHANGED <<pc, polled, faults>>
    BY <1>8 DEF Deliver, host
  <2>2. Len(rx') = Len(rx) + 1 /\ Len(wire') = Len(wire) - 1
    BY <2>1 DEF TypeInv, TypeOK
  <2> QED BY <1>1, <2>1, <2>2 DEF LateByFailures
<1> QED BY <1>4, <1>5, <1>6, <1>7, <1>8, LateFailures DEF Next, ReadSteps

(* For any number of failures: there are no more replies of others in the  *)
(* queue than calls have failed, so no read is late by more, and FT_Read   *)
(* is asked for at most one word more than that (ftdi_device.c,            *)
(* ioread32 1298-1304, ioread32raw 1456-1466).                             *)
THEOREM LateCorrect == Spec => []LateByFailures
<1>1. Init => LateByFailures
  BY DEF Init, LateByFailures
<1> QED BY <1>1, InitType, StepType, LateStep, PTL DEF Spec

-----------------------------------------------------------------------------
(* Where the TAP is parked, and what the replies are *)

(* Update-DR with a command, and with data in either direction. *)
LEMMA UpdateCommand ==
  ASSUME NEW a, NEW w \in BOOLEAN, UpdateDR(Command(a, w))
  PROVE  /\ cmd' = [addr |-> a, write |-> w] /\ mem' = mem
         /\ ~w => rdata' = AhbRead(a)
         /\ w => rdata' = rdata
BY DEF UpdateDR, Command

LEMMA UpdateWrite ==
  ASSUME NEW v, NEW s \in BOOLEAN, cmd.write, cmd.addr \in Addr, UpdateDR(Data(v, s))
  PROVE  /\ cmd' = [addr |-> IF s THEN SeqNext[cmd.addr] ELSE cmd.addr, write |-> TRUE]
         /\ mem' = [mem EXCEPT ![cmd.addr] = v] /\ rdata' = rdata
BY DEF UpdateDR, Data, Following

LEMMA UpdateRead ==
  ASSUME NEW v, ~cmd.write, cmd.addr \in Addr, UpdateDR(Data(v, TRUE))
  PROVE  /\ cmd' = [addr |-> SeqNext[cmd.addr], write |-> FALSE]
         /\ mem' = mem /\ rdata' = mem[SeqNext[cmd.addr]]
BY DEF UpdateDR, Data, Following, AhbRead

LEMMA ShiftFields ==
  /\ None.reg = "NONE" /\ Open.reg = "DATA" /\ Open = Data(Junk, FALSE)
  /\ \A a, w : Command(a, w).reg = "ADDR"
  /\ \A v, s : Data(v, s).reg = "DATA" /\ Data(v, s).data = v /\ Data(v, s).seq = s
BY DEF None, Open, Command, Data

LEMMA LinkInit == Init => LinkInv
<1> SUFFICES ASSUME Init PROVE LinkInv
  OBVIOUS
<1>1. TypeOK
  BY InitType DEF TypeInv
<1>2. shift.reg = "NONE" /\ pc = "idle" /\ op.kind = "none"
  BY ShiftFields, NoAccessType DEF Init
<1> QED BY <1>1, <1>2 DEF LinkInv, ParkedWhereExpected, ReplyIsOurs, OnCourse, Busy

(* Wherever an access ends, the register it leaves open has an address.    *)
LEMMA AbortLink ==
  ASSUME Abort, TypeOK', shift'.reg = "DATA" => cmd'.addr \in Addr
  PROVE  LinkInv'
<1>1. pc' = "idle" /\ op'.kind = "none"
  BY ReturnType DEF Abort
<1> QED BY <1>1 DEF LinkInv, ParkedWhereExpected, ReplyIsOurs, OnCourse, Busy

LEMMA FailuresLink ==
  ASSUME LinkInv, TypeOK', Failures
  PROVE  LinkInv'
<1> USE DEF LinkInv
<1>1. Abort
  BY DEF Failures, ResetFails, SendCommandFails, SelectDataFails, ShiftWordFails,
       ReadCommandFails, FetchWordFails, PollFails, TakeFails, NextWordFails
<1> SUFFICES ASSUME shift'.reg = "DATA" PROVE cmd'.addr \in Addr
  BY <1>1, AbortLink
<1>2. shift.reg = "DATA" => cmd.addr \in Addr
  BY DEF ParkedWhereExpected
<1>3. UNCHANGED <<shift, ahb>> => cmd'.addr \in Addr
  BY <1>2 DEF ahb
<1>4. op.addr \in Addr /\ (cmd.addr \in Addr => SeqNext[cmd.addr] \in Addr)
  BY DEF TypeOK
<1>5. \A w \in BOOLEAN : UpdateDR(Command(op.addr, w)) => cmd'.addr \in Addr
  BY <1>4, UpdateCommand
<1>6. \A w \in BOOLEAN : PartOfCommand(w) => cmd'.addr \in Addr
  <2>1. ASSUME NEW w \in BOOLEAN, PartOfCommand(w) PROVE cmd'.addr \in Addr
    <3>1. shift' = shift \/ \E a, b : shift' = Command(a, b)
      BY <2>1 DEF PartOfCommand
    <3>2. shift' = shift
      BY <3>1, ShiftFields
    <3> QED BY <1>2, <2>1, <3>2 DEF PartOfCommand, ahb
  <2> QED BY <2>1
<1>a. CASE ResetFails
  BY <1>a, <1>3, ShiftFields DEF ResetFails
<1>b. CASE SendCommandFails
  BY <1>b, <1>6 DEF SendCommandFails
<1>c. CASE SelectDataFails
  <2>1. shift = Command(op.addr, TRUE)
    BY <1>c DEF SelectDataFails, ParkedWhereExpected
  <2> QED BY <1>c, <1>3, <1>5, <2>1 DEF SelectDataFails
<1>d. CASE ShiftWordFails
  <2>1. cmd.write /\ cmd.addr \in Addr
    BY <1>d, ShiftFields DEF ShiftWordFails, ParkedWhereExpected
  <2>2. CASE UNCHANGED ahb
    BY <2>1, <2>2 DEF ahb
  <2>3. CASE UpdateDR(WordToWrite)
    <3>1. cmd' = [addr |-> IF op.kind = "writeraw" THEN SeqNext[cmd.addr] ELSE cmd.addr,
                  write |-> TRUE]
      BY <2>1, <2>3, UpdateWrite DEF WordToWrite
    <3> QED BY <1>4, <2>1, <3>1
  <2> QED BY <1>d, <2>2, <2>3 DEF ShiftWordFails
<1>e. CASE ReadCommandFails
  BY <1>e, <1>5, <1>6 DEF ReadCommandFails
<1>f. CASE FetchWordFails
  BY <1>f, <1>2 DEF FetchWordFails, ahb
<1>g. CASE PollFails
  BY <1>g, <1>2 DEF PollFails, ahb
<1>h. CASE TakeFails
  BY <1>h, <1>2 DEF TakeFails, ahb
<1>i. CASE NextWordFails
  <2>1. ~cmd.write /\ cmd.addr \in Addr
    BY <1>i, ShiftFields DEF NextWordFails, ParkedWhereExpected
  <2>2. UpdateDR(Data(Junk, TRUE)) => cmd'.addr \in Addr
    <3> SUFFICES ASSUME UpdateDR(Data(Junk, TRUE)) PROVE cmd'.addr \in Addr
      OBVIOUS
    <3>1. cmd' = [addr |-> SeqNext[cmd.addr], write |-> FALSE]
      BY <2>1, UpdateRead
    <3> QED BY <1>4, <2>1, <3>1
  <2> QED BY <1>i, <1>3, <2>2 DEF NextWordFails
<1> QED BY <1>a, <1>b, <1>c, <1>d, <1>e, <1>f, <1>g, <1>h, <1>i DEF Failures

(* A queue that holds one reply after an append holds that reply. *)
LEMMA SoleReply ==
  ASSUME NEW w \in Seq(Value), NEW r \in Seq(Value), NEW v \in Value,
         Len(r) + Len(Append(w, v)) = 1
  PROVE  Append(w, v) = <<v>>
<1>1. Len(Append(w, v)) = Len(w) + 1 /\ Len(w) \in Nat /\ Len(r) \in Nat
  BY AppendProperties, LenProperties
<1>2. w = <<>>
  BY <1>1, EmptySeq
<1> QED BY <1>2

(* One step of an access that goes well, or of its environment. *)
LEMMA LinkStep ==
  ASSUME TransfersInBlock, LinkInv, [Next]_vars
  PROVE  LinkInv'
<1> USE DEF LinkInv, Busy
<1>1. TypeOK'
  BY StepType DEF TypeInv, PolledIsThere, OnCourse
<1>2. op.addr \in Addr /\ op.len \in Nat \ {0} /\ i \in 0..op.len - 1 /\ op.addr \in Nat
  BY DEF TypeOK, Addr
<1>3. \A v, s : shift' = Data(v, s) => shift'.reg = "DATA"
  BY ShiftFields
<1>a. CASE StartRead \/ StartWrite
  <2> DEFINE Started ==
        /\ pc = "idle" /\ pc' = "reset" /\ i' = 0 /\ UNCHANGED <<shift, cmd, mem, rdata>>
        /\ op'.kind \in Reads \cup Writes
        /\ InBlock(op'.addr, op'.len) /\ (op'.kind \in {"read", "write"} => op'.len = 1)
  <2>1. Started
    <3>1. ASSUME NEW k \in Reads \cup Writes, NEW a, NEW n, NEW d, Start(k, a, n, d),
                 InBlock(a, n), k \in {"read", "write"} => n = 1
          PROVE  Started
      BY <3>1 DEF Start, Access, ahb
    <3>2. \A a \in Addr : InBlock(a, 1)
      BY DEF InBlock, Addr
    <3>3. CASE \E a \in Addr : Start("read", a, 1, NoData(1))
      BY <3>1, <3>2, <3>3 DEF Reads
    <3>4. CASE \E t \in Transfers : Start("readraw", t[1], t[2], NoData(t[2]))
      BY <3>1, <3>4 DEF Reads, TransfersInBlock
    <3>5. CASE \E a \in Addr, d \in [0..0 -> Words] : Start("write", a, 1, d)
      BY <3>1, <3>2, <3>5 DEF Writes
    <3>6. CASE \E t \in Transfers : \E d \in [0..t[2] - 1 -> Words] :
                 Start("writeraw", t[1], t[2], d)
      BY <3>1, <3>6 DEF Writes, TransfersInBlock
    <3> QED BY <1>a, <3>3, <3>4, <3>5, <3>6 DEF StartRead, StartWrite
  <2> QED BY <1>1, <2>1 DEF ParkedWhereExpected, ReplyIsOurs, OnCourse
<1>b. CASE Close
  BY <1>1, <1>b DEF Close, ahb, queue, ParkedWhereExpected, ReplyIsOurs, OnCourse
<1>c. CASE ResetJtag
  <2>1. shift'.reg = "NONE" /\ shift' = None
    BY <1>c, ShiftFields DEF ResetJtag
  <2> QED BY <1>1, <1>c, <2>1 DEF ResetJtag, GoOn, ParkedWhereExpected, ReplyIsOurs, OnCourse
<1>d. CASE SendCommand
  <2>1. shift' = Command(op.addr, TRUE) /\ shift'.reg = "ADDR"
    BY <1>d, ShiftFields DEF SendCommand
  <2> QED BY <1>1, <1>d, <2>1 DEF SendCommand, GoOn, ParkedWhereExpected, ReplyIsOurs, OnCourse
<1>e. CASE SelectData
  <2>1. cmd' = [addr |-> op.addr, write |-> TRUE]
    BY <1>e, UpdateCommand DEF SelectData, ParkedWhereExpected
  <2> QED BY <1>1, <1>2, <1>e, <2>1
        DEF SelectData, GoOn, ParkedWhereExpected, ReplyIsOurs, OnCourse
<1>f. CASE ShiftWord
  <2>1. cmd.write /\ cmd.addr = op.addr + i /\ cmd.addr \in Addr /\ op.kind = "writeraw"
    <3>1. op.kind # "write"
      BY <1>f, <1>2 DEF ShiftWord, OnCourse
    <3> QED BY <1>f, <3>1, ShiftFields DEF ShiftWord, ParkedWhereExpected, OnCourse, Writes
  <2>2. cmd' = [addr |-> SeqNext[cmd.addr], write |-> TRUE]
    BY <1>f, <2>1, UpdateWrite DEF ShiftWord, WordToWrite
  <2>3. SeqNext[cmd.addr] = op.addr + (i + 1) /\ SeqNext[cmd.addr] \in Addr
    BY <1>2, <1>f, <2>1 DEF ShiftWord, OnCourse, InBlock
  <2> QED BY <1>1, <1>f, <2>1, <2>2, <2>3 DEF ShiftWord, ParkedWhereExpected, ReplyIsOurs, OnCourse
<1>g. CASE ShiftLastWord
  <2>1. cmd.addr \in Addr /\ cmd' = cmd
    BY <1>g, ShiftFields DEF ShiftLastWord, ParkedWhereExpected, ahb
  <2>2. pc' = "idle" /\ op'.kind = "none"
    BY <1>g, ReturnType DEF ShiftLastWord
  <2> QED BY <1>1, <2>1, <2>2 DEF ParkedWhereExpected, ReplyIsOurs, OnCourse
<1>h. CASE ReadWord
  <2>1. cmd' = [addr |-> op.addr, write |-> FALSE] /\ mem' = mem /\ rdata' = AhbRead(op.addr)
    BY <1>h, UpdateCommand DEF ReadWord
  <2>2. op.addr + i = op.addr /\ rdata' = mem'[op.addr + i]
    BY <1>2, <1>h, <2>1 DEF ReadWord, OnCourse, AhbRead
  <2>3. Synced' => wire' = <<rdata'>>
    <3>1. wire' = Append(wire, rdata') /\ rx' = rx /\ pc' = "poll"
      BY <1>h DEF ReadWord, GoOn
    <3> QED BY <1>1, <3>1, SoleReply DEF TypeOK, Synced
  <2>4. pc = "command" /\ pc' = "poll" /\ op' = op /\ i' = i /\ shift' = Open /\ op.kind = "read"
    BY <1>h DEF ReadWord, GoOn
  <2>5. ParkedWhereExpected'
    BY <1>2, <2>1, <2>2, <2>4 DEF ParkedWhereExpected
  <2>6. OnCourse'
    BY <2>2, <2>4 DEF OnCourse, Reads
  <2> QED BY <1>1, <2>3, <2>5, <2>6 DEF ReplyIsOurs
<1>i. CASE OpenRead
  <2>1. cmd' = [addr |-> op.addr, write |-> FALSE] /\ mem' = mem /\ rdata' = AhbRead(op.addr)
    BY <1>i, UpdateCommand DEF OpenRead
  <2>2. op.addr + i = op.addr /\ rdata' = mem'[op.addr + i]
    BY <1>2, <1>i, <2>1 DEF OpenRead, OnCourse, AhbRead
  <2> QED BY <1>1, <1>2, <1>i, <2>1, <2>2
        DEF OpenRead, GoOn, ParkedWhereExpected, ReplyIsOurs, OnCourse
<1>j. CASE FetchWord
  <2>1. Synced' => wire' = <<rdata'>>
    <3>1. wire' = Append(wire, rdata) /\ rx' = rx /\ pc' = "poll" /\ rdata' = rdata
      BY <1>j DEF FetchWord, GoOn, ahb
    <3> QED BY <3>1, SoleReply DEF TypeOK, Synced
  <2> QED BY <1>1, <1>j, <2>1
        DEF FetchWord, GoOn, ahb, ParkedWhereExpected, ReplyIsOurs, OnCourse, Reads
<1>k. CASE PollQueue
  <2>1. Len(rx) \in Nat /\ Len(rx) > 0
    BY <1>k DEF PollQueue, TypeOK
  <2> QED BY <1>1, <1>k, <2>1
        DEF PollQueue, ahb, queue, ParkedWhereExpected, ReplyIsOurs, OnCourse, Synced
<1>l. CASE TakeReply
  <2>1. CASE op.kind = "read"
    <3>1. pc' = "idle" /\ op'.kind = "none"
      BY <1>l, <2>1, ReturnType DEF TakeReply
    <3> QED BY <1>1, <1>l, <3>1 DEF TakeReply, ahb, ParkedWhereExpected, ReplyIsOurs, OnCourse
  <2>2. CASE op.kind # "read"
    <3>1. op.kind = "readraw"
      BY <1>l, <2>2 DEF TakeReply, OnCourse, Reads
    <3> QED BY <1>1, <1>l, <2>2, <3>1
          DEF TakeReply, ahb, ParkedWhereExpected, ReplyIsOurs, OnCourse
  <2> QED BY <2>1, <2>2
<1>m. CASE NextWord
  <2>1. ~cmd.write /\ cmd.addr = op.addr + i /\ cmd.addr \in Addr
    BY <1>m, ShiftFields DEF NextWord, ParkedWhereExpected
  <2>2. cmd' = [addr |-> SeqNext[cmd.addr], write |-> FALSE]
        /\ mem' = mem /\ rdata' = mem[SeqNext[cmd.addr]]
    BY <1>m, <2>1, UpdateRead DEF NextWord
  <2>3. SeqNext[cmd.addr] \in Addr
    BY <2>1
  <2>4. CASE i + 1 < op.len
    <3>1. SeqNext[cmd.addr] = op.addr + (i + 1)
      BY <1>2, <1>m, <2>1, <2>4 DEF NextWord, OnCourse, InBlock
    <3> QED BY <1>1, <1>m, <2>2, <2>3, <2>4, <3>1
          DEF NextWord, ParkedWhereExpected, ReplyIsOurs, OnCourse
  <2>5. CASE ~(i + 1 < op.len)
    <3>1. pc' = "idle" /\ op'.kind = "none"
      BY <1>m, <2>5, ReturnType DEF NextWord
    <3> QED BY <1>1, <2>2, <2>3, <3>1 DEF ParkedWhereExpected, ReplyIsOurs, OnCourse
  <2> QED BY <2>4, <2>5
<1>n. CASE Failures
  BY <1>1, <1>n, FailuresLink
<1>o. CASE Deliver
  <2>1. UNCHANGED <<pc, op, i, polled, shift, cmd, mem, rdata>>
    BY <1>o DEF Deliver, host, ahb
  <2>2. Len(rx') = Len(rx) + 1 /\ Len(rx) \in Nat /\ Len(wire') = Len(wire) - 1
        /\ Len(wire) \in Nat /\ wire # <<>>
    BY <1>o DEF Deliver, TypeOK
  <2>3. ReplyIsOurs'
    <3> SUFFICES ASSUME pc \in {"poll", "take"}, Len(rx) + Len(wire) = 1
                 PROVE  rx' = <<rdata>>
      BY <2>1, <2>2 DEF ReplyIsOurs, Synced
    <3>1. rx = <<>> /\ Len(wire) = 1
      BY <2>2 DEF TypeOK
    <3>2. wire = <<rdata>>
      BY <3>1 DEF ReplyIsOurs, Synced
    <3> QED BY <1>o, <3>1, <3>2 DEF Deliver
  <2>4. ParkedWhereExpected'
    BY <2>1 DEF ParkedWhereExpected
  <2>5. OnCourse'
    BY <2>1, <2>2 DEF OnCourse
  <2> QED BY <1>1, <2>3, <2>4, <2>5
<1>p. CASE UNCHANGED vars
  BY <1>1, <1>p DEF vars, ParkedWhereExpected, ReplyIsOurs, OnCourse, Synced
<1> QED BY <1>a, <1>b, <1>c, <1>d, <1>e, <1>f, <1>g, <1>h, <1>i, <1>j, <1>k, <1>l,
           <1>m, <1>n, <1>o, <1>p DEF Next, WriteSteps, ReadSteps

(* The inductive invariant. *)
THEOREM LinkCorrect ==
  ASSUME TransfersInBlock
  PROVE  Spec => []LinkInv
<1>1. LinkInv /\ [Next]_vars => LinkInv'
  BY LinkStep
<1> QED BY <1>1, LinkInit, PTL DEF Spec

(* The TAP is parked where the next batch of the host expects it, and the  *)
(* address register holds the word the host is at, whatever has failed.    *)
THEOREM ParkedCorrect ==
  ASSUME TransfersInBlock
  PROVE  Spec => []ParkedWhereExpected
<1>1. LinkInv => ParkedWhereExpected
  BY DEF LinkInv
<1> QED BY <1>1, LinkCorrect, PTL

(* With the queue in step, the reply a read waits for is the word it asked *)
(* the bus for.                                                            *)
THEOREM ReplyCorrect ==
  ASSUME TransfersInBlock
  PROVE  Spec => []ReplyIsOurs
<1>1. LinkInv => ReplyIsOurs
  BY DEF LinkInv
<1> QED BY <1>1, LinkCorrect, PTL

(* In the middle of a transfer the word the host is at, the word on the    *)
(* bus and the progress of the call belong together.                       *)
THEOREM OnCourseCorrect ==
  ASSUME TransfersInBlock
  PROVE  Spec => []OnCourse
<1>1. LinkInv => OnCourse
  BY DEF LinkInv
<1> QED BY <1>1, LinkCorrect, PTL

-----------------------------------------------------------------------------
(* The refinement mapping, case by case *)

(* Outside the data phase the register counts only if it is a parked word. *)
LEMMA ViewIsMem ==
  (pc = "data" \/ shift.reg # "DATA" \/ ~cmd.write) => View = mem
BY DEF View

LEMMA ViewIsParked ==
  (pc # "data" /\ shift.reg = "DATA" /\ cmd.write) => View = [mem EXCEPT ![cmd.addr] = shift.data]
BY DEF View

LEMMA NoTodo == op.kind \notin Writes => Todo = Promise!Nothing
BY DEF Todo, Promise!Nothing

(* What a write call has still to write. *)
LEMMA TodoWrite ==
  ASSUME TypeOK, op.kind \in Writes
  PROVE  /\ DOMAIN Todo = {op.addr + j : j \in i..op.len - 1}
         /\ \A j \in i..op.len - 1 : op.addr + j \in DOMAIN Todo /\ Todo[op.addr + j] = op.data[j]
<1>1. op.addr \in Int /\ i \in Nat /\ op.len \in Nat
  BY SMTT(30) DEF TypeOK, Addr
<1>2. Todo = [a \in {op.addr + j : j \in i..op.len - 1} |-> op.data[a - op.addr]]
  BY DEF Todo
<1>3. ASSUME NEW j \in i..op.len - 1
      PROVE  op.addr + j \in {op.addr + k : k \in i..op.len - 1} /\ (op.addr + j) - op.addr = j
  BY <1>1
<1> QED BY <1>2, <1>3

(* A step that changes neither the view, nor the rest of the call, nor     *)
(* whether the queue is in step, is a stutter.                             *)
LEMMA Stutter ==
  ASSUME View' = View, Todo' = Todo, loaded' = loaded, Synced' = Synced
  PROVE  UNCHANGED Promise!amvars
BY DEF Promise!amvars

LEMMA TodoSame ==
  ASSUME UNCHANGED <<op, i>>
  PROVE  Todo' = Todo
BY DEF Todo

(* Handing over the parked word changes nothing a reader could tell. *)
LEMMA ResetKeepsView ==
  ASSUME LinkInv, pc # "data", pc' # "data", UpdateDR(shift), shift' = None
  PROVE  View' = View
<1> USE DEF LinkInv
<1>1. View' = mem'
  <2>1. shift'.reg # "DATA"
    BY ShiftFields
  <2> QED BY <2>1 DEF View
<1>2. CASE shift.reg = "DATA" /\ cmd.write
  <2>1. cmd.addr \in Addr
    BY <1>2 DEF ParkedWhereExpected
  <2>2. mem' = [mem EXCEPT ![cmd.addr] = shift.data]
    BY <1>2, <2>1 DEF UpdateDR
  <2> QED BY <1>1, <1>2, <2>2, ViewIsParked
<1>3. CASE ~(shift.reg = "DATA" /\ cmd.write)
  <2>1. mem' = mem
    BY <1>3 DEF UpdateDR, ahb
  <2> QED BY <1>1, <1>3, <2>1, ViewIsMem
<1> QED BY <1>2, <1>3

(* The queue is judged the same way from one place in the access to the    *)
(* next, as long as no reply comes or goes.                                *)
LEMMA SyncedSame ==
  ASSUME UNCHANGED queue, pc \notin {"poll", "take"}, pc' \notin {"poll", "take"}
  PROVE  Synced' = Synced
BY DEF Synced, queue

LEMMA ReadBatchSynced ==
  ASSUME TypeOK, pc \notin {"poll", "take"}, pc' = "poll", rx' = rx,
         NEW v \in Value, wire' = Append(wire, v)
  PROVE  Synced' = Synced
<1>1. Len(wire') = Len(wire) + 1 /\ Len(wire) \in Nat /\ Len(rx) \in Nat
  BY AppendProperties, LenProperties DEF TypeOK
<1>2. Synced' <=> Len(rx) + Len(wire) + 1 = 1
  BY <1>1 DEF Synced
<1>3. Len(rx) = 0 <=> rx = <<>>
  BY EmptySeq DEF TypeOK
<1>4. Len(wire) = 0 <=> wire = <<>>
  BY EmptySeq DEF TypeOK
<1>5. Synced <=> Len(rx) = 0 /\ Len(wire) = 0
  BY <1>3, <1>4 DEF Synced
<1>6. Synced' <=> Synced
  BY <1>1, <1>2, <1>5
<1> QED BY <1>6 DEF Synced

-----------------------------------------------------------------------------
(* Initial states *)

LEMMA RefinesInit == Init => Promise!Init
<1> SUFFICES ASSUME Init PROVE Promise!Init
  OBVIOUS
<1>1. pc = "idle" /\ shift.reg = "NONE" /\ op.kind = "none"
  BY ShiftFields, NoAccessType DEF Init
<1>2. View = mem
  BY <1>1, ViewIsMem
<1>3. Todo = Promise!Nothing
  BY <1>1, NoTodo DEF Writes
<1>4. Synced = TRUE
  BY <1>1 DEF Init, Synced
<1> QED BY <1>2, <1>3, <1>4 DEF Init, Promise!Init

-----------------------------------------------------------------------------
(* Calls *)

LEMMA StartViews ==
  ASSUME NEW k, NEW a, NEW n, NEW d, Start(k, a, n, d)
  PROVE  /\ View' = View /\ Synced' = Synced /\ loaded' = loaded
         /\ op'.kind = k /\ op'.addr = a /\ op'.len = n /\ op'.data = d /\ i' = 0
<1>1. View' = View
  BY DEF Start, View, ahb
<1>2. Synced' = Synced
  BY SyncedSame DEF Start
<1> QED BY <1>1, <1>2 DEF Start, Access

LEMMA RefinesStartRead ==
  ASSUME LinkInv, StartRead
  PROVE  UNCHANGED Promise!amvars
<1>1. PICK k, a, n, d : k \in Reads /\ Start(k, a, n, d)
  BY DEF StartRead, Reads
<1>2. op.kind = "none" /\ op'.kind = k
  BY <1>1, StartViews DEF LinkInv, OnCourse, Start
<1>3. Todo' = Todo
  BY <1>1, <1>2 DEF Todo, Reads, Writes
<1> QED BY <1>1, <1>3, StartViews, Stutter

LEMMA RefinesStartWrite ==
  ASSUME TransfersInBlock, LinkInv, StartWrite
  PROVE  \E T \in SUBSET Addr : \E f \in [T -> Words] : Promise!Call(f)
<1>1. PICK k, a, n, d :
        /\ k \in Writes /\ a \in Addr /\ n \in Nat \ {0} /\ d \in [0..n - 1 -> Words]
        /\ Start(k, a, n, d) /\ InBlock(a, n)
  <2>1. CASE \E a \in Addr, d \in [0..0 -> Words] : Start("write", a, 1, d)
    <3>1. PICK a \in Addr, d \in [0..1 - 1 -> Words] : Start("write", a, 1, d)
      BY <2>1
    <3>2. InBlock(a, 1)
      BY DEF InBlock, Addr
    <3>3. "write" \in Writes /\ 1 \in Nat \ {0}
      BY DEF Writes
    <3> QED BY <3>1, <3>2, <3>3
  <2>2. CASE \E t \in Transfers : \E d \in [0..t[2] - 1 -> Words] :
               Start("writeraw", t[1], t[2], d)
    <3>1. \A t \in Transfers : t[1] \in Addr /\ t[2] \in Nat \ {0} /\ InBlock(t[1], t[2])
      BY DEF TransfersInBlock
    <3>2. PICK t \in Transfers : \E d \in [0..t[2] - 1 -> Words] :
                 Start("writeraw", t[1], t[2], d)
      BY <2>2
    <3>3. "writeraw" \in Writes
      BY DEF Writes
    <3> QED BY <3>1, <3>2, <3>3
  <2> QED BY <2>1, <2>2 DEF StartWrite
<1>2. op'.kind = k /\ op'.addr = a /\ op'.len = n /\ op'.data = d /\ i' = 0
  BY <1>1, StartViews
<1> DEFINE T == {a + j : j \in 0..n - 1}
<1>3. T \in SUBSET Addr
  BY <1>1 DEF InBlock
<1>4. Todo' = [b \in T |-> d[b - a]]
  BY <1>1, <1>2 DEF Todo
<1>5. Todo' \in [T -> Words]
  <2>1. ASSUME NEW b \in T PROVE d[b - a] \in Words
    <3>1. PICK j \in 0..n - 1 : b = a + j
      OBVIOUS
    <3>2. a \in Int
      BY <1>1 DEF Addr
    <3>3. b - a = j
      BY <3>1, <3>2
    <3> QED BY <1>1, <3>3
  <2> QED BY <1>4, <2>1
<1>6. op.kind = "none"
  BY <1>1 DEF LinkInv, OnCourse, Start
<1>7. DOMAIN Todo = {}
  BY <1>6, NoTodo DEF Promise!Nothing, Writes
<1>8. Promise!Call(Todo')
  BY <1>1, <1>7, StartViews DEF Promise!Call
<1> QED BY <1>3, <1>5, <1>8

-----------------------------------------------------------------------------
(* Writes *)

(* In the data phase the TAP is open on the word the host is at. *)
LEMMA DataPlace ==
  ASSUME LinkInv, pc = "data"
  PROVE  /\ cmd.write /\ cmd.addr = op.addr + i /\ cmd.addr \in Addr /\ shift = Open
         /\ View = mem /\ op.kind \in Writes /\ op.addr + i \in DOMAIN Todo
         /\ Todo[op.addr + i] = op.data[i] /\ op.data[i] \in Words
<1> USE DEF LinkInv
<1>1. cmd.write /\ cmd.addr = op.addr + i /\ shift = Open /\ cmd.addr \in Addr
  BY ShiftFields DEF ParkedWhereExpected
<1>2. op.kind \in Writes
  BY DEF OnCourse
<1>3. i \in i..op.len - 1 /\ i \in 0..op.len - 1 /\ op.data[i] \in Words
  BY DEF TypeOK
<1> QED BY <1>1, <1>2, <1>3, TodoWrite, ViewIsMem

LEMMA RefinesShiftWord ==
  ASSUME LinkInv, ShiftWord
  PROVE  Promise!Store(op.addr + i)
<1> USE DEF LinkInv
<1>1. pc = "data" /\ pc' = "data" /\ op' = op /\ i' = i + 1
  BY DEF ShiftWord
<1>2. mem' = [mem EXCEPT ![op.addr + i] = op.data[i]]
  <2>1. (op.kind = "writeraw") \in BOOLEAN
    OBVIOUS
  <2> QED BY <1>1, DataPlace, UpdateWrite DEF ShiftWord, WordToWrite
<1>3. View' = [View EXCEPT ![op.addr + i] = Todo[op.addr + i]]
  <2>1. View' = mem'
    BY <1>1 DEF View
  <2> QED BY <1>1, <1>2, <2>1, DataPlace
<1>4. Todo' = [b \in DOMAIN Todo \ {op.addr + i} |-> Todo[b]]
  <2>1. op.addr \in Int /\ i \in Nat /\ op.len \in Nat
    BY SMTT(30) DEF TypeOK, Addr
  <2>2. Todo' = [a \in {op.addr + j : j \in i + 1..op.len - 1} |-> op.data[a - op.addr]]
    BY <1>1, DataPlace DEF Todo
  <2>3. Todo = [a \in {op.addr + j : j \in i..op.len - 1} |-> op.data[a - op.addr]]
    BY <1>1, DataPlace DEF Todo
  <2>4. {op.addr + j : j \in i + 1..op.len - 1}
          = {op.addr + j : j \in i..op.len - 1} \ {op.addr + i}
    BY <2>1
  <2> QED BY <2>2, <2>3, <2>4
<1>5. Synced' = Synced
  BY <1>1, SyncedSame DEF ShiftWord
<1> QED BY <1>1, <1>3, <1>4, <1>5, DataPlace DEF ShiftWord, Promise!Store

(* After a call nothing is left to write. *)
LEMMA ReturnTodo ==
  ASSUME Return
  PROVE  Todo' = Promise!Nothing
<1>1. op'.kind = "none"
  BY ReturnType
<1> QED BY <1>1 DEF Todo, Promise!Nothing, Writes

LEMMA RefinesShiftLastWord ==
  ASSUME LinkInv, ShiftLastWord
  PROVE  Promise!Store(op.addr + i)
<1> USE DEF LinkInv
<1>1. pc = "data" /\ pc' = "idle" /\ cmd' = cmd /\ mem' = mem /\ i = op.len - 1
  BY ReturnType DEF ShiftLastWord, ahb
<1>2. shift'.reg = "DATA" /\ shift'.data = op.data[i]
  BY ShiftFields DEF ShiftLastWord, WordToWrite
<1>3. View' = [View EXCEPT ![op.addr + i] = Todo[op.addr + i]]
  <2>1. View' = [mem' EXCEPT ![cmd'.addr] = shift'.data]
    BY <1>1, <1>2, DataPlace DEF View
  <2> QED BY <1>1, <1>2, <2>1, DataPlace
<1>4. Todo' = [b \in DOMAIN Todo \ {op.addr + i} |-> Todo[b]]
  <2>1. DOMAIN Todo = {op.addr + j : j \in i..i}
    BY <1>1, DataPlace, TodoWrite
  <2>2. DOMAIN Todo = {op.addr + i}
    <3>1. i \in Nat
      BY DEF TypeOK
    <3> QED BY <2>1, <3>1
  <2>3. Todo' = Promise!Nothing
    BY ReturnTodo DEF ShiftLastWord
  <2> QED BY <2>2, <2>3 DEF Promise!Nothing
<1>5. Synced' = Synced
  BY <1>1, SyncedSame DEF ShiftLastWord
<1> QED BY <1>1, <1>3, <1>4, <1>5, DataPlace DEF ShiftLastWord, Promise!Store

LEMMA ViewType == TypeOK => View \in [Addr -> Value]
<1> SUFFICES ASSUME TypeOK PROVE View \in [Addr -> Value]
  OBVIOUS
<1>1. mem \in [Addr -> Value]
  BY DEF TypeOK
<1>2. shift.reg = "DATA" => shift.data \in Value
  BY DEF TypeOK, Shifts, None
<1> QED BY <1>1, <1>2 DEF View

(* What an aborted call leaves behind, read or write. *)
LEMMA AbortAbstract ==
  ASSUME Abort
  PROVE  /\ pc' = "idle" /\ Todo' = Promise!Nothing
         /\ loaded' = IF op.kind = "read" THEN <<op.addr, Zero>> ELSE loaded
BY ReturnTodo, ReturnType DEF Abort

(* Nothing was handed over, or only what was already in the view. *)
LEMMA NothingClocked ==
  ASSUME UNCHANGED <<shift, ahb>>, pc # "data", pc' = "idle"
  PROVE  View' = View
BY DEF View, ahb

LEMMA CommandCut ==
  ASSUME NEW w \in BOOLEAN, PartOfCommand(w), pc' = "idle", shift = None
  PROVE  View' = View
<1>1. mem' = mem
  BY DEF PartOfCommand, ahb
<1>2. shift.reg # "DATA"
  BY ShiftFields
<1>3. shift' = shift \/ \E a, b : shift' = Command(a, b)
  BY DEF PartOfCommand
<1>4. shift'.reg # "DATA"
  BY <1>2, <1>3, ShiftFields
<1> QED BY <1>1, <1>2, <1>4 DEF View

(* A failed write spoils at most the words it still had to write. *)
LEMMA FailWriteIf ==
  ASSUME TypeOK', Abort, op.kind \in Writes, UNCHANGED queue, pc \notin {"poll", "take"},
         \A a \in Addr : IF a \in DOMAIN Todo THEN View'[a] \in {View[a], Todo[a], Junk}
                                             ELSE View'[a] = View[a]
  PROVE  Promise!FailWrite
<1>1. View' \in [Addr -> Value]
  <2>1. (TypeOK => View \in [Addr -> Value])'
    BY ViewType, PTL
  <2> QED BY <2>1
<1>2. loaded' = loaded
  BY AbortAbstract DEF Writes
<1>3. Synced' = Synced
  BY AbortAbstract, SyncedSame
<1> QED BY <1>1, <1>2, <1>3, AbortAbstract DEF Promise!FailWrite, Promise!Value, Value

LEMMA RefinesWriteFailure ==
  ASSUME LinkInv, TypeOK', op.kind \in Writes,
         ResetFails \/ SendCommandFails \/ SelectDataFails \/ ShiftWordFails
  PROVE  Promise!FailWrite
<1> USE DEF LinkInv
<1>1. Abort /\ UNCHANGED queue /\ pc \notin {"poll", "take"} /\ pc' = "idle"
  BY AbortAbstract DEF ResetFails, SendCommandFails, SelectDataFails, ShiftWordFails
<1>2. View' = View => Promise!FailWrite
  BY <1>1, FailWriteIf
<1>3. View \in [Addr -> Value]
  BY ViewType
<1>a. CASE ResetFails
  <2>1. UNCHANGED <<shift, ahb>> => View' = View
    BY <1>a, <1>1, NothingClocked DEF ResetFails
  <2>2. UpdateDR(shift) /\ shift' = None => View' = View
    BY <1>a, <1>1, ResetKeepsView DEF ResetFails
  <2> QED BY <1>a, <1>2, <2>1, <2>2 DEF ResetFails
<1>b. CASE SendCommandFails
  <2>1. View' = View
    BY <1>b, <1>1, CommandCut DEF SendCommandFails, ParkedWhereExpected
  <2> QED BY <1>2, <2>1
<1>c. CASE SelectDataFails
  <2>1. shift = Command(op.addr, TRUE) /\ pc = "select" /\ i = 0
    BY <1>c DEF SelectDataFails, ParkedWhereExpected, OnCourse
  <2>2. View = mem
    BY <2>1, ShiftFields, ViewIsMem
  <2>3. CASE UNCHANGED <<shift, ahb>>
    BY <1>1, <1>2, <2>1, <2>3, NothingClocked
  <2>4. CASE UpdateDR(shift) /\ shift' \in {None, Open}
    <3>1. cmd'.write /\ cmd'.addr = op.addr /\ mem' = mem
      <4>1. UpdateDR(Command(op.addr, TRUE))
        BY <2>1, <2>4
      <4>2. cmd' = [addr |-> op.addr, write |-> TRUE] /\ mem' = mem
        BY <4>1, UpdateCommand
      <4> QED BY <4>2
    <3>2. CASE shift' = None
      <4>1. View' = View
        BY <2>2, <3>1, <3>2, ShiftFields DEF View
      <4> QED BY <1>2, <4>1
    <3>3. CASE shift' = Open
      <4>1. View' = [View EXCEPT ![op.addr] = Junk]
        BY <1>1, <2>2, <3>1, <3>3, ShiftFields DEF View
      <4>2. op.addr + 0 \in DOMAIN Todo /\ op.addr + 0 = op.addr
        <5>1. op.len \in Nat \ {0} /\ op.addr \in Addr
          BY DEF TypeOK
        <5>2. 0 \in i..op.len - 1
          BY <2>1, <5>1
        <5>3. op.addr \in Int
          BY <5>1 DEF Addr
        <5> QED BY <5>2, <5>3, TodoWrite
      <4>3. \A a \in Addr : IF a \in DOMAIN Todo THEN View'[a] \in {View[a], Todo[a], Junk}
                                                ELSE View'[a] = View[a]
        BY <1>3, <4>1, <4>2
      <4> QED BY <1>1, <4>3, FailWriteIf
    <3> QED BY <2>4, <3>2, <3>3
  <2> QED BY <1>c, <2>3, <2>4 DEF SelectDataFails
<1>d. CASE ShiftWordFails
  <2>1. pc = "data" /\ View = mem
    BY <1>d, DataPlace DEF ShiftWordFails
  <2> DEFINE a0 == op.addr + i
  <2>2. a0 \in DOMAIN Todo /\ Todo[a0] = op.data[i] /\ cmd.addr = a0 /\ cmd.write /\ shift = Open
    BY <2>1, DataPlace
  <2>3. ASSUME NEW v \in {op.data[i], Junk}, View' = [View EXCEPT ![a0] = v]
        PROVE  Promise!FailWrite
    <3>1. \A a \in Addr : IF a \in DOMAIN Todo THEN View'[a] \in {View[a], Todo[a], Junk}
                                              ELSE View'[a] = View[a]
      BY <1>3, <2>2, <2>3
    <3> QED BY <1>1, <3>1, FailWriteIf
  <2>4. CASE UNCHANGED <<shift, ahb>>
    <3>1. View' = [View EXCEPT ![a0] = Junk]
      <4>1. shift' = Open /\ cmd' = cmd /\ mem' = mem
        BY <2>2, <2>4 DEF ahb
      <4>2. shift'.reg = "DATA" /\ shift'.data = Junk
        BY <4>1, ShiftFields
      <4>3. View' = [mem' EXCEPT ![cmd'.addr] = shift'.data]
        BY <1>1, <2>2, <4>1, <4>2 DEF View
      <4> QED BY <2>1, <2>2, <4>1, <4>2, <4>3
    <3> QED BY <2>3, <3>1
  <2>5. CASE shift' \in {Data(op.data[i], FALSE), WordToWrite} /\ UNCHANGED ahb
    <3>0. \E s : shift' = Data(op.data[i], s)
      BY <2>5 DEF WordToWrite
    <3>1. shift'.reg = "DATA" /\ shift'.data = op.data[i]
      BY <3>0, ShiftFields
    <3>2. View' = [View EXCEPT ![a0] = op.data[i]]
      BY <1>1, <2>1, <2>2, <2>5, <3>1 DEF View, ahb
    <3> QED BY <2>3, <3>2
  <2>6. CASE i < op.len - 1 /\ UpdateDR(WordToWrite) /\ shift' = Open
    <3>1. op.kind = "writeraw"
      <4>1. op.kind # "write"
        BY <2>1, <2>6 DEF OnCourse, Busy, TypeOK
      <4> QED BY <4>1 DEF Writes
    <3>2. cmd.addr \in Addr
      BY <2>1, DataPlace
    <3>3. cmd' = [addr |-> SeqNext[a0], write |-> TRUE] /\ mem' = [mem EXCEPT ![a0] = op.data[i]]
      BY <2>2, <2>6, <3>1, <3>2, UpdateWrite DEF WordToWrite
    <3>4. SeqNext[a0] = op.addr + (i + 1) /\ i + 1 \in i..op.len - 1
      <4>1. InBlock(op.addr, op.len)
        BY <2>1 DEF OnCourse, Busy
      <4>2. i \in 0..op.len - 1 /\ op.addr \in Addr /\ op.len \in Nat
        BY DEF TypeOK
      <4>3. SeqNext[op.addr + i] = op.addr + i + 1
        BY <2>6, <4>1, <4>2 DEF InBlock, Addr
      <4>4. i < op.len - 1
        BY <2>6
      <4>5. op.addr \in Int
        BY <4>2 DEF Addr
      <4>6. i + 1 \in i..op.len - 1 /\ op.addr + i + 1 = op.addr + (i + 1)
        BY <4>2, <4>4, <4>5
      <4> QED BY <4>3, <4>6
    <3>5. SeqNext[a0] \in DOMAIN Todo
      BY <3>4, TodoWrite
    <3>6. View' = [[View EXCEPT ![a0] = op.data[i]] EXCEPT ![SeqNext[a0]] = Junk]
      BY <1>1, <2>1, <2>6, <3>3, ShiftFields DEF View
    <3>7. \A a \in Addr : IF a \in DOMAIN Todo THEN View'[a] \in {View[a], Todo[a], Junk}
                                              ELSE View'[a] = View[a]
      BY <1>3, <2>2, <3>5, <3>6
    <3> QED BY <1>1, <3>7, FailWriteIf
  <2> QED BY <1>d, <2>4, <2>5, <2>6 DEF ShiftWordFails
<1> QED BY <1>a, <1>b, <1>c, <1>d

-----------------------------------------------------------------------------
(* Reads *)

(* While a read is past its command, the view is the memory. *)
LEMMA ReadPlace ==
  ASSUME LinkInv, pc \in {"fetch", "poll", "take", "next"}
  PROVE  /\ View = mem /\ ~cmd.write /\ cmd.addr = op.addr + i /\ cmd.addr \in Addr
         /\ op.kind \in Reads /\ Todo = Promise!Nothing
<1>1. ~cmd.write /\ cmd.addr = op.addr + i /\ cmd.addr \in Addr /\ op.kind \in Reads
  BY ShiftFields DEF LinkInv, ParkedWhereExpected, OnCourse, Reads
<1> QED BY <1>1, ViewIsMem, NoTodo DEF Reads, Writes

(* A read command takes the host to the data register. *)
LEMMA ReadCommandView ==
  ASSUME LinkInv, pc = "command", pc' # "data", UpdateDR(Command(op.addr, FALSE))
  PROVE  View' = View
<1>1. shift.reg # "DATA"
  BY ShiftFields DEF LinkInv, ParkedWhereExpected
<1>2. cmd' = [addr |-> op.addr, write |-> FALSE] /\ mem' = mem
  BY UpdateCommand
<1> QED BY <1>1, <1>2 DEF View

LEMMA NextWordView ==
  ASSUME LinkInv, pc = "next", pc' # "data", UpdateDR(Data(Junk, TRUE))
  PROVE  View' = View
<1>1. cmd' = [addr |-> SeqNext[cmd.addr], write |-> FALSE] /\ mem' = mem
  BY ReadPlace, UpdateRead
<1> QED BY <1>1, ReadPlace DEF View

LEMMA RefinesReadWord ==
  ASSUME LinkInv, TypeOK', ReadWord
  PROVE  UNCHANGED Promise!amvars
<1>1. pc = "command" /\ pc' = "poll" /\ UNCHANGED <<op, i, loaded>>
  BY DEF ReadWord, GoOn
<1>2. View' = View
  BY <1>1, ReadCommandView DEF ReadWord
<1>3. Synced' = Synced
  <2>1. rdata' \in Value /\ TypeOK
    BY DEF TypeOK, LinkInv
  <2> QED BY <1>1, <2>1, ReadBatchSynced DEF ReadWord
<1> QED BY <1>1, <1>2, <1>3, TodoSame, Stutter

LEMMA RefinesFetchWord ==
  ASSUME LinkInv, FetchWord
  PROVE  UNCHANGED Promise!amvars
<1>1. pc = "fetch" /\ pc' = "poll" /\ UNCHANGED <<op, i, loaded, shift, ahb>>
  BY DEF FetchWord, GoOn
<1>2. View' = View
  BY <1>1 DEF View, ahb
<1>3. Synced' = Synced
  <2>1. rdata \in Value /\ TypeOK
    BY DEF TypeOK, LinkInv
  <2> QED BY <1>1, <2>1, ReadBatchSynced DEF FetchWord
<1> QED BY <1>1, <1>2, <1>3, TodoSame, Stutter

(* The value of a read is the word in the memory, if the queue is in step. *)
LEMMA RefinesTakeReply ==
  ASSUME LinkInv, TypeOK', TakeReply
  PROVE  Promise!Load(op.addr + i)
<1> USE DEF LinkInv
<1>1. pc = "take" /\ shift' = shift /\ ahb' = ahb /\ loaded' = <<op.addr + i, Head(rx)>>
  BY DEF TakeReply
<1>2. rx \in Seq(Value) /\ wire \in Seq(Value) /\ polled \in 1..Len(rx)
  BY <1>1 DEF TypeOK, OnCourse
<1>3. rx # <<>> /\ Len(rx) \in Nat /\ Len(rx) > 0 /\ Len(wire) \in Nat
  BY <1>2, EmptySeq, LenProperties
<1>4. Head(rx) \in Value
  BY <1>2, <1>3, HeadTailProperties
<1>5. Synced => Head(rx) = View[op.addr + i]
  <2> SUFFICES ASSUME Synced PROVE Head(rx) = mem[op.addr + i]
    BY <1>1, ReadPlace
  <2>1. Len(wire) = 0
    BY <1>1, <1>3 DEF Synced
  <2>2. wire # <<rdata>>
    BY <2>1
  <2>3. rx = <<rdata>>
    BY <1>1, <2>2 DEF ReplyIsOurs
  <2>4. rdata = mem[op.addr + i]
    BY <1>1 DEF OnCourse
  <2> QED BY <2>3, <2>4
<1>6. View' = View
  <2>1. pc' \in {"idle", "next"}
    BY ReturnType DEF TakeReply
  <2>2. ~cmd'.write /\ mem' = mem
    BY <1>1, ReadPlace DEF ahb
  <2> QED BY <1>1, <2>1, <2>2, ReadPlace DEF View
<1>7. Todo = Promise!Nothing /\ Todo' = Promise!Nothing
  <2>1. Todo = Promise!Nothing /\ op.kind \notin Writes
    BY <1>1, ReadPlace DEF Reads, Writes
  <2>2. CASE op.kind = "read"
    BY <2>1, <2>2, ReturnTodo DEF TakeReply
  <2>3. CASE op.kind # "read"
    BY <2>1, <2>3, TodoSame DEF TakeReply
  <2> QED BY <2>1, <2>2, <2>3
<1>8. Synced => Synced'
  <2> SUFFICES ASSUME Synced PROVE Synced'
    OBVIOUS
  <2>1. Len(rx) = 1 /\ Len(wire) = 0
    <3>1. Len(rx) + Len(wire) = 1
      BY <1>1 DEF Synced
    <3>2. \A m, n \in Nat : m > 0 /\ m + n = 1 => m = 1 /\ n = 0
      OBVIOUS
    <3> QED BY <1>3, <3>1, <3>2
  <2>2. wire = <<>> /\ polled = 1
    BY <1>2, <2>1, EmptySeq
  <2>3. rx' = SubSeq(rx, 2, 1) /\ wire' = wire
    BY <2>1, <2>2 DEF TakeReply
  <2>4. rx' = <<>>
    BY <2>3
  <2>5. pc' \in {"idle", "next"}
    BY ReturnType DEF TakeReply
  <2> QED BY <2>2, <2>3, <2>4, <2>5 DEF Synced
<1> QED BY <1>1, <1>4, <1>5, <1>6, <1>7, <1>8
        DEF Promise!Load, Promise!Value, Value, Promise!Nothing

(* A failed read answers zero or nothing, and leaves the memory alone. *)
LEMMA RefinesReadFailure ==
  ASSUME LinkInv, op.kind \notin Writes,
         \/ ResetFails \/ ReadCommandFails \/ FetchWordFails
         \/ PollFails \/ TakeFails \/ NextWordFails
  PROVE  Promise!FailRead(op.addr)
<1>1. Abort /\ pc' = "idle" /\ Todo' = Promise!Nothing /\ Todo = Promise!Nothing
  BY AbortAbstract, NoTodo
    DEF ResetFails, ReadCommandFails, FetchWordFails, PollFails, TakeFails, NextWordFails
<1>2. loaded' = loaded \/ \E z \in Words : loaded' = <<op.addr, z>>
  BY <1>1, AbortAbstract
<1>3. View' = View
  <2>1. CASE ResetFails
    <3>1. pc = "reset"
      BY <2>1 DEF ResetFails
    <3> QED BY <1>1, <2>1, <3>1, NothingClocked, ResetKeepsView DEF ResetFails
  <2>2. CASE ReadCommandFails
    <3>1. pc = "command" /\ shift = None
      BY <2>2 DEF ReadCommandFails, LinkInv, ParkedWhereExpected
    <3>2. PartOfCommand(FALSE) => View' = View
      BY <1>1, <3>1, CommandCut
    <3>3. UpdateDR(Command(op.addr, FALSE)) => View' = View
      BY <1>1, <3>1, ReadCommandView
    <3> QED BY <2>2, <3>2, <3>3 DEF ReadCommandFails
  <2>3. CASE FetchWordFails
    BY <1>1, <2>3, NothingClocked DEF FetchWordFails
  <2>4. CASE PollFails
    BY <1>1, <2>4, NothingClocked DEF PollFails
  <2>5. CASE TakeFails
    BY <1>1, <2>5, NothingClocked DEF TakeFails
  <2>6. CASE NextWordFails
    <3>1. pc = "next"
      BY <2>6 DEF NextWordFails
    <3> QED BY <1>1, <2>6, <3>1, NothingClocked, NextWordView DEF NextWordFails
  <2> QED BY <2>1, <2>2, <2>3, <2>4, <2>5, <2>6
<1> QED BY <1>1, <1>2, <1>3 DEF Promise!FailRead, Promise!Nothing

(* Deliver moves a reply and keeps how many there are. *)
LEMMA RefinesDeliver ==
  ASSUME TypeOK, Deliver
  PROVE  UNCHANGED Promise!amvars
<1>1. UNCHANGED <<pc, op, i, loaded, shift, cmd, mem>>
  BY DEF Deliver, host, ahb
<1>2. wire # <<>> /\ rx' = Append(rx, Head(wire)) /\ wire' = Tail(wire)
  BY DEF Deliver
<1>3. Len(rx') = Len(rx) + 1 /\ Len(wire') = Len(wire) - 1 /\ Len(rx) \in Nat /\ Len(wire) \in Nat
  BY <1>2 DEF TypeOK
<1>4. Synced' <=> Synced
  <2>1. CASE pc \in {"poll", "take"}
    BY <1>1, <1>3, <2>1 DEF Synced
  <2>2. CASE pc \notin {"poll", "take"}
    <3>1. rx' # <<>>
      BY <1>3
    <3> QED BY <1>1, <1>2, <2>2, <3>1 DEF Synced
  <2> QED BY <2>1, <2>2
<1>5. Synced' = Synced
  BY <1>4 DEF Synced
<1>6. View' = View
  BY <1>1 DEF View
<1> QED BY <1>1, <1>5, <1>6, TodoSame, Stutter

-----------------------------------------------------------------------------
(* Every step *)

(* Every step of an access is a step of the abstract memory or a stutter. *)
LEMMA RefinesNext ==
  ASSUME TransfersInBlock, LinkInv, TypeOK', [Next]_vars
  PROVE  [Promise!Next]_(Promise!amvars)
<1> USE DEF LinkInv
<1>1. op.addr \in Addr /\ i \in 0..op.len - 1 /\ (pc \in Busy => op.addr + i \in Addr)
  <2>1. op.addr \in Addr /\ i \in 0..op.len - 1
    BY DEF TypeOK
  <2>2. pc \in Busy => InBlock(op.addr, op.len)
    BY DEF OnCourse
  <2> QED BY <2>1, <2>2 DEF InBlock
<1>2. \A a \in Addr : Promise!Store(a) \/ Promise!Load(a) \/ Promise!FailRead(a) => Promise!Next
  BY DEF Promise!Next
<1>a. CASE StartRead
  BY <1>a, RefinesStartRead
<1>b. CASE StartWrite
  BY <1>b, RefinesStartWrite DEF Promise!Next
<1>c. CASE Close
  <2>1. pc = "idle" /\ pc' = "closed" /\ UNCHANGED <<op, i, shift, ahb, queue, loaded>>
    BY <1>c DEF Close
  <2>2. View' = View
    BY <2>1 DEF View, ahb
  <2> QED BY <2>1, <2>2, SyncedSame, TodoSame, Stutter
<1>d. CASE ResetJtag
  <2>1. pc = "reset" /\ pc' = "command" /\ UNCHANGED <<op, i, queue, loaded>>
    BY <1>d DEF ResetJtag, GoOn
  <2>2. View' = View
    BY <1>d, <2>1, ResetKeepsView DEF ResetJtag
  <2> QED BY <2>1, <2>2, SyncedSame, TodoSame, Stutter
<1>e. CASE SendCommand
  <2>1. pc = "command" /\ pc' = "select" /\ UNCHANGED <<op, i, ahb, queue, loaded>>
    BY <1>e DEF SendCommand, GoOn
  <2>2. shift.reg # "DATA" /\ shift'.reg # "DATA"
    BY <1>e, ShiftFields DEF SendCommand, ParkedWhereExpected
  <2>3. View' = View
    BY <2>1, <2>2 DEF View, ahb
  <2> QED BY <2>1, <2>3, SyncedSame, TodoSame, Stutter
<1>f. CASE SelectData
  <2>1. pc = "select" /\ pc' = "data" /\ UNCHANGED <<op, i, queue, loaded>>
    BY <1>f DEF SelectData, GoOn
  <2>2. shift = Command(op.addr, TRUE)
    BY <2>1 DEF ParkedWhereExpected
  <2>3. mem' = mem
    BY <1>f, <2>2, UpdateCommand DEF SelectData
  <2>4. View' = View
    BY <2>1, <2>2, <2>3, ShiftFields DEF View
  <2> QED BY <2>1, <2>4, SyncedSame, TodoSame, Stutter
<1>g. CASE ShiftWord
  BY <1>g, <1>1, <1>2, RefinesShiftWord DEF ShiftWord, Busy
<1>h. CASE ShiftLastWord
  BY <1>h, <1>1, <1>2, RefinesShiftLastWord DEF ShiftLastWord, Busy
<1>i. CASE ReadWord
  BY <1>i, RefinesReadWord
<1>j. CASE OpenRead
  <2>1. pc = "command" /\ pc' = "fetch" /\ UNCHANGED <<op, i, queue, loaded>>
    BY <1>j DEF OpenRead, GoOn
  <2>2. View' = View
    BY <1>j, <2>1, ReadCommandView DEF OpenRead
  <2> QED BY <2>1, <2>2, SyncedSame, TodoSame, Stutter
<1>k. CASE FetchWord
  BY <1>k, RefinesFetchWord
<1>l. CASE PollQueue
  <2>1. pc = "poll" /\ pc' = "take" /\ UNCHANGED <<op, i, shift, ahb, queue, loaded>>
    BY <1>l DEF PollQueue
  <2>2. View' = View
    BY <2>1 DEF View, ahb
  <2>3. Synced' = Synced
    BY <2>1 DEF Synced, queue
  <2> QED BY <2>1, <2>2, <2>3, TodoSame, Stutter
<1>m. CASE TakeReply
  BY <1>m, <1>1, <1>2, RefinesTakeReply DEF TakeReply, Busy
<1>n. CASE NextWord
  <2>1. pc = "next" /\ pc' \in {"fetch", "idle"} /\ UNCHANGED <<queue, loaded>>
    BY <1>n, ReturnType DEF NextWord
  <2>2. View' = View
    BY <1>n, <2>1, NextWordView DEF NextWord
  <2>3. Todo' = Todo
    <3>1. Todo = Promise!Nothing /\ op.kind \notin Writes
      BY <2>1, ReadPlace DEF Reads, Writes
    <3>2. op' = op \/ Return
      BY <1>n DEF NextWord
    <3>3. op' = op => Todo' = Promise!Nothing
      BY <3>1 DEF Todo, Promise!Nothing
    <3> QED BY <3>1, <3>2, <3>3, ReturnTodo
  <2> QED BY <2>1, <2>2, <2>3, SyncedSame, Stutter
<1>o. CASE Failures
  <2>1. CASE op.kind \in Writes
    <3>1. ResetFails \/ SendCommandFails \/ SelectDataFails \/ ShiftWordFails
      BY <1>o, <2>1 DEF Failures, ReadCommandFails, FetchWordFails, PollFails, TakeFails,
                        NextWordFails, OnCourse, Reads, Writes
    <3> QED BY <2>1, <3>1, RefinesWriteFailure DEF Promise!Next
  <2>2. CASE op.kind \notin Writes
    <3>1. \/ ResetFails \/ ReadCommandFails \/ FetchWordFails
          \/ PollFails \/ TakeFails \/ NextWordFails
      BY <1>o, <2>2 DEF Failures, SendCommandFails, SelectDataFails, ShiftWordFails, OnCourse
    <3> QED BY <1>1, <1>2, <2>2, <3>1, RefinesReadFailure
  <2> QED BY <2>1, <2>2
<1>p. CASE Deliver
  BY <1>p, RefinesDeliver
<1>q. CASE UNCHANGED vars
  BY <1>q DEF vars, View, Todo, Synced, Promise!amvars
<1> QED BY <1>a, <1>b, <1>c, <1>d, <1>e, <1>f, <1>g, <1>h, <1>i, <1>j, <1>k, <1>l,
           <1>m, <1>n, <1>o, <1>p, <1>q DEF Next, WriteSteps, ReadSteps

(* The I/O functions are reads and writes of a memory: what DebugMemory    *)
(* promises holds of every behaviour of the link, of any size, as long as  *)
(* the transfers stay inside their blocks.                                 *)
THEOREM LinkIsMemory ==
  ASSUME TransfersInBlock
  PROVE  Spec => ActsAsMemory
<1>1. LinkInv /\ LinkInv' /\ [Next]_vars => [Promise!Next]_(Promise!amvars)
  BY RefinesNext DEF LinkInv
<1> QED BY <1>1, RefinesInit, LinkCorrect, PTL DEF Spec, ActsAsMemory, Promise!Spec
=============================================================================
