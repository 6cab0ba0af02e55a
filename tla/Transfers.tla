------------------------------ MODULE Transfers ------------------------------
(***************************************************************************)
(* The console's commands on target memory: load, verify, wash, bdump,     *)
(* mem, memh, memb, wmem, wmemh and wmemb of uviemon_cli.c, down to the    *)
(* calls of the raw functions that ioread32_progress and                   *)
(* iowrite32_progress cut a buffer into.                                   *)
(*                                                                         *)
(* None of these functions returns a status: a call that fails leaves the  *)
(* caller's array as it was, or part of the memory unwritten, and the      *)
(* caller goes on.  Below a call is DebugMemory, which DebugLink           *)
(* implements: what is parked counts as written, and a read that fails may *)
(* leave its reply behind ("synced" is FALSE), so that reads after it, in  *)
(* the same command or in a later one, take it for theirs and succeed.     *)
(*                                                                         *)
(* Sizes are parameters.  Memory starts at the load address of programs.   *)
(***************************************************************************)
EXTENDS ByteLanes

CONSTANTS
  MemWords,    \* words of target memory
  ChunkWords,  \* 256: words of a raw call, and of a block of the debug link
  BufWords,    \* 1024: words of the file buffer
  Cutoff,      \* 64 KiB: bytes of a file that are skipped
  WordMod,     \* 2^16: range of the type WORD
  Words,       \* contents: sequences of four bytes
  Spoilt,      \* a content nobody asked for
  Late,        \* what an answer to an earlier read may hold
  Files,       \* files: size in bytes, and what follows the cut-off as words
  Addresses, Lengths,  \* what the user types
  MaxFaults,   \* bound: calls that fail in one behaviour
  MaxCommands  \* bound: commands of a session

Content == [1..4 -> 0..255]  \* of a word: its bytes

(* A buffer is a number of whole chunks and its number of words fits in a  *)
(* WORD.  A file that is not refused holds the words behind the cut-off.   *)
ASSUME SizesAssumption ==
  /\ MemWords \in Nat /\ Cutoff \in Nat /\ MaxFaults \in Nat
  /\ ChunkWords \in Nat \ {0} /\ BufWords \in Nat \ {0} /\ BufWords % ChunkWords = 0
  /\ WordMod \in Nat /\ BufWords < WordMod
ASSUME ContentsAssumption ==
  Words \subseteq Content /\ Spoilt \in Content /\ Late \subseteq Content
ASSUME FilesAssumption ==
  \A f \in Files :
    /\ f.size \in Nat
    /\ \A k \in 1..(f.size - Cutoff) \div 4 : f.word[k] \in Content
ASSUME InputsAssumption == Addresses \subseteq Nat /\ Lengths \subseteq Nat

VARIABLES
  mem,           \* target memory, word by word
  pc,            \* idle, fread, chunk (in a _progress function), item, crashed
  cmd,           \* the command and its arguments; kept when it has returned
  data,          \* the caller's array
  tempData,      \* that of ioread32_progress
  i,             \* loop variable
  at,            \* read_address, write_address, in words
  bytes_read, current_read, eof,
  error_found,
  shown,         \* what a command printed or put in a file, unit by unit
  synced,        \* DebugMemory: the reply queue is in step
  faults, commands,
  before, failed, behind \* history: memory before the command, a call of it
                         \* failed, it found the queue out of step

loop == <<i, at>>
file == <<bytes_read, current_read, eof, error_found>>
arrays == <<data, tempData>>
past == <<before, behind>>
vars == <<mem, pc, cmd, arrays, loop, file, shown, synced, faults, commands, past, failed>>

Unset == <<>>  \* an array element nobody has written
Index == 0..WordMod + ChunkWords
Fresh == [k \in Index |-> Unset]
NoFile == [size |-> 0, word |-> <<>>]
Cmd(fn, addr, len, word, f) == [fn |-> fn, addr |-> addr, len |-> len, word |-> word, file |-> f]

Init ==
  /\ \E w \in Words : mem = [a \in 0..MemWords - 1 |-> w]
  /\ pc = "idle" /\ cmd = Cmd("none", 0, 0, Spoilt, NoFile)
  /\ data = Fresh /\ tempData = Fresh /\ i = 0 /\ at = 0
  /\ bytes_read = 0 /\ current_read = 0 /\ eof = FALSE /\ error_found = FALSE
  /\ shown = <<>> /\ faults = 0 /\ commands = 0
  /\ synced = TRUE
  /\ before = mem /\ failed = FALSE /\ behind = FALSE

-----------------------------------------------------------------------------
(* The chunks of a buffer *)

(* The number of words of the buffer.  Sizes go through a parameter of     *)
(* type WORD.                                                              *)
Size ==
  CASE cmd.fn \in {"load", "verify"} -> current_read \div 4
    [] cmd.fn \in {"wash", "mem"} -> cmd.len % WordMod
    [] cmd.fn = "bdump" -> (cmd.len \div 4) % WordMod

(* Variant: no chunk for the remainder. *)
ChunksFloor(size) == size \div ChunkWords
Chunks(size) == (size + ChunkWords - 1) \div ChunkWords

(* Variant: the remainder counts as a full chunk. *)
ChunkSizeFull(k, size) == ChunkWords
ChunkSize(k, size) ==
  IF k = Chunks(size) - 1 /\ size % ChunkWords # 0 THEN size % ChunkWords ELSE ChunkWords

(* The word that the j-th of a sequential transfer from a goes to. *)
Burst(a, j) == (a \div ChunkWords) * ChunkWords + ((a + j) % ChunkWords)

InChunks == pc = "chunk" /\ i < Chunks(Size)
InChunk == 0..ChunkSize(i, Size) - 1
Target(j) == Burst(at + i * ChunkWords, j)
Writes == {"load", "wash"}

(* The word that goes to address a in this chunk, if one does. *)
For(a) == {j \in InChunk : Target(j) = a}
Sent(a) == LET j == CHOOSE j \in For(a) : TRUE
               word == data[i * ChunkWords + j]
           IN  IF word = Unset THEN Spoilt ELSE word

(* iowrite32raw.  If it fails some of its words may have kept their        *)
(* content, or be spoilt.                                                  *)
WriteChunk ==
  /\ InChunks /\ cmd.fn \in Writes
  /\ mem' = [a \in DOMAIN mem |-> IF For(a) # {} THEN Sent(a) ELSE mem[a]]
  /\ i' = i + 1
  /\ UNCHANGED <<pc, cmd, arrays, at, file, shown, synced, faults, commands, past, failed>>

WriteChunkFails ==
  /\ InChunks /\ cmd.fn \in Writes /\ faults < MaxFaults
  /\ \E fate \in [{a \in DOMAIN mem : For(a) # {}} -> {"kept", "stored", "spoilt"}] :
       mem' = [a \in DOMAIN mem |->
         IF a \notin DOMAIN fate \/ fate[a] = "kept" THEN mem[a]
         ELSE IF fate[a] = "stored" THEN Sent(a) ELSE Spoilt]
  /\ i' = i + 1
  /\ faults' = faults + 1 /\ failed' = TRUE
  /\ UNCHANGED <<pc, cmd, arrays, at, file, shown, synced, commands, past>>

(* The copy of tempData to the caller's array. *)
Copied(temp) ==
  [k \in Index |-> IF k - i * ChunkWords \in InChunk THEN temp[k - i * ChunkWords] ELSE data[k]]

(* The first n words as ioread32raw reads them: the answers to earlier     *)
(* reads come first, one for each word; when the last of them is taken     *)
(* with an answer of this call the queue is in step again.                 *)
Answers(n, late, old) ==
  [j \in Index |->
    IF j \notin InChunk \/ j >= n THEN tempData[j]
    ELSE IF j < late THEN old[j] ELSE mem[Target(j)]]

ReadChunk ==
  /\ InChunks /\ cmd.fn \notin Writes
  /\ LET n == ChunkSize(i, Size)
     IN  \E late \in 0..n, old \in [InChunk -> Late] :
           /\ late = 0 <=> synced
           /\ tempData' = Answers(n, late, old)
           /\ synced' \in IF late < n THEN {TRUE} ELSE BOOLEAN
  /\ data' = Copied(tempData')
  /\ i' = i + 1
  /\ UNCHANGED <<mem, pc, cmd, at, file, shown, faults, commands, past, failed>>

(* If it fails the words it has not read are copied as they are: those of  *)
(* the chunk before, or whatever the stack holds.                          *)
ReadChunkFails ==
  /\ InChunks /\ cmd.fn \notin Writes /\ faults < MaxFaults
  /\ \E n \in InChunk, stack \in Words : \E late \in 0..n, old \in [InChunk -> Late] :
       /\ n > 0 => (late = 0 <=> synced)
       /\ LET read == Answers(n, late, old)
          IN  tempData' = [j \in Index |->
                IF j \in InChunk /\ read[j] = Unset THEN stack ELSE read[j]]
  /\ synced' \in BOOLEAN
  /\ data' = Copied(tempData')
  /\ i' = i + 1
  /\ faults' = faults + 1 /\ failed' = TRUE
  /\ UNCHANGED <<mem, pc, cmd, at, file, shown, commands, past>>

Enter == pc' = "chunk" /\ i' = 0 /\ tempData' = Fresh
Done == pc = "chunk" /\ i >= Chunks(Size)

-----------------------------------------------------------------------------
(* load and verify *)

FileWord(k) == cmd.file.word[k + 1]

(* Variant: all that is left of the file. *)
TakeRest(rest) == rest
Take(rest) == IF rest < 4 * BufWords THEN rest ELSE 4 * BufWords

(* fread: the end of the file is noticed only by asking for more. *)
Fread ==
  /\ pc = "fread"
  /\ current_read' = Take(cmd.file.size - Cutoff - bytes_read)
  /\ eof' = (current_read' < 4 * BufWords)
  /\ data' = IF cmd.fn = "verify" THEN data
             ELSE [k \in Index |-> IF k < current_read' \div 4
                                    THEN FileWord(bytes_read \div 4 + k) ELSE data[k]]
  /\ Enter
  /\ UNCHANGED <<mem, cmd, at, bytes_read, error_found, shown, synced, faults, commands, past, failed>>

Differs ==
  /\ cmd.fn = "verify"
  /\ \E k \in 0..Size - 1 : data[k] # FileWord(bytes_read \div 4 + k)

(* The comparison of verify, and the places of the next block.  Variant:   *)
(* the address stays where the program begins.                             *)
AdvanceStays ==
  /\ error_found' = (error_found \/ Differs)
  /\ bytes_read' = bytes_read + current_read
  /\ UNCHANGED at
Advance ==
  /\ error_found' = (error_found \/ Differs)
  /\ bytes_read' = bytes_read + current_read
  /\ at' = at + Size

(* Variant: until as many bytes are read as the file has. *)
NextBlockToSize ==
  /\ Done /\ cmd.fn \in {"load", "verify"}
  /\ Advance
  /\ pc' = IF cmd.file.size = Cutoff THEN "crashed"
           ELSE IF bytes_read' >= cmd.file.size THEN "idle" ELSE "fread"
  /\ UNCHANGED <<mem, cmd, arrays, i, current_read, eof, shown, synced, faults, commands, past, failed>>

(* The line of progress divides by the number of bytes behind the cut-off, *)
(* which is zero for a file of just that size.                             *)
NextBlock ==
  /\ Done /\ cmd.fn \in {"load", "verify"}
  /\ Advance
  /\ pc' = IF cmd.file.size = Cutoff THEN "crashed" ELSE IF eof THEN "idle" ELSE "fread"
  /\ UNCHANGED <<mem, cmd, arrays, i, current_read, eof, shown, synced, faults, commands, past, failed>>

-----------------------------------------------------------------------------
(* The other commands *)


(* wash is done, mem prints its array, bdump puts it in a file: four bytes *)
(* for each one asked for.                                                 *)
Finish ==
  /\ Done /\ cmd.fn \in {"wash", "mem", "bdump"}
  /\ shown' = IF cmd.fn = "wash" THEN shown ELSE [k \in 1..cmd.len |-> data[k - 1]]
  /\ pc' = "idle"
  /\ UNCHANGED <<mem, cmd, arrays, loop, file, synced, faults, commands, past, failed>>

(* One access of memh or memb.  A failed read answers zero. *)
ItemAt == IF cmd.fn = "memh" THEN cmd.addr + 2 * i ELSE cmd.addr + i
Item(word) == IF cmd.fn = "memh" THEN In16(ItemAt, word) ELSE <<In8(ItemAt, word)>>
ItemAnswer ==
  IF synced THEN {mem[ItemAt \div 4]} ELSE Late
ReadItem ==
  /\ pc = "item" /\ cmd.fn \in {"memh", "memb"}
  /\ \/ /\ \E word \in ItemAnswer : shown' = Append(shown, Item(word))
        /\ synced' \in IF synced THEN {TRUE} ELSE BOOLEAN
        /\ UNCHANGED <<faults, failed>>
     \/ /\ faults < MaxFaults /\ faults' = faults + 1 /\ failed' = TRUE
        /\ shown' = Append(shown, Item(<<0, 0, 0, 0>>))
        /\ synced' \in BOOLEAN
  /\ i' = i + 1
  /\ pc' = IF i' = cmd.len THEN "idle" ELSE "item"
  /\ UNCHANGED <<mem, cmd, arrays, at, file, commands, past>>

(* wmem, wmemh, wmemb: the value is cut to the size. *)
Width ==
  CASE cmd.fn \in {"wmem", "mem"} -> 4
    [] cmd.fn \in {"wmemh", "memh"} -> 2
    [] cmd.fn \in {"wmemb", "memb"} -> 1
Out ==
  CASE cmd.fn = "wmem" -> Out32(cmd.word)
    [] cmd.fn = "wmemh" -> Out16(cmd.addr, SubSeq(cmd.word, 3, 4))
    [] cmd.fn = "wmemb" -> Out8(cmd.addr, cmd.word[4])
Put(out) == [mem EXCEPT ![cmd.addr \div 4] = AhbWrite(@, Width, cmd.addr, out)]
WriteItem ==
  /\ pc = "item" /\ cmd.fn \in {"wmem", "wmemh", "wmemb"}
  /\ \/ /\ mem' = Put(Out) /\ UNCHANGED <<faults, failed>>
     \/ /\ faults < MaxFaults /\ faults' = faults + 1 /\ failed' = TRUE
        /\ mem' \in {mem, Put(Out), Put(Spoilt)}
  /\ pc' = "idle"
  /\ UNCHANGED <<cmd, arrays, loop, file, shown, synced, commands, past>>

-----------------------------------------------------------------------------
(* The user *)

Command(c) ==
  /\ pc = "idle" /\ commands < MaxCommands
  /\ commands' = commands + 1
  /\ cmd' = c /\ shown' = <<>>
  /\ before' = mem /\ failed' = FALSE /\ behind' = ~synced
  /\ at' = c.addr \div 4
  /\ UNCHANGED <<mem, synced, faults>>

(* The inputs: accesses that lie in the memory of the model. *)
InMemory(addr, bytes) == addr + bytes <= 4 * MemWords

(* A file of less than the cut-off is refused. *)
cli_load ==
  /\ \E fn \in {"load", "verify"}, f \in Files :
       /\ Command(Cmd(fn, 0, 0, Spoilt, f))
       /\ pc' = IF f.size < Cutoff THEN "idle" ELSE "fread"
  /\ bytes_read' = 0 /\ current_read' = 0 /\ eof' = FALSE /\ error_found' = FALSE
  /\ data' = Fresh /\ UNCHANGED <<tempData, i>>

(* A size of zero is refused, after it has been cut to a WORD. *)
cli_washc ==
  /\ \E n \in Lengths, a \in Addresses, w \in Words :
       /\ InMemory(a, 4 * (n % WordMod))
       /\ Command(Cmd("wash", a, n, w, NoFile))
       /\ data' = [k \in Index |-> IF k < n % WordMod THEN w ELSE Unset]
       /\ IF n % WordMod = 0 THEN pc' = "idle" /\ UNCHANGED <<i, tempData>> ELSE Enter
  /\ UNCHANGED file

cli_memx ==
  /\ \E fn \in {"mem", "bdump", "memh", "memb"}, a \in Addresses, n \in Lengths :
       /\ n > 0
       /\ InMemory(a, CASE fn = "mem" -> 4 * (n % WordMod) [] fn = "memh" -> 2 * n [] OTHER -> n)
       /\ Command(Cmd(fn, a, n, Spoilt, NoFile))
       /\ IF fn \in {"mem", "bdump"} THEN Enter
          ELSE pc' = "item" /\ i' = 0 /\ UNCHANGED tempData
  /\ data' = Fresh
  /\ UNCHANGED file

cli_wmemx ==
  /\ \E fn \in {"wmem", "wmemh", "wmemb"}, a \in Addresses, w \in Words :
       Command(Cmd(fn, a, 0, w, NoFile))
  /\ pc' = "item"
  /\ UNCHANGED <<arrays, i, file>>

User == cli_load \/ cli_washc \/ cli_memx \/ cli_wmemx
Call == WriteChunk \/ WriteChunkFails \/ ReadChunk \/ ReadChunkFails \/ ReadItem \/ WriteItem
Step == Fread \/ NextBlock \/ Finish \/ Call
Next == User \/ Step

(* The host goes on with the command it is at; see AccessReturns. *)
Spec == Init /\ [][Next]_vars /\ WF_vars(Step)

-----------------------------------------------------------------------------
(* Properties *)

TypeOK ==
  /\ pc \in {"idle", "fread", "chunk", "item", "crashed"}
  /\ DOMAIN mem = 0..MemWords - 1
  /\ \A a \in DOMAIN mem : \A n \in 1..4 : mem[a][n] \in 0..255
  /\ pc = "chunk" => i \in 0..Chunks(Size)
  /\ current_read \in 0..4 * BufWords /\ (pc = "chunk" => Size < WordMod)
  /\ faults \in 0..MaxFaults

Byte(m, b) == m[b \div 4][(b % 4) + 1]
FileWords == (cmd.file.size - Cutoff) \div 4  \* whole words behind the cut-off

(* The bytes a command is asked to write, and with what. *)
Asked ==
  CASE cmd.fn = "load" -> 0..4 * FileWords - 1
    [] cmd.fn = "wash" -> LET a == cmd.addr - (cmd.addr % 4) IN a..a + 4 * cmd.len - 1
    [] cmd.fn \in {"wmem", "wmemh", "wmemb"} ->
         LET a == cmd.addr - (cmd.addr % Width) IN a..a + Width - 1
    [] OTHER -> {}
Wanted(b) ==
  CASE cmd.fn = "load" -> FileWord(b \div 4)[(b % 4) + 1]
    [] cmd.fn = "wash" -> cmd.word[(b % 4) + 1]
    [] OTHER -> cmd.word[4 - Width + (b % Width) + 1]

(* Lengths that a WORD holds, and transfers that do not go over the end of *)
(* a block of the debug link in the middle of a chunk.                     *)
Straight ==
  cmd.fn \in {"wash", "mem", "bdump"} =>
    LET words == IF cmd.fn = "bdump" THEN cmd.len \div 4 ELSE cmd.len
        first == (cmd.addr \div 4) % ChunkWords
    IN  words < WordMod /\ (first = 0 \/ first + words <= ChunkWords)

(* A command without a failed call has written what it was asked to write, *)
(* each byte at its address, and nothing else: chunks, remainders, blocks  *)
(* of the file and byte lanes together.                                    *)
WritesWhatWasAsked ==
  pc = "idle" /\ ~failed /\ Straight =>
    \A b \in 0..4 * MemWords - 1 :
      Byte(mem, b) = IF b \in Asked THEN Wanted(b) ELSE Byte(before, b)

(* At no time, whatever fails, is a byte changed that was not to be        *)
(* written.                                                                *)
NothingElse ==
  Straight => \A b \in 0..4 * MemWords - 1 : b \notin Asked => Byte(mem, b) = Byte(before, b)

(* No answer of an earlier command was waiting when this one began, and    *)
(* none of its calls failed.  Both are needed: a mem all of whose reads    *)
(* succeed shows other words if one of an earlier command has failed.      *)
Undisturbed == ~failed /\ ~behind

(* What an undisturbed mem, memh, memb or bdump shows is what the memory   *)
(* holds at the addresses it shows it for; a half-word at an odd address   *)
(* is the one that contains the byte.                                      *)
ReadsWhatIsThere ==
  pc = "idle" /\ Undisturbed /\ Straight =>
    CASE cmd.fn = "mem" -> shown = [k \in 1..cmd.len |-> mem[cmd.addr \div 4 + k - 1]]
      [] cmd.fn = "bdump" -> \A k \in 1..cmd.len \div 4 : shown[k] = mem[cmd.addr \div 4 + k - 1]
      [] cmd.fn \in {"memh", "memb"} ->
           shown = [k \in 1..cmd.len |->
             LET a == cmd.addr - (cmd.addr % Width) + Width * (k - 1)
             IN  [n \in 1..Width |-> Byte(mem, a + n - 1)]]
      [] OTHER -> TRUE

(* An undisturbed verify finds an error exactly if a whole word of the     *)
(* file is not in memory.                                                  *)
VerifyTruthful ==
  pc = "idle" /\ Undisturbed /\ cmd.fn = "verify" =>
    (error_found <=> \E k \in 0..FileWords - 1 : mem[k] # FileWord(k))

(* Every command comes back to the console, but for the division by zero.  *)
CommandReturns == pc # "idle" ~> pc = "idle" \/ cmd.file.size = Cutoff

(* "Verify a file written to the device memory": when verify says OK the   *)
(* words of the file are there.                                            *)
VerifyOk ==
  pc = "idle" /\ cmd.fn = "verify" /\ ~error_found =>
    \A k \in 0..FileWords - 1 : mem[k] = FileWord(k)
=============================================================================
