---------------------------- MODULE DebugMemory ----------------------------
(***************************************************************************)
(* What the I/O functions of ftdi_device.h promise their callers: a memory *)
(* of words that iowrite* change and ioread* look up, one call at a time.  *)
(* Nothing here knows of JTAG, of registers or of a USB queue.  DebugLink  *)
(* implements this module: LinkIsMemory of DebugLinkProofs.                *)
(*                                                                         *)
(* A call that fails may spoil the words it still had to write, and        *)
(* touches no other word.  A load is only as good as the reply queue below *)
(* it: while that is out of step ("synced" is FALSE) the value of a load   *)
(* is not specified.  Only a read that fails gets it out of step.  The     *)
(* modules of what is built on the accesses (Transfers, DsuControl,        *)
(* Inspect) take over this promise, "synced" included.                     *)
(***************************************************************************)
CONSTANTS
  Addr,   \* word addresses
  Words,  \* contents a caller can ask for
  Junk    \* a content no caller asked for

VARIABLES
  memory,  \* what a read would return, word by word
  todo,    \* address -> word: what the call in progress has yet to write
  loaded,  \* address and value of the last load, <<>> before the first
  synced   \* the reply queue holds exactly what the host is waiting for

amvars == <<memory, todo, loaded, synced>>

Value == Words \cup {Junk}
Nothing == [a \in {} |-> Junk]

Init ==
  /\ memory \in [Addr -> Words]
  /\ todo = Nothing
  /\ loaded = <<>>
  /\ synced = TRUE

(* A write call starts; its arguments are a set of words and their values. *)
Call(f) ==
  /\ DOMAIN todo = {}
  /\ todo' = f
  /\ UNCHANGED <<memory, loaded, synced>>

(* One of them takes effect.  The call is over when all of them have. *)
Store(a) ==
  /\ a \in DOMAIN todo
  /\ memory' = [memory EXCEPT ![a] = todo[a]]
  /\ todo' = [b \in DOMAIN todo \ {a} |-> todo[b]]
  /\ UNCHANGED <<loaded, synced>>

(* A write call gives up: a word it still had to write may have kept its   *)
(* content, may have been written, or may be spoilt; no other is touched.  *)
FailWrite ==
  /\ memory' \in [Addr -> Value]
  /\ \A a \in Addr :
       IF a \in DOMAIN todo THEN memory'[a] \in {memory[a], todo[a], Junk}
                            ELSE memory'[a] = memory[a]
  /\ todo' = Nothing
  /\ UNCHANGED <<loaded, synced>>

(* A read returns; with the queue in step its value is the memory's, and   *)
(* the queue stays in step.                                                *)
Load(a) ==
  /\ DOMAIN todo = {}
  /\ \E v \in Value : loaded' = <<a, v>> /\ (synced => v = memory[a] /\ synced')
  /\ UNCHANGED <<memory, todo>>

(* A read fails: it answers zero or stores nothing, and writes nothing. *)
FailRead(a) ==
  /\ DOMAIN todo = {}
  /\ loaded' = loaded \/ \E z \in Words : loaded' = <<a, z>>
  /\ UNCHANGED <<memory, todo>>

Next ==
  \/ \E T \in SUBSET Addr : \E f \in [T -> Words] : Call(f)
  \/ \E a \in Addr : Store(a) \/ Load(a) \/ FailRead(a)
  \/ FailWrite

Spec == Init /\ [][Next]_amvars
=============================================================================
