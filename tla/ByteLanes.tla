------------------------------ MODULE ByteLanes ------------------------------
(***************************************************************************)
(* How ioread8, ioread16, iowrite8 and iowrite16 of ftdi_device.c place a  *)
(* byte or a half-word in the 32 bits that go through the data register.   *)
(*                                                                         *)
(* A word of the target is a sequence of its four bytes in the order of    *)
(* their addresses: the first is the most significant one (the LEON is     *)
(* big-endian).  The bytes of the MPSSE command go out least significant   *)
(* first, so a command's bytes are the reverse of a word.                  *)
(***************************************************************************)
EXTENDS Integers, Sequences

(* The data bytes of the command.  lsb is the low byte of the address.     *)
Out8(addr, data) ==
  LET lsb == addr % 256
  IN  [k \in 1..4 |-> IF k = 4 - (lsb % 4) THEN data ELSE 0]

Out16(addr, data) ==
  LET lsb == addr % 256
  IN  IF lsb % 4 \in {0, 1} THEN <<0, 0, data[2], data[1]>>
                            ELSE <<data[2], data[1], 0, 0>>

Out32(data) == [k \in 1..4 |-> data[5 - k]]

(* What ioread8 and ioread16 take of the word that ioread32 returns. *)
In8(addr, word) == LET lsb == addr % 256 IN word[(lsb % 4) + 1]

(* Variant: the second byte counts as one of the lower half. *)
In16ByFirst(addr, word) ==
  LET lsb == addr % 256
  IN  IF lsb % 4 = 0 THEN <<word[1], word[2]>> ELSE <<word[3], word[4]>>
In16(addr, word) ==
  LET lsb == addr % 256
  IN  IF lsb % 4 \in {0, 1} THEN <<word[1], word[2]>> ELSE <<word[3], word[4]>>

(* The bus: which bytes of the addressed word a write of a size concerns.  *)
(* Address bits below the size do not count.                               *)
Lanes(size, addr) ==
  CASE size = 1 -> {(addr % 4) + 1}
    [] size = 2 -> {(addr % 4) - (addr % 2) + 1, (addr % 4) - (addr % 2) + 2}
    [] size = 4 -> 1..4

AhbWrite(word, size, addr, out) ==
  [k \in 1..4 |-> IF k \in Lanes(size, addr) THEN out[5 - k] ELSE word[k]]
=============================================================================
