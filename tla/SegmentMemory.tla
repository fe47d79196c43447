---------------------------- MODULE SegmentMemory ----------------------------
(***************************************************************************)
(* The byte memory of the Go virtual machine: value kinds and their sizes, *)
(* encoded addresses, and the reads, writes, appends and truncations of a  *)
(* memory segment (cova/segment-memory.go, cova/types.go).                 *)
(*                                                                         *)
(* A segment is a sequence of bytes.  A byte has ByteBase values instead   *)
(* of 256, so that a four-byte word fits the integers of the model         *)
(* checker; every width in bytes, and the split of an address into one     *)
(* segment byte above three index bytes, is the one of the code.  The      *)
(* 16-bit and 64-bit kinds, which differ from the kinds kept here only in  *)
(* their width, are left out.                                              *)
(***************************************************************************)
EXTENDS Integers, Sequences

ByteBase == 16                          \* named bound: values of one byte
Byte == 0 .. ByteBase - 1
WordBase == 65536                       \* ByteBase ^ 4, values of four bytes
AddressIndexMask == 4095                \* ByteBase ^ 3 - 1, three index bytes

Kind == {"None", "Void", "Bool", "Uint8", "Int32", "Address"}

KindSize(kind) ==
  CASE kind \in {"Bool", "Uint8"}    -> 1
    [] kind \in {"Int32", "Address"} -> 4
    [] OTHER                         -> 0

-----------------------------------------------------------------------------
(* Little-endian encoding of a value in `size` bytes, and its inverse. *)

Encode(size, value) ==
  IF size = 1
    THEN << value % 16 >>
    ELSE << value % 16, (value \div 16) % 16,
            (value \div 256) % 16, (value \div 4096) % 16 >>

Decode(bytes) ==
  IF Len(bytes) = 1
    THEN bytes[1]
    ELSE bytes[1] + 16 * bytes[2] + 256 * bytes[3] + 4096 * bytes[4]

(* The signed reading of a four-byte word. *)
Signed(word) == IF word >= 32768 THEN word - WordBase ELSE word

-----------------------------------------------------------------------------
(* Addresses: the segment number in the top byte, the index below it. *)

Frame == 1
BSS == 2
Extern == 3
Const == 4
Data == 5
Stack == 6
Segment == 1 .. 8              \* 7 and 8 are reserved and always empty

MakeAddress(segment, index) ==
  (segment * (AddressIndexMask + 1)) + (index % (AddressIndexMask + 1))
AddressSegment(address) == address \div (AddressIndexMask + 1)
AddressIndex(address) == address % (AddressIndexMask + 1)

-----------------------------------------------------------------------------
(* A segment's bytes are offset 0, 1, ...; the sequence is indexed from 1. *)

InSegment(segment, offset, size) == offset + size <= Len(segment)

ReadBytes(segment, offset, size) ==
  SubSeq(segment, offset + 1, offset + size)

WriteBytes(segment, offset, bytes) ==
  [i \in 1 .. Len(segment) |->
     IF i \in offset + 1 .. offset + Len(bytes)
       THEN bytes[i - offset] ELSE segment[i]]

Zeroes(size) == [i \in 1 .. size |-> 0]

(* Truncate(s, n) removes the n topmost bytes, Top(s, n) returns them. *)
Truncate(segment, size) == SubSeq(segment, 1, Len(segment) - size)
Top(segment, size) ==
  SubSeq(segment, Len(segment) - size + 1, Len(segment))
=============================================================================
