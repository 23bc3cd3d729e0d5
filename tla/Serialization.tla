--------------------------- MODULE Serialization ---------------------------
(***************************************************************************)
(* The byte encoding ftllib's datastream gives the types the table layer   *)
(* stores (spec section 4.1): fixed-width integers little-endian, strings  *)
(* as a varint length then the bytes, structs field by field in            *)
(* declaration order, address and checksum256 as their raw bytes           *)
(* (address.hpp and base.hpp write them one byte at a time).  datastream,  *)
(* varint and name are not among the sources; the integer, string and      *)
(* struct cases follow the spec.                                           *)
(*                                                                         *)
(* A value of type "int" or "uint64" is a natural number, "address" a      *)
(* sequence of 20 bytes, "checksum256" one of 32, "string" a sequence of   *)
(* bytes, "key_st" a record [i, j] of ints and "value_st" a record [v] of  *)
(* a string: the member types of map_test's tables.                        *)
(***************************************************************************)
EXTENDS Naturals, Sequences

Types == {"int", "uint64", "address", "checksum256", "string", "key_st",
          "value_st"}

(* The n low bytes of v, least significant first.                         *)
RECURSIVE LE(_, _)
LE(v, n) == IF n = 0 THEN <<>> ELSE <<v % 256>> \o LE(v \div 256, n - 1)

RECURSIVE FromLE(_)
FromLE(b) == IF b = <<>> THEN 0 ELSE b[1] + 256 * FromLE(Tail(b))

(* Unsigned LEB128: seven bits per byte, the high bit set on every byte    *)
(* but the last.                                                           *)
RECURSIVE Varint(_)
Varint(n) == IF n < 128 THEN <<n>> ELSE <<(n % 128) + 128>> \o Varint(n \div 128)

(* operator<<(DataStream&, address): addr[0..19], one byte at a time.     *)
PackAddress(v) == [i \in 1..20 |-> v[i]]

Pack(type, v) ==
    CASE type = "int"         -> LE(v, 4)
      [] type = "uint64"      -> LE(v, 8)
      [] type = "address"     -> PackAddress(v)
      [] type = "checksum256" -> v
      [] type = "string"      -> Varint(Len(v)) \o v
      [] type = "key_st"      -> LE(v.i, 4) \o LE(v.j, 4)
      [] type = "value_st"    -> Varint(Len(v.v)) \o v.v

PackSize(type, v) == Len(Pack(type, v))

(***************************************************************************)
(* Decoding reads from the front of a buffer and fails when the buffer     *)
(* ends before the value does; bytes after the value are not read.  A     *)
(* result is [ok, val, n] with n the bytes consumed.                       *)
(***************************************************************************)
Fail == [ok |-> FALSE, val |-> 0, n |-> 0]

Fixed(b, n) ==
    IF Len(b) < n THEN Fail ELSE [ok |-> TRUE, val |-> SubSeq(b, 1, n), n |-> n]

(* operator>>(DataStream&, address&): 20 single-byte reads.               *)
UnpackAddress(b) == Fixed(b, 20)

RECURSIVE FromVarint(_)
FromVarint(b) ==
    IF b = <<>> THEN Fail
    ELSE IF b[1] < 128 THEN [ok |-> TRUE, val |-> b[1], n |-> 1]
    ELSE LET r == FromVarint(Tail(b)) IN
         IF r.ok THEN [ok |-> TRUE, val |-> b[1] - 128 + 128 * r.val, n |-> r.n + 1]
                 ELSE Fail

UnpackString(b) ==
    LET l == FromVarint(b) IN
    IF l.ok /\ Len(b) >= l.n + l.val
       THEN [ok |-> TRUE, val |-> SubSeq(b, l.n + 1, l.n + l.val), n |-> l.n + l.val]
       ELSE Fail

Unpack(type, b) ==
    CASE type = "int" \/ type = "uint64" ->
            LET r == Fixed(b, IF type = "int" THEN 4 ELSE 8) IN
            [r EXCEPT !.val = IF r.ok THEN FromLE(r.val) ELSE 0]
      [] type = "address"     -> UnpackAddress(b)
      [] type = "checksum256" -> Fixed(b, 32)
      [] type = "string"      -> UnpackString(b)
      [] type = "key_st" ->
            IF Len(b) < 8 THEN Fail
            ELSE [ok |-> TRUE, n |-> 8,
                  val |-> [i |-> FromLE(SubSeq(b, 1, 4)), j |-> FromLE(SubSeq(b, 5, 8))]]
      [] type = "value_st" ->
            LET r == UnpackString(b) IN [r EXCEPT !.val = [v |-> r.val]]
=============================================================================
