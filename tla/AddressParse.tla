---------------------------- MODULE AddressParse ----------------------------
(***************************************************************************)
(* The textual constructor of ftl::address (address.hpp):                  *)
(* address(const char* s) skips two characters, zeroes the ADDR_LEN bytes  *)
(* and then, while the next two characters are both non-NUL, stores        *)
(* char2uint8(high) * 16 + char2uint8(low) into addr[i] and moves on.      *)
(*                                                                         *)
(* A character is its ASCII code; a string is the sequence of its codes    *)
(* without the terminator.  The loop reads memory, not the string: mem is  *)
(* the string, its NUL, and whatever lies behind it (Garbage, a choice of  *)
(* byte sequences, each ending in a NUL).  Reading behind the terminator   *)
(* and writing addr[i] for i >= ADDR_LEN are recorded, not prevented.      *)
(***************************************************************************)
EXTENDS Integers, Sequences, SequencesExt

CONSTANTS
    ADDR_LEN,   \* bytes of an address (20 in the code)
    Inputs,     \* the strings passed to address(const char*)
    Garbage     \* what memory may hold behind a string's terminator

NUL == 0

ASSUME /\ ADDR_LEN \in Nat \ {0}
       /\ \A s \in Inputs : \A k \in DOMAIN s : s[k] \in 1..127
       /\ \A g \in Garbage : Len(g) >= 2 /\ g[Len(g)] = NUL

VARIABLES
    s,      \* the argument string
    mem,    \* memory from s on: s, its NUL, then garbage
    p,      \* index into mem of the character p points to
    i,      \* the loop's byte index
    addr,   \* addr[0 .. ADDR_LEN - 1]
    wild,   \* indices i >= ADDR_LEN that addr[i] = ... has written
    oob,    \* whether the loop has read behind the terminator of s
    pc      \* "loop" while the constructor runs, "done" once it returns

vars == <<s, mem, p, i, addr, wild, oob, pc>>

(***************************************************************************)
(* Mutant forms of the definitions below, each a plausible slip in the     *)
(* code.                                                                   *)
(***************************************************************************)
Char2Uint8NoUpper(c) ==
    CASE c >= 48 /\ c <= 57  -> c - 48
      [] c >= 97 /\ c <= 102 -> c - 97 + 10
      [] OTHER               -> 0
Char2Uint8OpenRange(c) ==
    CASE c >= 48 /\ c <= 57  -> c - 48
      [] c >= 97             -> c - 97 + 10
      [] c >= 65 /\ c <= 70  -> c - 65 + 10
      [] OTHER               -> 0
BothNonNulHighOnly(q) == mem[q] # NUL
Step1(q) == q + 1
AddrNeqShort(x, y) == \E k \in 0..(ADDR_LEN - 2) : x[k] # y[k]

(* char2uint8: '0'..'9', 'a'..'f' and 'A'..'F' to their digit value,       *)
(* anything else to 0.                                                     *)
char2uint8(c) ==
    CASE c >= 48 /\ c <= 57  -> c - 48
      [] c >= 97 /\ c <= 102 -> c - 97 + 10
      [] c >= 65 /\ c <= 70  -> c - 65 + 10
      [] OTHER               -> 0

(* The loop condition *p != '\0' && *(p+1) != '\0'; *(p+1) is read only   *)
(* when *p is not NUL.                                                     *)
BothNonNul(q) == mem[q] # NUL /\ mem[q + 1] # NUL
ReadsOf(q) == IF mem[q] = NUL THEN {q} ELSE {q, q + 1}

(* p += 2.                                                                 *)
Advance(q) == q + 2

(* address::operator== and operator!=: the bytes compared in order, the   *)
(* first difference deciding.                                              *)
AddrEq(x, y) == \A k \in 0..(ADDR_LEN - 1) : x[k] = y[k]
AddrNeq(x, y) == \E k \in 0..(ADDR_LEN - 1) : x[k] # y[k]

(* The terminator of s is at index Len(s) + 1 of mem.                      *)
Behind(q) == q > Len(s) + 1

(* p = s + 2; i = 0; memset(addr, 0, ADDR_LEN).                            *)
Init ==
    /\ s \in Inputs
    /\ \E g \in Garbage : mem = s \o <<NUL>> \o g
    /\ p = 3
    /\ i = 0
    /\ addr = [k \in 0..(ADDR_LEN - 1) |-> 0]
    /\ wild = {}
    /\ oob = FALSE
    /\ pc = "loop"

(* One iteration: high and low from *p and *(p+1), addr[i] = high * 16 +   *)
(* low, i += 1, p += 2.  A store with i >= ADDR_LEN lands behind addr.     *)
Iterate ==
    /\ pc = "loop" /\ BothNonNul(p)
    /\ LET v == char2uint8(mem[p]) * 16 + char2uint8(mem[p + 1]) IN
          IF i < ADDR_LEN
             THEN addr' = [addr EXCEPT ![i] = v] /\ UNCHANGED wild
             ELSE wild' = wild \cup {i} /\ UNCHANGED addr
    /\ i' = i + 1
    /\ p' = Advance(p)
    /\ oob' = (oob \/ \E r \in ReadsOf(p) : Behind(r))
    /\ UNCHANGED <<s, mem, pc>>

(* The condition fails and the constructor returns.                        *)
Exit ==
    /\ pc = "loop" /\ ~BothNonNul(p)
    /\ pc' = "done"
    /\ oob' = (oob \/ \E r \in ReadsOf(p) : Behind(r))
    /\ UNCHANGED <<s, mem, p, i, addr, wild>>

Next == Iterate \/ Exit

Spec == Init /\ [][Next]_vars

(***************************************************************************)
(* Reference decoding                                                      *)
(***************************************************************************)
LowerHex == <<48, 49, 50, 51, 52, 53, 54, 55, 56, 57, 97, 98, 99, 100, 101, 102>>
UpperHex == <<48, 49, 50, 51, 52, 53, 54, 55, 56, 57, 65, 66, 67, 68, 69, 70>>
IsHexDigit(c) == c \in Range(LowerHex) \cup Range(UpperHex)
Nibble(c) == CHOOSE d \in 0..15 : LowerHex[d + 1] = c \/ UpperHex[d + 1] = c

(* The textual form of spec section 3: "0x" and 2 * ADDR_LEN hex digits,   *)
(* in either case.                                                         *)
WellFormed(str) ==
    /\ Len(str) = 2 + 2 * ADDR_LEN
    /\ str[1] = 48 /\ str[2] = 120
    /\ \A k \in 3..Len(str) : IsHexDigit(str[k])

Decoded(str) ==
    [k \in 0..(ADDR_LEN - 1) |-> 16 * Nibble(str[2 * k + 3]) + Nibble(str[2 * k + 4])]

(* The well-formed strings one digit away from str: each digit replaced by *)
(* each hex digit of either case.                                          *)
Variants(str) ==
    {[str EXCEPT ![k] = d] : k \in 3..Len(str), d \in Range(LowerHex) \cup Range(UpperHex)}

SameDigits(str, t) == \A k \in 3..Len(str) : Nibble(str[k]) = Nibble(t[k])

(***************************************************************************)
(* Properties                                                              *)
(***************************************************************************)

(* Types; a stored byte is high * 16 + low with both below 16, so it fits  *)
(* the uint8_t it is assigned to without truncation.                       *)
TypeOK ==
    /\ addr \in [0..(ADDR_LEN - 1) -> 0..255]
    /\ p \in 3..Len(mem) /\ i \in Nat /\ wild \subseteq Nat
    /\ oob \in BOOLEAN /\ pc \in {"loop", "done"}

(* Parsing "0x" followed by 2 * ADDR_LEN hex digits, of either case,       *)
(* yields the bytes those digits spell, so printing them gives the         *)
(* digits back (spec section 8).                                           *)
DecodesWellFormed ==
    pc = "done" /\ WellFormed(s) => addr = Decoded(s)

(* Address equality follows the textual form, case-insensitively: the     *)
(* parsed address is == to the address of every string that spells the    *)
(* same digits in another case, and != to that of every string with one    *)
(* digit changed (spec section 3: equality is byte-wise, the textual form  *)
(* case-insensitive).  It takes char2uint8, the loop and both comparison   *)
(* loops of address.hpp to agree.                                          *)
EqualIffSameDigits ==
    pc = "done" /\ WellFormed(s) =>
        \A t \in Variants(s) :
            /\ AddrEq(addr, Decoded(t)) = SameDigits(s, t)
            /\ AddrNeq(addr, Decoded(t)) = ~SameDigits(s, t)

(* The constructor never stores outside addr[0 .. ADDR_LEN - 1]: an        *)
(* address is always exactly ADDR_LEN bytes (spec section 3).              *)
WritesInBounds == wild = {}

(* The loop never reads behind the terminator of its argument.             *)
ReadsInBounds == ~oob
=============================================================================
