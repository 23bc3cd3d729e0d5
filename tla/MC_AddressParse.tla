--------------------------- MODULE MC_AddressParse ---------------------------
(* Inputs for AddressParse, with ADDR_LEN scaled down from 20.  Digits     *)
(* are ASCII codes: the hex digits at the ends of each range ('0' '9' 'a'  *)
(* 'f' 'A' 'F') and their neighbours outside it ('/' ':' '`' 'g' '@' 'G'). *)
EXTENDS AddressParse

MCDigits == {47, 48, 57, 58, 96, 97, 102, 103, 64, 65, 70, 71}

(* "0x" and up to 2 * ADDR_LEN digits: well-formed, short and odd-length.  *)
MCInputs == {<<48, 120>> \o b : b \in SeqOf(MCDigits, 2 * ADDR_LEN)}

(* "0x" and up to two digits more than an address holds.                   *)
MCLongInputs == {<<48, 120>> \o b : b \in SeqOf({48, 97}, 2 * ADDR_LEN + 2)}

(* Strings shorter than the "0x" the constructor skips.                    *)
MCShortInputs == SeqOf({48, 120}, 1)

MCGarbage == {<<0, 0>>}
MCJunk == {<<0, 0>>, <<97, 97, 0>>}
=============================================================================
