----------------------------- MODULE TableSpec -----------------------------
(***************************************************************************)
(* What the persistent table abstraction promises (spec sections 3, 4.4    *)
(* and 8).  A table's identity is its (name, key type, value type), so     *)
(* distinct tables hold independent typed maps.  Within a call, put(k, v)  *)
(* makes get(k) return v and has_key(k) true, erase(k) makes has_key(k)    *)
(* false, get on an absent key aborts, and any operation on a key whose    *)
(* packed form exceeds MAX_KEY_LENGTH bytes aborts.  An abort ends the     *)
(* call and discards its writes; a call that returns commits them.         *)
(***************************************************************************)
EXTENDS Naturals, Serialization

CONSTANTS
    Tables,         \* the table types a contract declares
    Decl,           \* Decl[t]: [name, kt, vt] of table type t
    Keys,           \* Keys[t]: the keys handlers use with t
    Vals,           \* Vals[t]: the values handlers put into t
    MAX_KEY_LENGTH, \* 32 in the code
    Absent,         \* no entry
    NoRet,          \* no operation has returned a value
    Aborted         \* the result of an operation that aborted the call

VARIABLES
    data,   \* data[t][k]: the committed entry of key k in table t
    cur,    \* the same as the running call sees it
    last    \* the last operation: [op, t, k, ret], or NoRet

vars == <<data, cur, last>>

Empty == [t \in Tables |-> [k \in Keys[t] |-> Absent]]

KeyFits(t, k) == PackSize(Decl[t].kt, k) <= MAX_KEY_LENGTH

Init ==
    /\ data = Empty
    /\ cur = Empty
    /\ last = NoRet

Done(op, t, k, r) == last' = [op |-> op, t |-> t, k |-> k, ret |-> r]

(* The call aborts during operation op on (t, k).                          *)
Fails(op, t, k) ==
    /\ cur' = data
    /\ Done(op, t, k, Aborted)
    /\ UNCHANGED data

Put(t, k, v) ==
    IF KeyFits(t, k)
       THEN /\ cur' = [cur EXCEPT ![t][k] = v]
            /\ Done("put", t, k, NoRet)
            /\ UNCHANGED data
       ELSE Fails("put", t, k)

Get(t, k) ==
    IF KeyFits(t, k) /\ cur[t][k] # Absent
       THEN Done("get", t, k, cur[t][k]) /\ UNCHANGED <<data, cur>>
       ELSE Fails("get", t, k)

HasKey(t, k) ==
    IF KeyFits(t, k)
       THEN Done("has_key", t, k, cur[t][k] # Absent) /\ UNCHANGED <<data, cur>>
       ELSE Fails("has_key", t, k)

Erase(t, k) ==
    IF KeyFits(t, k)
       THEN /\ cur' = [cur EXCEPT ![t][k] = Absent]
            /\ Done("erase", t, k, NoRet)
            /\ UNCHANGED data
       ELSE Fails("erase", t, k)

(* The handler returns and the call commits.                               *)
Commit ==
    /\ data' = cur
    /\ last' = NoRet
    /\ UNCHANGED cur

Next ==
    \/ \E t \in Tables : \E k \in Keys[t] :
          \/ \E v \in Vals[t] : Put(t, k, v)
          \/ Get(t, k) \/ HasKey(t, k) \/ Erase(t, k)
    \/ Commit

Spec == Init /\ [][Next]_vars
=============================================================================
