------------------------------ MODULE MapTest ------------------------------
(***************************************************************************)
(* The contract of map_test.cpp: handlers test1 .. test4, each a fixed     *)
(* sequence of table operations, run by the Table module's actions over    *)
(* the host store.  Calls come one after another (the host serializes      *)
(* them) and each sees what earlier calls committed.                       *)
(*                                                                         *)
(* An operation is [op, t, k, v].  get_from_address() is a choice from     *)
(* Froms, and sha256 of an address is the constant function Sha.           *)
(***************************************************************************)
EXTENDS Integers, Sequences

CONSTANTS
    Tables, Decl, Keys, Vals, MAX_KEY_LENGTH, Absent, NoRet, Aborted, Garbled,
    Handlers,   \* the handlers FTL_DISPATCH lists
    Froms,      \* the addresses get_from_address() may return
    Sha         \* Sha[a]: sha256 of the 20 bytes of address a

VARIABLES
    committed, working, last,   \* the host store and last result (Table)
    handler,    \* the running handler, or "none"
    from,       \* get_from_address() of the running call
    step,       \* the index of the handler's next operation
    printed     \* what the running handler has printed

vars == <<committed, working, last, handler, from, step, printed>>

T == INSTANCE Table

Put(t, k, v) == [op |-> "put", t |-> t, k |-> k, v |-> v]
Get(t, k) == [op |-> "get", t |-> t, k |-> k, v |-> 0]

Hello == <<104, 101, 108, 108, 111>>
Hi == <<104, 105>>

(* The bodies of test1 .. test4.  test4 sets key1.i = key1.j = 1 and       *)
(* key2.i = key2.j = 2.                                                    *)
Prog(h, f) ==
    CASE h = "test1" -> <<Put("table1", 1, 10), Put("table1", 2, 20), Get("table1", 1)>>
      [] h = "test2" -> <<Put("table2", 1, 10), Put("table2", 2, 20), Get("table2", 1)>>
      [] h = "test3" -> <<Put("table3", f, Sha[f]), Get("table3", f)>>
      [] h = "test4" -> <<Put("table4", [i |-> 1, j |-> 1], [v |-> Hello]),
                          Put("table4", [i |-> 2, j |-> 2], [v |-> Hi]),
                          Get("table4", [i |-> 2, j |-> 2])>>

(* print(t.get(1)), printhex(t.get(from).hash, 32), print(t.get(key2).v).  *)
Shown(t, val) == IF Decl[t].vt = "value_st" THEN val.v ELSE val

Init ==
    /\ T!Init
    /\ handler = "none" /\ from = CHOOSE f \in Froms : TRUE
    /\ step = 0 /\ printed = <<>>

(* apply(): FTL_DISPATCH selects a handler, which starts with a fresh       *)
(* table object.                                                           *)
Call(h, f) ==
    /\ handler = "none"
    /\ handler' = h /\ from' = f /\ step' = 1 /\ printed' = <<>>
    /\ UNCHANGED <<committed, working, last>>

(* The handler's next statement; a failed check ends the call.             *)
Op ==
    /\ handler # "none" /\ step <= Len(Prog(handler, from))
    /\ LET o == Prog(handler, from)[step] IN
          /\ \/ o.op = "put" /\ T!Put(o.t, o.k, o.v)
             \/ o.op = "get" /\ T!Get(o.t, o.k)
          /\ IF last'.ret = Aborted
                THEN handler' = "none" /\ UNCHANGED <<step, printed>>
                ELSE /\ step' = step + 1 /\ UNCHANGED handler
                     /\ printed' = IF o.op = "get"
                                      THEN Append(printed, Shown(o.t, last'.ret))
                                      ELSE printed
    /\ UNCHANGED from

(* The handler returns and the host commits its writes.                    *)
Return ==
    /\ handler # "none" /\ step > Len(Prog(handler, from))
    /\ T!Return
    /\ handler' = "none"
    /\ UNCHANGED <<from, step, printed>>

Next ==
    \/ \E h \in Handlers, f \in Froms : Call(h, f)
    \/ Op
    \/ Return

Spec == Init /\ [][Next]_vars

(***************************************************************************)
(* Properties                                                              *)
(***************************************************************************)

(* What each handler prints when it has run to its end: the value it put   *)
(* under the key it reads back.                                            *)
Expected(h, f) ==
    CASE h \in {"test1", "test2"} -> <<10>>
      [] h = "test3"              -> <<Sha[f]>>
      [] h = "test4"              -> <<Hi>>

(* map_test's handlers run as written, after any earlier calls: no         *)
(* operation aborts, and each get returns what the handler put under that  *)
(* key (spec section 8: put(1, 10), put(2, 20), get(1) returns 10), for    *)
(* int, uint64_t, address, checksum256 and struct keys and values.         *)
RunsAsWritten ==
    /\ last = NoRet \/ last.ret # Aborted
    /\ handler # "none" /\ step > Len(Prog(handler, from))
          => printed = Expected(handler, from)
=============================================================================
