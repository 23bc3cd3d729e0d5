------------------------------- MODULE Table -------------------------------
(***************************************************************************)
(* ftl::table<TableName, KT, VT> and MapKey (map.hpp) over the host's raw  *)
(* key-value store.  The host stores bytes under (table, key bytes): the   *)
(* table is static_cast<uint64_t>(TableName), the key bytes are MapKey's   *)
(* packed key.  One operation is one step: a call is single-threaded and   *)
(* nothing else touches the store between its db_* imports.               *)
(*                                                                         *)
(* The host part (writes of a call kept in working until the handler       *)
(* returns, an abort restoring the committed store) is spec sections 4.5   *)
(* and 7.  Values here pack to at most 512 bytes, so every buffer is an    *)
(* alloca and no malloc can fail.                                          *)
(***************************************************************************)
EXTENDS Integers, Sequences, TLC, Serialization

CONSTANTS Tables, Decl, Keys, Vals, MAX_KEY_LENGTH, Absent, NoRet, Aborted, Garbled

VARIABLES
    committed,  \* the host store: (table name, key bytes) -> value bytes
    working,    \* the store as the running call sees it
    last        \* the last operation: [op, t, k, ret], or NoRet

vars == <<committed, working, last>>

Names == {Decl[t].name : t \in Tables}

(* table::validate_table_name, checked by a static_assert when the table   *)
(* type is instantiated: a name of at most 12 characters.                  *)
validate_table_name(n) == Len(n) < 13

ASSUME \A t \in Tables : validate_table_name(Decl[t].name)

(* Mutant forms of the definitions below, each a plausible slip in the     *)
(* code.                                                                   *)
MapKeyFitsStrict(t, k) == PackSize(Decl[t].kt, k) < MAX_KEY_LENGTH
MapKeyUnchecked(t, k) == TRUE
StoreKeyNoBytes(t, k) == <<Decl[t].name, <<>>>>

(* MapKey(T t): check(size <= MAX_KEY_LENGTH, ...) on pack_size(t).        *)
MapKeyFits(t, k) == PackSize(Decl[t].kt, k) <= MAX_KEY_LENGTH

(* The packed keys and values of each table, and how each table type      *)
(* decodes every value any table stores: constants, computed once.        *)
KeyBytes == [t \in Tables |-> [k \in Keys[t] |-> Pack(Decl[t].kt, k)]]
ValBytes == [t \in Tables |-> [v \in Vals[t] |-> Pack(Decl[t].vt, v)]]
Stored == UNION {{ValBytes[t][v] : v \in Vals[t]} : t \in Tables}
Decode == [t \in Tables |-> [b \in Stored |-> Unpack(Decl[t].vt, b)]]

(* The host key of an entry: the table's name and MapKey's bytes[0..len). *)
StoreKey(t, k) == <<Decl[t].name, KeyBytes[t][k]>>

(* db_load(table, key, nullptr, 0): the value's size, or -1 when absent.   *)
LoadSize(st, sk) == IF sk \in DOMAIN st THEN Len(st[sk]) ELSE -1

Init ==
    /\ committed = << >>
    /\ working = << >>
    /\ last = NoRet

Done(op, t, k, r) == last' = [op |-> op, t |-> t, k |-> k, ret |-> r]

(* check fails (ftl_assert): the host ends the call and drops its writes.  *)
Abort(op, t, k) ==
    /\ working' = committed
    /\ Done(op, t, k, Aborted)
    /\ UNCHANGED committed

(* put: pack the value into the buffer, MapKey(key), db_store.             *)
Put(t, k, v) ==
    IF MapKeyFits(t, k)
       THEN /\ working' = (StoreKey(t, k) :> ValBytes[t][v]) @@ working
            /\ Done("put", t, k, NoRet)
            /\ UNCHANGED committed
       ELSE Abort("put", t, k)

(* get: MapKey(key); size = db_load(.., nullptr, 0);                       *)
(* check(size >= 0); db_load into a size-byte buffer; ds >> obj, which     *)
(* fails when the bytes end before a VT does.                              *)
Get(t, k) ==
    LET sk   == StoreKey(t, k)
        size == LoadSize(working, sk)
        obj  == Decode[t][working[sk]]
    IN IF MapKeyFits(t, k) /\ size >= 0 /\ obj.ok
          THEN Done("get", t, k, obj.val) /\ UNCHANGED <<committed, working>>
          ELSE Abort("get", t, k)

(* has_key: db_has_key(table, MapKey(key)).                                *)
HasKey(t, k) ==
    IF MapKeyFits(t, k)
       THEN /\ Done("has_key", t, k, StoreKey(t, k) \in DOMAIN working)
            /\ UNCHANGED <<committed, working>>
       ELSE Abort("has_key", t, k)

(* erase: db_remove_key(table, MapKey(key)).                               *)
Erase(t, k) ==
    IF MapKeyFits(t, k)
       THEN /\ working' = [x \in DOMAIN working \ {StoreKey(t, k)} |-> working[x]]
            /\ Done("erase", t, k, NoRet)
            /\ UNCHANGED committed
       ELSE Abort("erase", t, k)

(* The handler returns: the host commits the call's writes.                *)
Return ==
    /\ committed' = working
    /\ last' = NoRet
    /\ UNCHANGED working

Next ==
    \/ \E t \in Tables : \E k \in Keys[t] :
          \/ \E v \in Vals[t] : Put(t, k, v)
          \/ Get(t, k) \/ HasKey(t, k) \/ Erase(t, k)
    \/ Return

Spec == Init /\ [][Next]_vars

(***************************************************************************)
(* Properties                                                              *)
(***************************************************************************)

(* The entries each table type sees: its keys' bytes under its name,       *)
(* decoded as its value type (Garbled when they do not decode).           *)
View(st) ==
    [t \in Tables |-> [k \in Keys[t] |->
        IF StoreKey(t, k) \in DOMAIN st
           THEN LET r == Decode[t][st[StoreKey(t, k)]]
                IN IF r.ok THEN r.val ELSE Garbled
           ELSE Absent]]

Abs == INSTANCE TableSpec WITH data <- View(committed), cur <- View(working)

(* Every key the host holds is the name of a declared table and at most    *)
(* MAX_KEY_LENGTH bytes, the size of MapKey's bytes array.                 *)
TypeOK ==
    /\ \A st \in {committed, working} :
          \A sk \in DOMAIN st : sk[1] \in Names /\ Len(sk[2]) <= MAX_KEY_LENGTH
    /\ last = NoRet \/ last.op \in {"put", "get", "has_key", "erase"}

(* The byte store implements the typed tables: every operation a handler   *)
(* performs through table<..> has the effect and result TableSpec gives    *)
(* it, with the typed value of every entry recovered from its bytes.       *)
TableRefined == Abs!Spec
=============================================================================
