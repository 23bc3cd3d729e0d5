--------------------------- MODULE AddressBookSpec ---------------------------
(***************************************************************************)
(* What one contract call promises, for the sample contracts addressbook   *)
(* (src/examples/samples/addressbook.cpp) and call                         *)
(* (src/examples/samples/call.cpp): a transaction names a contract, an     *)
(* action and its arguments, and either commits exactly the effect of that *)
(* action's handler on the persistent table "p", or aborts and changes     *)
(* nothing (spec sections 4.3, 4.5 and 7).  An action identifier that the  *)
(* contract does not declare aborts, and so does a payload too short for   *)
(* the handler's arguments.  Any transaction may abort, since the host may *)
(* refuse memory at any allocation.                                        *)
(***************************************************************************)
EXTENDS Naturals

CONSTANTS
    Users,          \* external accounts that submit transactions
    Args,           \* argument tuples (first_name, last_name, city)
    BogusActions,   \* action identifiers no contract declares
    NoEntry,        \* the value of an absent key
    NoArgs,         \* the empty argument tuple of erase and test4
    NoTx            \* no transaction has ended yet

AB == "addressbook"
CL == "call"
Contracts == {AB, CL}
Addrs == Users \cup Contracts

(* FTL_DISPATCH(addressbook, (insert)(modify)(erase)) and                  *)
(* FTL_DISPATCH(call, (test1)(test2)(test3)(test4)).                       *)
Handlers == [c \in Contracts |->
                IF c = AB THEN {"insert", "modify", "erase"}
                          ELSE {"test1", "test2", "test3", "test4"}]

Actions == Handlers[AB] \cup Handlers[CL] \cup BogusActions

(* The argument tuples an action's handler declares.                      *)
ArgsOf(a) == IF a \in {"erase", "test4"} THEN {NoArgs} ELSE Args

(* A sender may attach any payload: a packed argument tuple, or none.  A   *)
(* payload decodes into the handler's tuple when the handler takes no      *)
(* arguments (bytes after the tuple are not read) or the payload holds a   *)
(* whole tuple; an empty payload for a handler with arguments is shorter   *)
(* than the tuple, and decoding fails (spec section 4.1).                  *)
Payloads == Args \cup {NoArgs}

Decodes(a, p) == ArgsOf(a) = {NoArgs} \/ p # NoArgs

Requests == [user : Users, contract : Contracts, act : Actions, args : Payloads]

(* The table operation a handler performs: its kind, the contract whose    *)
(* storage it touches and the key (the "from" address).  The call         *)
(* contract's handlers reach addressbook's handlers through CALL           *)
(* (addressbook's storage, from = the call contract) and DELEGATE_CALL     *)
(* (the call contract's storage, from = the call contract).                *)
Op(r) ==
    CASE r.contract = AB -> [kind |-> r.act, owner |-> AB, key |-> r.user]
      [] r.act = "test1" -> [kind |-> "insert", owner |-> AB, key |-> CL]
      [] r.act = "test2" -> [kind |-> "insert", owner |-> CL, key |-> CL]
      [] r.act = "test3" -> [kind |-> "modify", owner |-> AB, key |-> CL]
      [] r.act = "test4" -> [kind |-> "erase",  owner |-> AB, key |-> CL]

VARIABLES
    book,   \* book[o][k]: the value of key k in table p of contract o
    last    \* the last transaction to end and its outcome

vars == <<book, last>>

Init ==
    /\ book = [o \in Addrs |-> [k \in Addrs |-> NoEntry]]
    /\ last = NoTx

(* insert checks that the key is absent, modify and erase that it is       *)
(* present.                                                                *)
Allowed(op) ==
    IF op.kind = "insert" THEN book[op.owner][op.key] = NoEntry
                          ELSE book[op.owner][op.key] # NoEntry

Commit(r) ==
    /\ r.act \in Handlers[r.contract]
    /\ Decodes(r.act, r.args)
    /\ Allowed(Op(r))
    /\ book' = [book EXCEPT ![Op(r).owner][Op(r).key] =
                   IF Op(r).kind = "erase" THEN NoEntry ELSE r.args]
    /\ last' = [req |-> r, outcome |-> "commit"]

Abort(r) ==
    /\ last' = [req |-> r, outcome |-> "abort"]
    /\ UNCHANGED book

Next == \E r \in Requests : Commit(r) \/ Abort(r)

Spec == Init /\ [][Next]_vars
=============================================================================
