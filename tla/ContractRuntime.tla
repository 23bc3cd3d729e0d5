--------------------------- MODULE ContractRuntime ---------------------------
(***************************************************************************)
(* One contract call at a time, as ftllib runs it: the apply entry that    *)
(* FTL_DISPATCH generates (dispatcher.hpp), execute_action, the table      *)
(* operations of map.hpp, the cross-contract call action<..>::call of      *)
(* action.hpp, and the host that runs the frames of a call chain and       *)
(* commits or discards their storage writes.  The handlers are those of   *)
(* the sample contracts addressbook and call.                              *)
(*                                                                         *)
(* The host is modelled from spec sections 4.5, 5 and 7: it serializes     *)
(* transactions, buffers a transaction's writes and commits them when the  *)
(* outermost frame returns, and aborts the whole chain on ftl_assert.  A   *)
(* buffer above max_stack_buffer_size (512 bytes) comes from malloc, which *)
(* aborts the call when the host refuses to grow memory; arguments in     *)
(* BigArgs are the ones whose packed form is that large.                   *)
(***************************************************************************)
EXTENDS Naturals, Sequences

CONSTANTS Users, Args, BigArgs, BogusActions, NoEntry, NoArgs, NoTx, NoResult

ASSUME BigArgs \subseteq Args

VARIABLES
    committed,  \* committed[o][k]: key k of table p of contract o
    working,    \* the same, as the running transaction sees it
    stack,      \* the frames of the running call chain, innermost last
    result,     \* the host's slot written by set_result, read by call_result
    last        \* the last transaction to end and its outcome

vars == <<committed, working, stack, result, last>>

Svc == INSTANCE AddressBookSpec WITH book <- committed

AB == Svc!AB
CL == Svc!CL
Addrs == Svc!Addrs

(* A frame: the contract whose code runs, the contract whose storage it    *)
(* uses, get_from_address(), the action identifier, the unpacked           *)
(* arguments, the program point, the handler's return value rt, the value  *)
(* a CALL wrote through its result pointer, and the request it serves.     *)
Pcs == {"apply", "read", "check", "put", "erase", "call", "callret",
        "result", "done"}

Frame == [code : Svc!Contracts, storage : Svc!Contracts, from : Addrs,
          act : Svc!Actions, args : Args \cup {NoArgs}, pc : Pcs,
          rt : Args \cup {NoResult}, got : Args \cup {NoResult},
          req : Svc!Requests]

Top == stack[Len(stack)]
SetTop(f) == stack' = [stack EXCEPT ![Len(stack)] = f]

(* Buffers above 512 bytes: the action data read in execute_action, the    *)
(* value put packs, the payload and the result of a CALL, the result       *)
(* execute_action packs.                                                   *)
IsBig(v) == v \in BigArgs
NeedsMalloc(f) ==
    \/ f.pc \in {"read", "put", "call"} /\ IsBig(f.args)
    \/ f.pc = "callret" /\ IsBig(result)
    \/ f.pc = "result" /\ IsBig(f.rt)

(* The host aborts the whole chain: nothing it wrote is committed.         *)
AbortTx ==
    /\ stack' = <<>>
    /\ working' = committed
    /\ last' = [req |-> stack[1].req, outcome |-> "abort"]
    /\ UNCHANGED <<committed, result>>

Init ==
    /\ committed = [o \in Addrs |-> [k \in Addrs |-> NoEntry]]
    /\ working = committed
    /\ stack = <<>>
    /\ result = NoResult
    /\ last = NoTx

(* The host starts a transaction: apply(action) of contract c runs in a    *)
(* fresh frame, get_from_address() is the sender.  Senders name one of the *)
(* contract's actions or one of BogusActions.                              *)
Submit(r) ==
    /\ stack = <<>>
    /\ r.act \in Svc!Handlers[r.contract] \cup BogusActions
    /\ stack' = <<[code |-> r.contract, storage |-> r.contract, from |-> r.user,
                   act |-> r.act, args |-> r.args, pc |-> "apply",
                   rt |-> NoResult, got |-> NoResult, req |-> r]>>
    /\ UNCHANGED <<committed, working, result, last>>

(* apply: switch (action) over the FTL_DISPATCH list; an identifier with   *)
(* no case falls out of the switch and apply returns.                      *)
Apply ==
    /\ stack # <<>> /\ Top.pc = "apply"
    /\ SetTop([Top EXCEPT !.pc = IF Top.act \in Svc!Handlers[Top.code]
                                   THEN "read" ELSE "done"])
    /\ UNCHANGED <<committed, working, result, last>>

(* execute_action: read_action_data into a buffer when size > 0 (the      *)
(* buffer stays nullptr for an empty payload), unpack the argument tuple   *)
(* with ds >> args, construct the contract object and enter the handler.  *)
(* datastream is not among the sources: its read fails, and the call       *)
(* aborts, when the buffer ends before the tuple does (spec section 4.1);  *)
(* bytes after the tuple are not read.                                     *)
Entry(a) ==
    CASE a \in {"insert", "modify", "erase"} -> "check"
      [] OTHER -> "call"

Unpacked(a, p) == IF Svc!ArgsOf(a) = {NoArgs} THEN NoArgs ELSE p

(* Mutant form: the stream reads nothing past its end and leaves the tuple *)
(* default-constructed.                                                     *)
ReadArgsDefault ==
    /\ stack # <<>> /\ Top.pc = "read"
    /\ SetTop([Top EXCEPT !.pc = Entry(Top.act), !.args = Unpacked(Top.act, Top.args)])
    /\ UNCHANGED <<committed, working, result, last>>

ReadArgs ==
    /\ stack # <<>> /\ Top.pc = "read"
    /\ IF Svc!Decodes(Top.act, Top.args)
          THEN /\ SetTop([Top EXCEPT !.pc = Entry(Top.act),
                                     !.args = Unpacked(Top.act, Top.args)])
               /\ UNCHANGED <<committed, working, result, last>>
          ELSE AbortTx

(* addressbook: check(!t.has_key(addr), "already exist") in insert,        *)
(* check(t.has_key(addr), "not exist") in modify and erase, where addr is  *)
(* get_from_address().                                                     *)
HasKey(f) == working[f.storage][f.from] # NoEntry

CheckKey ==
    /\ stack # <<>> /\ Top.pc = "check"
    /\ IF HasKey(Top) = (Top.act # "insert")
          THEN /\ SetTop([Top EXCEPT !.pc = IF Top.act = "erase"
                                                THEN "erase" ELSE "put"])
               /\ UNCHANGED <<committed, working, result, last>>
          ELSE AbortTx

(* Mutant form: db_store issued before the value is packed into the      *)
(* buffer, so the stored bytes are the uninitialized rt.                   *)
PutBeforePack ==
    /\ stack # <<>> /\ Top.pc = "put"
    /\ working' = [working EXCEPT ![Top.storage][Top.from] = Top.rt]
    /\ SetTop([Top EXCEPT !.pc = "result", !.rt = Top.args])
    /\ UNCHANGED <<committed, result, last>>

(* t.put(addr, p): pack the value, MapKey(addr) (20 bytes, within the 32   *)
(* byte limit), db_store; insert returns first_name, modify the person.    *)
Put ==
    /\ stack # <<>> /\ Top.pc = "put"
    /\ working' = [working EXCEPT ![Top.storage][Top.from] = Top.args]
    /\ SetTop([Top EXCEPT !.pc = "result", !.rt = Top.args])
    /\ UNCHANGED <<committed, result, last>>

(* t.erase(addr): db_remove_key; erase returns void.                       *)
Erase ==
    /\ stack # <<>> /\ Top.pc = "erase"
    /\ working' = [working EXCEPT ![Top.storage][Top.from] = NoEntry]
    /\ SetTop([Top EXCEPT !.pc = "done"])
    /\ UNCHANGED <<committed, result, last>>

(* The call contract's handlers: CALL(&ret, addressbook, "insert", ...)    *)
(* in test1, DELEGATE_CALL(...) in test2, CALL(&p, ..., "modify", ...) in   *)
(* test3, CALL_NOARGS(NULL, ..., "erase", ...) in test4.  The flags are    *)
(* (storage_delegate, user_delegate).                                      *)
Target(a) == CASE a \in {"test1", "test2"} -> "insert"
               [] a = "test3" -> "modify"
               [] a = "test4" -> "erase"
Flags(a) == IF a = "test2" THEN <<1, 0>> ELSE <<0, 0>>

(* action<..>::call: pack the action name and the arguments, call_action.  *)
(* The host runs the callee in a new frame: in the caller's storage when   *)
(* storage_delegate is set, with the caller's sender as get_from_address() *)
(* when user_delegate is set, and with the calling contract otherwise.     *)
CallAction ==
    /\ stack # <<>> /\ Top.pc = "call"
    /\ LET f == Top
           fl == Flags(f.act)
       IN stack' = Append([stack EXCEPT ![Len(stack)].pc = "callret"],
                     [code |-> AB,
                      storage |-> IF fl[1] = 1 THEN f.storage ELSE AB,
                      from |-> IF fl[2] = 1 THEN f.from ELSE f.storage,
                      act |-> Target(f.act),
                      args |-> IF Target(f.act) = "erase" THEN NoArgs ELSE f.args,
                      pc |-> "apply", rt |-> NoResult, got |-> NoResult,
                      req |-> f.req])
    /\ result' = NoResult
    /\ UNCHANGED <<committed, working, last>>

(* Back in action<T>::call: if call_result(NULL, 0) > 0, fetch *)
(* and unpack into *result; action<void>::call reads nothing.  *)
CallReturn ==
    /\ stack # <<>> /\ Top.pc = "callret"
    /\ SetTop([Top EXCEPT !.pc = "done",
                          !.got = IF Target(Top.act) # "erase" /\ result # NoResult
                                     THEN result ELSE Top.got])
    /\ UNCHANGED <<committed, working, result, last>>

(* Mutant form: set_result skipped, as a wrong result_size test would.      *)
SetResultSkipped ==
    /\ stack # <<>> /\ Top.pc = "result"
    /\ SetTop([Top EXCEPT !.pc = "done"])
    /\ UNCHANGED <<committed, working, result, last>>

(* execute_action for a non-void handler: pack rt, set_result.            *)
SetResult ==
    /\ stack # <<>> /\ Top.pc = "result"
    /\ result' = Top.rt
    /\ SetTop([Top EXCEPT !.pc = "done"])
    /\ UNCHANGED <<committed, working, last>>

(* apply returns.  The host resumes the caller, or, for the outermost      *)
(* frame, commits the transaction.                                         *)
Return ==
    /\ stack # <<>> /\ Top.pc = "done"
    /\ stack' = SubSeq(stack, 1, Len(stack) - 1)
    /\ IF Len(stack) = 1
          THEN /\ committed' = working
               /\ last' = [req |-> stack[1].req, outcome |-> "commit"]
          ELSE UNCHANGED <<committed, last>>
    /\ UNCHANGED <<working, result>>

(* malloc of a buffer above 512 bytes finds the host refusing to grow      *)
(* memory: ftl::check fails and the call aborts.                           *)
MallocFails ==
    /\ stack # <<>> /\ NeedsMalloc(Top)
    /\ AbortTx

(* The steps of a running call chain, as opposed to the host starting one. *)
Run ==
    \/ Apply \/ ReadArgs \/ CheckKey \/ Put \/ Erase
    \/ CallAction \/ CallReturn \/ SetResult \/ Return
    \/ MallocFails

Next ==
    \/ \E r \in Svc!Requests : Submit(r)
    \/ Run

Spec == Init /\ [][Next]_vars

(***************************************************************************)
(* Properties                                                              *)
(***************************************************************************)

TypeOK ==
    /\ committed \in [Addrs -> [Addrs -> Args \cup {NoEntry}]]
    /\ working \in [Addrs -> [Addrs -> Args \cup {NoEntry}]]
    /\ Len(stack) <= 2
    /\ \A i \in DOMAIN stack : stack[i] \in Frame
    /\ result \in Args \cup {NoResult}

(* Every transaction, seen at the moments it commits or aborts, is one     *)
(* step of AddressBookSpec: a committed transaction named a declared       *)
(* action, passed that handler's key check and wrote exactly its effect    *)
(* into the right contract's storage; an aborted one, whether it failed a  *)
(* check in the callee or a malloc anywhere in the chain, wrote nothing.   *)
AddressBookRefined == Svc!Spec

(* A caller of CALL that has passed its call statement holds, in the      *)
(* variable it gave as result, what the callee's handler returned: insert  *)
(* and modify return their arguments' first_name and person, which the     *)
(* caller prints.  The value goes through execute_action's set_result and   *)
(* call_result; were call_result to report 0 bytes, *result would keep the  *)
(* caller's initial value (action.hpp:74).                                  *)
CallerGetsResult ==
    \A i \in DOMAIN stack :
        LET f == stack[i] IN
        f.code = CL /\ f.pc = "done" /\ Target(f.act) # "erase" => f.got = f.args

=============================================================================
