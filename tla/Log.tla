-------------------------------- MODULE Log --------------------------------
(***************************************************************************)
(* ftl::log and ftl::log_hash (log.hpp) over the bump allocator of        *)
(* malloc.cpp.  log(name, data, args...) packs data into a buffer, hashes  *)
(* name and then each arg with log_hash, reports data and the hashes to    *)
(* the host with log_0, log_1 or log_2, and frees what it used.  Every     *)
(* buffer above max_stack_buffer_size comes from malloc, the others from   *)
(* alloca; every checksum256 comes from malloc.                            *)
(*                                                                         *)
(* A call is the packed size of its name, of its data and of each arg.     *)
(* A pointer is [where, ptr]: "heap" with the address malloc returned, or  *)
(* "stack" for an alloca buffer.                                           *)
(***************************************************************************)
EXTENDS Integers, Sequences, SequencesExt

CONSTANTS
    Width, PageSize, MaxPages, InitPages, HeapBases, Sizes, Counts, Aligns,
    MaxAllocs,          \* the allocator's constants (BumpAllocator)
    StackMax,           \* max_stack_buffer_size (512)
    HashSize,           \* sizeof(checksum256) (32)
    HashAlign,          \* alignof(checksum256): __attribute__((aligned (16)))
    Calls               \* the log calls handlers make

VARIABLES
    heap, last_ptr, next_page, memory, status, blocks,  \* the allocator
    pc,         \* the step of log() the call is at
    call,       \* the running log call
    arg,        \* the value log_hash is hashing: 0 the name, i the i-th arg
    buf,        \* log's data buffer
    hbuf,       \* log_hash's buffer
    hashes,     \* hash_name, then hash_list[0 ..]
    freed,      \* every pointer passed to free
    emitted     \* what the last log_k received: the data buffer and hashes

alloc == <<heap, last_ptr, next_page, memory, status, blocks>>
vars == <<alloc, pc, call, arg, buf, hbuf, hashes, freed, emitted>>

A == INSTANCE BumpAllocator

Stack == [where |-> "stack", ptr |-> 0]
Heap(p) == [where |-> "heap", ptr |-> p]

(* max_stack_buffer_size < size ? malloc(size) : alloca(size), the        *)
(* pointer it yields, and the allocator's step (none for alloca).          *)
BufferPtr(size) == IF StackMax < size THEN Heap(last_ptr) ELSE Stack
Buffer(size) ==
    IF StackMax < size THEN A!Allocate(size, 8, size, 0) ELSE UNCHANGED alloc

(* The packed size of the value log_hash hashes at arg.                    *)
HashedSize(c, i) == IF i = 0 THEN c.name ELSE c.params[i]

Running == status = "running"

Init ==
    /\ A!Init
    /\ pc = "idle" /\ call = (CHOOSE c \in Calls : TRUE) /\ arg = 0
    /\ buf = Stack /\ hbuf = Stack /\ hashes = <<>> /\ freed = {}
    /\ emitted = <<>>

(* A handler calls log(name, data, args...), first or after another log   *)
(* in the same call.                                                       *)
Start(c) ==
    /\ Running /\ pc \in {"idle", "done"}
    /\ call' = c /\ pc' = "data" /\ arg' = 0 /\ hashes' = <<>>
    /\ UNCHANGED <<alloc, buf, hbuf, freed, emitted>>

(* size = pack_size(data); buffer; ds << data.                             *)
Data ==
    /\ Running /\ pc = "data"
    /\ buf' = BufferPtr(call.data)
    /\ Buffer(call.data)
    /\ pc' = "hbuf" /\ arg' = 0
    /\ UNCHANGED <<call, hbuf, hashes, freed, emitted>>

(* log_hash(arg): size = pack_size(arg); buffer; ds << arg.               *)
HashBuf ==
    /\ Running /\ pc = "hbuf"
    /\ hbuf' = BufferPtr(HashedSize(call, arg))
    /\ Buffer(HashedSize(call, arg))
    /\ pc' = "hash"
    /\ UNCHANGED <<call, arg, buf, hashes, freed, emitted>>

(* Mutant form: log_hash frees the hash along with its buffer.            *)
HashFreeingHash ==
    /\ Running /\ pc = "hash"
    /\ A!Allocate(HashSize, 8, HashSize, 0)
    /\ hashes' = Append(hashes, Heap(last_ptr))
    /\ freed' = freed \cup {Heap(last_ptr)}
                      \cup (IF hbuf.where = "heap" THEN {hbuf} ELSE {})
    /\ arg' = arg + 1
    /\ pc' = IF arg < Len(call.params) THEN "hbuf" ELSE "emit"
    /\ UNCHANGED <<call, buf, hbuf, emitted>>

(* hash = malloc(sizeof(checksum256)) cast to checksum256; sha256(buffer, *)
(* size, hash); free(buffer) when it was malloc'ed; return hash.  Then the *)
(* next arg, or on to the report.                                          *)
Hash ==
    /\ Running /\ pc = "hash"
    /\ A!Allocate(HashSize, 8, HashSize, 0)
    /\ hashes' = Append(hashes, Heap(last_ptr))
    /\ freed' = freed \cup (IF hbuf.where = "heap" THEN {hbuf} ELSE {})
    /\ arg' = arg + 1
    /\ pc' = IF arg < Len(call.params) THEN "hbuf" ELSE "emit"
    /\ UNCHANGED <<call, buf, hbuf, emitted>>

(* Mutant form: the report made whatever the count.                       *)
EmitAll ==
    /\ Running /\ pc = "emit"
    /\ emitted' = <<buf>> \o hashes
    /\ pc' = "free"
    /\ UNCHANGED <<alloc, call, arg, buf, hbuf, hashes, freed>>

(* num == 0, 1 or 2: log_0, log_1 or log_2 with the data buffer and the    *)
(* hashes; any other count reports nothing.                                *)
Emit ==
    /\ Running /\ pc = "emit"
    /\ emitted' = IF Len(call.params) <= 2 THEN <<buf>> \o hashes ELSE <<>>
    /\ pc' = "free"
    /\ UNCHANGED <<alloc, call, arg, buf, hbuf, hashes, freed>>

(* free(buffer); free(hash_name); free(hash_list[i]) for each i.           *)
Release ==
    /\ Running /\ pc = "free"
    /\ freed' = freed \cup {buf} \cup Range(hashes)
    /\ pc' = "done"
    /\ UNCHANGED <<alloc, call, arg, buf, hbuf, hashes, emitted>>

(* The handler returns, or the call has aborted; the next call runs in a   *)
(* fresh instance.                                                         *)
NextCall ==
    /\ pc = "done" \/ ~Running
    /\ A!NextCall
    /\ pc' = "idle" /\ arg' = 0 /\ buf' = Stack /\ hbuf' = Stack
    /\ hashes' = <<>> /\ freed' = {} /\ emitted' = <<>>
    /\ UNCHANGED call

Next ==
    \/ \E c \in Calls : Start(c)
    \/ Data \/ HashBuf \/ Hash \/ Emit \/ Release
    \/ NextCall

Spec == Init /\ [][Next]_vars

(***************************************************************************)
(* Properties                                                              *)
(***************************************************************************)

Ptr == {Stack} \cup {Heap(p) : p \in 0..(2^Width - 1)}

(* Types; what reaches the host fits the widest import, log_2: the data    *)
(* buffer, the name hash and two param hashes.                             *)
TypeOK ==
    /\ pc \in {"idle", "data", "hbuf", "hash", "emit", "free", "done"}
    /\ call \in Calls /\ arg \in 0..(Len(call.params) + 1)
    /\ buf \in Ptr /\ hbuf \in Ptr /\ hashes \in Seq(Ptr)
    /\ freed \subseteq Ptr /\ emitted \in Seq(Ptr) /\ Len(emitted) <= 4

(* What the host reads through log_k is intact: the data buffer and every  *)
(* hash it is given are distinct, no malloc'ed one has been freed (an      *)
(* alloca buffer lives in log's own frame), and each hash is a block of    *)
(* sizeof(checksum256) bytes inside granted memory.                        *)
EmitIntact ==
    pc = "free" =>
        /\ \A i, j \in DOMAIN emitted : i # j => emitted[i] # emitted[j]
        /\ \A i \in DOMAIN emitted :
              emitted[i].where = "heap" => emitted[i] \notin freed
        /\ \A i \in 2..Len(emitted) :
              emitted[i].ptr + HashSize <= memory * PageSize

(* Every checksum256 log hands to the host is aligned as its type demands: *)
(* spec section 3 has Hash256 16-byte aligned for the host transfer.       *)
HashAligned == \A i \in DOMAIN hashes : hashes[i].ptr % HashAlign = 0
=============================================================================
