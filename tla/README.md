# TLA+ models of ftllib (fractal-cdt)

The contract runtime in `src/libraries/ftllib` runs inside a WASM virtual machine, one call at a time. The host calls the contract's exported `apply(action)`. `apply` switches on the action identifier and runs `execute_action`. That function reads the packed arguments, constructs the contract object, runs the handler and packs its result. A handler reads and writes persistent tables (`map.hpp`). It can call other contracts (`action.hpp`), and it can abort through `check`. All buffers come from alloca or from a bump allocator (`malloc.cpp`). This directory holds TLA+ models of those parts, the TLC configurations that check them, and what the checks show.

## Inventory

| Component | Source | State | Operations | Interacts with |
|---|---|---|---|---|
| Bump allocator | `src/malloc.cpp` | `heap`, `last_ptr`, `next_page` (global `_dsmalloc`); the host's linear memory size | constructor; `operator()(sz, align_amt)`; `malloc`, `calloc`, `realloc`; `free` (no-op) | used by every buffer above 512 bytes; `GROW_MEMORY` goes to the host; failure goes to `check` → abort |
| Dispatch | `dispatcher.hpp` | none across calls; per call the argument buffer and the contract object | `apply` (switch over the `FTL_DISPATCH` list); `execute_action` (void and non-void) | host (`action_data_size`, `read_action_data`, `set_result`); allocator; handlers |
| Tables | `map.hpp` | none in the contract; the host store keyed by (table name, key bytes) | `put`, `get`, `has_key`, `erase`; `MapKey` (≤ 32 bytes, fatal otherwise) | host `db_*` imports; serialization; allocator |
| Cross-contract call | `action.hpp` | none; the host's call-result slot | `action<T>::call`, `action<void>::call`; flags for `CALL`, `DELEGATE_CALL`, `CONTRACT_CALL` | host `call_action` / `call_result`; the callee's `apply` |
| Checks | `check.hpp` | none | `check(pred, msg/code)` → `ftl_assert` | host abort: the whole call chain ends, with nothing committed |
| Address | `address.hpp` | 20 bytes | parse from `"0x…"`, `==`, `!=`, pack/unpack, `get_from/to/owner_address` | host imports |
| Logging | `log.hpp` | none | `log_hash`, `log` with 0–2 parameters | serialization; allocator; host `sha256`, `log_0/1/2` |
| Hashing, system | `crypto.hpp`, `system.hpp` | none | thin wrappers over host imports | host |
| Host imports | `base.hpp` | declarations only; the store, the result slot and the frames live in the host | | everything above |
| Sample contracts | `examples/samples/*.cpp`, `examples/test/*.cpp` | table `p` (addressbook), tables `t1..t4` (map_test) | `addressbook::insert/modify/erase`; `call::test1..4` calling addressbook through `CALL` / `DELEGATE_CALL` / `CALL_NOARGS` | runtime |
| FtlFixup pass | `tools/llvm/.../FtlFixup.cpp` | build time | inserts `__wasm_call_ctors` at `apply`'s entry and `__cxa_finalize` before each return | makes the allocator's constructor run at the start of every call |
| ABI generator, driver | `tools/fractal-tools/...` | build time | `translate_type` names each action argument's type; options, path lookup | the ABI that clients encode arguments by |

Serialization itself (`datastream.hpp`, `varint.hpp`, `name.hpp`) is included by ftllib, but it is not among the sources.

**What is hard.** There are no threads: a call runs to completion, and the host serializes calls. The difficulty lies elsewhere:

- **Abort anywhere in a chain.** A `check`, a missing key or a refused `GROW_MEMORY` can end a call after table writes have reached the host. The abort can also happen in the caller after a callee has written and returned. Nothing may be committed.
- **Address arithmetic.** `size_t` is 32 bits. `last_ptr + sz` and `next_page << 16` wrap. Alignment is applied to the end of a block, not to its start. `count * size` in `calloc` overflows, although nothing in the sources calls `calloc`.
- **The dispatch protocol.** The `switch` in `apply` has no `default`. The flag pairs of the three call modes select whose storage the callee uses and what `get_from_address()` returns. `call_result` of 0 bytes leaves the caller's result untouched.

**Properties that make each part correct.** Allocator: blocks are disjoint, lie inside granted memory, and are aligned as requested. Runtime: every transaction is atomic and does exactly what its handler says, or aborts; unknown actions abort; a caller receives its callee's result. Tables: `get` after `put` returns the value (map_test's handlers print what they put), `get` on an absent key aborts, and keys over 32 bytes abort. Address: parsing 40 hex digits and printing them round-trips, `==` and `!=` agree with the digits ignoring case, and no input writes outside the 20 bytes. Log: each hash is 16-byte aligned, and what the host reads is live. `log` also frees its `alloca` data buffer (`log.hpp:58`). `free` is a no-op in `malloc.cpp`, so this is listed as a hazard and not checked. ABI generator: two argument types with the same ABI name are encoded the same way.

## Modules

### `BumpAllocator` (`MC_BumpAllocator`)
This models `malloc.cpp`. The variables `heap`, `last_ptr` and `next_page` are the members of `dsmalloc`. `memory` is the host's page count. `status` records whether `check` has aborted. `blocks` lists every block returned in the current call: its start, size, requested size, alignment, contents and `realloc` source.

- `Init` is the constructor, with `__heap_base` taken from `HeapBases`. `NextCall` is the next call's fresh instance: FtlFixup runs the constructors at `apply`'s entry.
- `Allocate` is `operator()`. Its arithmetic is `Bump`, built from `AlignUp` and `PageAddr`. All of it is computed modulo `2^Width`, as in 32-bit `size_t`.
- `Malloc`, `Calloc` and `Realloc` are the C entry points. `Free` changes nothing in the allocator. `Write` is the caller storing data into a block it holds.

`calloc` multiplies `count * size` in `size_t` without an overflow check. `realloc` returns a fresh block without copying. No code in the sources calls either, and the spec's allocator interface is `allocate(size, alignment)` alone. Both are listed as hazards, and a block's `req`, `data` and `src` fields keep what would show them, but no run checks them.

Bounds: `Width = 8`, `PageSize = 32` and `MaxPages = 8`. This makes the whole address space allocatable, as wasm32's 65536 pages do. With sizes {1, 9, 40, 200} and heap bases {13, 60}, `last_ptr + sz` wraps, `next_page << 16` reaches `2^Width`, the extra page is taken, and `GROW_MEMORY` is refused. There are 3 allocations per call. The run reaches about 100,000 states.

### `AddressBookSpec` (abstract) and `ContractRuntime` (`MC_ContractRuntime`)
`AddressBookSpec` states what a transaction promises for the two sample contracts. It either commits exactly its handler's effect on table `p`, or it aborts and changes nothing. An undeclared action aborts. A sender may attach any payload, a packed argument tuple or none (`Payloads`). `Decodes` says when the payload fits the handler: the handler takes no arguments, or the payload holds a whole tuple. A payload that does not fit aborts.

`ContractRuntime` runs the same requests through the code path:

- **State.** `committed` and `working` are the host store, committed and as seen inside the transaction. `stack` holds the frames of the chain. Each frame has its code contract, storage contract, `from`, action, arguments, program point, return value and the value received through a `CALL`. `result` is the host's result slot. `last` is the outcome of the last transaction.
- **Actions.** There is one action per code step: `Apply` (the `switch`), `ReadArgs`, `CheckKey` (addressbook's `check(has_key)`), `Put`, `Erase`, `CallAction` and `CallReturn` (`action<..>::call`), `SetResult`, `Return`, and `MallocFails` (any buffer above 512 bytes may meet a refused `GROW_MEMORY`).
- **Payload.** `ReadArgs` is `read_action_data` and `ds >> args`. The buffer stays `nullptr` for an empty payload. `datastream` is not among the sources, so its bounds check comes from spec §4.1: a payload shorter than the tuple aborts the call. Bytes after the tuple are not read, so `erase` and `test4` run with any payload (`Unpacked`).
- **Host.** The host's part (`Submit`, commit in `Return`, `AbortTx`) is taken from spec sections 4.5, 5 and 7.
- **Call modes.** `storage_delegate` runs the callee on the caller's storage. `user_delegate` passes the caller's sender as `from`. Otherwise `from` is the calling contract.

The refinement is `AddressBookRefined == Svc!Spec` with `Svc == INSTANCE AddressBookSpec WITH book <- committed`. `last` maps to itself.

Two more properties are about the call chain. `CallerGetsResult`: once a `call` handler is past its `CALL`, the variable it passed as `result` holds what `insert` or `modify` returned. The value travels through `set_result` in the callee's `execute_action` and `call_result` in `action<T>::call`. No termination property is stated. Every step of a running chain has an unguarded successor and the depth is at most 2. `call_result` is read once, without waiting. So a chain ends whatever the handlers do, and a liveness property would hold by the shape of the model.

Bounds: 1 external user and 2 argument tuples, one of them "big" (above 512 bytes), plus the empty payload, for every action. One user is enough because the address book is keyed by the sender: plain (non-delegate) calls from the `call` contract arrive with that contract as sender, so the user and the call contract already give two distinct rows, and two keys in one table are what the interleavings need. A second user multiplied the state space by about 12 (1,400,000 states) without adding a case. Call depth is 2, because `call` calls `addressbook`. Every request can be sent from any state. The run reaches about 116,000 states in about 15 seconds.

`call_action`'s status is never checked (`action.hpp:72`). Under the host of spec §4.5, a callee that fails aborts the whole chain, so the caller never resumes after a failed callee. `CallerGetsResult` and the refinement show what the caller does see.

### `AddressParse` (`MC_AddressParse`)
This models `address(const char* s)` and `char2uint8` in `address.hpp`, one loop iteration per step. A character is its ASCII code. `mem` is the string, its NUL, and whatever memory holds behind it. That last part is the choice `Garbage`: C leaves it unspecified, so the model picks from possible contents.

- `Init` is `p = s + 2; i = 0; memset`.
- `Iterate` is one loop body. A store with `i >= ADDR_LEN` is recorded in `wild`, and a read behind the terminator sets `oob`.
- `Exit` is the loop condition failing.

The reference decoding (`Decoded`, `Nibble`) looks digits up in two tables of hex digit codes. It does not use the code's ranges.

`AddrEq` and `AddrNeq` are `operator==` and `operator!=`. `EqualIffSameDigits` compares the parsed address with the address of each string one digit away (`Variants`): every digit replaced by every hex digit of either case. They must be `==` exactly when the digits agree ignoring case, and `!=` otherwise.

Bounds: `ADDR_LEN = 2`, so a well-formed address has 4 digits. The digits are the codes at both ends of each hex range ('0' '9' 'a' 'f' 'A' 'F') and their neighbours outside it ('/' ':' '`' 'g' '@' 'G'). Each input is "0x" followed by 0 to 4 of these digits. That gives 22,621 inputs, including every odd length, and about 89,000 states. The loop treats every byte pair the same way, so 2 bytes exercise each path that 20 do. Deadlock checking is off in these runs, because the constructor's return is a final state.

### `Serialization`, `TableSpec` (abstract) and `Table` (`MC_Table`)
`Serialization` gives `Pack`, `PackSize` and `Unpack` for the member types of map_test's tables. Integers are little-endian, strings carry a varint length, structs are packed field by field, and address and checksum256 are raw bytes. Only the raw-byte loops are in the sources: `PackAddress` and `UnpackAddress` are address's `<<` and `>>` (`address.hpp`), and checksum256's are in `base.hpp`. The rest follows spec section 4.1, since `datastream` is not among the sources. Decoding fails when the buffer ends early, and it ignores trailing bytes.

`TableSpec` states the promise of spec sections 3, 4.4 and 8:

- A table type is a typed map.
- `get` on an absent key aborts, and any operation on a key over 32 packed bytes aborts.
- An abort drops the call's writes, and a return commits them.
- `last` records each operation and what it returned.

`Table` runs the code's path over the host store. That store maps (table name, key bytes) to value bytes.

- `Put` packs the value, checks `MapKey` and calls `db_store`.
- `Get` probes the size, runs `check(size >= 0)`, loads and decodes.
- `HasKey` and `Erase` are the other two operations.
- `committed` and `working` are the host's store, as in `ContractRuntime`.

Every table name satisfies `validate_table_name`, the `static_assert` of at most 12 characters, as an `ASSUME`.

`View` decodes the store, for each table type, as that type's value type, and `TableRefined == Abs!Spec`. The key and value encodings are computed once, as constant tables.

Bounds: `table1` (`int`→`int`, keys {1, 2}, values {10, 20}) and `table4` (`key_st`→`value_st`, one key). There is also a `std::string`-keyed table whose keys pack to 32 and 33 bytes, the two sides of `MapKey`'s limit. Any sequence of operations and commits over them gives about 14,000 states in under a minute. `table2` and `table3` (`uint64_t`, address and checksum256 encodings) multiply the state space by 16 without adding any path. The collision run uses `uint64_t`.

### `Log` (`MC_Log`)
`Log` models `log` and `log_hash` in `log.hpp`, one step per allocation. It uses the allocator through `A == INSTANCE BumpAllocator`, so every `malloc` is the real `operator()` step, with page growth and the abort on a refused grant. A call is given as the packed sizes of its name, its data and each arg. A pointer is `[where, ptr]`: "heap" with `malloc`'s address, or "stack" for `alloca`.

- `Start` is a handler calling `log`. A handler may log several times in one call, so the allocator keeps its state from one log to the next.
- `Data` sizes and packs the data buffer: `alloca` up to 512 bytes, `malloc` above.
- `HashBuf` and `Hash` are one `log_hash`: the value's buffer, then `malloc(sizeof(checksum256))`, then `free` of a malloc'ed buffer. This happens for the name and then for each arg.
- `Emit` is the `num == 0 / 1 / 2` branch: `log_0`, `log_1` or `log_2`. Any other count reports nothing.
- `Release` is the frees at the end.
- `NextCall` starts a fresh instance, as in `BumpAllocator`.

`sha256` only fills the hash, so it is not modelled.

Bounds: the heap starts at 1024 with `Width = 16` and 512-byte pages, 3 pages granted and at most 4. The calls are log_test's `test1`, `test2` and `test3` with a user string of 4, 517 or 602 packed bytes, plus a three-arg call. The two larger users take the `malloc` path, and 602 bytes needs a fourth page, so a later log hits the refused grant. That gives about 31,600 states.

### `MapTest` (`MC_MapTest`)
This models the contract of `map_test.cpp`. Each handler `test1` .. `test4` is `Prog`, its sequence of `put` and `get` calls. `Op` runs the next one through `Table`'s actions. A handler that aborts ends the call. `Return` commits through `Table`'s `Return`. `printed` collects what the handler prints: `Shown` picks `.v` of a `value_st`. `get_from_address()` in `test3` is a choice from two addresses, and `sha256` of an address is a constant table. Calls follow one another in any order and any number of times, over one store, which gives about 1,100 states. The four tables are `map_test`'s own `DEF_TABLE`s, so the `uint64_t`, address and checksum256 encodings that `MC_Table` leaves out are covered here.

### `AbiTypeName` (`MC_AbiTypeName`)
This models how `generation_utils` in `gen.hpp` names an argument type in the ABI. A type is what clang prints for it (`AsString`), as a sequence of tokens: words, and the characters the code inspects (`:` `<` `>` `,` and space). A token sequence is enough, because the code only looks at those characters and at whole words.

- `Scan` / `BaseTypeName` is `get_base_type_name`, including the skipped multi-word prefixes.
- `TranslationTable` and `TranslateName` are `_translate_type`'s table and its fallback.
- `ReplaceInName` is the five `std::replace` calls.
- `TranslateType` is `translate_type`, case by case.

`Enc` is the wire shape from spec §4.1.

Bounds: the argument types are `int`, `unsigned long long`, `char` and `std::string`, with `vector`, `optional`, `pair`, `map` and `tuple` over them nested two deep. The state is a pair of argument types, checked from the initial states.

## Runs

| Run | Expect | Shows |
|---|---|---|
| `alloc_safety` | pass | Blocks never overlap and stay inside granted memory, including a request that wraps `last_ptr`. That one is refused only because `next_page << 16` wraps to 0 and forces one more page than the host has. A mutant with a wider shift hands out a block past memory. Blocks are 8-aligned. |
| `runtime_refines` | pass | With aborts from checks and from `malloc` anywhere in a `CALL` / `DELEGATE_CALL` chain, every transaction is one atomic step of `AddressBookSpec`. A `call` handler past its `CALL` holds what the callee returned. A sender's empty payload for a handler with arguments aborts the call with nothing committed. The mutants catch a handler run on a default-constructed tuple when the payload is short, and a skipped `set_result`. |
| `address_parse` | pass | Well-formed input decodes to the bytes its digits spell, in either case. No input of up to 2 * `ADDR_LEN` digits reads or writes out of bounds. Parsed addresses are `==` exactly when their digits agree ignoring case. The mutants catch a missing upper range bound, a missing upper-case branch, `p += 1`, a condition that checks only `*p`, and `operator!=` stopping one byte short. |
| `address_long` | violation | "0x" with 6 digits (`ADDR_LEN = 2`) writes `addr[2]`: there is no bound on `i`. |
| `address_short` | violation | `""` is parsed from the bytes behind its terminator, because `s + 2` is taken unchecked. |
| `table_refines` | pass | The byte store with `MapKey` implements independent typed tables. The cases include overwrite, erase, `get` on an absent key, a 32-byte key (accepted) and a 33-byte key (aborted), and aborts dropping a call's writes. The mutants catch `MapKey` with `<` and `MapKey` without its check. |
| `table_collide` | violation | `table<name("t1"), int, int>` and `table<name("t1"), int, uint64_t>` share entries. After a `put` in the first, the second holds bytes that do not decode (spec §3: a table's identity includes its types). |
| `log_memory` | pass | What `log_k` hands the host is distinct, not freed and inside memory, and never more than `log_2` takes, across several logs per call and refused grants. The mutants catch a report with three hashes and a hash freed with its buffer. |
| `log_hash_align` | violation | The `checksum256` that `log_hash` mallocs is 8-aligned, not 16 (spec §3). `operator()` takes the pointer from the end of the previous block and applies the requested alignment only to the new end. Every caller goes through `malloc` with 8, so the only type that needs more is `checksum256`. |
| `map_test` | pass | After any earlier calls, `test1` .. `test4` never abort, and each prints the value it put under the key it reads. The mutant, `MapKey` without its bytes, makes `test1` print 20. |
| `abi_name_collision` | violation | `std::vector<std::map<int, int>>` and `std::map<int, std::vector<int>>` are both named `pair_int32_int32[][]`. The first is a sequence of sequences of pairs, the second a sequence of (int, sequence) pairs: a client encoding by the ABI sends bytes the action misreads. |
| `unknown_action` | violation | An identifier with no `FTL_DISPATCH` case commits: `apply` falls out of the `switch` (spec §4.3 says it aborts). |

Every property of a passing run has a mutant in `PROJECT.json`: a slip in the code's logic that TLC catches.

**Fairness.** None is assumed. A call runs to completion: spec §5 says each host import is a synchronous request, and nothing in the core blocks, loops or waits. Termination of a chain therefore follows from the model's shape and is not checked as a property. Every run checks safety only, with deadlock checking on except in `AddressParse`, whose constructor returns.

## Not modelled, and why

- **Serialization** (`datastream`, `varint`, `name`) is not in the sources. `Serialization` follows spec §4.1 for the table member types. In `ContractRuntime`, argument tuples are model values, and a big tuple is one whose packed form exceeds 512 bytes.
- **Printing, time, height, block-hash, `sha256`, `assert_sha256` and `ftl_exit` imports** (`system.hpp`, `crypto.hpp`). Each is a one-line wrapper over a host import and has no state of its own. The example contracts only print the values, or hash a buffer and assert the digest. A model of them would restate the host's answer, so no property could fail.
- **`transfer` and token amounts.** These are host bookkeeping that no property needs.
- **The rest of the ABI generator, and the compiler driver.** `AbiTypeName` covers type naming only. `get_template_name`, `is_builtin_type`, `is_aliasing`, `get_action_name` and `is_ftl_contract` are called only from the generator's driver, which is not among the sources. So is the code that fills the `abi` record of `abi.hpp`. The `ftl_ignore` path needs clang's attribute on a record. `compiler_options.hpp` turns command-line options into argument lists for a driver `main` that is not among the sources either. `whereami` is path lookup for each OS. There is nothing here whose result a property could judge without the missing caller.
- **`Serialization` checks of their own (plan 6).** The round trip of every table value is already checked through `View` in `table_refines`. `PackSize` is `Len(Pack)` by definition, because `datastream` is not in the sources.
- **The run limit.** The project keeps at most 12 runs. The `calloc` and `realloc` hazards, and a `get_base_type_name` check against a reference, are left without runs.

## Plan

1. *(done)* `BumpAllocator`; `AddressBookSpec` / `ContractRuntime` for dispatch, tables, calls and atomic aborts.
2. *(done)* `Table` / `TableSpec` / `Serialization` (pack and unpack for the table member types). `MapTest` runs map_test's handlers as fixed programs (spec §8 scenario "put(1, 10), put(2, 20), get(1) returns 10").
3. *(done)* `AddressParse`: the constructor loop, checked against a reference decoding, with both out-of-bounds paths.
4. *(done)* `Log` composed with `BumpAllocator`: `log_hash` allocations, the 16-byte alignment of `checksum256`, with `free` of `alloca` buffers recorded as a hazard.
5. *(not reachable here)* Allocator initialization order. No global of the sources allocates: the only other global constructor is `call.cpp`'s `addressbook_contract`, which parses into its own array. It is not listed as a hazard.
6. *(dropped)* `Serialization` checks: see "Not modelled".
7. *(done, then dropped)* Liveness: a chain's termination holds by the model's shape (see Fairness), so `TxEnds` was removed. Also done: `CallerGetsResult` for the result path of `action<T>::call`; address `==` / `!=` (`EqualIffSameDigits`).
8. *(done)* `AbiTypeName`: `translate_type` and its helpers, with the name-collision finding.
9. *(done)* Payload shape: a short or empty payload aborts in `execute_action`, checked through the refinement.
10. *(done)* `runtime_refines` bounded to one external user (see its Bounds), so the run stays well inside its time limit.

What is left in the sources is either pure I/O (above) or code whose caller is not in the sources. The components' statuses in `PROJECT.json` say which.
