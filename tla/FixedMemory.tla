------------------------------ MODULE FixedMemory ------------------------------
(***************************************************************************)
(* The allocator: class memory has a fixed_memory for each multiple of     *)
(* eight bytes, and a fixed_memory keeps its free blocks in a list that is *)
(* linked through the blocks' own headers.  The header of a block that is  *)
(* in use says where it came from; free() believes it.                     *)
(*                                                                         *)
(* What is done under the mutex of a fixed_memory is one step; the two     *)
(* stores to the header that get_memory makes after the unlock are steps   *)
(* of their own.  A block is <<chunk, store, index>>: the place in         *)
(* mem_array, the place in store_block, and the count of blocks before it. *)
(* The loop over a new store has 32-bit indexes: a store of 4 GB or more is *)
(* outside of the model.                                                   *)
(***************************************************************************)
EXTENDS Integers, FiniteSets

CONSTANTS
    Threads,
    Requests,       (* the sizes, in bytes, that callers ask for            *)
    FirstCapacity,  (* min_capacity >> 1: half of the first store           *)
    MaxStores       (* BOUND: stores of a fixed_memory (32 in the code)     *)

ASSUME RequestsAssumption == Requests \subseteq 1..1024
ASSUME FirstCapacityAssumption == FirstCapacity \in Nat \ {0}
ASSUME MaxStoresAssumption == MaxStores \in Nat

VARIABLES
    free_start_index,  (* of each chunk: a block, or null_index             *)
    current_capacity,
    last_store_index,
    header,            (* of each block that was made: a link or an info    *)
    used,              (* what each block in use was asked for              *)
    pc, block          (* where each thread is, and with which block        *)

chunks == <<free_start_index, current_capacity, last_store_index>>
place  == <<pc, block>>
vars   == <<chunks, header, used, place>>

null_index == <<-1, -1, -1>>

(* Mutant: rounded down. *)
round_down(size) == 8 * (size \div 8)

(* (alloc_size + 7) & (~7), and the chunk for it *)
round_up(size) == 8 * ((size + 7) \div 8)

(* (alloc_size >> 3) - 1 *)
chunk_index(size) == (size \div 8) - 1

Chunks == {chunk_index(round_up(size)) : size \in Requests}

(* fixed_memory_free_info and fixed_memory_alloc_info, in the same octets. *)
Link(to) == [next |-> to, store_index |-> -1, alloc_size |-> -1]
Info(store_index, alloc_size) ==
    [next |-> null_index, store_index |-> store_index, alloc_size |-> alloc_size]

Init == /\ free_start_index = [c \in Chunks |-> null_index]
        /\ current_capacity = [c \in Chunks |-> FirstCapacity]
        /\ last_store_index = [c \in Chunks |-> -1]
        /\ header = [b \in {} |-> Link(null_index)]
        /\ used = [b \in {} |-> 0]
        /\ pc = [t \in Threads |-> "idle"]
        /\ block = [t \in Threads |-> <<null_index, 0>>]

Goto(t, location) == pc' = [pc EXCEPT ![t] = location]

-----------------------------------------------------------------------------
(* fixed_memory::get_memory                                                *)

Full(c) == free_start_index[c] = null_index

(* Mutant: the first block of a new store is both given and free. *)
FirstFreeZero == 0

(* "keeping zero free for current allocation" *)
FirstFree == 1

(* The loop links each block to the next, the last one to nothing. *)
LastLinked(capacity) == capacity - 1

(* The list of a store that is all free but for its first block *)
NewLink(c, store, i, capacity) ==
    IF i < LastLinked(capacity) THEN Link(<<c, store, i + 1>>) ELSE Link(null_index)

NewBlocks(c, store, capacity) == {c} \X {store} \X (0..capacity - 1)

Grow(t, size) ==
    LET c        == chunk_index(round_up(size))
        capacity == 2 * current_capacity[c]
        store    == last_store_index[c] + 1
        new      == NewBlocks(c, store, capacity)
    IN  /\ pc[t] = "idle"
        /\ Full(c)
        /\ store < MaxStores
        /\ current_capacity' = [current_capacity EXCEPT ![c] = capacity]
        /\ last_store_index' = [last_store_index EXCEPT ![c] = store]
        /\ header' = [b \in DOMAIN header \cup new |->
                         IF b \notin new THEN header[b]
                         ELSE IF b[3] = 0 THEN Info(store, -1)
                         ELSE NewLink(c, store, b[3], capacity)]
        /\ free_start_index' = [free_start_index EXCEPT ![c] = <<c, store, FirstFree>>]
        /\ block' = [block EXCEPT ![t] = <<<<c, store, 0>>, size>>]
        /\ Goto(t, "alloc_size")
        /\ UNCHANGED used

Pop(t, size) ==
    LET c == chunk_index(round_up(size))
    IN  /\ pc[t] = "idle"
        /\ ~Full(c)
        /\ block' = [block EXCEPT ![t] = <<free_start_index[c], size>>]
        /\ free_start_index' = [free_start_index EXCEPT ![c] = header[free_start_index[c]].next]
        /\ Goto(t, "store_index")
        /\ UNCHANGED <<current_capacity, last_store_index, header, used>>

(* The list is unlocked: pallocinfo->store_index = store_index *)
WriteStoreIndex(t) ==
    LET b == block[t][1]
    IN  /\ pc[t] = "store_index"
        /\ header' = [header EXCEPT ![b] = Info(b[2], -1)]
        /\ Goto(t, "alloc_size")
        /\ UNCHANGED <<chunks, used, block>>

(* memory::get_memory: pallocinfo->alloc_size = alloc_size, and the caller  *)
(* has it.                                                                 *)
WriteAllocSize(t) ==
    LET b    == block[t][1]
        size == block[t][2]
    IN  /\ pc[t] = "alloc_size"
        /\ header' = [header EXCEPT ![b].alloc_size = round_up(size)]
        /\ used' = [x \in DOMAIN used \cup {b} |-> IF x = b THEN size ELSE used[x]]
        /\ Goto(t, "idle")
        /\ UNCHANGED <<chunks, block>>

-----------------------------------------------------------------------------
(* memory::free and fixed_memory::free, by whichever thread has the block.  *)
(* The chunk and the store are what the header says; the index is the       *)
(* distance of the block from the start of that store.                     *)

(* Mutant: the new head is not linked to the old one. *)
RestLost(c) == Link(null_index)

Rest(c) == Link(free_start_index[c])

Free(b) ==
    LET c == chunk_index(header[b].alloc_size)
    IN  /\ b \in DOMAIN used
        /\ header' = [header EXCEPT ![b] = Rest(c)]
        /\ free_start_index' =
               [free_start_index EXCEPT ![c] = <<c, header[b].store_index, b[3]>>]
        /\ used' = [x \in DOMAIN used \ {b} |-> used[x]]
        /\ UNCHANGED <<current_capacity, last_store_index, place>>

-----------------------------------------------------------------------------
Next == \/ \E t \in Threads : \/ \E size \in Requests : Grow(t, size) \/ Pop(t, size)
                              \/ WriteStoreIndex(t)
                              \/ WriteAllocSize(t)
        \/ \E b \in DOMAIN used : Free(b)

Spec == Init /\ [][Next]_vars

-----------------------------------------------------------------------------
(* Properties                                                              *)

(* The blocks of all stores *)
Blocks == DOMAIN header

(* A thread has taken the block and has not finished its header. *)
Taking(t) == pc[t] # "idle"
Taken(t)  == block[t][1]

InUse(b) == b \in DOMAIN used \/ \E t \in Threads : Taking(t) /\ Taken(t) = b

(* Every variable stays in its range. *)
TypeOK ==
    /\ free_start_index \in [Chunks -> Blocks \cup {null_index}]
    /\ current_capacity \in [Chunks -> Nat \ {0}]
    /\ last_store_index \in [Chunks -> Int]
    /\ \A c \in Chunks : last_store_index[c] >= -1
    /\ Blocks \subseteq Chunks \X Nat \X Nat
    /\ header \in [Blocks -> [next : Blocks \cup {null_index}, store_index : Int, alloc_size : Int]]
    /\ DOMAIN used \subseteq Blocks
    /\ used \in [DOMAIN used -> Requests]
    /\ pc \in [Threads -> {"idle", "store_index", "alloc_size"}]
    /\ block \in [Threads -> (Blocks \cup {null_index}) \X (Requests \cup {0})]
    /\ \A t \in Threads : Taking(t) => Taken(t) \in Blocks /\ block[t][2] \in Requests

(* A block is given to one caller at a time: the next one to be given is    *)
(* neither in use nor on its way to somebody, and two threads never are on  *)
(* their way out of get_memory with the same block.                        *)
NoDoubleAllocation ==
    /\ \A c \in Chunks : ~InUse(free_start_index[c])
    /\ \A t \in Threads : Taking(t) => Taken(t) \notin DOMAIN used
    /\ \A t, u \in Threads : Taking(t) /\ Taking(u) /\ Taken(t) = Taken(u) => t = u

(* Where the lists of the chunks are after n steps along them *)
Further(at) == [c \in Chunks |-> IF at[c] = null_index THEN null_index ELSE header[at[c]].next]
Step[n \in Nat] == IF n = 0 THEN free_start_index ELSE Further(Step[n - 1])

OfChunk(c) == {b \in Blocks : b[1] = c}
Unused(c) == {b \in OfChunk(c) : ~InUse(b)}

(* The list of a chunk goes through every block that is not in use, once,   *)
(* and through no other, and ends: memory neither leaks nor goes round in a *)
(* circle, whatever the order in which blocks are given and given back.     *)
FreeListWhole ==
    \A c \in Chunks :
        LET n == Cardinality(Unused(c))
        IN  /\ {Step[i][c] : i \in 0..n - 1} = Unused(c)
            /\ Step[n][c] = null_index

(* free() puts a block back where it was taken from: the header of a block  *)
(* in use names its store and the size of its chunk, which is at least what *)
(* the caller asked for and less than eight bytes more.                     *)
GivenBackToItsChunk ==
    \A b \in DOMAIN used :
        /\ header[b].store_index = b[2]
        /\ chunk_index(header[b].alloc_size) = b[1]
        /\ header[b].alloc_size - used[b] \in 0..7

================================================================================
