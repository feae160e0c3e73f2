---------------------------- MODULE DeviceMemory ----------------------------
(***************************************************************************)
(* Device memory and the buffers that own it: CudaDeviceBuffer             *)
(* (csrc/cuda/cuda_device_buffer.cpp).  A buffer is a move-only owner of   *)
(* at most one allocation.  After an error on the device every call of     *)
(* the CUDA runtime fails, the frees included.                             *)
(***************************************************************************)
EXTENDS Integers, FiniteSetsExt

CONSTANTS
    Buffers,      \* the buffer objects of the program, by name
    TotalBytes    \* the size of the device's memory

ASSUME TotalBytesAssumption == TotalBytes \in Nat

VARIABLES
    heap,         \* the live allocations: their sizes
    buffer,       \* what each buffer object holds
    lastId,       \* allocations are told apart by a number never used again
    otherBytes,   \* taken by other users of the device
    broken        \* an error on the device has made the runtime unusable

memoryVars == <<heap, buffer, lastId, otherBytes, broken>>

Null == 0

Nothing == [data |-> Null, size |-> 0]

MemoryInit(others) ==
    /\ heap = [id \in {} |-> 0]
    /\ buffer = [b \in Buffers |-> Nothing]
    /\ lastId = 0
    /\ otherBytes \in others
    /\ broken = FALSE

\* cudaMemGetInfo, total less free.
UsedBytes == otherBytes + MapThenSumSet(LAMBDA id : heap[id], DOMAIN heap)

\* cudaMalloc after a free of some allocations.
CanAllocate(size, freed) ==
    /\ ~broken
    /\ UsedBytes - MapThenSumSet(LAMBDA id : heap[id], freed) + size <= TotalBytes

\* What destroy() frees: nothing for a buffer that was moved from.
Freed(b) == IF broken THEN {} ELSE {buffer[b].data} \cap DOMAIN heap

Without(freed) == [id \in DOMAIN heap \ freed |-> heap[id]]

With(allocations, id, size) ==
    [i \in DOMAIN allocations \cup {id} |-> IF i = id THEN size ELSE allocations[i]]

\* A new buffer of a size, and resize(): destroy, then allocate.
Resize(b, size) ==
    /\ CanAllocate(size, Freed(b))
    /\ lastId' = lastId + 1
    /\ heap' = With(Without(Freed(b)), lastId', size)
    /\ buffer' = [buffer EXCEPT ![b] = [data |-> lastId', size |-> size]]
    /\ UNCHANGED <<otherBytes, broken>>

\* The same where a call throws: the allocation, with the buffer already empty,
\* or, on a broken device, the free.
ResizeFails(b, size) ==
    /\ ~CanAllocate(size, Freed(b))
    /\ heap' = Without(Freed(b))
    /\ buffer' = IF broken THEN buffer ELSE [buffer EXCEPT ![b] = Nothing]
    /\ UNCHANGED <<lastId, otherBytes, broken>>

\* variant: the source of a move keeps its pointer.
MoveCopy(dst, src) ==
    /\ heap' = Without(Freed(dst))
    /\ buffer' = [buffer EXCEPT ![dst] = buffer[src]]
    /\ UNCHANGED <<lastId, otherBytes, broken>>

\* variant: a move is a copy into an allocation of its own.
MoveContents(dst, src) == Resize(dst, buffer[src].size)

\* The move constructor, for a new dst, and the move assignment.
Move(dst, src) ==
    /\ heap' = Without(Freed(dst))
    /\ buffer' = [buffer EXCEPT ![dst] = buffer[src], ![src] = Nothing]
    /\ UNCHANGED <<lastId, otherBytes, broken>>

\* The destructor; it swallows the error of a free that fails.
Destroy(b) ==
    /\ heap' = Without(Freed(b))
    /\ buffer' = [buffer EXCEPT ![b] = Nothing]
    /\ UNCHANGED <<lastId, otherBytes, broken>>

\* An error of a kernel or a copy, which stays.
Break ==
    /\ ~broken /\ broken' = TRUE
    /\ UNCHANGED <<heap, buffer, lastId, otherBytes>>

-----------------------------------------------------------------------------

\* Every live allocation belongs to exactly one buffer, and no buffer points to
\* memory that is not allocated: nothing is freed twice and, unless the runtime
\* is unusable, nothing is out of reach (cuda_device_buffer.cpp:112, 128-134, 217-223).
OneOwnerPerAllocation ==
    /\ \A b1, b2 \in Buffers :
        b1 # b2 /\ buffer[b1].data # Null => buffer[b1].data # buffer[b2].data
    /\ \A b \in Buffers : buffer[b].data # Null =>
        buffer[b].data \in DOMAIN heap /\ heap[buffer[b].data] = buffer[b].size
    /\ ~broken => \A id \in DOMAIN heap : \E b \in Buffers : buffer[b].data = id
=============================================================================
