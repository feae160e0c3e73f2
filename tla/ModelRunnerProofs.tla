------------------------- MODULE ModelRunnerProofs -------------------------
(***************************************************************************)
(* The model runner for any sizes, any device and any directory.  First    *)
(* the ownership of device memory, for any use of the operations of        *)
(* CudaDeviceBuffer in any order, of which the program of ModelRunner is   *)
(* one instance; then the steps on the stream; then the program itself.    *)
(***************************************************************************)
EXTENDS ModelRunner, SequenceLemmas

\* A step of any program: assignment of a buffer to itself is no operation in
\* the code (cuda_device_buffer.cpp:123-125).
MemoryNext ==
    \/ \E b \in Buffers : \/ \E size \in Nat : Resize(b, size) \/ ResizeFails(b, size)
                          \/ Destroy(b)
                          \/ \E src \in Buffers \ {b} : Move(b, src)
    \/ Break

MemorySpec == MemoryInit(Nat) /\ [][MemoryNext]_memoryVars

MemoryTypeOK ==
    /\ lastId \in Nat
    /\ DOMAIN heap \subseteq 1 .. lastId
    /\ heap = [id \in DOMAIN heap |-> heap[id]]
    /\ buffer \in [Buffers -> [data : Nat, size : Nat]]

\* No number of an allocation to come is in use, which is what keeps a new
\* allocation from having an owner already.
MemoryInv == MemoryTypeOK /\ OneOwnerPerAllocation

-----------------------------------------------------------------------------

LEMMA MemoryInitInv == MemoryInit(Nat) => MemoryInv
<1> SUFFICES ASSUME MemoryInit(Nat) PROVE MemoryInv
  OBVIOUS
<1>1. /\ lastId = 0 /\ DOMAIN heap = {} /\ heap = [id \in {} |-> 0]
      /\ buffer = [b \in Buffers |-> Nothing]
  BY DEF MemoryInit
<1>2. Nothing \in [data : Nat, size : Nat] /\ Nothing.data = Null
  BY DEF Nothing, Null
<1>3. MemoryTypeOK
  BY <1>1, <1>2 DEF MemoryTypeOK
<1>4. \A b \in Buffers : buffer[b].data = Null
  BY <1>1, <1>2
<1>5. OneOwnerPerAllocation
  BY <1>1, <1>4 DEF OneOwnerPerAllocation
<1> QED
  BY <1>3, <1>5 DEF MemoryInv

\* What is left of the heap when a buffer's allocation is freed.
LEMMA HeapWithout ==
  ASSUME NEW freed
  PROVE  /\ DOMAIN Without(freed) = DOMAIN heap \ freed
         /\ \A id \in DOMAIN heap \ freed : Without(freed)[id] = heap[id]
         /\ Without(freed) = [id \in DOMAIN Without(freed) |-> Without(freed)[id]]
BY DEF Without

LEMMA NothingFields ==
  Nothing.data = Null /\ Nothing.size = 0 /\ Nothing \in [data : Nat, size : Nat]
BY DEF Nothing, Null

LEMMA FreedOwn ==
  ASSUME NEW b
  PROVE  Freed(b) = IF broken THEN {} ELSE {buffer[b].data} \cap DOMAIN heap
BY DEF Freed

\* destroy(), alone, as the destructor, and before an allocation that throws.
LEMMA EmptiedInv ==
  ASSUME MemoryInv, NEW b \in Buffers,
         heap' = Without(Freed(b)), buffer' = [buffer EXCEPT ![b] = Nothing],
         lastId' = lastId, broken' = broken
  PROVE  MemoryInv'
<1> USE DEF MemoryInv
<1>1. /\ buffer'[b].data = Null
      /\ \A other \in Buffers \ {b} : buffer'[other] = buffer[other]
      /\ buffer' \in [Buffers -> [data : Nat, size : Nat]]
  BY NothingFields DEF MemoryTypeOK
<1>2. /\ DOMAIN heap' = DOMAIN heap \ Freed(b)
      /\ \A id \in DOMAIN heap' : heap'[id] = heap[id]
      /\ heap' = [id \in DOMAIN heap' |-> heap'[id]]
  BY HeapWithout
<1>3. MemoryTypeOK'
  BY <1>1, <1>2 DEF MemoryTypeOK
<1>4. ASSUME NEW other \in Buffers, buffer'[other].data # Null
      PROVE  /\ other # b /\ buffer'[other] = buffer[other]
             /\ buffer[other].data \in DOMAIN heap' /\ heap'[buffer[other].data] = buffer[other].size
  <2>1. other # b /\ buffer'[other] = buffer[other]
    BY <1>1, <1>4
  <2>2. /\ buffer[other].data \in DOMAIN heap /\ heap[buffer[other].data] = buffer[other].size
        /\ buffer[b].data # buffer[other].data
    BY <1>4, <2>1 DEF OneOwnerPerAllocation
  <2>3. buffer[other].data \notin Freed(b)
    BY <2>2, FreedOwn
  <2> QED
    BY <1>2, <2>1, <2>2, <2>3
<1>5. ASSUME ~ broken', NEW id \in DOMAIN heap'
      PROVE  \E other \in Buffers : buffer'[other].data = id
  <2>1. id \in DOMAIN heap /\ id # buffer[b].data
    BY <1>2, <1>5, FreedOwn
  <2>2. PICK other \in Buffers : buffer[other].data = id
    BY <1>5, <2>1 DEF OneOwnerPerAllocation
  <2> QED
    BY <1>1, <2>1, <2>2
<1>6. OneOwnerPerAllocation'
  BY <1>1, <1>4, <1>5 DEF OneOwnerPerAllocation
<1> QED
  BY <1>3, <1>6

LEMMA ResizeInv ==
  ASSUME MemoryInv, NEW b \in Buffers, NEW size \in Nat, Resize(b, size)
  PROVE  MemoryInv'
<1> USE DEF MemoryInv
<1>1. /\ lastId' = lastId + 1 /\ lastId \in Nat /\ lastId' # Null
      /\ ~ broken /\ broken' = broken
  BY DEF Resize, CanAllocate, MemoryTypeOK, Null
<1>2. /\ buffer'[b] = [data |-> lastId', size |-> size]
      /\ \A other \in Buffers \ {b} : buffer'[other] = buffer[other]
      /\ buffer' \in [Buffers -> [data : Nat, size : Nat]]
  BY <1>1 DEF Resize, MemoryTypeOK
<1>3. /\ DOMAIN heap' = (DOMAIN heap \ Freed(b)) \cup {lastId'}
      /\ heap'[lastId'] = size
      /\ \A id \in DOMAIN heap \ Freed(b) : id # lastId' => heap'[id] = heap[id]
      /\ heap' = [id \in DOMAIN heap' |-> heap'[id]]
  <2>1. heap' = With(Without(Freed(b)), lastId', size)
    BY DEF Resize
  <2>2. /\ DOMAIN Without(Freed(b)) = DOMAIN heap \ Freed(b)
        /\ \A id \in DOMAIN heap \ Freed(b) : Without(Freed(b))[id] = heap[id]
    BY HeapWithout
  <2>3. /\ DOMAIN heap' = DOMAIN Without(Freed(b)) \cup {lastId'}
        /\ heap'[lastId'] = size
        /\ \A id \in DOMAIN Without(Freed(b)) \ {lastId'} : heap'[id] = Without(Freed(b))[id]
        /\ heap' = [id \in DOMAIN heap' |-> heap'[id]]
    BY <2>1 DEF With
  <2> QED
    BY <2>2, <2>3
<1>4. DOMAIN heap \subseteq 1 .. lastId /\ lastId' \notin DOMAIN heap
  BY <1>1 DEF MemoryTypeOK
<1>5. DOMAIN heap' \subseteq 1 .. lastId'
  BY <1>1, <1>3, <1>4
<1>6. MemoryTypeOK'
  BY <1>1, <1>2, <1>3, <1>5 DEF MemoryTypeOK
<1>7. ASSUME NEW other \in Buffers \ {b}, buffer'[other].data # Null
      PROVE  /\ buffer'[other].data # lastId' /\ buffer'[other].data \in DOMAIN heap'
             /\ heap'[buffer'[other].data] = buffer'[other].size
  <2>1. /\ buffer[other].data \in DOMAIN heap /\ heap[buffer[other].data] = buffer[other].size
        /\ buffer[b].data # buffer[other].data
    BY <1>2, <1>7 DEF OneOwnerPerAllocation
  <2>2. buffer[other].data \notin Freed(b)
    BY <2>1, FreedOwn
  <2> QED
    BY <1>2, <1>3, <1>4, <2>1, <2>2
<1>8. ASSUME NEW id \in DOMAIN heap'
      PROVE  \E other \in Buffers : buffer'[other].data = id
  <2>1. CASE id = lastId'
    BY <1>2, <2>1
  <2>2. CASE id # lastId'
    <3>1. id \in DOMAIN heap /\ id # buffer[b].data
      BY <1>1, <1>3, <1>8, <2>2, FreedOwn
    <3>2. PICK other \in Buffers : buffer[other].data = id
      BY <1>1, <3>1 DEF OneOwnerPerAllocation
    <3> QED
      BY <1>2, <3>1, <3>2
  <2> QED
    BY <2>1, <2>2
<1>9. OneOwnerPerAllocation'
  BY <1>2, <1>3, <1>7, <1>8 DEF OneOwnerPerAllocation
<1> QED
  BY <1>6, <1>9

LEMMA MoveInv ==
  ASSUME MemoryInv, NEW dst \in Buffers, NEW src \in Buffers \ {dst}, Move(dst, src)
  PROVE  MemoryInv'
<1> USE DEF MemoryInv
<1>1. /\ buffer'[dst] = buffer[src] /\ buffer'[src] = Nothing
      /\ \A other \in Buffers \ {dst, src} : buffer'[other] = buffer[other]
      /\ buffer' \in [Buffers -> [data : Nat, size : Nat]]
  BY NothingFields DEF Move, MemoryTypeOK
<1>2. /\ DOMAIN heap' = DOMAIN heap \ Freed(dst)
      /\ \A id \in DOMAIN heap' : heap'[id] = heap[id]
      /\ heap' = [id \in DOMAIN heap' |-> heap'[id]]
      /\ lastId' = lastId /\ broken' = broken
  BY HeapWithout DEF Move
<1>3. MemoryTypeOK'
  BY <1>1, <1>2 DEF MemoryTypeOK
\* Who had what a buffer has now.
<1> DEFINE Before(b) == IF b = dst THEN src ELSE b
<1>4. ASSUME NEW b \in Buffers, buffer'[b].data # Null
      PROVE  /\ b # src /\ Before(b) \in Buffers \ {dst} /\ buffer'[b] = buffer[Before(b)]
             /\ buffer'[b].data \in DOMAIN heap' /\ heap'[buffer'[b].data] = buffer'[b].size
  <2>1. b # src
    BY <1>1, <1>4, NothingFields
  <2>2. Before(b) \in Buffers \ {dst} /\ buffer'[b] = buffer[Before(b)]
    BY <1>1, <2>1
  <2>3. /\ buffer'[b].data \in DOMAIN heap /\ heap[buffer'[b].data] = buffer'[b].size
        /\ buffer'[b].data # buffer[dst].data
    BY <1>4, <2>2 DEF OneOwnerPerAllocation
  <2>4. buffer'[b].data \notin Freed(dst)
    BY <2>3, FreedOwn
  <2> QED
    BY <1>2, <2>1, <2>2, <2>3, <2>4
<1>5. ASSUME NEW b1 \in Buffers, NEW b2 \in Buffers, b1 # b2, buffer'[b1].data # Null
      PROVE  buffer'[b1].data # buffer'[b2].data
  <2>1. CASE buffer'[b2].data = Null
    BY <1>5, <2>1
  <2>2. CASE buffer'[b2].data # Null
    <3>1. Before(b1) # Before(b2)
      BY <1>4, <1>5, <2>2
    <3> QED
      BY <1>4, <1>5, <2>2, <3>1 DEF OneOwnerPerAllocation
  <2> QED
    BY <2>1, <2>2
<1>6. ASSUME ~ broken', NEW id \in DOMAIN heap'
      PROVE  \E b \in Buffers : buffer'[b].data = id
  <2>1. id \in DOMAIN heap /\ id # buffer[dst].data
    BY <1>2, <1>6, FreedOwn
  <2>2. PICK b \in Buffers : buffer[b].data = id
    BY <1>2, <1>6, <2>1 DEF OneOwnerPerAllocation
  <2>3. CASE b = src
    BY <1>1, <2>2, <2>3
  <2>4. CASE b # src
    BY <1>1, <2>1, <2>2, <2>4
  <2> QED
    BY <2>3, <2>4
<1>7. OneOwnerPerAllocation'
  BY <1>4, <1>5, <1>6 DEF OneOwnerPerAllocation
<1> QED
  BY <1>3, <1>7

LEMMA MemoryStep == MemoryInv /\ [MemoryNext]_memoryVars => MemoryInv'
<1> SUFFICES ASSUME MemoryInv, [MemoryNext]_memoryVars PROVE MemoryInv'
  OBVIOUS
<1>1. CASE UNCHANGED memoryVars
  BY <1>1 DEF MemoryInv, MemoryTypeOK, OneOwnerPerAllocation, memoryVars
<1>2. ASSUME NEW b \in Buffers, NEW size \in Nat, Resize(b, size) PROVE MemoryInv'
  BY <1>2, ResizeInv
<1>3. ASSUME NEW b \in Buffers, NEW size \in Nat, ResizeFails(b, size) PROVE MemoryInv'
  <2>1. CASE broken
    <3>1. DOMAIN heap \ Freed(b) = DOMAIN heap
      BY <2>1, FreedOwn
    <3>2. heap' = [id \in DOMAIN heap |-> heap[id]]
      BY <1>3, <3>1 DEF ResizeFails, Without
    <3>3. heap' = heap
      BY <3>2 DEF MemoryInv, MemoryTypeOK
    <3>4. UNCHANGED <<buffer, lastId, broken>>
      BY <1>3, <2>1 DEF ResizeFails
    <3> QED
      BY <3>3, <3>4 DEF MemoryInv, MemoryTypeOK, OneOwnerPerAllocation
  <2>2. CASE ~ broken
    BY <1>3, <2>2, EmptiedInv DEF ResizeFails
  <2> QED
    BY <2>1, <2>2
<1>4. ASSUME NEW b \in Buffers, Destroy(b) PROVE MemoryInv'
  BY <1>4, EmptiedInv DEF Destroy
<1>5. ASSUME NEW b \in Buffers, NEW src \in Buffers \ {b}, Move(b, src) PROVE MemoryInv'
  BY <1>5, MoveInv
<1>6. CASE Break
  BY <1>6 DEF Break, MemoryInv, MemoryTypeOK, OneOwnerPerAllocation
<1> QED
  BY <1>1, <1>2, <1>3, <1>4, <1>5, <1>6 DEF MemoryNext

\* However buffers are created, resized, moved and destroyed, and whichever
\* allocation or device call fails, every allocation has exactly one owner
\* (cuda_device_buffer.cpp:95-154 and 217-224): none is freed twice, and
\* none is lost while the device works.
THEOREM BuffersOwnMemory == MemorySpec => []OneOwnerPerAllocation
<1>1. MemoryInv => OneOwnerPerAllocation
  BY DEF MemoryInv
<1> QED
  BY <1>1, MemoryInitInv, MemoryStep, PTL DEF MemorySpec

-----------------------------------------------------------------------------
(* The steps on the stream.                                                 *)

\* What the kernels of a step are to read.
InputOf(n) == [head |-> TokenIds(n), rest |-> n]

\* The operations of the step that the device has still to execute, and what it
\* has done by then.  On a broken device nothing is left to do.
StreamInv ==
    /\ stepNr \in Nat /\ sampling \in BOOLEAN
    /\ pinned = [head |-> pinned.head, rest |-> pinned.rest]
    /\ uploaded = [head |-> uploaded.head, rest |-> uploaded.rest]
    /\ host \in {"between", "launch", "wait", "read"}
    /\ broken => stream = <<>>
    /\ host \in {"between", "read"} => stream = <<>>
    /\ host = "launch" =>
        \/ stream = <<"upload">> /\ pinned = InputOf(stepNr)
        \/ stream = <<>> /\ (broken \/ uploaded = InputOf(stepNr))
    /\ host = "wait" =>
        \/ /\ pinned = InputOf(stepNr)
           /\ stream = IF sampling THEN <<"upload", "forward", "sample", "download">>
                       ELSE <<"upload", "forward">>
        \/ /\ uploaded = InputOf(stepNr)
           /\ stream = IF sampling THEN <<"forward", "sample", "download">> ELSE <<"forward">>
        \/ sampling /\ stream = <<"sample", "download">> /\ uploaded.rest = stepNr
        \/ sampling /\ stream = <<"download">> /\ uploaded.head = Samples(stepNr)
        \/ stream = <<>> /\ (broken \/ ~ sampling \/ pinned.head = Samples(stepNr))
    /\ host = "read" /\ sampling => pinned.head = Samples(stepNr)

\* Before the model runs, no step is under way.
Idle == phase \in {"reading", "starting"} => host = "between"

-----------------------------------------------------------------------------
(* The program.                                                             *)

\* The buffer that a member's tensors point into, as the constructors go on.
Home(member) ==
    CASE member = "weights"   -> IF pc <= 2 THEN "none" ELSE IF pc <= 4 THEN "loaded" ELSE "weights"
      [] member = "rope"      -> IF pc <= 5 THEN "none" ELSE IF pc <= 7 THEN "data" ELSE "rope"
      [] member = "workspace" -> IF pc <= 11 THEN "none" ELSE IF pc = 12 THEN "data" ELSE "workspace"
      [] member = "kv"        -> IF pc <= 17 THEN "none" ELSE IF pc = 18 THEN "data"
                                 ELSE IF pc <= 20 THEN "created" ELSE "kv"

Bytes(member) ==
    CASE member = "weights"   -> WeightBytes
      [] member = "rope"      -> modelConfig.maxModelLen * PositionBytes
      [] member = "workspace" -> WorkspaceBytes
      [] member = "kv"        -> numBlocks * BlockBytes

Budget == (TotalBytes * Utilization) \div 100

\* The configuration is read, and the program goes on.
ConfigRead ==
    /\ ~ Refused(directory)
    /\ info = LoadInfo(directory) /\ modelConfig = LoadModelConfig(directory)
    /\ pc \in 1 .. 22 /\ (phase = "running" => pc = 22) /\ (phase = "starting" => ~ broken)

\* Each member whose memory is taken has it where its views point.
ViewsHome ==
    \A member \in Viewed : Home(member) # "none" =>
        /\ views[member] # Null
        /\ buffer[Home(member)] = [data |-> views[member], size |-> Bytes(member)]

\* A local that nobody's views point into is empty.
LocalsEmpty ==
    \A b \in {"data", "created", "kv"} : buffer[b].data # Null =>
        \E member \in Viewed : Home(member) = b

\* What is left of the budget for the pool.
PoolFits ==
    /\ pc > 16 => modelConfig.maxModelLen <= numBlocks * BlockSize
    /\ pc = 17 => UsedBytes + numBlocks * BlockBytes <= Budget
    /\ pc > 17 => UsedBytes <= Budget

ProgramInv ==
    phase \in {"starting", "running"} =>
        ConfigRead /\ ViewsHome /\ LocalsEmpty /\ PoolFits /\ (pc > 14 => Contains(alive, "batch"))

\* What can have been taken besides memory: at the first instruction, no more than
\* a constructor of the context that failed leaves.
Taken ==
    IF pc # 1 THEN {"stream", "cublas", "pinned"} ELSE IF Refused(directory) THEN {} ELSE {"cublas"}

\* At all times: what holds memory is an object that exists, and will be
\* destroyed; what else was taken goes with the batch buffer or the context, if
\* the device works and the context was constructed.
LifeInv ==
    /\ phase \in {"reading", "starting", "running", "unwinding", "ended"}
    /\ alive \in Seq(Buffers)
    /\ views \in [Viewed \cup {"sampler", "batch"} -> Nat]
    /\ numBlocks \in Nat /\ otherBytes \in Nat
    /\ directory.maxModelLen \in Nat \ {0}
    /\ \A b \in Buffers : buffer[b].data # Null => Contains(alive, b)
    /\ resources \subseteq Taken
    /\ "pinned" \in resources => broken \/ Contains(alive, "batch")
    /\ phase = "reading" => pc = 1 /\ alive = <<>> /\ ~ broken /\ resources = {}
    /\ phase = "ended" => alive = <<>> /\ (broken \/ pc = 1 \/ resources = {})

RunnerInv == MemoryInv /\ StreamInv /\ Idle /\ ProgramInv /\ LifeInv

LEMMA StreamInitInv == StreamInit => StreamInv
<1> SUFFICES ASSUME StreamInit PROVE StreamInv
  OBVIOUS
<1>1. /\ host = "between" /\ stepNr = 0 /\ sampling = FALSE /\ stream = <<>>
      /\ pinned = [head |-> TokenIds(0), rest |-> 0]
      /\ uploaded = [head |-> TokenIds(0), rest |-> 0]
  BY DEF StreamInit, Unwritten
<1>2. /\ pinned = [head |-> pinned.head, rest |-> pinned.rest]
      /\ uploaded = [head |-> uploaded.head, rest |-> uploaded.rest]
  BY <1>1
<1> QED
  BY <1>1, <1>2 DEF StreamInv

StreamOps == {"upload", "forward", "sample", "download"}

\* The queue behind the upload, and behind an empty stream.
LEMMA BehindUpload ==
  ASSUME NEW s \in Seq(StreamOps)
  PROVE  /\ <<"upload">> \o s \in Seq(StreamOps) /\ Len(<<"upload">> \o s) = Len(s) + 1
         /\ (<<"upload">> \o s)[1] = "upload"
         /\ \A i \in 1 .. Len(s) : (<<"upload">> \o s)[i + 1] = s[i]
<1>1. "upload" \in StreamOps
  BY DEF StreamOps
<1> QED
  BY <1>1

LEMMA QueuedInOrder ==
  /\ Append(<<>>, "upload") = <<"upload">>
  /\ <<>> \o <<"forward">> = <<"forward">>
  /\ <<>> \o <<"forward", "sample", "download">> = <<"forward", "sample", "download">>
  /\ <<"upload">> \o <<"forward">> = <<"upload", "forward">>
  /\ <<"upload">> \o <<"forward", "sample", "download">>
      = <<"upload", "forward", "sample", "download">>
<1>1. Append(<<>>, "upload") = <<"upload">>
  OBVIOUS
<1>2. <<>> \o <<"forward">> = <<"forward">>
  OBVIOUS
<1>3. <<>> \o <<"forward", "sample", "download">> = <<"forward", "sample", "download">>
  OBVIOUS
<1>4. <<"upload">> \o <<"forward">> = <<"upload", "forward">>
  <2> DEFINE f == <<"forward">>
             s == <<"upload">> \o f
  <2>1. f \in Seq(StreamOps) /\ Len(f) = 1 /\ f[1] = "forward"
    BY DEF StreamOps
  <2> HIDE DEF f
  <2>2. /\ s \in Seq(StreamOps) /\ Len(s) = Len(f) + 1 /\ s[1] = "upload"
        /\ \A i \in 1 .. Len(f) : s[i + 1] = f[i]
    BY <2>1, BehindUpload
  <2> HIDE DEF s
  <2>3. s[1 + 1] = f[1] /\ Len(s) = 2
    BY <2>1, <2>2
  <2>4. s = <<"upload", "forward">>
    BY <2>1, <2>2, <2>3
  <2> QED
    BY <2>4 DEF s, f
<1>5. <<"upload">> \o <<"forward", "sample", "download">>
        = <<"upload", "forward", "sample", "download">>
  <2> DEFINE f == <<"forward", "sample", "download">>
             s == <<"upload">> \o f
  <2>1. /\ f \in Seq(StreamOps) /\ Len(f) = 3
        /\ f[1] = "forward" /\ f[2] = "sample" /\ f[3] = "download"
    BY DEF StreamOps
  <2> HIDE DEF f
  <2>2. /\ s \in Seq(StreamOps) /\ Len(s) = Len(f) + 1 /\ s[1] = "upload"
        /\ \A i \in 1 .. Len(f) : s[i + 1] = f[i]
    BY <2>1, BehindUpload
  <2> HIDE DEF s
  <2>3. s[1 + 1] = f[1] /\ s[2 + 1] = f[2] /\ s[3 + 1] = f[3] /\ Len(s) = 4
    BY <2>1, <2>2
  <2>4. s = <<"upload", "forward", "sample", "download">>
    BY <2>1, <2>2, <2>3
  <2> QED
    BY <2>4 DEF s, f
<1> QED
  BY <1>1, <1>2, <1>3, <1>4, <1>5

LEMMA UploadInputInv ==
  ASSUME StreamInv, NEW samples \in BOOLEAN, UploadInput(samples), broken' = broken, ~ broken
  PROVE  StreamInv'
<1>1. stream' = <<"upload">> /\ host' = "launch"
  BY QueuedInOrder DEF UploadInput, StreamInv
<1>2. stepNr' \in Nat /\ sampling' \in BOOLEAN /\ pinned' = InputOf(stepNr')
  BY DEF UploadInput, StreamInv, InputOf
<1>3. pinned' = [head |-> pinned'.head, rest |-> pinned'.rest] /\ uploaded' = uploaded
  BY <1>2 DEF UploadInput, InputOf
<1> QED
  BY <1>1, <1>2, <1>3 DEF StreamInv

LEMMA LaunchKernelsInv ==
  ASSUME StreamInv, LaunchKernels, broken' = broken, ~ broken
  PROVE  StreamInv'
<1>1. /\ host = "launch" /\ host' = "wait" /\ UNCHANGED <<stepNr, sampling, pinned, uploaded>>
      /\ stream' = stream \o IF sampling THEN <<"forward", "sample", "download">> ELSE <<"forward">>
  BY DEF LaunchKernels
<1>2. CASE stream = <<"upload">> /\ pinned = InputOf(stepNr)
  <2>1. stream' = IF sampling THEN <<"upload", "forward", "sample", "download">>
                  ELSE <<"upload", "forward">>
    BY <1>1, <1>2, QueuedInOrder
  <2> QED
    BY <1>1, <1>2, <2>1 DEF StreamInv, InputOf
<1>3. CASE stream = <<>> /\ uploaded = InputOf(stepNr)
  <2>1. stream' = IF sampling THEN <<"forward", "sample", "download">> ELSE <<"forward">>
    BY <1>1, <1>3, QueuedInOrder
  <2> QED
    BY <1>1, <1>3, <2>1 DEF StreamInv, InputOf
<1> QED
  BY <1>1, <1>2, <1>3 DEF StreamInv

\* One operation of the device: what it does, operation by operation.
LEMMA ExecuteInv ==
  ASSUME StreamInv, Execute, broken' = broken
  PROVE  StreamInv'
<1>1. /\ stream # <<>> /\ ~ broken /\ host \in {"launch", "wait"}
      /\ UNCHANGED <<host, stepNr, sampling>> /\ stream' = Tail(stream)
  BY DEF Execute, StreamInv
<1>2. ASSUME Head(stream) = "upload" PROVE uploaded' = pinned /\ pinned' = pinned
  BY <1>2 DEF Execute
<1>3. ASSUME Head(stream) = "forward" PROVE uploaded' = uploaded /\ pinned' = pinned
  BY <1>3 DEF Execute
<1>4. ASSUME Head(stream) = "sample"
      PROVE  /\ uploaded' = [uploaded EXCEPT !.head = Samples(stepNr)] /\ pinned' = pinned
             /\ uploaded' = [head |-> Samples(stepNr), rest |-> uploaded.rest]
  BY <1>4 DEF Execute, StreamInv
<1>5. ASSUME Head(stream) = "download"
      PROVE  /\ uploaded' = uploaded
             /\ pinned' = [head |-> uploaded.head, rest |-> pinned.rest]
  BY <1>5 DEF Execute, StreamInv
<1>6. CASE host = "launch"
  <2>1. stream = <<"upload">> /\ pinned = InputOf(stepNr)
    BY <1>1, <1>6 DEF StreamInv
  <2>2. Head(stream) = "upload" /\ Tail(stream) = <<>>
    BY <2>1
  <2> QED
    BY <1>1, <1>2, <1>6, <2>1, <2>2 DEF StreamInv, InputOf
<1>7. CASE host = "wait" /\ Head(stream) = "upload"
  <2>1. /\ pinned = InputOf(stepNr)
        /\ stream = IF sampling THEN <<"upload", "forward", "sample", "download">>
                    ELSE <<"upload", "forward">>
    BY <1>1, <1>7 DEF StreamInv
  <2>2. stream' = IF sampling THEN <<"forward", "sample", "download">> ELSE <<"forward">>
    BY <1>1, <2>1
  <2> QED
    BY <1>1, <1>2, <1>7, <2>1, <2>2 DEF StreamInv, InputOf
<1>8. CASE host = "wait" /\ Head(stream) = "forward"
  <2>1. /\ uploaded = InputOf(stepNr)
        /\ stream = IF sampling THEN <<"forward", "sample", "download">> ELSE <<"forward">>
    BY <1>1, <1>8 DEF StreamInv
  <2>2. stream' = IF sampling THEN <<"sample", "download">> ELSE <<>>
    BY <1>1, <2>1
  <2>3. uploaded.rest = stepNr
    BY <2>1 DEF InputOf
  <2> QED
    BY <1>1, <1>3, <1>8, <2>2, <2>3 DEF StreamInv
<1>9. CASE host = "wait" /\ Head(stream) = "sample"
  <2>1. sampling /\ stream = <<"sample", "download">>
    BY <1>1, <1>9 DEF StreamInv
  <2>2. stream' = <<"download">>
    BY <1>1, <2>1
  <2>3. uploaded'.head = Samples(stepNr)
    BY <1>4, <1>9
  <2> QED
    BY <1>1, <1>4, <1>9, <2>1, <2>2, <2>3 DEF StreamInv, Samples
<1>10. CASE host = "wait" /\ Head(stream) = "download"
  <2>1. sampling /\ stream = <<"download">> /\ uploaded.head = Samples(stepNr)
    BY <1>1, <1>10 DEF StreamInv
  <2>2. stream' = <<>> /\ pinned'.head = Samples(stepNr)
    BY <1>1, <1>5, <1>10, <2>1
  <2> QED
    BY <1>1, <1>5, <1>10, <2>1, <2>2 DEF StreamInv, Samples
<1>11. host = "wait" => Head(stream) \in {"upload", "forward", "sample", "download"}
  BY <1>1 DEF StreamInv
<1> QED
  BY <1>1, <1>6, <1>7, <1>8, <1>9, <1>10, <1>11

LEMMA SynchronizeInv ==
  ASSUME StreamInv, Synchronize, broken' = broken, ~ broken
  PROVE  StreamInv'
<1>1. /\ host = "wait" /\ host' = "read" /\ stream = <<>>
      /\ UNCHANGED <<stepNr, sampling, stream, pinned, uploaded>>
  BY DEF Synchronize
<1>2. ~ sampling \/ pinned.head = Samples(stepNr)
  BY <1>1 DEF StreamInv
<1> QED
  BY <1>1, <1>2 DEF StreamInv, Samples

LEMMA DeviceFailsInv ==
  ASSUME StreamInv, DeviceFails
  PROVE  StreamInv'
BY DEF StreamInv, DeviceFails, Break, Samples, InputOf, TokenIds

LEMMA StreamStutters ==
  ASSUME StreamInv, UNCHANGED <<streamVars, broken>>
  PROVE  StreamInv'
BY DEF StreamInv, streamVars, Samples, InputOf, TokenIds

\* A copy of the start finds the stream empty, and leaves it so.
LEMMA CopyStreamInv ==
  ASSUME StreamInv, Idle, ReadWeights \/ UploadAngles
  PROVE  StreamInv'
<1>1. phase = "starting" /\ UNCHANGED streamVars
  BY DEF ReadWeights, UploadAngles, CopyToDevice, At
<1>2. (UNCHANGED memoryVars) \/ Break
  BY DEF ReadWeights, UploadAngles, CopyToDevice
<1>3. CASE UNCHANGED memoryVars
  BY <1>1, <1>3, StreamStutters DEF memoryVars
<1>4. CASE Break
  BY <1>1, <1>4 DEF StreamInv, Idle, Break, streamVars, Samples, InputOf, TokenIds
<1> QED
  BY <1>2, <1>3, <1>4

\* Only a failure of the device or a copy leaves it broken.
LEMMA StepKeepsBroken ==
  ASSUME RunnerNext, ~ DeviceFails, ~ ReadWeights, ~ UploadAngles
  PROVE  broken' = broken
BY DEF memoryVars, RunnerNext, StartRunner, OpenContext, AllocateBuffer, Resize, ResizeFails,
       MoveBuffer, Move, EndOfScope, Destroy, PinMemory, ProfileMemory, FinishStart,
       UploadStep, LaunchStep, FinishStep, HostCall, Shutdown, DeviceRuns, Unwind, CloseContext

LEMMA StreamStep == StreamInv /\ Idle /\ [RunnerNext]_vars => StreamInv'
<1> SUFFICES ASSUME StreamInv, Idle, [RunnerNext]_vars PROVE StreamInv'
  OBVIOUS
<1>1. CASE UNCHANGED vars
  BY <1>1, StreamStutters DEF vars, memoryVars, streamVars
<1>2. CASE DeviceFails
  BY <1>2, DeviceFailsInv
<1>3. CASE ReadWeights \/ UploadAngles
  BY <1>3, CopyStreamInv
<1>4. ASSUME RunnerNext, ~ DeviceFails, ~ ReadWeights, ~ UploadAngles PROVE StreamInv'
  <2>1. broken' = broken
    BY <1>4, StepKeepsBroken
  <2>2. CASE UNCHANGED streamVars
    BY <2>1, <2>2, StreamStutters
  <2>3. CASE UploadStep
    BY <2>1, <2>2, <2>3, UploadInputInv DEF UploadStep, HostCall
  <2>4. CASE LaunchStep
    BY <2>1, <2>2, <2>4, LaunchKernelsInv DEF LaunchStep, HostCall
  <2>5. CASE FinishStep
    <3>1. ASSUME HostCall(ReadSamples), ~ broken PROVE StreamInv'
      BY <2>1, <3>1 DEF HostCall, ReadSamples, StreamInv, Samples
    <3> QED
      BY <2>1, <2>2, <2>5, <3>1, SynchronizeInv DEF FinishStep, HostCall
  <2>6. CASE DeviceRuns
    BY <2>1, <2>6, ExecuteInv DEF DeviceRuns
  <2>7. CASE StartRunner \/ OpenContext \/ AllocateBuffer \/ MoveBuffer
              \/ EndOfScope \/ PinMemory \/ ProfileMemory \/ FinishStart \/ Shutdown
              \/ Unwind \/ CloseContext
    <3>1. UNCHANGED streamVars
      BY <2>7 DEF StartRunner, OpenContext, AllocateBuffer, MoveBuffer,
                  EndOfScope, PinMemory, ProfileMemory, FinishStart, Shutdown, Unwind, CloseContext
    <3> QED
      BY <2>2, <3>1
  <2> QED
    BY <1>4, <2>3, <2>4, <2>5, <2>6, <2>7 DEF RunnerNext
<1> QED
  BY <1>1, <1>2, <1>3, <1>4

LEMMA IdleStep == Idle /\ [RunnerNext]_vars => Idle'
<1> SUFFICES ASSUME Idle, [RunnerNext]_vars PROVE Idle'
  OBVIOUS
<1>1. CASE StartRunner \/ OpenContext \/ AllocateBuffer \/ ReadWeights \/ UploadAngles
            \/ MoveBuffer \/ EndOfScope \/ PinMemory \/ ProfileMemory
  <2>1. phase \in {"reading", "starting"} /\ UNCHANGED streamVars
    BY <1>1 DEF StartRunner, OpenContext, AllocateBuffer, ReadWeights, UploadAngles, CopyToDevice,
                MoveBuffer, EndOfScope, PinMemory, ProfileMemory, At
  <2> QED
    BY <2>1 DEF Idle, streamVars
<1>2. CASE FinishStart \/ Shutdown \/ Unwind \/ CloseContext
  BY <1>2 DEF FinishStart, Shutdown, Unwind, CloseContext, Throw, Idle
<1>3. CASE UploadStep \/ LaunchStep \/ FinishStep
  BY <1>3 DEF UploadStep, LaunchStep, FinishStep, HostCall, Throw, runnerVars, Idle
<1>4. CASE DeviceRuns \/ DeviceFails
  BY <1>4 DEF DeviceRuns, Execute, DeviceFails, runnerVars, Idle
<1>5. CASE UNCHANGED vars
  BY <1>5 DEF vars, streamVars, runnerVars, Idle
<1> QED
  BY <1>1, <1>2, <1>3, <1>4, <1>5 DEF RunnerNext

LEMMA SeparatedByInv == StreamInv => StepsSeparated
<1> SUFFICES ASSUME StreamInv PROVE StepsSeparated
  OBVIOUS
<1>1. ASSUME stream # <<>>
      PROVE  CASE Head(stream) = "upload" -> pinned = [head |-> TokenIds(stepNr), rest |-> stepNr]
               [] Head(stream) = "forward" -> uploaded = [head |-> TokenIds(stepNr), rest |-> stepNr]
               [] Head(stream) = "sample" -> uploaded.rest = stepNr
               [] OTHER -> uploaded.head = Samples(stepNr)
  <2>1. host \in {"launch", "wait"}
    BY <1>1 DEF StreamInv
  <2>2. \/ Head(stream) = "upload" /\ pinned = InputOf(stepNr)
        \/ Head(stream) = "forward" /\ uploaded = InputOf(stepNr)
        \/ Head(stream) = "sample" /\ uploaded.rest = stepNr
        \/ Head(stream) = "download" /\ uploaded.head = Samples(stepNr)
    BY <1>1, <2>1 DEF StreamInv
  <2> QED
    BY <2>2 DEF InputOf
<1>2. host = "read" /\ sampling => pinned.head = Samples(stepNr)
  BY DEF StreamInv
<1> QED
  BY <1>1, <1>2 DEF StepsSeparated

-----------------------------------------------------------------------------
(* What cudaMemGetInfo counts: the sum over the allocations.                *)

LEMMA UsedIsFold == UsedBytes = otherBytes + FoldOf(heap, DOMAIN heap)[DOMAIN heap]
BY Zenon DEF UsedBytes, MapThenSumSet, MapThenFoldSet, FoldOf, FoldEquation, Pick

\* The same values on S.
SameOn(f, g, S) == \A x \in S : f[x] = g[x]

LEMMA FoldKeeps ==
  ASSUME NEW f, NEW S, IsFiniteSet(S), NEW g, SameOn(f, g, S), NEW id
  PROVE  FoldOf(g, S \cup {id})[S] = FoldOf(f, S)[S]
<1> DEFINE U == S \cup {id}
<1>1. IsFiniteSet(U) /\ S \subseteq U
  BY FS_AddElement
<1> HIDE DEF U
<1>2. FoldOf(g, U)[S] = FoldOf(f, S)[S]
  BY <1>1, FoldsAgree DEF SameOn
<1> QED
  BY <1>2 DEF U

\* A new allocation adds its size, and nothing else.
LEMMA FoldGrows ==
  ASSUME NEW f, NEW S, IsFiniteSet(S), \A x \in S : f[x] \in Nat,
         NEW id, id \notin S, NEW size \in Nat,
         NEW g, SameOn(f, g, S), g[id] = size
  PROVE  FoldOf(g, S \cup {id})[S \cup {id}] = FoldOf(f, S)[S] + size
<1> DEFINE U == S \cup {id}
<1>1. IsFiniteSet(U)
  BY FS_AddElement
<1>2. \A x \in U : g[x] \in Nat
  BY DEF SameOn
<1>3. U \ {id} = S /\ id \in U /\ U \in SUBSET U /\ S \subseteq U
  OBVIOUS
<1> HIDE DEF U
<1>4. FoldOf(g, U)[U] = g[id] + FoldOf(g, U)[S]
  <2>1. FoldOf(g, U)[U] = g[id] + FoldOf(g, U)[U \ {id}]
    BY <1>1, <1>2, <1>3, FoldElement
  <2> QED
    BY <1>3, <2>1
<1>5. FoldOf(g, U)[S] = FoldOf(f, S)[S]
  <2>1. FoldOf(g, S \cup {id})[S] = FoldOf(f, S)[S]
    BY FoldKeeps
  <2> QED
    BY <2>1 DEF U
<1>6. FoldOf(f, S)[S] \in Nat
  BY FoldType
<1> QED
  BY <1>4, <1>5, <1>6 DEF U

-----------------------------------------------------------------------------
(* What the instructions are, one kind after the other.                     *)

LEMMA ProgramText ==
  /\ Len(Program) = 21
  /\ Program[1].op = "open context"
  /\ Program[2].op = "allocate" /\ Program[2].b = "loaded"
  /\ Program[2].size = WeightBytes /\ Program[2].member = "weights"
  /\ Program[3].op = "read weights"
  /\ Program[4].op = "move" /\ Program[4].dst = "weights" /\ Program[4].src = "loaded"
  /\ Program[5].op = "allocate" /\ Program[5].b = "data"
  /\ Program[5].size = modelConfig.maxModelLen * PositionBytes /\ Program[5].member = "rope"
  /\ Program[6].op = "upload angles"
  /\ Program[7].op = "move" /\ Program[7].dst = "rope" /\ Program[7].src = "data"
  /\ Program[8].op = "end" /\ Program[8].b = "data"
  /\ Program[9].op = "end" /\ Program[9].b = "loaded"
  /\ Program[10].op = "allocate" /\ Program[10].b = "sampler"
  /\ Program[10].size = SamplerBytes /\ Program[10].member = "sampler"
  /\ Program[11].op = "allocate" /\ Program[11].b = "data"
  /\ Program[11].size = WorkspaceBytes /\ Program[11].member = "workspace"
  /\ Program[12].op = "move" /\ Program[12].dst = "workspace" /\ Program[12].src = "data"
  /\ Program[13].op = "end" /\ Program[13].b = "data"
  /\ Program[14].op = "allocate" /\ Program[14].b = "batch"
  /\ Program[14].size = BatchBytes /\ Program[14].member = "batch"
  /\ Program[15].op = "pin"
  /\ Program[16].op = "profile"
  /\ Program[17].op = "allocate" /\ Program[17].b = "data"
  /\ Program[17].size = numBlocks * BlockBytes /\ Program[17].member = "kv"
  /\ Program[18].op = "move" /\ Program[18].dst = "created" /\ Program[18].src = "data"
  /\ Program[19].op = "end" /\ Program[19].b = "data"
  /\ Program[20].op = "move" /\ Program[20].dst = "kv" /\ Program[20].src = "created"
  /\ Program[21].op = "end" /\ Program[21].b = "created"
BY DEF Program, Allocate, MoveTo, EndOf

\* The kind of an instruction says where in the program it is.
LEMMA PlaceOf ==
  ASSUME NEW op, At(op), pc \in 1 .. 22
  PROVE  /\ phase = "starting" /\ pc \in 1 .. 21 /\ Instruction = Program[pc]
         /\ op = "allocate" => pc \in {2, 5, 10, 11, 14, 17}
         /\ op = "move" => pc \in {4, 7, 12, 18, 20}
         /\ op = "end" => pc \in {8, 9, 13, 19, 21}
         /\ op = "open context" => pc = 1
         /\ op = "read weights" => pc = 3
         /\ op = "upload angles" => pc = 6
         /\ op = "pin" => pc = 15
         /\ op = "profile" => pc = 16
<1>1. phase = "starting" /\ pc <= Len(Program) /\ Program[pc].op = op
  BY DEF At
<1>2. Len(Program) = 21 /\ Instruction = Program[pc]
  BY ProgramText DEF Instruction
<1>3. pc \in 1 .. 21
  BY <1>1, <1>2
<1>4. CASE pc \in {2, 5, 10, 11, 14, 17}
  <2>1. Program[pc].op = "allocate"
    BY <1>4, ProgramText
  <2>2. op = "allocate"
    BY <1>1, <2>1
  <2> QED
    BY <1>1, <1>2, <1>3, <1>4, <2>2
<1>5. CASE pc \in {4, 7, 12, 18, 20}
  <2>1. Program[pc].op = "move"
    BY <1>5, ProgramText
  <2>2. op = "move"
    BY <1>1, <2>1
  <2> QED
    BY <1>1, <1>2, <1>3, <1>5, <2>2
<1>6. CASE pc \in {8, 9, 13, 19, 21}
  <2>1. Program[pc].op = "end"
    BY <1>6, ProgramText
  <2>2. op = "end"
    BY <1>1, <2>1
  <2> QED
    BY <1>1, <1>2, <1>3, <1>6, <2>2
<1>7. CASE pc \in {1, 3, 6, 15, 16}
  <2>1. /\ pc = 1 => Program[pc].op = "open context"
        /\ pc = 3 => Program[pc].op = "read weights"
        /\ pc = 6 => Program[pc].op = "upload angles"
        /\ pc = 15 => Program[pc].op = "pin"
        /\ pc = 16 => Program[pc].op = "profile"
    <3>1. (pc = 1 => Program[pc].op = "open context") /\ (pc = 3 => Program[pc].op = "read weights")
      BY ProgramText, Zenon
    <3>2. (pc = 6 => Program[pc].op = "upload angles") /\ (pc = 15 => Program[pc].op = "pin")
      BY ProgramText, Zenon
    <3>3. pc = 16 => Program[pc].op = "profile"
      BY ProgramText, Zenon
    <3> QED
      BY <3>1, <3>2, <3>3
  <2>2. /\ pc = 1 => op = "open context"
        /\ pc = 3 => op = "read weights"
        /\ pc = 6 => op = "upload angles"
        /\ pc = 15 => op = "pin"
        /\ pc = 16 => op = "profile"
    BY <1>1, <2>1, Zenon
  <2> QED
    BY <1>1, <1>2, <1>3, <1>7, <2>2
<1>8. \/ pc \in {2, 5, 10, 11, 14, 17} \/ pc \in {4, 7, 12, 18, 20}
      \/ pc \in {8, 9, 13, 19, 21} \/ pc \in {1, 3, 6, 15, 16}
  BY <1>3
<1> QED
  BY <1>4, <1>5, <1>6, <1>7, <1>8, Zenon

\* Where the views point at each place of the program.
LEMMA HomeTable ==
  /\ Home("weights") = IF pc <= 2 THEN "none" ELSE IF pc <= 4 THEN "loaded" ELSE "weights"
  /\ Home("rope") = IF pc <= 5 THEN "none" ELSE IF pc <= 7 THEN "data" ELSE "rope"
  /\ Home("workspace") = IF pc <= 11 THEN "none" ELSE IF pc = 12 THEN "data" ELSE "workspace"
  /\ Home("kv") = IF pc <= 17 THEN "none" ELSE IF pc = 18 THEN "data"
                  ELSE IF pc <= 20 THEN "created" ELSE "kv"
BY DEF Home

LEMMA HomeTableNext ==
  /\ Home("weights")' = IF pc' <= 2 THEN "none" ELSE IF pc' <= 4 THEN "loaded" ELSE "weights"
  /\ Home("rope")' = IF pc' <= 5 THEN "none" ELSE IF pc' <= 7 THEN "data" ELSE "rope"
  /\ Home("workspace")' = IF pc' <= 11 THEN "none" ELSE IF pc' = 12 THEN "data" ELSE "workspace"
  /\ Home("kv")' = IF pc' <= 17 THEN "none" ELSE IF pc' = 18 THEN "data"
                   ELSE IF pc' <= 20 THEN "created" ELSE "kv"
BY DEF Home

LEMMA BytesTable ==
  /\ Bytes("weights") = WeightBytes
  /\ Bytes("rope") = modelConfig.maxModelLen * PositionBytes
  /\ Bytes("workspace") = WorkspaceBytes
  /\ Bytes("kv") = numBlocks * BlockBytes
BY DEF Bytes

LEMMA ProductsAreNatural == \A a, b \in Nat : a * b \in Nat
OBVIOUS

\* Every allocation is made by a buffer that exists, and of a size.
LEMMA AllocateOperands ==
  ASSUME At("allocate"), pc \in 1 .. 22, modelConfig.maxModelLen \in Nat, numBlocks \in Nat
  PROVE  Instruction.b \in {"loaded", "data", "sampler", "batch"} /\ Instruction.size \in Nat
<1>1. pc \in {2, 5, 10, 11, 14, 17} /\ Instruction = Program[pc]
  BY PlaceOf, Zenon
<1>2. /\ {WeightBytes, PositionBytes, SamplerBytes, WorkspaceBytes, BatchBytes, BlockBytes} \subseteq Nat
      /\ modelConfig.maxModelLen * PositionBytes \in Nat /\ numBlocks * BlockBytes \in Nat
  BY RunnerAssumption, ProductsAreNatural
<1>3. CASE pc = 2
  <2>1. Instruction.b = "loaded" /\ Instruction.size = WeightBytes
    BY <1>1, <1>3, ProgramText
  <2> QED
    BY <1>2, <2>1
<1>4. CASE pc = 5
  <2>1. Instruction.b = "data" /\ Instruction.size = modelConfig.maxModelLen * PositionBytes
    BY <1>1, <1>4, ProgramText
  <2> QED
    BY <1>2, <2>1
<1>5. CASE pc = 10
  <2>1. Instruction.b = "sampler" /\ Instruction.size = SamplerBytes
    BY <1>1, <1>5, ProgramText
  <2> QED
    BY <1>2, <2>1
<1>6. CASE pc = 11
  <2>1. Instruction.b = "data" /\ Instruction.size = WorkspaceBytes
    BY <1>1, <1>6, ProgramText
  <2> QED
    BY <1>2, <2>1
<1>7. CASE pc = 14
  <2>1. Instruction.b = "batch" /\ Instruction.size = BatchBytes
    BY <1>1, <1>7, ProgramText
  <2> QED
    BY <1>2, <2>1
<1>8. CASE pc = 17
  <2>1. Instruction.b = "data" /\ Instruction.size = numBlocks * BlockBytes
    BY <1>1, <1>8, ProgramText
  <2> QED
    BY <1>2, <2>1
<1> QED
  BY <1>1, <1>3, <1>4, <1>5, <1>6, <1>7, <1>8

\* An allocation makes a new home for one member, or for none.
LEMMA AllocatePlace ==
  ASSUME At("allocate"), pc \in 1 .. 22, pc' = pc + 1
  PROVE  /\ Instruction.member \in Viewed \cup {"sampler", "batch"}
         /\ Instruction.b = "data" => Instruction.member \in Viewed
         /\ Instruction.member \in Viewed => Instruction.size = Bytes(Instruction.member)
         /\ \A member \in Viewed :
               /\ Home(member) # Instruction.b
               /\ Home(member)' = IF member = Instruction.member THEN Instruction.b ELSE Home(member)
               /\ member = Instruction.member => Home(member) = "none"
         /\ pc # 16
         /\ pc = 14 => Instruction.b = "batch"
         /\ pc >= 17 => pc = 17 /\ Instruction.size = numBlocks * BlockBytes /\ Instruction.b = "data"
<1>1. pc \in {2, 5, 10, 11, 14, 17} /\ Instruction = Program[pc]
  BY PlaceOf, Zenon
<1>2. CASE pc = 2
  <2>1. Instruction.b = "loaded" /\ Instruction.size = WeightBytes /\ Instruction.member = "weights"
    BY <1>1, <1>2, ProgramText
  <2>2. pc' = 3
    BY <1>2
  <2> QED
    BY <1>2, <2>1, <2>2, HomeTable, HomeTableNext, BytesTable DEF Viewed
<1>3. CASE pc = 5
  <2>1. /\ Instruction.b = "data" /\ Instruction.member = "rope"
        /\ Instruction.size = modelConfig.maxModelLen * PositionBytes
    BY <1>1, <1>3, ProgramText
  <2>2. pc' = 6
    BY <1>3
  <2> QED
    BY <1>3, <2>1, <2>2, HomeTable, HomeTableNext, BytesTable DEF Viewed
<1>4. CASE pc = 10
  <2>1. Instruction.b = "sampler" /\ Instruction.size = SamplerBytes /\ Instruction.member = "sampler"
    BY <1>1, <1>4, ProgramText
  <2>2. pc' = 11
    BY <1>4
  <2> QED
    BY <1>4, <2>1, <2>2, HomeTable, HomeTableNext, BytesTable DEF Viewed
<1>5. CASE pc = 11
  <2>1. Instruction.b = "data" /\ Instruction.size = WorkspaceBytes /\ Instruction.member = "workspace"
    BY <1>1, <1>5, ProgramText
  <2>2. pc' = 12
    BY <1>5
  <2> QED
    BY <1>5, <2>1, <2>2, HomeTable, HomeTableNext, BytesTable DEF Viewed
<1>6. CASE pc = 14
  <2>1. Instruction.b = "batch" /\ Instruction.size = BatchBytes /\ Instruction.member = "batch"
    BY <1>1, <1>6, ProgramText
  <2>2. pc' = 15
    BY <1>6
  <2> QED
    BY <1>6, <2>1, <2>2, HomeTable, HomeTableNext, BytesTable DEF Viewed
<1>7. CASE pc = 17
  <2>1. Instruction.b = "data" /\ Instruction.size = numBlocks * BlockBytes /\ Instruction.member = "kv"
    BY <1>1, <1>7, ProgramText
  <2>2. pc' = 18
    BY <1>7
  <2> QED
    BY <1>7, <2>1, <2>2, HomeTable, HomeTableNext, BytesTable DEF Viewed
<1> QED
  BY <1>1, <1>2, <1>3, <1>4, <1>5, <1>6, <1>7

\* A move takes the home of one member along.
LEMMA MovePlace ==
  ASSUME At("move"), pc \in 1 .. 22, pc' = pc + 1
  PROVE  /\ Instruction.dst \in {"weights", "rope", "workspace", "created", "kv"}
         /\ Instruction.src \in {"loaded", "data", "created"} \ {Instruction.dst}
         /\ \E member \in Viewed : Home(member) = Instruction.src
         /\ \A member \in Viewed :
               /\ Home(member) # Instruction.dst
               /\ Home(member)' = IF Home(member) = Instruction.src THEN Instruction.dst
                                  ELSE Home(member)
         /\ pc >= 17 => Instruction.dst \in {"created", "kv"}
         /\ pc \notin {14, 16, 17}
<1>1. pc \in {4, 7, 12, 18, 20} /\ Instruction = Program[pc]
  BY PlaceOf, Zenon
<1>2. CASE pc = 4
  <2>1. Instruction.dst = "weights" /\ Instruction.src = "loaded"
    BY <1>1, <1>2, ProgramText
  <2>2. pc' = 5
    BY <1>2
  <2> QED
    BY <1>2, <2>1, <2>2, HomeTable, HomeTableNext DEF Viewed
<1>3. CASE pc = 7
  <2>1. Instruction.dst = "rope" /\ Instruction.src = "data"
    BY <1>1, <1>3, ProgramText
  <2>2. pc' = 8
    BY <1>3
  <2> QED
    BY <1>3, <2>1, <2>2, HomeTable, HomeTableNext DEF Viewed
<1>4. CASE pc = 12
  <2>1. Instruction.dst = "workspace" /\ Instruction.src = "data"
    BY <1>1, <1>4, ProgramText
  <2>2. pc' = 13
    BY <1>4
  <2> QED
    BY <1>4, <2>1, <2>2, HomeTable, HomeTableNext DEF Viewed
<1>5. CASE pc = 18
  <2>1. Instruction.dst = "created" /\ Instruction.src = "data"
    BY <1>1, <1>5, ProgramText
  <2>2. pc' = 19
    BY <1>5
  <2> QED
    BY <1>5, <2>1, <2>2, HomeTable, HomeTableNext DEF Viewed
<1>6. CASE pc = 20
  <2>1. Instruction.dst = "kv" /\ Instruction.src = "created"
    BY <1>1, <1>6, ProgramText
  <2>2. pc' = 21
    BY <1>6
  <2> QED
    BY <1>6, <2>1, <2>2, HomeTable, HomeTableNext DEF Viewed
<1> QED
  BY <1>1, <1>2, <1>3, <1>4, <1>5, <1>6

\* A scope that ends leaves nobody's home.
LEMMA EndPlace ==
  ASSUME At("end"), pc \in 1 .. 22, pc' = pc + 1
  PROVE  /\ Instruction.b \in {"loaded", "data", "created"}
         /\ \A member \in Viewed : Home(member) # Instruction.b /\ Home(member)' = Home(member)
         /\ pc >= 17 => Instruction.b \in {"data", "created"}
         /\ pc \notin {14, 16, 17}
<1>1. pc \in {8, 9, 13, 19, 21} /\ Instruction = Program[pc]
  BY PlaceOf, Zenon
<1>2. CASE pc = 8
  <2>1. Instruction.b = "data"
    BY <1>1, <1>2, ProgramText
  <2>2. pc' = 9
    BY <1>2
  <2> QED
    BY <1>2, <2>1, <2>2, HomeTable, HomeTableNext DEF Viewed
<1>3. CASE pc = 9
  <2>1. Instruction.b = "loaded"
    BY <1>1, <1>3, ProgramText
  <2>2. pc' = 10
    BY <1>3
  <2> QED
    BY <1>3, <2>1, <2>2, HomeTable, HomeTableNext DEF Viewed
<1>4. CASE pc = 13
  <2>1. Instruction.b = "data"
    BY <1>1, <1>4, ProgramText
  <2>2. pc' = 14
    BY <1>4
  <2> QED
    BY <1>4, <2>1, <2>2, HomeTable, HomeTableNext DEF Viewed
<1>5. CASE pc = 19
  <2>1. Instruction.b = "data"
    BY <1>1, <1>5, ProgramText
  <2>2. pc' = 20
    BY <1>5
  <2> QED
    BY <1>5, <2>1, <2>2, HomeTable, HomeTableNext DEF Viewed
<1>6. CASE pc = 21
  <2>1. Instruction.b = "created"
    BY <1>1, <1>6, ProgramText
  <2>2. pc' = 22
    BY <1>6
  <2> QED
    BY <1>6, <2>1, <2>2, HomeTable, HomeTableNext DEF Viewed
<1> QED
  BY <1>1, <1>2, <1>3, <1>4, <1>5, <1>6

\* Nothing moves where no buffer is touched.
LEMMA OtherPlace ==
  ASSUME pc \in {1, 3, 6, 15, 16}, pc' = pc + 1
  PROVE  \A member \in Viewed : Home(member)' = Home(member)
BY HomeTable, HomeTableNext DEF Viewed

LEMMA HomeStays == pc' = pc => \A member \in Viewed : Home(member)' = Home(member)
BY HomeTable, HomeTableNext DEF Viewed

LEMMA HomeInBuffers == \A member \in Viewed : Home(member) # "none" => Home(member) \in Buffers
BY HomeTable, BuffersAssumption DEF Viewed

LEMMA BytesStay ==
  UNCHANGED <<modelConfig, numBlocks>> => \A member \in Viewed : Bytes(member)' = Bytes(member)
BY DEF Bytes, Viewed

-----------------------------------------------------------------------------
(* The objects that exist.                                                  *)

LEMMA ConstructedKeeps ==
  ASSUME alive \in Seq(Buffers), NEW b \in Buffers
  PROVE  /\ Constructed(b) \in Seq(Buffers) /\ Contains(Constructed(b), b)
         /\ \A x : Contains(alive, x) => Contains(Constructed(b), x)
<1>1. CASE Contains(alive, b)
  BY <1>1 DEF Constructed
<1>2. CASE ~ Contains(alive, b)
  <2> DEFINE r == Append(alive, b)
             n == Len(alive)
  <2>1. /\ r \in Seq(Buffers) /\ Len(r) = n + 1 /\ r[n + 1] = b /\ n \in Nat
        /\ \A i \in 1 .. n : r[i] = alive[i]
    BY AppendNode
  <2>2. Constructed(b) = r
    BY <1>2 DEF Constructed
  <2> HIDE DEF r
  <2> QED
    BY <2>1, <2>2 DEF Contains
<1> QED
  BY <1>1, <1>2

\* One node less, wherever it is: what else was in the sequence still is.
LEMMA RemovedKeeps ==
  ASSUME alive \in Seq(Buffers), NEW k \in 1 .. Len(alive)
  PROVE  /\ RemoveAt(alive, k) \in Seq(Buffers)
         /\ \A x : Contains(alive, x) /\ x # alive[k] => Contains(RemoveAt(alive, k), x)
<1> DEFINE r == RemoveAt(alive, k)
           n == Len(alive)
<1>1. /\ r \in Seq(Buffers) /\ Len(r) = n - 1 /\ n \in Nat
      /\ \A i \in 1 .. (n - 1) : r[i] = IF i < k THEN alive[i] ELSE alive[i + 1]
  BY EraseNode
<1> HIDE DEF r
<1>2. ASSUME NEW x, Contains(alive, x), x # alive[k] PROVE Contains(r, x)
  <2>1. PICK i \in 1 .. n : alive[i] = x
    BY <1>2 DEF Contains
  <2>2. CASE i < k
    <3>1. i \in 1 .. (n - 1) /\ r[i] = x
      BY <1>1, <2>1, <2>2
    <3> QED
      BY <1>1, <3>1 DEF Contains
  <2>3. CASE i > k
    <3>1. i - 1 \in 1 .. (n - 1) /\ r[i - 1] = x
      BY <1>1, <2>1, <2>3
    <3> QED
      BY <1>1, <3>1 DEF Contains
  <2> QED
    BY <1>2, <2>1, <2>2, <2>3
<1> QED
  BY <1>1, <1>2 DEF r

LEMMA RemoveFirstKeeps ==
  ASSUME alive \in Seq(Buffers), NEW b
  PROVE  /\ RemoveFirst(alive, b) \in Seq(Buffers)
         /\ \A x : Contains(alive, x) /\ x # b => Contains(RemoveFirst(alive, b), x)
<1>1. CASE Contains(alive, b)
  <2>1. PICK k \in 1 .. Len(alive) : alive[k] = b /\ RemoveFirst(alive, b) = RemoveAt(alive, k)
    BY <1>1, RemoveFirstNode
  <2> QED
    BY <2>1, RemovedKeeps
<1>2. CASE ~ Contains(alive, b)
  <2>1. RemoveFirst(alive, b) = alive
    BY <1>2, RemoveFirstNode
  <2> QED
    BY <2>1
<1> QED
  BY <1>1, <1>2

LEMMA FrontKeeps ==
  ASSUME alive \in Seq(Buffers), alive # <<>>
  PROVE  /\ Last(alive) \in Buffers /\ Front(alive) \in Seq(Buffers)
         /\ \A x : Contains(alive, x) /\ x # Last(alive) => Contains(Front(alive), x)
<1> DEFINE n == Len(alive)
           r == Front(alive)
<1>1. /\ r \in Seq(Buffers) /\ Len(r) = n - 1 /\ Last(alive) = alive[n]
      /\ \A i \in 1 .. (n - 1) : r[i] = alive[i]
  BY DropLast
<1>2. n \in Nat \ {0} /\ alive[n] \in Buffers
  OBVIOUS
<1> HIDE DEF r
<1>3. ASSUME NEW x, Contains(alive, x), x # Last(alive) PROVE Contains(r, x)
  <2>1. PICK i \in 1 .. n : alive[i] = x
    BY <1>3 DEF Contains
  <2>2. i \in 1 .. (n - 1) /\ r[i] = x
    BY <1>1, <1>2, <1>3, <2>1
  <2> QED
    BY <1>1, <2>2 DEF Contains
<1> QED
  BY <1>1, <1>2, <1>3 DEF r

LEMMA NothingContained == \A x : ~ Contains(<<>>, x)
BY DEF Contains

-----------------------------------------------------------------------------
(* What an allocation and a free do to the memory that is used.             *)

LEMMA UsedType ==
  ASSUME MemoryInv, otherBytes \in Nat, ~ broken
  PROVE  /\ IsFiniteSet(DOMAIN heap) /\ \A id \in DOMAIN heap : heap[id] \in Nat
         /\ UsedBytes \in Nat
<1>1. IsFiniteSet(DOMAIN heap)
  <2>1. IsFiniteSet(1 .. lastId)
    <3>1. lastId \in Int
      BY DEF MemoryInv, MemoryTypeOK
    <3> QED
      BY <3>1, FS_Interval
  <2> QED
    BY <2>1, FS_Subset DEF MemoryInv, MemoryTypeOK
<1>2. ASSUME NEW id \in DOMAIN heap PROVE heap[id] \in Nat
  <2>1. id # Null
    BY DEF MemoryInv, MemoryTypeOK, Null
  <2>2. PICK b \in Buffers : buffer[b].data = id
    BY DEF MemoryInv, OneOwnerPerAllocation
  <2>3. heap[id] = buffer[b].size
    BY <2>1, <2>2 DEF MemoryInv, OneOwnerPerAllocation
  <2> QED
    BY <2>3 DEF MemoryInv, MemoryTypeOK
<1>3. FoldOf(heap, DOMAIN heap)[DOMAIN heap] \in Nat
  BY <1>1, <1>2, FoldType
<1> QED
  BY <1>1, <1>2, <1>3, UsedIsFold

\* What is not there is not freed.
LEMMA NothingFreed ==
  ASSUME MemoryInv, NEW b \in Buffers, buffer[b].data = Null
  PROVE  Without(Freed(b)) = heap
<1>1. Freed(b) = {}
  BY FreedOwn DEF MemoryInv, MemoryTypeOK, Null
<1>2. Without(Freed(b)) = [id \in DOMAIN heap |-> heap[id]]
  BY <1>1 DEF Without
<1> QED
  BY <1>2 DEF MemoryInv, MemoryTypeOK

LEMMA UsedGrows ==
  ASSUME MemoryInv, otherBytes \in Nat, NEW b \in Buffers, buffer[b].data = Null,
         NEW size \in Nat, Resize(b, size)
  PROVE  UsedBytes' = UsedBytes + size
<1>1. ~ broken /\ otherBytes' = otherBytes /\ lastId' = lastId + 1
  BY DEF Resize, CanAllocate
<1>2. heap' = With(heap, lastId', size)
  BY NothingFreed DEF Resize
<1>3. /\ DOMAIN heap' = DOMAIN heap \cup {lastId'}
      /\ heap'[lastId'] = size
      /\ \A id \in DOMAIN heap : id # lastId' => heap'[id] = heap[id]
  BY <1>2 DEF With
<1>4. lastId' \notin DOMAIN heap
  BY <1>1 DEF MemoryInv, MemoryTypeOK
<1>5. SameOn(heap, heap', DOMAIN heap)
  BY <1>3, <1>4 DEF SameOn
<1>6. /\ IsFiniteSet(DOMAIN heap) /\ \A id \in DOMAIN heap : heap[id] \in Nat
      /\ UsedBytes \in Nat
  BY <1>1, UsedType
<1> DEFINE U == DOMAIN heap \cup {lastId'}
<1>7. FoldOf(heap', U)[U] = FoldOf(heap, DOMAIN heap)[DOMAIN heap] + size
  BY <1>3, <1>4, <1>5, <1>6, FoldGrows
<1>8. UsedBytes' = otherBytes' + FoldOf(heap', DOMAIN heap')[DOMAIN heap']
  BY Zenon DEF UsedBytes, MapThenSumSet, MapThenFoldSet, FoldOf, FoldEquation, Pick
<1>9. UsedBytes' = otherBytes + FoldOf(heap', U)[U]
  BY <1>1, <1>3, <1>8, Zenon
<1>10. FoldOf(heap, DOMAIN heap)[DOMAIN heap] \in Nat
  BY <1>6, FoldType
<1>11. UsedBytes = otherBytes + FoldOf(heap, DOMAIN heap)[DOMAIN heap]
  BY UsedIsFold
<1> HIDE DEF U
<1> QED
  BY <1>7, <1>9, <1>10, <1>11

LEMMA UsedStays ==
  ASSUME heap' = heap, otherBytes' = otherBytes
  PROVE  UsedBytes' = UsedBytes
<1>1. UsedBytes' = otherBytes' + FoldOf(heap', DOMAIN heap')[DOMAIN heap']
  BY Zenon DEF UsedBytes, MapThenSumSet, MapThenFoldSet, FoldOf, FoldEquation, Pick
<1> QED
  BY <1>1, UsedIsFold, Zenon

-----------------------------------------------------------------------------
(* The steps of the program.                                                *)

LEMMA ConfigFields ==
  ASSUME NEW dir
  PROVE  /\ LoadModelConfig(dir).maxModelLen = dir.maxModelLen
         /\ ~ Refused(dir) => LoadInfo(dir) = LoadModelConfig(dir)
BY DEF LoadModelConfig, LoadInfo, Refused, HasEos

\* What a step of the program finds.
LEMMA ProgramState ==
  ASSUME RunnerInv, phase = "starting"
  PROVE  /\ ConfigRead /\ ViewsHome /\ LocalsEmpty /\ PoolFits /\ pc \in 1 .. 22
         /\ pc > 14 => Contains(alive, "batch")
         /\ modelConfig.maxModelLen \in Nat \ {0} /\ numBlocks \in Nat
         /\ otherBytes \in Nat /\ ~ broken
         /\ UsedBytes \in Nat
<1>1. ConfigRead /\ ViewsHome /\ LocalsEmpty /\ PoolFits /\ (pc > 14 => Contains(alive, "batch"))
  BY DEF RunnerInv, ProgramInv
<1>2. pc \in 1 .. 22 /\ ~ broken /\ modelConfig = LoadModelConfig(directory)
  BY <1>1 DEF ConfigRead
<1>3. directory.maxModelLen \in Nat \ {0} /\ numBlocks \in Nat /\ otherBytes \in Nat
  BY DEF RunnerInv, LifeInv
<1>4. UsedBytes \in Nat
  BY <1>2, <1>3, UsedType DEF RunnerInv
<1> QED
  BY <1>1, <1>2, <1>3, <1>4, ConfigFields

\* Past the first instruction, more can have been taken.
LEMMA TakenGrows ==
  ASSUME UNCHANGED directory, pc' = pc \/ pc' # 1
  PROVE  Taken \subseteq Taken'
BY DEF Taken, Refused

\* A step that leaves the buffers and the objects alone.
LEMMA LifeStays ==
  ASSUME LifeInv, UNCHANGED <<buffer, otherBytes, directory, alive, views, resources>>,
         numBlocks' \in Nat, phase' \in {"starting", "running", "unwinding"},
         pc' = pc \/ pc' # 1, broken' = broken \/ broken'
  PROVE  LifeInv'
<1>1. Taken \subseteq Taken'
  BY TakenGrows
<1> QED
  BY <1>1 DEF LifeInv

LEMMA StartRunnerInv ==
  ASSUME RunnerInv, StartRunner
  PROVE  ProgramInv' /\ LifeInv'
<1>1. /\ phase = "reading" /\ pc = 1 /\ alive = <<>> /\ ~ broken
      /\ UNCHANGED <<directory, pc, alive, resources, views, numBlocks, memoryVars>>
      /\ phase' \in {"unwinding", "starting"}
  BY DEF StartRunner, RunnerInv, LifeInv
<1>2. LifeInv'
  BY <1>1, LifeStays DEF RunnerInv, memoryVars, LifeInv
<1>3. ASSUME phase' = "starting" PROVE ProgramInv'
  <2>1. ConfigRead'
    BY <1>1, <1>3 DEF StartRunner, ConfigRead, memoryVars, Refused, LoadInfo, LoadModelConfig
  <2>2. \A member \in Viewed : Home(member)' = "none"
    BY <1>1, HomeTableNext DEF Viewed
  <2>3. ViewsHome'
    BY <2>2 DEF ViewsHome
  <2>4. \A b \in {"data", "created", "kv"} : buffer[b].data = Null
    BY <1>1, NothingContained, BuffersAssumption DEF RunnerInv, LifeInv
  <2>5. LocalsEmpty'
    BY <1>1, <2>4 DEF LocalsEmpty, memoryVars
  <2>6. PoolFits' /\ (pc' > 14 => Contains(alive, "batch")')
    BY <1>1 DEF PoolFits
  <2> QED
    BY <2>1, <2>3, <2>5, <2>6 DEF ProgramInv
<1> QED
  BY <1>1, <1>2, <1>3 DEF ProgramInv

\* An instruction without a buffer goes on.
LEMMA QuietInv ==
  ASSUME RunnerInv, phase = "starting", pc \in {1, 3, 6, 15}, Advance,
         UNCHANGED <<memoryVars, alive, views, numBlocks>>
  PROVE  ProgramInv'
<1>1. /\ pc' = pc + 1 /\ UNCHANGED <<directory, info, modelConfig, phase>>
      /\ UNCHANGED <<heap, buffer, otherBytes, broken>>
  BY DEF Advance, memoryVars
<1>2. ConfigRead'
  BY <1>1, ProgramState DEF ConfigRead
<1>3. ViewsHome'
  <2>1. \A member \in Viewed : Home(member)' = Home(member) /\ Bytes(member)' = Bytes(member)
    BY <1>1, OtherPlace, BytesStay
  <2> QED
    BY <1>1, <2>1, ProgramState DEF ViewsHome
<1>4. LocalsEmpty'
  BY <1>1, OtherPlace, ProgramState DEF LocalsEmpty
<1>5. PoolFits' /\ (pc' > 14 => Contains(alive, "batch")')
  <2>1. pc' \in {2, 4, 7, 16}
    BY <1>1
  <2>2. pc' > 14 => Contains(alive, "batch")
    BY <1>1, ProgramState
  <2>3. PoolFits'
    BY <2>1 DEF PoolFits
  <2> QED
    BY <2>2, <2>3
<1> QED
  BY <1>2, <1>3, <1>4, <1>5 DEF ProgramInv

\* profile_available_kv_cache_memory: the pool takes no more than is left, and it
\* is not empty, since the model has a position.
LEMMA ProfileFits ==
  ASSUME RunnerInv, phase = "starting"
  PROVE  /\ Available \div BlockBytes \in Nat
         /\ (Available \div BlockBytes) * BlockSize >= modelConfig.maxModelLen =>
              UsedBytes + (Available \div BlockBytes) * BlockBytes <= Budget
<1>1. UsedBytes \in Nat /\ modelConfig.maxModelLen \in Nat \ {0}
  BY ProgramState
<1>2. BlockBytes \in Nat \ {0} /\ BlockSize \in Nat \ {0} /\ Budget \in Int
  <2>1. TotalBytes * Utilization \in Int
    BY RunnerAssumption, TotalBytesAssumption
  <2>2. Budget \in Int
    BY <2>1 DEF Budget
  <2> QED
    BY <2>2, RunnerAssumption
<1>3. Available = IF Budget > UsedBytes THEN Budget - UsedBytes ELSE 0
  BY DEF Available, Budget
<1>4. Available \in Nat
  BY <1>1, <1>2, <1>3
<1>5. \A a \in Nat, b \in Nat \ {0} : a \div b \in Nat /\ (a \div b) * b <= a
  OBVIOUS
<1> DEFINE n == Available \div BlockBytes
<1>6. n \in Nat /\ n * BlockBytes <= Available
  BY <1>2, <1>4, <1>5
<1>7. ASSUME n * BlockSize >= modelConfig.maxModelLen PROVE UsedBytes + n * BlockBytes <= Budget
  <2>1. n # 0
    <3> HIDE DEF n
    <3> QED
      BY <1>1, <1>2, <1>6, <1>7
  <2>2. Available # 0
    <3>1. 0 \div BlockBytes = 0
      BY <1>2
    <3> QED
      BY <2>1, <3>1
  <2>3. Available = Budget - UsedBytes
    BY <1>3, <2>2
  <2>4. n * BlockBytes \in Nat
    <3> HIDE DEF n
    <3> QED
      BY <1>2, <1>6, ProductsAreNatural
  <2> HIDE DEF n
  <2> QED
    BY <1>1, <1>2, <1>6, <2>3, <2>4
<1> QED
  BY <1>6, <1>7

LEMMA ProfileInv ==
  ASSUME RunnerInv, ProfileMemory
  PROVE  ProgramInv' /\ LifeInv'
<1>1. phase = "starting" /\ pc = 16 /\ UNCHANGED <<alive, resources, memoryVars>>
  BY ProgramState, PlaceOf DEF ProfileMemory, At
<1> DEFINE blocks == Available \div BlockBytes
<1>2. CASE blocks * BlockSize < modelConfig.maxModelLen
  <2>1. Throw
    BY <1>2 DEF ProfileMemory
  <2> QED
    BY <1>1, <2>1, LifeStays DEF RunnerInv, LifeInv, Throw, memoryVars, ProgramInv
<1>3. CASE ~ (blocks * BlockSize < modelConfig.maxModelLen)
  <2>1. numBlocks' = blocks /\ Advance /\ UNCHANGED views
    BY <1>3 DEF ProfileMemory
  <2>2. /\ pc' = pc + 1 /\ pc' = 17 /\ UNCHANGED <<directory, info, modelConfig, phase>>
        /\ UNCHANGED <<heap, buffer, otherBytes, broken, alive, views>>
    BY <1>1, <2>1 DEF Advance, memoryVars
  <2>3. blocks \in Nat /\ blocks * BlockSize >= modelConfig.maxModelLen
    <3>1. blocks \in Nat /\ modelConfig.maxModelLen \in Nat /\ BlockSize \in Nat
      BY <1>1, ProfileFits, ProgramState, RunnerAssumption
    <3> HIDE DEF blocks
    <3>2. blocks * BlockSize \in Nat
      BY <3>1, ProductsAreNatural
    <3> QED
      BY <1>3, <3>1, <3>2
  <2>4. UsedBytes + blocks * BlockBytes <= Budget
    BY <1>1, <2>3, ProfileFits
  <2> HIDE DEF blocks
  <2>5. PoolFits'
    <3>1. UsedBytes' = UsedBytes
      BY <2>2, UsedStays
    <3>2. UsedBytes' + numBlocks' * BlockBytes <= Budget
      BY <2>1, <2>4, <3>1
    <3>3. modelConfig'.maxModelLen <= numBlocks' * BlockSize
      BY <2>1, <2>2, <2>3, RunnerAssumption, ProgramState, <1>1, ProductsAreNatural
    <3> QED
      BY <2>2, <3>2, <3>3 DEF PoolFits, Budget
  <2>6. ConfigRead'
    BY <1>1, <2>2, ProgramState DEF ConfigRead
  <2>7. \A member \in Viewed : Home(member)' = Home(member)
    BY <1>1, <2>2, OtherPlace
  <2>8. ViewsHome'
    <3>1. ASSUME NEW member \in Viewed, Home(member) # "none" PROVE Bytes(member)' = Bytes(member)
      BY <1>1, <2>2, <3>1, HomeTable DEF Bytes, Viewed
    <3> QED
      BY <1>1, <2>2, <2>7, <3>1, ProgramState DEF ViewsHome
  <2>9. LocalsEmpty'
    BY <1>1, <2>2, <2>7, ProgramState DEF LocalsEmpty
  <2>10. Contains(alive', "batch")
    BY <1>1, <2>2, ProgramState
  <2>11. ProgramInv'
    BY <2>5, <2>6, <2>8, <2>9, <2>10 DEF ProgramInv
  <2>12. LifeInv'
    BY <1>1, <2>1, <2>2, <2>3, LifeStays DEF RunnerInv
  <2> QED
    BY <2>11, <2>12
<1> QED
  BY <1>2, <1>3

LEMMA OpenContextInv ==
  ASSUME RunnerInv, OpenContext
  PROVE  ProgramInv' /\ LifeInv'
<1>1. phase = "starting" /\ pc = 1 /\ UNCHANGED <<alive, memoryVars>>
  BY ProgramState, PlaceOf DEF OpenContext, At
<1>2. CASE resources' = {"stream", "cublas"} /\ Advance /\ UNCHANGED <<views, numBlocks>>
  <2>1. ProgramInv'
    BY <1>1, <1>2, QuietInv
  <2>2. pc' = 2 /\ Taken' = {"stream", "cublas", "pinned"}
    BY <1>1, <1>2 DEF Advance, Taken
  <2>3. LifeInv'
    BY <1>1, <1>2, <2>2 DEF RunnerInv, LifeInv, Advance, memoryVars
  <2> QED
    BY <2>1, <2>3
<1>3. CASE resources' \in {{}, {"cublas"}} /\ Throw
  <2>1. ~ Refused(directory)
    BY <1>1, ProgramState DEF ConfigRead
  <2>2. /\ phase' = "unwinding" /\ pc' = 1 /\ directory' = directory
        /\ resources' \subseteq {"cublas"}
    BY <1>1, <1>3 DEF Throw
  <2>3. Taken' = {"cublas"}
    BY <2>1, <2>2 DEF Taken, Refused
  <2>4. LifeInv'
    BY <1>1, <1>3, <2>2, <2>3 DEF RunnerInv, LifeInv, Throw, memoryVars
  <2> QED
    BY <2>2, <2>4 DEF ProgramInv
<1> QED
  BY <1>2, <1>3 DEF OpenContext

LEMMA CopyInv ==
  ASSUME RunnerInv, ReadWeights \/ UploadAngles
  PROVE  ProgramInv' /\ LifeInv'
<1>1. phase = "starting" /\ pc \in {3, 6} /\ UNCHANGED <<alive, resources>>
  BY ProgramState, PlaceOf DEF ReadWeights, UploadAngles, CopyToDevice, At
<1>2. CASE Advance /\ UNCHANGED <<views, numBlocks, memoryVars>>
  <2>1. ProgramInv'
    BY <1>1, <1>2, QuietInv
  <2>2. pc' # 1
    BY <1>1, <1>2 DEF Advance
  <2>3. LifeInv'
    BY <1>1, <1>2, <2>2, LifeStays DEF RunnerInv, LifeInv, Advance, memoryVars
  <2> QED
    BY <2>1, <2>3
<1>3. CASE Throw /\ (Break \/ UNCHANGED memoryVars)
  <2>1. UNCHANGED <<buffer, otherBytes>> /\ (broken' = broken \/ broken')
    BY <1>3 DEF Break, memoryVars
  <2>2. LifeInv'
    BY <1>1, <1>3, <2>1, LifeStays DEF RunnerInv, LifeInv, Throw
  <2> QED
    BY <1>3, <2>2 DEF Throw, ProgramInv
<1> QED
  BY <1>2, <1>3 DEF ReadWeights, UploadAngles, CopyToDevice

LEMMA PinMemoryInv ==
  ASSUME RunnerInv, PinMemory
  PROVE  ProgramInv' /\ LifeInv'
<1>1. phase = "starting" /\ pc = 15 /\ UNCHANGED <<alive, memoryVars>>
  BY ProgramState, PlaceOf DEF PinMemory, At
<1>2. CASE resources' = resources \cup {"pinned"} /\ Advance /\ UNCHANGED <<views, numBlocks>>
  <2>1. ProgramInv'
    BY <1>1, <1>2, QuietInv
  <2>2. Contains(alive, "batch")
    BY <1>1, ProgramState
  <2>3. pc' = 16 /\ Taken' = {"stream", "cublas", "pinned"} /\ Taken \subseteq Taken'
    BY <1>1, <1>2 DEF Advance, Taken
  <2>4. LifeInv'
    BY <1>1, <1>2, <2>2, <2>3 DEF RunnerInv, LifeInv, Advance, memoryVars
  <2> QED
    BY <2>1, <2>4
<1>3. CASE UNCHANGED resources /\ Throw
  BY <1>1, <1>3, LifeStays DEF RunnerInv, LifeInv, Throw, memoryVars, ProgramInv
<1> QED
  BY <1>2, <1>3 DEF PinMemory

LEMMA FinishStartInv ==
  ASSUME RunnerInv, FinishStart
  PROVE  ProgramInv' /\ LifeInv'
<1>1. /\ phase = "starting" /\ pc > 21 /\ phase' = "running"
      /\ UNCHANGED <<directory, info, modelConfig, pc, alive, resources, views, numBlocks>>
      /\ UNCHANGED <<heap, buffer, otherBytes, broken>>
  BY ProgramText DEF FinishStart, memoryVars
<1>2. ConfigRead' /\ pc = 22
  BY <1>1, ProgramState DEF ConfigRead
<1>3. \A member \in Viewed : Home(member)' = Home(member) /\ Bytes(member)' = Bytes(member)
  BY <1>1, HomeStays, BytesStay
<1>4. ViewsHome' /\ LocalsEmpty'
  BY <1>1, <1>3, ProgramState DEF ViewsHome, LocalsEmpty
<1>5. PoolFits'
  <2>1. UsedBytes' = UsedBytes
    BY <1>1, UsedStays
  <2> QED
    BY <1>1, <2>1, ProgramState DEF PoolFits, Budget
<1>6. Contains(alive', "batch")
  BY <1>1, <1>2, ProgramState
<1>7. LifeInv'
  BY <1>1, LifeStays DEF RunnerInv, LifeInv
<1> QED
  BY <1>2, <1>4, <1>5, <1>6, <1>7 DEF ProgramInv
\* What Resize, Move and Destroy do to the buffers.
LEMMA ResizedBuffers ==
  ASSUME MemoryInv, NEW b \in Buffers, NEW size \in Nat, Resize(b, size)
  PROVE  /\ buffer'[b] = [data |-> lastId', size |-> size] /\ lastId' \in Nat /\ lastId' # Null
         /\ buffer'[b].data = lastId'
         /\ \A other \in Buffers \ {b} : buffer'[other] = buffer[other]
         /\ broken' = broken /\ otherBytes' = otherBytes
<1>1. buffer' = [buffer EXCEPT ![b] = [data |-> lastId', size |-> size]] /\ lastId' = lastId + 1
  BY DEF Resize
<1>2. lastId \in Nat /\ buffer \in [Buffers -> [data : Nat, size : Nat]]
  BY DEF MemoryInv, MemoryTypeOK
<1>3. broken' = broken /\ otherBytes' = otherBytes
  BY DEF Resize
<1> QED
  BY <1>1, <1>2, <1>3 DEF Null

LEMMA AllocateInv ==
  ASSUME RunnerInv, AllocateBuffer
  PROVE  ProgramInv' /\ LifeInv'
<1> DEFINE b == Instruction.b
           size == Instruction.size
           member == Instruction.member
<1>1. /\ At("allocate") /\ phase = "starting" /\ pc \in 1 .. 22
      /\ modelConfig.maxModelLen \in Nat /\ numBlocks \in Nat
      /\ alive' = Constructed(b) /\ UNCHANGED resources
  BY ProgramState DEF AllocateBuffer, At
<1>2. b \in {"loaded", "data", "sampler", "batch"} /\ b \in Buffers /\ size \in Nat
  <2>1. b \in {"loaded", "data", "sampler", "batch"} /\ size \in Nat
    BY <1>1, AllocateOperands
  <2> QED
    BY <2>1, BuffersAssumption
<1>3. /\ alive' \in Seq(Buffers) /\ Contains(alive', b)
      /\ \A x : Contains(alive, x) => Contains(alive', x)
  BY <1>1, <1>2, ConstructedKeeps DEF RunnerInv, LifeInv
<1>4. CASE ResizeFails(b, size) /\ Throw
  <2>1. /\ phase' = "unwinding" /\ UNCHANGED <<directory, pc, views, numBlocks, otherBytes>>
        /\ \A other \in Buffers : buffer'[other].data # Null => buffer'[other] = buffer[other]
    BY <1>2, <1>4, NothingFields DEF Throw, ResizeFails, RunnerInv, MemoryInv, MemoryTypeOK
  <2>2. UNCHANGED <<resources, broken>> /\ Taken \subseteq Taken'
    BY <1>1, <1>4, <2>1, TakenGrows DEF ResizeFails
  <2>3. LifeInv'
    BY <1>1, <1>3, <2>1, <2>2 DEF RunnerInv, LifeInv
  <2> QED
    BY <2>1, <2>3 DEF ProgramInv
<1>5. CASE /\ Resize(b, size)
           /\ views' = [views EXCEPT ![member] = buffer'[b].data]
           /\ Advance /\ UNCHANGED numBlocks
  <2>1. pc' = pc + 1 /\ UNCHANGED <<directory, info, modelConfig, phase, numBlocks>>
    BY <1>5 DEF Advance
  <2>2. /\ member \in Viewed \cup {"sampler", "batch"}
        /\ b = "data" => member \in Viewed
        /\ member \in Viewed => size = Bytes(member)
        /\ pc # 16 /\ (pc = 14 => b = "batch")
        /\ pc >= 17 => pc = 17 /\ size = numBlocks * BlockBytes /\ b = "data"
        /\ \A m \in Viewed :
             /\ Home(m) # b
             /\ Home(m)' = IF m = member THEN b ELSE Home(m)
             /\ m = member => Home(m) = "none"
    BY <1>1, <2>1, AllocatePlace
  <2> HIDE DEF size, member
  <2>3. /\ buffer'[b] = [data |-> lastId', size |-> size] /\ lastId' \in Nat /\ lastId' # Null
        /\ buffer'[b].data = lastId'
        /\ \A other \in Buffers \ {b} : buffer'[other] = buffer[other]
        /\ broken' = broken /\ otherBytes' = otherBytes
    BY <1>2, <1>5, ResizedBuffers DEF RunnerInv
  <2> HIDE DEF b
  <2>4. /\ views \in [Viewed \cup {"sampler", "batch"} -> Nat]
        /\ views' = [views EXCEPT ![member] = lastId']
    BY <1>5, <2>3 DEF RunnerInv, LifeInv
  <2>5. /\ views'[member] = lastId' /\ views' \in [Viewed \cup {"sampler", "batch"} -> Nat]
        /\ \A m \in Viewed : m # member => views'[m] = views[m]
    BY <2>2, <2>3, <2>4
  <2>6. \A m \in Viewed : Bytes(m)' = Bytes(m)
    BY <2>1, BytesStay
  <2>7. ViewsHome'
    <3>1. SUFFICES ASSUME NEW m \in Viewed, Home(m)' # "none"
                   PROVE  /\ views'[m] # Null
                          /\ buffer'[Home(m)'] = [data |-> views'[m], size |-> Bytes(m)']
      BY DEF ViewsHome
    <3>2. CASE m = member
      BY <2>2, <2>3, <2>5, <2>6, <3>2
    <3>3. CASE m # member
      <4>1. Home(m)' = Home(m) /\ Home(m) # b /\ Home(m) # "none"
        BY <2>2, <3>1, <3>3
      <4>2. Home(m) \in Buffers \ {b}
        BY <4>1, HomeInBuffers
      <4>3. views[m] # Null /\ buffer[Home(m)] = [data |-> views[m], size |-> Bytes(m)]
        BY <1>1, <4>1, ProgramState DEF ViewsHome
      <4> QED
        BY <2>3, <2>5, <2>6, <3>3, <4>1, <4>2, <4>3
    <3> QED
      BY <3>2, <3>3
  <2>8. LocalsEmpty'
    <3>1. SUFFICES ASSUME NEW x \in {"data", "created", "kv"}, buffer'[x].data # Null
                   PROVE  \E m \in Viewed : Home(m)' = x
      BY DEF LocalsEmpty
    <3>2. x \in Buffers
      BY BuffersAssumption
    <3>3. CASE x = b
      BY <1>2, <2>2, <3>3
    <3>4. CASE x # b
      <4>1. buffer[x].data # Null
        BY <2>3, <3>1, <3>2, <3>4
      <4>2. PICK m \in Viewed : Home(m) = x
        BY <1>1, <4>1, ProgramState DEF LocalsEmpty
      <4>3. m # member
        BY <2>2, <4>2
      <4> QED
        BY <2>2, <4>2, <4>3
    <3> QED
      BY <3>3, <3>4
  <2>9. PoolFits'
    <3>1. ASSUME pc' > 16
          PROVE  /\ pc = 17 /\ modelConfig.maxModelLen <= numBlocks * BlockSize
                 /\ UsedBytes' <= Budget
      <4>1. pc = 17 /\ size = numBlocks * BlockBytes /\ b = "data"
        BY <1>1, <2>1, <2>2, <3>1
      <4>2. /\ modelConfig.maxModelLen <= numBlocks * BlockSize
            /\ UsedBytes + numBlocks * BlockBytes <= Budget
        BY <1>1, <4>1, ProgramState DEF PoolFits
      <4>3. buffer[b].data = Null
        BY <1>1, <2>2, <4>1, ProgramState DEF LocalsEmpty
      <4>4. UsedBytes' = UsedBytes + size
        BY <1>1, <1>2, <1>5, <4>3, UsedGrows, ProgramState DEF RunnerInv
      <4> QED
        BY <4>1, <4>2, <4>4
    <3> QED
      BY <1>1, <2>1, <3>1 DEF PoolFits, Budget
  <2>10. pc' > 14 => Contains(alive', "batch")
    <3>1. ASSUME pc' > 14 PROVE pc = 14 \/ pc > 14
      BY <1>1, <2>1, <3>1
    <3> QED
      BY <1>1, <1>3, <2>2, <3>1, ProgramState
  <2>11. ConfigRead'
    <3>1. pc \in 1 .. 21
      BY <1>1, PlaceOf
    <3> QED
      BY <1>1, <2>1, <2>3, <3>1, ProgramState DEF ConfigRead
  <2>12. LifeInv'
    <3>1. \A x \in Buffers : buffer'[x].data # Null => Contains(alive', x)
      BY <1>3, <2>3 DEF RunnerInv, LifeInv
    <3>2. Taken \subseteq Taken'
      BY <1>1, <2>1, TakenGrows
    <3> QED
      BY <1>1, <1>3, <2>1, <2>3, <2>5, <3>1, <3>2 DEF RunnerInv, LifeInv
  <2> QED
    BY <2>7, <2>8, <2>9, <2>10, <2>11, <2>12 DEF ProgramInv
<1> QED
  BY <1>4, <1>5 DEF AllocateBuffer

LEMMA MoveBufferInv ==
  ASSUME RunnerInv, MoveBuffer
  PROVE  ProgramInv' /\ LifeInv'
<1> DEFINE dst == Instruction.dst
           src == Instruction.src
<1>1. /\ At("move") /\ phase = "starting" /\ pc \in 1 .. 22
      /\ Move(dst, src) /\ alive' = Constructed(dst)
      /\ pc' = pc + 1 /\ UNCHANGED <<directory, info, modelConfig, phase, resources, views, numBlocks>>
  BY ProgramState DEF MoveBuffer, At, Advance
<1>2. /\ dst \in {"weights", "rope", "workspace", "created", "kv"}
      /\ src \in {"loaded", "data", "created"} \ {dst}
      /\ \E m \in Viewed : Home(m) = src
      /\ \A m \in Viewed : Home(m) # dst /\ Home(m)' = IF Home(m) = src THEN dst ELSE Home(m)
      /\ pc >= 17 => dst \in {"created", "kv"}
      /\ pc \notin {14, 16, 17}
  BY <1>1, MovePlace
<1> HIDE DEF dst, src
<1>3. dst \in Buffers /\ src \in Buffers \ {dst}
  BY <1>2, BuffersAssumption
<1>4. /\ buffer'[dst] = buffer[src] /\ buffer'[src].data = Null
      /\ \A other \in Buffers \ {dst, src} : buffer'[other] = buffer[other]
      /\ broken' = broken /\ otherBytes' = otherBytes /\ heap' = Without(Freed(dst))
  BY <1>1, <1>3, NothingFields DEF Move, RunnerInv, MemoryInv, MemoryTypeOK
<1>5. /\ alive' \in Seq(Buffers) /\ Contains(alive', dst)
      /\ \A x : Contains(alive, x) => Contains(alive', x)
  BY <1>1, <1>3, ConstructedKeeps DEF RunnerInv, LifeInv
<1>6. \A m \in Viewed : Bytes(m)' = Bytes(m)
  BY <1>1, BytesStay
<1>7. ViewsHome'
  <2>1. SUFFICES ASSUME NEW m \in Viewed, Home(m)' # "none"
                 PROVE  /\ views'[m] # Null
                        /\ buffer'[Home(m)'] = [data |-> views'[m], size |-> Bytes(m)']
    BY DEF ViewsHome
  <2>2. Home(m) # "none" /\ Home(m) # dst /\ Home(m) \in Buffers
    BY <1>2, <2>1, HomeInBuffers
  <2>3. views[m] # Null /\ buffer[Home(m)] = [data |-> views[m], size |-> Bytes(m)]
    BY <1>1, <2>2, ProgramState DEF ViewsHome
  <2>4. buffer'[Home(m)'] = buffer[Home(m)]
    BY <1>2, <1>4, <2>2
  <2> QED
    BY <1>1, <1>6, <2>3, <2>4
<1>8. LocalsEmpty'
  <2>1. SUFFICES ASSUME NEW x \in {"data", "created", "kv"}, buffer'[x].data # Null
                 PROVE  \E m \in Viewed : Home(m)' = x
    BY DEF LocalsEmpty
  <2>2. x \in Buffers /\ x # src
    BY <1>4, <2>1, BuffersAssumption
  <2>3. CASE x = dst
    BY <1>2, <2>3
  <2>4. CASE x # dst
    <3>1. buffer[x].data # Null
      BY <1>4, <2>1, <2>2, <2>4
    <3>2. PICK m \in Viewed : Home(m) = x
      BY <1>1, <3>1, ProgramState DEF LocalsEmpty
    <3> QED
      BY <1>2, <2>2, <3>2
  <2> QED
    BY <2>3, <2>4
<1>9. PoolFits'
  <2>1. ASSUME pc' > 16
        PROVE  /\ pc > 17 /\ modelConfig.maxModelLen <= numBlocks * BlockSize
               /\ UsedBytes' <= Budget
    <3>1. pc > 17 /\ dst \in {"created", "kv"}
      BY <1>1, <1>2, <2>1
    <3>2. modelConfig.maxModelLen <= numBlocks * BlockSize /\ UsedBytes <= Budget
      BY <1>1, <3>1, ProgramState DEF PoolFits
    <3>3. buffer[dst].data = Null
      BY <1>1, <1>2, <3>1, ProgramState DEF LocalsEmpty
    <3>4. heap' = heap
      BY <1>3, <1>4, <3>3, NothingFreed DEF RunnerInv
    <3> QED
      BY <1>4, <3>1, <3>2, <3>4, UsedStays
  <2> QED
    BY <1>1, <2>1 DEF PoolFits, Budget
<1>10. pc' > 14 => Contains(alive', "batch")
  <2>1. ASSUME pc' > 14 PROVE pc > 14
    BY <1>1, <1>2, <2>1
  <2> QED
    BY <1>1, <1>5, <2>1, ProgramState
<1>11. ConfigRead'
  <2>1. pc \in 1 .. 21
    BY <1>1, PlaceOf
  <2> QED
    BY <1>1, <1>4, <2>1, ProgramState DEF ConfigRead
<1>12. LifeInv'
  <2>1. \A x \in Buffers : buffer'[x].data # Null => Contains(alive', x)
    BY <1>4, <1>5 DEF RunnerInv, LifeInv
  <2>2. Taken \subseteq Taken'
    BY <1>1, TakenGrows
  <2> QED
    BY <1>1, <1>4, <1>5, <2>1, <2>2 DEF RunnerInv, LifeInv
<1> QED
  BY <1>7, <1>8, <1>9, <1>10, <1>11, <1>12 DEF ProgramInv

LEMMA EndOfScopeInv ==
  ASSUME RunnerInv, EndOfScope
  PROVE  ProgramInv' /\ LifeInv'
<1> DEFINE b == Instruction.b
<1>1. /\ At("end") /\ phase = "starting" /\ pc \in 1 .. 22
      /\ Destroy(b) /\ alive' = RemoveFirst(alive, b)
      /\ pc' = pc + 1 /\ UNCHANGED <<directory, info, modelConfig, phase, resources, views, numBlocks>>
  BY ProgramState DEF EndOfScope, At, Advance
<1>2. /\ b \in {"loaded", "data", "created"}
      /\ \A m \in Viewed : Home(m) # b /\ Home(m)' = Home(m)
      /\ pc >= 17 => b \in {"data", "created"}
      /\ pc \notin {14, 16, 17}
  BY <1>1, EndPlace
<1> HIDE DEF b
<1>3. b \in Buffers
  BY <1>2, BuffersAssumption
<1>4. /\ buffer'[b].data = Null
      /\ \A other \in Buffers \ {b} : buffer'[other] = buffer[other]
      /\ broken' = broken /\ otherBytes' = otherBytes /\ heap' = Without(Freed(b))
  BY <1>1, <1>3, NothingFields DEF Destroy, RunnerInv, MemoryInv, MemoryTypeOK
<1>5. /\ alive' \in Seq(Buffers)
      /\ \A x : Contains(alive, x) /\ x # b => Contains(alive', x)
  BY <1>1, RemoveFirstKeeps DEF RunnerInv, LifeInv
<1>6. \A m \in Viewed : Bytes(m)' = Bytes(m)
  BY <1>1, BytesStay
<1>7. ViewsHome'
  <2>1. SUFFICES ASSUME NEW m \in Viewed, Home(m)' # "none"
                 PROVE  /\ views'[m] # Null
                        /\ buffer'[Home(m)'] = [data |-> views'[m], size |-> Bytes(m)']
    BY DEF ViewsHome
  <2>2. Home(m) # "none" /\ Home(m)' = Home(m) /\ Home(m) \in Buffers \ {b}
    BY <1>2, <2>1, HomeInBuffers
  <2>3. views[m] # Null /\ buffer[Home(m)] = [data |-> views[m], size |-> Bytes(m)]
    BY <1>1, <2>2, ProgramState DEF ViewsHome
  <2> QED
    BY <1>1, <1>4, <1>6, <2>2, <2>3
<1>8. LocalsEmpty'
  <2>1. SUFFICES ASSUME NEW x \in {"data", "created", "kv"}, buffer'[x].data # Null
                 PROVE  \E m \in Viewed : Home(m)' = x
    BY DEF LocalsEmpty
  <2>2. x \in Buffers \ {b}
    BY <1>4, <2>1, BuffersAssumption
  <2>3. PICK m \in Viewed : Home(m) = x
    BY <1>1, <1>4, <2>1, <2>2, ProgramState DEF LocalsEmpty
  <2> QED
    BY <1>2, <2>3
<1>9. PoolFits'
  <2>1. ASSUME pc' > 16
        PROVE  /\ pc > 17 /\ modelConfig.maxModelLen <= numBlocks * BlockSize
               /\ UsedBytes' <= Budget
    <3>1. pc > 17 /\ b \in {"data", "created"}
      BY <1>1, <1>2, <2>1
    <3>2. modelConfig.maxModelLen <= numBlocks * BlockSize /\ UsedBytes <= Budget
      BY <1>1, <3>1, ProgramState DEF PoolFits
    <3>3. buffer[b].data = Null
      BY <1>1, <1>2, <3>1, ProgramState DEF LocalsEmpty
    <3>4. heap' = heap
      BY <1>3, <1>4, <3>3, NothingFreed DEF RunnerInv
    <3> QED
      BY <1>4, <3>1, <3>2, <3>4, UsedStays
  <2> QED
    BY <1>1, <2>1 DEF PoolFits, Budget
<1>10. pc' > 14 => Contains(alive', "batch")
  <2>1. ASSUME pc' > 14 PROVE pc > 14
    BY <1>1, <1>2, <2>1
  <2>2. b # "batch"
    BY <1>2
  <2> QED
    BY <1>1, <1>5, <2>1, <2>2, ProgramState
<1>11. ConfigRead'
  <2>1. pc \in 1 .. 21
    BY <1>1, PlaceOf
  <2> QED
    BY <1>1, <1>4, <2>1, ProgramState DEF ConfigRead
<1>12. LifeInv'
  <2>1. \A x \in Buffers : buffer'[x].data # Null => Contains(alive', x)
    BY <1>4, <1>5 DEF RunnerInv, LifeInv
  <2>2. b # "batch"
    BY <1>2
  <2>3. Taken \subseteq Taken'
    BY <1>1, TakenGrows
  <2> QED
    BY <1>1, <1>4, <1>5, <2>1, <2>2, <2>3 DEF RunnerInv, LifeInv
<1> QED
  BY <1>7, <1>8, <1>9, <1>10, <1>11, <1>12 DEF ProgramInv

-----------------------------------------------------------------------------
(* The steps of the model, and the end.                                     *)

\* What changes nothing of the program but, perhaps, ends it.
LEMMA RunningStays ==
  ASSUME RunnerInv, UNCHANGED <<heap, buffer, otherBytes>>,
         phase # "starting" \/ broken' = broken, broken' = broken \/ broken',
         \/ UNCHANGED runnerVars /\ (phase = "reading" => broken' = broken)
         \/ Throw /\ UNCHANGED <<alive, resources>>
  PROVE  ProgramInv' /\ LifeInv'
<1>1. CASE Throw /\ UNCHANGED <<alive, resources>>
  BY <1>1, LifeStays DEF RunnerInv, LifeInv, Throw, ProgramInv
<1>2. CASE UNCHANGED runnerVars /\ (phase = "reading" => broken' = broken)
  <2>1. /\ UNCHANGED <<directory, info, modelConfig, phase, pc, alive, resources, views, numBlocks>>
        /\ UNCHANGED <<heap, buffer, otherBytes>>
    BY <1>2 DEF runnerVars
  <2>2. LifeInv'
    <3>1. Taken' = Taken
      BY <2>1 DEF Taken, Refused
    <3> QED
      BY <1>2, <2>1, <3>1 DEF RunnerInv, LifeInv
  <2>3. ASSUME phase \in {"starting", "running"} PROVE ProgramInv'
    <3>1. /\ ConfigRead /\ ViewsHome /\ LocalsEmpty /\ PoolFits
          /\ pc > 14 => Contains(alive, "batch")
      BY <2>3 DEF RunnerInv, ProgramInv
    <3>2. ConfigRead'
      BY <2>1, <3>1 DEF ConfigRead
    <3>3. \A m \in Viewed : Home(m)' = Home(m) /\ Bytes(m)' = Bytes(m)
      BY <2>1, HomeStays, BytesStay
    <3>4. ViewsHome' /\ LocalsEmpty'
      BY <2>1, <3>1, <3>3 DEF ViewsHome, LocalsEmpty
    <3>5. PoolFits'
      <4>1. UsedBytes' = UsedBytes
        BY <2>1, UsedStays
      <4> QED
        BY <2>1, <3>1, <4>1 DEF PoolFits, Budget
    <3> QED
      BY <2>1, <3>1, <3>2, <3>4, <3>5 DEF ProgramInv
  <2> QED
    BY <2>1, <2>2, <2>3 DEF ProgramInv
<1> QED
  BY <1>1, <1>2

LEMMA HostCallStays ==
  ASSUME NEW call, HostCall(call)
  PROVE  /\ phase = "running" /\ UNCHANGED <<heap, buffer, otherBytes, broken>>
         /\ UNCHANGED runnerVars \/ (Throw /\ UNCHANGED <<alive, resources>>)
BY DEF HostCall, memoryVars

LEMMA StepInv ==
  ASSUME RunnerInv, UploadStep \/ LaunchStep \/ FinishStep \/ Shutdown \/ DeviceRuns \/ DeviceFails
  PROVE  ProgramInv' /\ LifeInv'
<1>1. CASE UploadStep
  BY <1>1, HostCallStays, RunningStays DEF UploadStep
<1>2. CASE LaunchStep
  <2>1. CASE HostCall(LaunchKernels)
    BY <2>1, HostCallStays, RunningStays
  <2>2. CASE phase = "running" /\ Throw /\ UNCHANGED <<alive, resources, memoryVars>>
    BY <2>2, RunningStays DEF memoryVars
  <2> QED
    BY <1>2, <2>1, <2>2 DEF LaunchStep
<1>3. CASE FinishStep
  BY <1>3, HostCallStays, RunningStays DEF FinishStep
<1>4. CASE Shutdown
  BY <1>4, RunningStays DEF Shutdown, memoryVars
<1>5. CASE DeviceRuns
  BY <1>5, RunningStays DEF DeviceRuns, memoryVars
<1>6. CASE DeviceFails
  BY <1>6, RunningStays DEF DeviceFails, Break
<1> QED
  BY <1>1, <1>2, <1>3, <1>4, <1>5, <1>6

LEMMA UnwindInv ==
  ASSUME RunnerInv, Unwind
  PROVE  ProgramInv' /\ LifeInv'
<1> DEFINE b == Last(alive)
<1>1. /\ phase = "unwinding" /\ alive # <<>> /\ Destroy(b) /\ alive' = Front(alive)
      /\ resources' = IF b = "batch" /\ ~ broken THEN resources \ {"pinned"} ELSE resources
      /\ UNCHANGED <<directory, info, modelConfig, phase, pc, views, numBlocks>>
  BY DEF Unwind
<1>2. /\ b \in Buffers /\ alive' \in Seq(Buffers)
      /\ \A x : Contains(alive, x) /\ x # b => Contains(alive', x)
  BY <1>1, FrontKeeps DEF RunnerInv, LifeInv
<1> HIDE DEF b
<1>3. /\ buffer'[b].data = Null
      /\ \A other \in Buffers \ {b} : buffer'[other] = buffer[other]
      /\ broken' = broken /\ otherBytes' = otherBytes
  BY <1>1, <1>2, NothingFields DEF Destroy, RunnerInv, MemoryInv, MemoryTypeOK
<1>4. \A x \in Buffers : buffer'[x].data # Null => Contains(alive', x)
  BY <1>2, <1>3 DEF RunnerInv, LifeInv
<1>5. /\ resources' \subseteq Taken'
      /\ "pinned" \in resources' => broken' \/ Contains(alive', "batch")
  <2>1. Taken' = Taken /\ resources' \subseteq resources
    BY <1>1 DEF Taken, Refused
  <2> QED
    BY <1>1, <1>2, <1>3, <2>1 DEF RunnerInv, LifeInv
<1>6. LifeInv'
  BY <1>1, <1>2, <1>3, <1>4, <1>5 DEF RunnerInv, LifeInv
<1> QED
  BY <1>1, <1>6 DEF ProgramInv

LEMMA CloseContextInv ==
  ASSUME RunnerInv, CloseContext
  PROVE  ProgramInv' /\ LifeInv'
<1>1. /\ phase = "unwinding" /\ phase' = "ended" /\ alive = <<>>
      /\ resources' = IF pc # 1 /\ ~ broken THEN resources \ {"stream", "cublas"} ELSE resources
      /\ UNCHANGED <<directory, info, modelConfig, pc, alive, views, numBlocks>>
      /\ UNCHANGED <<heap, buffer, otherBytes, broken>>
  BY DEF CloseContext, memoryVars
<1>2. "pinned" \in resources => broken
  BY <1>1, NothingContained DEF RunnerInv, LifeInv
<1>3. broken' \/ pc' = 1 \/ resources' = {}
  BY <1>1, <1>2 DEF RunnerInv, LifeInv, Taken
<1>4. resources' \subseteq Taken'
  <2>1. Taken' = Taken /\ resources' \subseteq resources
    BY <1>1 DEF Taken, Refused
  <2> QED
    BY <2>1 DEF RunnerInv, LifeInv
<1>5. "pinned" \in resources' => broken'
  BY <1>1, <1>2
<1>6. LifeInv'
  BY <1>1, <1>3, <1>4, <1>5 DEF RunnerInv, LifeInv
<1> QED
  BY <1>1, <1>6 DEF ProgramInv

\* Whatever the runner does with its buffers is one of their operations.
LEMMA MemoryPart ==
  ASSUME RunnerInv, RunnerNext
  PROVE  [MemoryNext]_memoryVars
<1>1. CASE AllocateBuffer
  <2>1. /\ At("allocate") /\ phase = "starting" /\ pc \in 1 .. 22
        /\ modelConfig.maxModelLen \in Nat /\ numBlocks \in Nat
    BY <1>1, ProgramState DEF AllocateBuffer, At
  <2>2. Instruction.b \in Buffers /\ Instruction.size \in Nat
    BY <2>1, AllocateOperands, BuffersAssumption
  <2> QED
    BY <1>1, <2>2 DEF AllocateBuffer, MemoryNext
<1>2. CASE MoveBuffer
  <2>1. At("move") /\ phase = "starting" /\ pc \in 1 .. 22 /\ pc' = pc + 1
    BY <1>2, ProgramState DEF MoveBuffer, At, Advance
  <2>2. Instruction.dst \in Buffers /\ Instruction.src \in Buffers \ {Instruction.dst}
    BY <2>1, MovePlace, BuffersAssumption
  <2> QED
    BY <1>2, <2>2 DEF MoveBuffer, MemoryNext
<1>3. CASE EndOfScope
  <2>1. At("end") /\ phase = "starting" /\ pc \in 1 .. 22 /\ pc' = pc + 1
    BY <1>3, ProgramState DEF EndOfScope, At, Advance
  <2>2. Instruction.b \in Buffers
    BY <2>1, EndPlace, BuffersAssumption
  <2> QED
    BY <1>3, <2>2 DEF EndOfScope, MemoryNext
<1>4. CASE Unwind
  <2>1. Last(alive) \in Buffers
    BY <1>4, FrontKeeps DEF Unwind, RunnerInv, LifeInv
  <2> QED
    BY <1>4, <2>1 DEF Unwind, MemoryNext
<1>5. CASE DeviceFails
  BY <1>5 DEF DeviceFails, MemoryNext
<1>6. CASE UploadStep \/ LaunchStep \/ FinishStep
  BY <1>6 DEF UploadStep, LaunchStep, FinishStep, HostCall
<1>7. CASE StartRunner \/ OpenContext \/ PinMemory \/ ProfileMemory \/ FinishStart
           \/ Shutdown \/ DeviceRuns \/ CloseContext
  BY <1>7 DEF StartRunner, OpenContext, PinMemory, ProfileMemory, FinishStart,
              Shutdown, DeviceRuns, CloseContext
<1>8. CASE ReadWeights \/ UploadAngles
  BY <1>8 DEF ReadWeights, UploadAngles, CopyToDevice, MemoryNext
<1> QED
  BY <1>1, <1>2, <1>3, <1>4, <1>5, <1>6, <1>7, <1>8 DEF RunnerNext

LEMMA RunnerStep == RunnerInv /\ [RunnerNext]_vars => RunnerInv'
<1> SUFFICES ASSUME RunnerInv, [RunnerNext]_vars PROVE RunnerInv'
  OBVIOUS
<1>1. StreamInv' /\ Idle'
  BY StreamStep, IdleStep DEF RunnerInv
<1>2. CASE UNCHANGED vars
  <2>1. UNCHANGED memoryVars /\ UNCHANGED runnerVars
    BY <1>2 DEF vars
  <2>2. MemoryInv'
    BY <2>1, MemoryStep DEF RunnerInv
  <2>3. ProgramInv' /\ LifeInv'
    BY <2>1, RunningStays DEF memoryVars
  <2> QED
    BY <1>1, <2>2, <2>3 DEF RunnerInv
<1>3. CASE RunnerNext
  <2>1. MemoryInv'
    BY <1>3, MemoryPart, MemoryStep DEF RunnerInv
  <2>2. ProgramInv' /\ LifeInv'
    BY <1>3, StartRunnerInv, OpenContextInv, AllocateInv, CopyInv, MoveBufferInv,
       EndOfScopeInv, PinMemoryInv, ProfileInv, FinishStartInv, StepInv, UnwindInv,
       CloseContextInv, Zenon DEF RunnerNext
  <2> QED
    BY <1>1, <2>1, <2>2 DEF RunnerInv
<1> QED
  BY <1>2, <1>3

-----------------------------------------------------------------------------
(* The theorems.  The devices and directories that a run starts with are    *)
(* parameters here; of a model it is assumed that it has a position, which  *)
(* is true of every model, although neither reading of its directory asks.  *)

RunnerSpec(directories, others) == RunnerInit(directories, others) /\ [][RunnerNext]_vars

Inputs(directories, others) ==
    /\ others \subseteq Nat
    /\ \A dir \in directories : dir.maxModelLen \in Nat \ {0}

LEMMA RunnerInitInv ==
  ASSUME NEW directories, NEW others, Inputs(directories, others), RunnerInit(directories, others)
  PROVE  RunnerInv
<1>1. MemoryInit(Nat) /\ StreamInit /\ otherBytes \in Nat
  BY DEF RunnerInit, Inputs, MemoryInit
<1>2. MemoryInv /\ StreamInv
  BY <1>1, MemoryInitInv, StreamInitInv
<1>3. /\ phase = "reading" /\ pc = 1 /\ alive = <<>> /\ resources = {} /\ numBlocks = 0
      /\ views = [member \in Viewed \cup {"sampler", "batch"} |-> Null]
      /\ directory.maxModelLen \in Nat \ {0}
  BY DEF RunnerInit, Inputs
<1>4. ~ broken /\ \A b \in Buffers : buffer[b].data = Null
  BY <1>1, NothingFields DEF MemoryInit
<1>5. views \in [Viewed \cup {"sampler", "batch"} -> Nat] /\ alive \in Seq(Buffers)
  BY <1>3 DEF Null
<1>6. LifeInv
  BY <1>1, <1>3, <1>4, <1>5 DEF LifeInv
<1>7. Idle
  BY <1>1 DEF StreamInit, Idle
<1> QED
  BY <1>2, <1>3, <1>6, <1>7 DEF RunnerInv, ProgramInv

\* The invariant of the runner's life, for any number of buffers of any sizes, on
\* any device, whatever fails (model_runner.cpp:20-40, engine_core.cpp:68-128).
THEOREM RunnerInvariant ==
  ASSUME NEW CONSTANT directories, NEW CONSTANT others, Inputs(directories, others)
  PROVE  RunnerSpec(directories, others) => []RunnerInv
<1>1. RunnerInit(directories, others) => RunnerInv
  BY RunnerInitInv
<1> QED
  BY <1>1, RunnerStep, PTL DEF RunnerSpec

LEMMA LiveByInv == RunnerInv => ViewsLive
<1> SUFFICES ASSUME RunnerInv PROVE ViewsLive
  OBVIOUS
<1>1. OneOwnerPerAllocation
  BY DEF RunnerInv, MemoryInv
<1>2. ASSUME phase = "running", NEW member \in Viewed
      PROVE  views[member] # Null /\ views[member] = buffer[member].data
  <2>1. pc = 22 /\ ViewsHome
    BY <1>2 DEF RunnerInv, ProgramInv, ConfigRead
  <2>2. Home(member) = member /\ member # "none"
    BY <2>1, HomeTable DEF Viewed
  <2>3. views[member] # Null /\ buffer[member] = [data |-> views[member], size |-> Bytes(member)]
    BY <2>1, <2>2 DEF ViewsHome
  <2> QED
    BY <2>3
<1> QED
  BY <1>1, <1>2 DEF ViewsLive

\* The tensors of a running model point into the buffers of their members,
\* whichever way the buffers moved there, and every allocation has one owner
\* (cuda_device_buffer.cpp:111-136, kv_cache.cpp:30-34, rope_cache.cpp:61-67).
THEOREM RunnerViewsLive ==
  ASSUME NEW CONSTANT directories, NEW CONSTANT others, Inputs(directories, others)
  PROVE  RunnerSpec(directories, others) => []ViewsLive
BY RunnerInvariant, LiveByInv, PTL

\* The steps on the stream never mix, whatever the device does and whenever it
\* does it (batch_buffer.cpp:49-112, model_runner.cpp:42-77).
THEOREM RunnerStepsSeparated ==
  ASSUME NEW CONSTANT directories, NEW CONSTANT others, Inputs(directories, others)
  PROVE  RunnerSpec(directories, others) => []StepsSeparated
<1>1. RunnerInv => StepsSeparated
  BY SeparatedByInv DEF RunnerInv
<1> QED
  BY <1>1, RunnerInvariant, PTL

LEMMA NothingLeftByInv == RunnerInv => NothingLeftOnDevice
<1> SUFFICES ASSUME RunnerInv, phase = "ended", ~ broken
             PROVE  /\ DOMAIN heap = {}
                    /\ resources \subseteq IF ContextFailed THEN {"cublas"} ELSE {}
  BY DEF NothingLeftOnDevice
<1>1. \A b \in Buffers : buffer[b].data = Null
  BY NothingContained DEF RunnerInv, LifeInv
<1>2. ASSUME NEW id \in DOMAIN heap PROVE FALSE
  <2>1. \E b \in Buffers : buffer[b].data = id
    BY DEF RunnerInv, MemoryInv, OneOwnerPerAllocation
  <2>2. id # Null
    BY DEF RunnerInv, MemoryInv, MemoryTypeOK, Null
  <2> QED
    BY <1>1, <2>1, <2>2
<1>3. resources \subseteq IF ContextFailed THEN {"cublas"} ELSE {}
  BY DEF RunnerInv, LifeInv, Taken, ContextFailed
<1> QED
  BY <1>2, <1>3

\* Wherever the start or a step fails, everything that was taken is given back as
\* long as the device works (cuda_context.cpp:12-29, model_runner.cpp:90-119),
\* but for the cuBLAS handle of a context whose constructor failed.
THEOREM RunnerGivesBack ==
  ASSUME NEW CONSTANT directories, NEW CONSTANT others, Inputs(directories, others)
  PROVE  RunnerSpec(directories, others) => []NothingLeftOnDevice
BY RunnerInvariant, NothingLeftByInv, PTL

LEMMA FitByInv == RunnerInv => AdmittedRequestsFit
<1> SUFFICES ASSUME RunnerInv, phase = "running"
             PROVE  /\ info = modelConfig
                    /\ info.maxModelLen <= numBlocks * BlockSize
                    /\ buffer["kv"].size = numBlocks * BlockBytes
                    /\ buffer["rope"].size = info.maxModelLen * PositionBytes
                    /\ UsedBytes <= (TotalBytes * Utilization) \div 100
  BY DEF AdmittedRequestsFit
<1>1. pc = 22 /\ ConfigRead /\ ViewsHome /\ PoolFits
  BY DEF RunnerInv, ProgramInv, ConfigRead
<1>2. info = modelConfig
  BY <1>1, ConfigFields DEF ConfigRead
<1>3. Home("kv") = "kv" /\ Home("rope") = "rope"
  BY <1>1, HomeTable
<1>4. buffer["kv"].size = Bytes("kv") /\ buffer["rope"].size = Bytes("rope")
  <2>1. \A member \in {"kv", "rope"} : buffer[member] = [data |-> views[member], size |-> Bytes(member)]
    BY <1>1, <1>3 DEF ViewsHome, Viewed
  <2> QED
    BY <2>1
<1>5. modelConfig.maxModelLen <= numBlocks * BlockSize /\ UsedBytes <= Budget
  BY <1>1 DEF PoolFits
<1> QED
  BY <1>2, <1>4, <1>5, BytesTable DEF Budget

\* Once the engine is ready, the pool holds any request that the parent admits,
\* and all that is allocated stays within the budget (engine_core.cpp:103-128,
\* tokenizer.py:45-59, server.py:154-158).
THEOREM RunnerAdmits ==
  ASSUME NEW CONSTANT directories, NEW CONSTANT others, Inputs(directories, others)
  PROVE  RunnerSpec(directories, others) => []AdmittedRequestsFit
BY RunnerInvariant, FitByInv, PTL
=============================================================================
