----------------------------- MODULE ModelRunner -----------------------------
(***************************************************************************)
(* The life of the model runner in the engine process: the parent reads    *)
(* the model's directory (cuinfer/tokenizer.py), the engine reads it again *)
(* (csrc/model/model_config.cpp), the constructors take their device       *)
(* memory one after the other (csrc/executor/model_runner.cpp:20-40),      *)
(* the rest of the budget becomes the pool (csrc/engine/engine_core.cpp:   *)
(* 103-128), steps run, and everything is given back, after a shutdown or  *)
(* an exception at any point of all this.                                  *)
(***************************************************************************)
EXTENDS DeviceMemory, DeviceStream, SequencesExt

CONSTANTS
    BlockSize,
    Utilization,        \* gpu_memory_utilization, in percent
    WeightBytes, PositionBytes, SamplerBytes, WorkspaceBytes, BatchBytes, BlockBytes,
    MaxSteps            \* bound: the steps of a behaviour

ASSUME RunnerAssumption ==
    /\ {BlockSize, WeightBytes, PositionBytes, SamplerBytes, WorkspaceBytes,
        BatchBytes, BlockBytes, MaxSteps} \subseteq Nat \ {0}
    /\ Utilization \in 1 .. 95

\* The buffer objects that the constructors hold.
ASSUME BuffersAssumption ==
    {"loaded", "data", "created", "weights", "rope", "sampler", "workspace", "batch", "kv"}
        \subseteq Buffers

VARIABLES
    directory,   \* config.json and generation_config.json
    info,        \* what load_model made of them
    modelConfig, \* what ModelConfig::load made of them
    phase,       \* of the engine process
    pc,          \* the next instruction of the start
    alive,       \* the buffer objects that exist, in the order of construction
    resources,   \* the stream, the cuBLAS handle and the pinned memory
    views,       \* the pointers kept in the tensors of each member
    numBlocks

runnerVars == <<directory, info, modelConfig, phase, pc, alive, resources, views, numBlocks>>

vars == <<memoryVars, streamVars, runnerVars>>

\* The members whose tensors point into their own buffer.
Viewed == {"weights", "rope", "workspace", "kv"}

Unset == [eos |-> {}, maxModelLen |-> 0]

-----------------------------------------------------------------------------

\* A field eos_token_id: missing, null, one id or a list of them.
EosIds(field) == IF field[1] = "one" THEN {field[2]} ELSE field[2]

HasEos(field) == field[1] \in {"one", "many"}

\* load_model: a config without an id is accepted.
LoadInfo(dir) ==
    LET eos == IF HasEos(dir.generation) THEN dir.generation ELSE dir.eos
    IN  [maxModelLen |-> dir.maxModelLen,
         eos |-> IF HasEos(eos) THEN EosIds(eos) ELSE {}]

\* from_json and load refuse an architecture, a type or a field they do not know
\* or miss, the end-of-sequence ids of config.json among them.
Refused(dir) == ~dir.supported \/ ~HasEos(dir.eos)

\* variant: the ids of generation_config.json are added to those of config.json.
LoadModelConfigJoined(dir) ==
    [maxModelLen |-> dir.maxModelLen,
     eos |-> EosIds(dir.eos)
        \cup IF HasEos(dir.generation) THEN EosIds(dir.generation) ELSE {}]

LoadModelConfig(dir) ==
    [maxModelLen |-> dir.maxModelLen,
     eos |-> EosIds(IF HasEos(dir.generation) THEN dir.generation ELSE dir.eos)]

-----------------------------------------------------------------------------

Allocate(b, size, member) == [op |-> "allocate", b |-> b, size |-> size, member |-> member]

MoveTo(dst, src) == [op |-> "move", dst |-> dst, src |-> src]

EndOf(b) == [op |-> "end", b |-> b]

\* What the constructors do, in the order of the members: the locals and
\* temporaries that hold a buffer, and where it moves.
Program ==
    <<[op |-> "open context"],
      Allocate("loaded", WeightBytes, "weights"),
      [op |-> "read weights"],
      MoveTo("weights", "loaded"),
      Allocate("data", modelConfig.maxModelLen * PositionBytes, "rope"),
      [op |-> "upload angles"],
      MoveTo("rope", "data"), EndOf("data"), EndOf("loaded"),
      Allocate("sampler", SamplerBytes, "sampler"),
      Allocate("data", WorkspaceBytes, "workspace"),
      MoveTo("workspace", "data"), EndOf("data"),
      Allocate("batch", BatchBytes, "batch"),
      [op |-> "pin"],
      [op |-> "profile"],
      Allocate("data", numBlocks * BlockBytes, "kv"),
      MoveTo("created", "data"), EndOf("data"),
      MoveTo("kv", "created"), EndOf("created")>>

At(op) == phase = "starting" /\ pc <= Len(Program) /\ Program[pc].op = op

Instruction == Program[pc]

Advance == pc' = pc + 1 /\ UNCHANGED <<directory, info, modelConfig, phase>>

\* An exception: from here on, the objects are destroyed.
Throw ==
    /\ phase' = "unwinding"
    /\ UNCHANGED <<directory, info, modelConfig, pc, views, numBlocks>>

Constructed(b) == IF Contains(alive, b) THEN alive ELSE Append(alive, b)

StartRunner ==
    /\ phase = "reading"
    /\ info' = LoadInfo(directory)
    /\ IF Refused(directory)
         THEN phase' = "unwinding" /\ UNCHANGED modelConfig
         ELSE phase' = "starting" /\ modelConfig' = LoadModelConfig(directory)
    /\ UNCHANGED <<directory, pc, alive, resources, views, numBlocks, memoryVars, streamVars>>

\* variant: leaves the stream to a destructor that does not run.
OpenContextUncaught ==
    /\ At("open context")
    /\ UNCHANGED <<alive, memoryVars, streamVars>>
    /\ \/ resources' = {"stream", "cublas"} /\ Advance /\ UNCHANGED <<views, numBlocks>>
       \/ resources' \in {{}, {"stream"}, {"stream", "cublas"}} /\ Throw

\* CudaContext: each of its three calls may fail, and the catch around the last
\* two takes back the stream.  If it is cublasSetStream, the handle exists by
\* then, and stays: the destructor does not run.
OpenContext ==
    /\ At("open context")
    /\ UNCHANGED <<alive, memoryVars, streamVars>>
    /\ \/ resources' = {"stream", "cublas"} /\ Advance /\ UNCHANGED <<views, numBlocks>>
       \/ resources' \in {{}, {"cublas"}} /\ Throw

AllocateBuffer ==
    /\ At("allocate")
    /\ alive' = Constructed(Instruction.b)
    /\ UNCHANGED <<resources, streamVars>>
    /\ \/ /\ Resize(Instruction.b, Instruction.size)
          /\ views' = [views EXCEPT ![Instruction.member] = buffer'[Instruction.b].data]
          /\ Advance /\ UNCHANGED numBlocks
       \/ ResizeFails(Instruction.b, Instruction.size) /\ Throw

\* Copies to the device; one that fails leaves the device broken.
CopyToDevice ==
    /\ UNCHANGED <<alive, resources, streamVars>>
    /\ \/ Advance /\ UNCHANGED <<views, numBlocks, memoryVars>>
       \/ Break /\ Throw

\* The file, too, may be short, which is no matter of the device.
ReadWeights ==
    /\ At("read weights")
    /\ \/ CopyToDevice
       \/ Throw /\ UNCHANGED <<alive, resources, memoryVars, streamVars>>

UploadAngles == At("upload angles") /\ CopyToDevice

MoveBuffer ==
    /\ At("move")
    /\ Move(Instruction.dst, Instruction.src)
    /\ alive' = Constructed(Instruction.dst)
    /\ Advance /\ UNCHANGED <<resources, views, numBlocks, streamVars>>

EndOfScope ==
    /\ At("end")
    /\ Destroy(Instruction.b)
    /\ alive' = RemoveFirst(alive, Instruction.b)
    /\ Advance /\ UNCHANGED <<resources, views, numBlocks, streamVars>>

PinMemory ==
    /\ At("pin")
    /\ UNCHANGED <<alive, memoryVars, streamVars>>
    /\ \/ resources' = resources \cup {"pinned"} /\ Advance /\ UNCHANGED <<views, numBlocks>>
       \/ UNCHANGED resources /\ Throw

\* variant: does not count what is already taken.
AvailableIgnoringUsed == (TotalBytes * Utilization) \div 100

\* profile_available_kv_cache_memory.
Available ==
    LET budget == (TotalBytes * Utilization) \div 100
    IN  IF budget > UsedBytes THEN budget - UsedBytes ELSE 0

\* initialize_kv_cache refuses a pool smaller than one request may become.
ProfileMemory ==
    /\ At("profile")
    /\ UNCHANGED <<alive, resources, memoryVars, streamVars>>
    /\ LET blocks == Available \div BlockBytes
       IN  IF blocks * BlockSize < modelConfig.maxModelLen THEN Throw
           ELSE numBlocks' = blocks /\ Advance /\ UNCHANGED views

\* READY is sent.
FinishStart ==
    /\ phase = "starting" /\ pc > Len(Program)
    /\ phase' = "running"
    /\ UNCHANGED <<directory, info, modelConfig, pc, alive, resources, views, numBlocks>>
    /\ UNCHANGED <<memoryVars, streamVars>>

-----------------------------------------------------------------------------

\* A host call of a step; on a broken device it throws.
HostCall(call) ==
    /\ phase = "running"
    /\ IF broken THEN Throw /\ UNCHANGED <<alive, resources, streamVars>>
       ELSE call /\ UNCHANGED runnerVars
    /\ UNCHANGED memoryVars

UploadStep == stepNr < MaxSteps /\ \E samples \in BOOLEAN : HostCall(UploadInput(samples))

\* A shape that no kernel supports is refused here, with the upload under way.
LaunchStep ==
    \/ directory.shapesSupported /\ HostCall(LaunchKernels)
    \/ /\ ~directory.shapesSupported /\ phase = "running" /\ host = "launch"
       /\ Throw /\ UNCHANGED <<alive, resources, memoryVars, streamVars>>

FinishStep == HostCall(Synchronize) \/ HostCall(ReadSamples)

DeviceRuns == Execute /\ UNCHANGED <<memoryVars, runnerVars>>

\* The device stops with an error, and nothing of the stream is executed.
DeviceFails ==
    /\ phase = "running" /\ stream # <<>>
    /\ Break
    /\ stream' = <<>>
    /\ UNCHANGED <<host, stepNr, sampling, pinned, uploaded, runnerVars>>

\* The loop ends between two steps.
Shutdown ==
    /\ phase = "running" /\ host = "between"
    /\ Throw /\ UNCHANGED <<alive, resources, memoryVars, streamVars>>

\* One object less, the last constructed first; a free waits for the stream, and
\* on a broken device it fails, that of the pinned memory too.
Unwind ==
    /\ phase = "unwinding" /\ alive # <<>>
    /\ stream = <<>>
    /\ Destroy(Last(alive))
    /\ alive' = Front(alive)
    /\ resources' = IF Last(alive) = "batch" /\ ~broken THEN resources \ {"pinned"}
                    ELSE resources
    /\ UNCHANGED <<directory, info, modelConfig, phase, pc, views, numBlocks, streamVars>>

\* The destructor of the context, if its constructor came to its end; the results
\* of its two calls, which fail on a broken device, are ignored.
CloseContext ==
    /\ phase = "unwinding" /\ alive = <<>>
    /\ phase' = "ended"
    /\ resources' = IF pc # 1 /\ ~broken THEN resources \ {"stream", "cublas"}
                    ELSE resources
    /\ UNCHANGED <<directory, info, modelConfig, pc, alive, views, numBlocks>>
    /\ UNCHANGED <<memoryVars, streamVars>>

RunnerInit(directories, others) ==
    /\ MemoryInit(others) /\ StreamInit
    /\ directory \in directories
    /\ info = Unset /\ modelConfig = Unset
    /\ phase = "reading" /\ pc = 1
    /\ alive = <<>> /\ resources = {}
    /\ views = [member \in Viewed \cup {"sampler", "batch"} |-> Null]
    /\ numBlocks = 0

RunnerNext ==
    \/ StartRunner \/ OpenContext \/ AllocateBuffer \/ ReadWeights \/ MoveBuffer
    \/ UploadAngles \/ EndOfScope \/ PinMemory \/ ProfileMemory \/ FinishStart
    \/ UploadStep \/ LaunchStep \/ FinishStep \/ Shutdown
    \/ DeviceRuns \/ DeviceFails
    \/ Unwind \/ CloseContext

-----------------------------------------------------------------------------

\* Every allocation has one owner at all times, and the tensors of a running
\* model point into the buffers their members own, after all the moves between
\* the factories and the members (cuda_device_buffer.cpp:111-136,
\* kv_cache.cpp:30-34, rope_cache.cpp:61-67, workspace.cpp:66-106).
ViewsLive ==
    /\ OneOwnerPerAllocation
    /\ phase = "running" => \A member \in Viewed :
        views[member] # Null /\ views[member] = buffer[member].data

\* The start failed in the first instruction.
ContextFailed == pc = 1 /\ ~Refused(directory)

\* Wherever the start or a step fails, the process gives back what it took, by
\* the destructors of all members (cuda_device_buffer.cpp:102, pinned_buffer.cpp:37,
\* cuda_context.cpp:12-18 and 21), with two exceptions: on a broken device nothing
\* can be given back, and a context whose constructor fails may keep its cuBLAS
\* handle, but never its stream.
NothingLeftOnDevice ==
    phase = "ended" /\ ~broken =>
        /\ DOMAIN heap = {}
        /\ resources \subseteq IF ContextFailed THEN {"cublas"} ELSE {}

\* The two processes read the directory on their own, with the same outcome
\* whenever the engine starts (tokenizer.py:45-59, model_config.cpp:59-62 and
\* 106-121).  So the requests that the parent admits once the engine is ready
\* (server.py:154-158) fit: the pool holds one of the greatest length, the
\* rotation has an angle for each position, and the whole stays within the
\* budget (engine_core.cpp:112-122, model_runner.cpp:121-130).
AdmittedRequestsFit ==
    phase = "running" =>
        /\ info = modelConfig
        /\ info.maxModelLen <= numBlocks * BlockSize
        /\ buffer["kv"].size = numBlocks * BlockBytes
        /\ buffer["rope"].size = info.maxModelLen * PositionBytes
        /\ UsedBytes <= (TotalBytes * Utilization) \div 100
=============================================================================
