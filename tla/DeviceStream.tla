---------------------------- MODULE DeviceStream ----------------------------
(***************************************************************************)
(* One step of the model runner between the host and the CUDA stream       *)
(* (csrc/executor/model_runner.cpp:42-77, batch_buffer.cpp:49-112).  The   *)
(* host copies the step's input to pinned memory and queues the upload,    *)
(* the kernels and the download; the stream executes them in order, at any *)
(* time.  The sampled tokens take the place of the token ids at the head   *)
(* of both the device's and the pinned memory.                             *)
(***************************************************************************)
EXTENDS Integers, Sequences

VARIABLES
    host,      \* where the host is in the step
    stepNr,    \* the step
    sampling,  \* whether it samples a token of some request
    stream,    \* the operations queued and not executed
    pinned,    \* what the pinned memory holds
    uploaded   \* what the device's copy of it holds

streamVars == <<host, stepNr, sampling, stream, pinned, uploaded>>

TokenIds(n) == <<"token ids", n>>

Samples(n) == <<"samples", n>>

Unwritten == [head |-> TokenIds(0), rest |-> 0]

StreamInit ==
    /\ host = "between" /\ stepNr = 0 /\ sampling = FALSE
    /\ stream = <<>>
    /\ pinned = Unwritten /\ uploaded = Unwritten

\* BatchBuffer::upload.
UploadInput(samples) ==
    /\ host = "between" /\ host' = "launch"
    /\ stepNr' = stepNr + 1
    /\ sampling' = samples
    /\ pinned' = [head |-> TokenIds(stepNr'), rest |-> stepNr']
    /\ stream' = Append(stream, "upload")
    /\ UNCHANGED uploaded

\* The launches of forward; the logits, the sampling and the download follow
\* only when the step samples.
LaunchKernels ==
    /\ host = "launch" /\ host' = "wait"
    /\ stream' = stream \o IF sampling THEN <<"forward", "sample", "download">>
                           ELSE <<"forward">>
    /\ UNCHANGED <<stepNr, sampling, pinned, uploaded>>

\* The stream executes the oldest operation.
Execute ==
    /\ stream # <<>>
    /\ stream' = Tail(stream)
    /\ uploaded' = CASE Head(stream) = "upload" -> pinned
                     [] Head(stream) = "sample" -> [uploaded EXCEPT !.head = Samples(stepNr)]
                     [] OTHER -> uploaded
    /\ pinned' = IF Head(stream) = "download" THEN [pinned EXCEPT !.head = uploaded.head]
                 ELSE pinned
    /\ UNCHANGED <<host, stepNr, sampling>>

\* variant: goes on without waiting for the stream.
NoSynchronize ==
    /\ host = "wait" /\ host' = "read"
    /\ UNCHANGED <<stepNr, sampling, stream, pinned, uploaded>>

\* CudaContext::synchronize at the head of finish().
Synchronize ==
    /\ host = "wait" /\ host' = "read"
    /\ stream = <<>>
    /\ UNCHANGED <<stepNr, sampling, stream, pinned, uploaded>>

\* The rest of finish(): the samples of the requests in flight.
ReadSamples ==
    /\ host = "read" /\ host' = "between"
    /\ UNCHANGED <<stepNr, sampling, stream, pinned, uploaded>>

-----------------------------------------------------------------------------

\* The steps never mix: the upload copies, and the kernels read, the input of
\* the step they were launched for, the sampled tokens come after the token ids
\* they overwrite were read, and finish() takes this step's samples
\* (model_runner.cpp:66, batch_buffer.cpp:76 and :93).
StepsSeparated ==
    /\ stream # <<>> =>
        CASE Head(stream) = "upload" -> pinned = [head |-> TokenIds(stepNr), rest |-> stepNr]
          [] Head(stream) = "forward" -> uploaded = [head |-> TokenIds(stepNr), rest |-> stepNr]
          [] Head(stream) = "sample" -> uploaded.rest = stepNr
          [] OTHER -> uploaded.head = Samples(stepNr)
    /\ host = "read" /\ sampling => pinned.head = Samples(stepNr)
=============================================================================
