------------------------------ MODULE V4L2M2M ------------------------------
(***************************************************************************)
(* The part of a V4L2 memory-to-memory device that the MSCL backend of     *)
(* libacryl talks to: two buffer queues, SOURCE (the OUTPUT queue, read by *)
(* the scaler) and TARGET (the CAPTURE queue, written by it), each with    *)
(* one buffer, and the controls of the scaler.  The kernel driver is not   *)
(* part of the repository; the operators state the rules of the V4L2       *)
(* streaming interface that every driver built on videobuf2 enforces.      *)
(*                                                                         *)
(* Every ioctl is an operator from the device state to a record            *)
(* [ok, d]: whether the driver accepts the call, and the state after it.   *)
(***************************************************************************)
EXTENDS Integers

Dirs == {"SOURCE", "TARGET"}

Other(dir) == IF dir = "SOURCE" THEN "TARGET" ELSE "SOURCE"

\* the crop rectangle a queue has after S_FMT: the whole image of the format
DimCrop(mode) == 10 + mode

NoQueue == [fmt |-> 0, crop |-> 0, bufs |-> FALSE, streaming |-> FALSE,
            buf |-> "free"]

Closed ==
    [q |-> [dir \in Dirs |-> NoQueue], trf |-> {}, csc |-> [eq |-> 0, range |-> 0],
     prot |-> FALSE, rate |-> 0]

Refuse(d) == [ok |-> FALSE, d |-> d]

Accept(d) == [ok |-> TRUE, d |-> d]

\* VIDIOC_S_FMT is refused while the queue owns buffers
SFmt(d, dir, mode) ==
    IF d.q[dir].bufs
    THEN Refuse(d)
    ELSE Accept([d EXCEPT !.q[dir].fmt = mode, !.q[dir].crop = DimCrop(mode)])

SCrop(d, dir, rect) == Accept([d EXCEPT !.q[dir].crop = rect])

\* VIDIOC_REQBUFS, with count 1 or 0, is refused while the queue streams
ReqBufs(d, dir, count) ==
    IF d.q[dir].streaming
    THEN Refuse(d)
    ELSE Accept([d EXCEPT !.q[dir].bufs = count > 0, !.q[dir].buf = "free"])

StreamOn(d, dir) ==
    IF d.q[dir].bufs THEN Accept([d EXCEPT !.q[dir].streaming = TRUE])
                     ELSE Refuse(d)

\* VIDIOC_STREAMOFF hands every queued buffer back
StreamOff(d, dir) ==
    Accept([d EXCEPT !.q[dir].streaming = FALSE, !.q[dir].buf = "free"])

\* VIDIOC_QBUF needs the queue's one buffer to be in the hands of the caller
QBuf(d, dir) ==
    IF d.q[dir].bufs /\ d.q[dir].buf = "free"
    THEN Accept([d EXCEPT !.q[dir].buf = "queued"])
    ELSE Refuse(d)

\* VIDIOC_DQBUF sleeps while the buffer is queued on a streaming queue
Sleeps(d, dir) == d.q[dir].streaming /\ d.q[dir].buf = "queued"

\* the job of the buffer has ended, well ("done") or not ("error")
Finished(d, dir) == d.q[dir].buf \in {"done", "error"}

\* the buffer comes back with V4L2_BUF_FLAG_ERROR
Flagged(d, dir) == d.q[dir].buf = "error"

\* and returns the buffer once the job has ended; it is refused otherwise
DQBuf(d, dir) ==
    IF Finished(d, dir)
    THEN Accept([d EXCEPT !.q[dir].buf = "free"])
    ELSE Refuse(d)

\* VIDIOC_S_CTRL of V4L2_CID_HFLIP, VFLIP and ROTATE, one bit of the transform
SFlip(d, bit, on) ==
    Accept([d EXCEPT !.trf = IF on THEN @ \cup {bit} ELSE @ \ {bit}])

\* VIDIOC_S_CTRL of V4L2_CID_CSC_EQ ("eq") and V4L2_CID_CSC_RANGE ("range"):
\* the matrix and the swing of the colour space conversion
SCsc(d, id, value) == Accept([d EXCEPT !.csc[id] = value])

SProtection(d, on) == Accept([d EXCEPT !.prot = on])

\* VIDIOC_S_CTRL of SC_CID_FRAMERATE: the frame rate the device is clocked
\* for; 0 withdraws the request
SFrameRate(d, rate) == Accept([d EXCEPT !.rate = rate])

\* the scaler runs a job when both queues stream and hold a queued buffer
Runnable(d) == \A dir \in Dirs : Sleeps(d, dir)

\* the job ends and both buffers are ready to be dequeued
Run(d, end) == [d EXCEPT !.q = [dir \in Dirs |-> [@[dir] EXCEPT !.buf = end]]]

Queue == [fmt : Nat, crop : Nat, bufs : BOOLEAN, streaming : BOOLEAN,
          buf : {"free", "queued", "done", "error"}]
=============================================================================
