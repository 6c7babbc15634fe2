---------------------------- MODULE AcrylicMSCL ----------------------------
(***************************************************************************)
(* The MSCL backend of libacryl, AcrylicCompositorMSCL9810                 *)
(* (acrylic_mscl9810.cpp, .h): one source layer is scaled, flipped and     *)
(* colour-converted onto the target by a V4L2 memory-to-memory device.     *)
(* The engine keeps its own picture of the device (mDeviceState,           *)
(* mCurrentCrop, mCurrentTransform, mProtectedContent) and issues only the *)
(* ioctls that picture calls for, so what matters is whether the picture   *)
(* stays true when ioctls fail half-way.                                   *)
(*                                                                         *)
(* The caller's thread, the only one, runs each API call as one action;    *)
(* the hardware completes jobs on its own.  A call that would sleep in     *)
(* VIDIOC_DQBUF is not enabled until the hardware is done.  Every call     *)
(* takes as input the one ioctl, if any, that fails for a reason of the    *)
(* environment (`fault`); the device of module V4L2M2M refuses ioctls the   *)
(* streaming rules forbid.                                                 *)
(***************************************************************************)
EXTENDS Integers, Sequences, FiniteSets, SequencesExt, V4L2M2M

CONSTANTS
    Modes,          \* image formats and dimensions a queue can be set to
    Rects,          \* crop rectangles; 0 is the empty target rectangle
    Transforms,     \* the transforms of a layer: sets of "H", "V", "R"
    Protections,    \* subset of BOOLEAN: may the target be protected
    AcquireFences,  \* subset of BOOLEAN: may an image come with a fence
    Kinds,          \* the execute() variants the caller uses
    MaxFences,      \* largest num_fences passed to execute(fence[], n)
    FrameRates,     \* mFrameRate of the first frame of a performance request
    Faults          \* the ioctls the environment may fail

ASSUME /\ Modes \subseteq 1..9 /\ Rects \subseteq 0..9
       /\ Transforms \subseteq SUBSET {"H", "V", "R"} /\ {} \in Transforms
       /\ Protections \subseteq BOOLEAN /\ FALSE \in Protections
       /\ AcquireFences \subseteq BOOLEAN /\ FALSE \in AcquireFences
       /\ Kinds \subseteq {"fences", "handle", "blocking"}
       /\ MaxFences \in Nat
       /\ FrameRates \subseteq Nat \ {0}

VARIABLES
    image,      \* the layer (SOURCE) and the canvas (TARGET) as configured
    transform,  \* getLayer(0)->getTransform()
    protected,  \* getCanvas().isProtected()
    eng,        \* the engine's picture of the device
    drv,        \* the device
    job,        \* the configuration of the frame the device holds queued
    waiting,    \* the caller is inside execute(NULL), waiting for its job
    last,       \* what the most recent API call returned
    aborted     \* the assertion of dequeueBuffer() has ended the process

vars == <<image, transform, protected, eng, drv, job, waiting, last, aborted>>

NoFault == <<"none", "-">>

NoFence == -1

NoJob == [queued |-> FALSE]

Idle == [op |-> "none", ok |-> TRUE, struck |-> FALSE, flagged |-> FALSE,
         n |-> 0, slots |-> <<>>, leaked |-> {}]

\* the target rectangle of the layer; an empty one means the whole canvas
Rect(img, dir) ==
    IF dir = "TARGET" /\ img[dir].rect = 0 THEN DimCrop(img[dir].mode)
                                           ELSE img[dir].rect

-----------------------------------------------------------------------------
(* One call threads a record `m` through its steps: the engine fields, the  *)
(* device, the images, whether the call is still going, the fault it is to *)
(* meet and whether it met it, whether a buffer came back flagged in error, *)
(* and the release fences it holds.                                        *)

Fail(m) == [m EXCEPT !.ok = FALSE]

\* an ioctl: it fails when the environment fails it or the device refuses
Ioctl(m, site, answer) ==
    CASE m.fault = site -> [m EXCEPT !.ok = FALSE, !.struck = TRUE]
      [] ~answer.ok     -> Fail(m)
      [] OTHER          -> [m EXCEPT !.d = answer.d]

\* the same for a caller that ignores the result
Ignoring(m, site, answer) == [Ioctl(m, site, answer) EXCEPT !.ok = TRUE]

Then(m, step(_)) == IF m.ok THEN step(m) ELSE m

\* dequeueBuffer(dir, buffer): VIDIOC_DQBUF of a direction that is marked
\* STATE_QBUF; V4L2_BUF_FLAG_ERROR on the buffer is logged and no more
dequeueBufferDir(m, dir) ==
    IF "QBUF" \in m.e.st[dir]
    THEN LET got == Ioctl(m, <<"dqbuf", dir>>, DQBuf(m.d, dir))
         IN  IF got.ok
             THEN [got EXCEPT !.e.st[dir] = @ \ {"QBUF"},
                              !.flagged = @ \/ Flagged(m.d, dir)]
             ELSE got
    ELSE m

\* dequeueBuffer() as it would be if it dequeued the target first
dequeueBufferTargetFirst(m) ==
    Then(dequeueBufferDir(m, "TARGET"),
         LAMBDA s : dequeueBufferDir(s, "SOURCE"))

\* dequeueBuffer(): the source, and when that succeeded the target
dequeueBuffer(m) ==
    Then(dequeueBufferDir(m, "SOURCE"),
         LAMBDA s : dequeueBufferDir(s, "TARGET"))

\* setTransform(): one S_CTRL for each bit that differs from mCurrentTransform,
\* which is brought up to date only when all of them succeeded
setTransform(m) ==
    LET wanted == m.transform
        trdiff == (m.e.trf \ wanted) \cup (wanted \ m.e.trf)
        flip(s, bit) ==
            IF s.ok /\ bit \in trdiff
            THEN Ioctl(s, <<"flip", bit>>, SFlip(s.d, bit, bit \in wanted))
            ELSE s
        done == FoldLeft(flip, [m EXCEPT !.e.trfChanged = trdiff # {}],
                         <<"H", "V", "R">>)
    IN  IF done.ok THEN [done EXCEPT !.e.trf = wanted] ELSE done

\* resetMode(canvas, dir): STREAMOFF, whose failure is logged, and REQBUFS(0)
resetModeDir(m, dir) ==
    IF "REQBUFS" \in m.e.st[dir]
    THEN LET off  == Ignoring(m, <<"streamoff", dir>>, StreamOff(m.d, dir))
             gone == Ioctl(off, <<"reqbufs0", dir>>, ReqBufs(off.d, dir, 0))
         IN  IF gone.ok THEN [gone EXCEPT !.e.st[dir] = @ \ {"REQBUFS"}]
                        ELSE gone
    ELSE m

\* the test as it would be if it trusted the modified flags alone
ResetRequiredFlagsOnly(m) ==
    \/ \E dir \in Dirs : m.img[dir].modified
    \/ m.e.trfChanged

\* resetMode(): what makes the engine tear both queues down
ResetRequired(m) ==
    \/ \E dir \in Dirs : Rect(m.img, dir) # m.e.crop[dir]
    \/ \E dir \in Dirs : m.img[dir].modified
    \/ m.e.trfChanged

\* halfmt_chroma_subsampling(format) == 0x11: the odd modes stand for the
\* formats without chroma subsampling, RGB
Unsubsampled(mode) == mode % 2 = 1

\* csc_sel and csc_range of configureCSC(): a conversion is required when
\* one image is RGB and the other is not, and its matrix and swing are those
\* of the dataspace of the one that is not; 0 stands for none required
CscSel(source, target) ==
    CASE Unsubsampled(source) /\ ~Unsubsampled(target) -> target
      [] ~Unsubsampled(source) /\ Unsubsampled(target) -> source
      [] OTHER -> 0

\* configureCSC(): the two controls of a required conversion, the second
\* only when the first was taken
configureCSC(m) ==
    LET sel == CscSel(m.img["SOURCE"].mode, m.img["TARGET"].mode)
    IN  IF sel = 0
        THEN m
        ELSE Then(Ioctl(m, <<"csc", "eq">>, SCsc(m.d, "eq", sel)),
                  LAMBDA s : Ioctl(s, <<"csc", "range">>,
                                   SCsc(s.d, "range", sel)))

\* resetMode(): the results of the two resets are ignored
resetMode(m) ==
    LET required == ResetRequired(m)
        seen     == [m EXCEPT !.e.trfChanged = FALSE]
        source   == [resetModeDir(seen, "SOURCE") EXCEPT !.ok = TRUE]
        target   == [resetModeDir(source, "TARGET") EXCEPT !.ok = TRUE]
    IN  IF required THEN configureCSC(target) ELSE seen

\* setFormat(): format, dimension and colorimetry of the image in one S_FMT
setFormat(m, dir) ==
    Ioctl(m, <<"sfmt", dir>>, SFmt(m.d, dir, m.img[dir].mode))

\* setCrop(): save_rect is written when S_CROP succeeded
setCrop(m, dir, rect) ==
    LET crop == Ioctl(m, <<"scrop", dir>>, SCrop(m.d, dir, rect))
    IN  IF crop.ok THEN [crop EXCEPT !.e.crop[dir] = rect] ELSE crop

\* changeMode(canvas, dir): skipped while buffers are requested; after S_FMT
\* mCurrentCrop is the whole image
changeMode(m, dir) ==
    IF "REQBUFS" \in m.e.st[dir]
    THEN m
    ELSE LET whole(s) == [s EXCEPT !.e.crop[dir] = DimCrop(m.img[dir].mode)]
         IN  Then(Then(setFormat(m, dir), whole),
                  LAMBDA s : setCrop(s, dir, Rect(m.img, dir)))

\* prepareExecute(canvas, dir) as it would be without VIDIOC_STREAMON
prepareExecuteDirNoStream(m, dir) ==
    IF "REQBUFS" \in m.e.st[dir]
    THEN m
    ELSE LET req == Ioctl(m, <<"reqbufs", dir>>, ReqBufs(m.d, dir, 1))
         IN  IF req.ok THEN [req EXCEPT !.e.st[dir] = @ \cup {"REQBUFS"}]
                       ELSE req

\* prepareExecute(canvas, dir) as it would be if it kept the buffers when
\* STREAMON fails
prepareExecuteDirNoCancel(m, dir) ==
    IF "REQBUFS" \in m.e.st[dir]
    THEN m
    ELSE LET req == Ioctl(m, <<"reqbufs", dir>>, ReqBufs(m.d, dir, 1))
             on  == Ioctl(req, <<"streamon", dir>>, StreamOn(req.d, dir))
         IN  CASE ~req.ok -> req
               [] ~on.ok  -> on
               [] OTHER   -> [on EXCEPT !.e.st[dir] = @ \cup {"REQBUFS"}]

\* prepareExecute(canvas, dir): REQBUFS(1) and STREAMON; when STREAMON fails
\* the buffers are given back, whatever REQBUFS(0) answers
prepareExecuteDir(m, dir) ==
    IF "REQBUFS" \in m.e.st[dir]
    THEN m
    ELSE LET req == Ioctl(m, <<"reqbufs", dir>>, ReqBufs(m.d, dir, 1))
             on  == Ioctl(req, <<"streamon", dir>>, StreamOn(req.d, dir))
         IN  CASE ~req.ok -> req
               [] ~on.ok  -> Fail(Ignoring(on, <<"cancel", dir>>,
                                           ReqBufs(on.d, dir, 0)))
               [] OTHER   -> [on EXCEPT !.e.st[dir] = @ \cup {"REQBUFS"}]

\* prepareExecute() as it would be if mProtectedContent were written before
\* the result of the control is known
prepareExecuteProtectionAssumed(m) ==
    LET set == IF m.protected # m.e.prot
               THEN Ioctl(m, <<"prot", "-">>, SProtection(m.d, m.protected))
               ELSE m
    IN  Then(Then([set EXCEPT !.e.prot = m.protected],
                  LAMBDA s : prepareExecuteDir(s, "SOURCE")),
             LAMBDA s : prepareExecuteDir(s, "TARGET"))

\* prepareExecute(): content protection is set when it differs
prepareExecute(m) ==
    LET set == IF m.protected # m.e.prot
               THEN Ioctl(m, <<"prot", "-">>, SProtection(m.d, m.protected))
               ELSE m
        ok  == IF set.ok THEN [set EXCEPT !.e.prot = m.protected] ELSE set
    IN  Then(Then(ok, LAMBDA s : prepareExecuteDir(s, "SOURCE")),
             LAMBDA s : prepareExecuteDir(s, "TARGET"))

\* queueBuffer(canvas, buftype, fence, need): VIDIOC_QBUF; the driver makes
\* a release fence when the image has an acquire fence or one is asked for
queueBufferDir(m, dir, need) ==
    LET q     == Ioctl(m, <<"qbuf", dir>>, QBuf(m.d, dir))
        taken == [q EXCEPT !.img[dir].fence = FALSE]
    IN  IF q.ok /\ (m.img[dir].fence \/ need)
        THEN [taken EXCEPT !.rel = @ \cup {dir}]
        ELSE taken

\* the same path as it would be without the close() of the source's fence
TargetNotQueuedKeepsFence(m) ==
    Fail(resetMode([m EXCEPT !.ok = TRUE]))

\* the source is queued and the target is not: resetMode(), whose result is
\* ignored, and the release fence of the source is closed
TargetNotQueued(m) ==
    LET reset == resetMode([m EXCEPT !.ok = TRUE])
    IN  Fail([reset EXCEPT !.rel = @ \ {"SOURCE"}])

Order == <<"SOURCE", "TARGET">>

\* the images whose release fence finds a slot in fence[]: as many as
\* num_fences, two at most, and none when the frame was not queued
Handed(m, n) == {Order[i] : i \in 1..(IF m.ok THEN Min({n, 2}) ELSE 0)}

\* fence[] as queueBuffer() leaves it: the fences handed over, and -1
Slots(m, n) ==
    [i \in 1..n |-> IF i <= 2 /\ Order[i] \in Handed(m, n) \cap m.rel
                    THEN i - 1 ELSE NoFence]

\* the hand-over as it would be if it wrote both fences whatever num_fences is
HandOverBoth(m, n) ==
    [m EXCEPT !.slots = [i \in 1..Max({n, 2}) |->
                           IF i <= 2 /\ m.ok /\ Order[i] \in m.rel
                           THEN i - 1 ELSE NoFence],
              !.rel = IF m.ok THEN {} ELSE @]

\* the hand-over as it would be without the loop that stores -1 in the
\* slots past the second
HandOverUnpadded(m, n) ==
    [m EXCEPT !.slots = [i \in 1..n |-> IF i > 2 THEN -2 ELSE Slots(m, n)[i]],
              !.rel = IF m.ok THEN {} ELSE @]

\* the hand-over as it would be without the loop that closes the fences
\* that found no slot
HandOverWithoutClose(m, n) ==
    [m EXCEPT !.slots = Slots(m, n), !.rel = @ \ Handed(m, n)]

\* fence[] gets the release fences of the source and the target, in this
\* order, as far as it has slots, and -1 in the others; of a frame that was
\* queued the fences that found no slot are closed
HandOver(m, n) ==
    LET closed == IF m.ok THEN Range(Order) \ Handed(m, n) ELSE {}
    IN  [m EXCEPT !.slots = Slots(m, n),
                  !.rel = @ \ (Handed(m, n) \cup closed)]

\* queueBuffer(fence[], n): both images are queued, the fences handed over,
\* and the modified flags and acquire fences cleared whatever happened
queueBuffer(m, n) ==
    LET source == queueBufferDir(m, "SOURCE", n > 0)
        target == Then(source, LAMBDA s : queueBufferDir(s, "TARGET", n > 1))
        queued == CASE ~source.ok -> source
                    [] ~target.ok -> TargetNotQueued(target)
                    [] OTHER      ->
                        [target EXCEPT
                            !.e.st = [dir \in Dirs |-> @[dir] \cup {"QBUF"}]]
    IN  [HandOver(queued, n) EXCEPT
            !.img = [dir \in Dirs |->
                        [@[dir] EXCEPT !.modified = FALSE, !.fence = FALSE]]]

\* the end of execute(fence[], n): a frame that could not be prepared
\* returns before queueBuffer() and leaves fence[] alone
Submit(prepared, n) ==
    IF prepared.ok THEN queueBuffer(prepared, n)
                   ELSE [prepared EXCEPT !.slots = [i \in 1..n |-> -2]]

\* execute(fence[], n) after validateAllLayers()
Frame(m, n) ==
    LET waited   == dequeueBuffer(m)
        turned   == Then(waited, setTransform)
        reset    == Then(turned, resetMode)
        source   == Then(reset, LAMBDA s : changeMode(s, "SOURCE"))
        target   == Then(source, LAMBDA s : changeMode(s, "TARGET"))
    IN  Submit(Then(target, prepareExecute), n)

-----------------------------------------------------------------------------
(* Actions *)

Start(fault) ==
    [e |-> eng, d |-> drv, img |-> image, transform |-> transform,
     protected |-> protected, ok |-> TRUE, fault |-> fault, struck |-> FALSE,
     flagged |-> FALSE, rel |-> {}, slots |-> <<>>]

\* the caller would sleep in VIDIOC_DQBUF
Sleeping == \E dir \in Dirs : "QBUF" \in eng.st[dir] /\ Sleeps(drv, dir)

Snapshot ==
    [queued |-> TRUE, mode |-> [dir \in Dirs |-> image[dir].mode],
     crop |-> [dir \in Dirs |-> Rect(image, dir)], trf |-> transform,
     prot |-> protected]

\* what a call that ended as `m` leaves behind
Returns(kind, n, m) ==
    /\ eng' = m.e
    /\ drv' = m.d
    /\ image' = m.img
    /\ last' = [op |-> kind, ok |-> m.ok, struck |-> m.struck,
                flagged |-> m.flagged, n |-> n, slots |-> m.slots,
                leaked |-> m.rel]

\* execute(fence[], n), execute(&handle), and execute(NULL) up to its wait
Execute(kind, n, fault) ==
    /\ ~waiting /\ ~Sleeping
    /\ kind \in Kinds
    /\ n \in IF kind = "fences" THEN 0..MaxFences ELSE {0}
    /\ Returns(kind, n,
               IF fault = <<"validate", "-">>
               THEN [Start(fault) EXCEPT !.ok = FALSE, !.struck = TRUE,
                                         !.slots = [i \in 1..n |-> -2]]
               ELSE Frame(Start(fault), n))
    /\ job' = IF last'.ok THEN Snapshot ELSE job
    /\ waiting' = (last'.ok /\ kind = "blocking")
    /\ UNCHANGED <<transform, protected>>

\* waitExecution(), and the wait that ends execute(NULL)
WaitExecution(fault) ==
    /\ ~Sleeping
    /\ Returns(IF waiting THEN "blocking" ELSE "wait", 0,
               dequeueBuffer(Start(fault)))
    /\ waiting' = FALSE
    /\ UNCHANGED <<transform, protected, job>>

\* requestPerformanceQoS(request): the frame rate of the first frame, or 0
\* for no request or a request without frames, is told to the device; the
\* call succeeds whatever the device answers
RequestPerformanceQoS(rate, fault) ==
    LET m == Ignoring(Start(fault), <<"rate", "-">>, SFrameRate(drv, rate))
    IN  /\ ~waiting
        /\ drv' = m.d
        /\ last' = Idle
        /\ UNCHANGED <<image, transform, protected, eng, job, waiting>>

\* the scaler runs the queued job, which ends well or, where the
\* environment has hardware errors, in error
Complete(end) ==
    /\ Runnable(drv)
    /\ end = "error" => <<"hwerror", "-">> \in Faults
    /\ drv' = Run(drv, end)
    /\ job' = NoJob
    /\ UNCHANGED <<image, transform, protected, eng, waiting, last, aborted>>

\* setCanvasDimension(), setCanvasImageType() and their layer counterparts
\* raise the modified flags that resetMode() reads
SetImageType(dir, mode) ==
    /\ ~waiting
    /\ image' = [image EXCEPT ![dir].mode = mode, ![dir].modified = TRUE]
    /\ last' = Idle
    /\ UNCHANGED <<transform, protected, eng, drv, job, waiting>>

\* the buffers with their acquire fences, and the rectangles of the layer
SetImage(dir, rect, fence) ==
    /\ ~waiting
    /\ image' = [image EXCEPT ![dir].rect = rect, ![dir].fence = fence]
    /\ last' = Idle
    /\ UNCHANGED <<transform, protected, eng, drv, job, waiting>>

SetAttributes(t, p) ==
    /\ ~waiting
    /\ transform' = t
    /\ protected' = p
    /\ last' = Idle
    /\ UNCHANGED <<image, eng, drv, job, waiting>>

Init ==
    /\ image \in [Dirs -> [mode : Modes, rect : Rects, fence : {FALSE},
                           modified : {TRUE}]]
    /\ image["SOURCE"].rect # 0
    /\ transform = {}
    /\ protected = FALSE
    /\ eng = [trf |-> {}, trfChanged |-> FALSE, prot |-> FALSE,
              crop |-> [dir \in Dirs |-> 0], st |-> [dir \in Dirs |-> {}]]
    /\ drv = Closed
    /\ job = NoJob
    /\ waiting = FALSE
    /\ last = Idle
    /\ aborted = FALSE

\* the faults that can strike in a call that issues the ioctls `names`
FaultsAt(names) == {f \in Faults : f[1] \in names} \cup {NoFault}

\* what dequeueBuffer() asserts on entry: both directions are marked
\* STATE_QBUF or neither is
MarkedAlike == ("QBUF" \in eng.st["SOURCE"]) = ("QBUF" \in eng.st["TARGET"])

\* LOGASSERT at the entry of dequeueBuffer(), which execute() and
\* waitExecution() call: the macro is defined outside the repository, so a
\* call that finds the marks apart ends the process here, in a build that
\* has the assertion, or goes on as Execute and WaitExecution say, in one
\* that has not
AssertionFails ==
    /\ ~aborted /\ ~MarkedAlike
    /\ aborted' = TRUE
    /\ UNCHANGED <<image, transform, protected, eng, drv, job, waiting, last>>

\* a process that has aborted makes no call
Halted == aborted /\ UNCHANGED vars

Call ==
    /\ ~aborted /\ UNCHANGED aborted
    /\ \/ \E k \in Kinds, n \in 0..MaxFences,
             f \in FaultsAt({"validate", "dqbuf", "flip", "streamoff", "reqbufs0",
                             "sfmt", "scrop", "reqbufs", "cancel", "streamon", "csc",
                             "prot", "qbuf"}) :
             Execute(k, n, f)
       \/ \E f \in FaultsAt({"dqbuf"}) : WaitExecution(f)
       \/ \E dir \in Dirs, mode \in Modes : SetImageType(dir, mode)
       \/ \E dir \in Dirs, r \in Rects, f \in AcquireFences :
             (dir = "SOURCE" => r # 0) /\ SetImage(dir, r, f)
       \/ \E t \in Transforms, p \in Protections : SetAttributes(t, p)
       \* a run without frame rates leaves the performance requests out
       \/ \E r \in FrameRates \cup {0}, f \in FaultsAt({"rate"}) :
             FrameRates # {} /\ RequestPerformanceQoS(r, f)

Hardware == \E end \in {"done", "error"} : Complete(end)

Next == Call \/ Hardware \/ AssertionFails \/ Halted

\* the hardware finishes every job it was given
Spec == Init /\ [][Next]_vars /\ WF_vars(Hardware)

-----------------------------------------------------------------------------
(* Properties *)

TypeOK ==
    /\ image \in [Dirs -> [mode : Modes, rect : Rects, fence : AcquireFences,
                           modified : BOOLEAN]]
    /\ transform \in Transforms
    /\ protected \in Protections
    /\ eng \in [trf : Transforms, trfChanged : BOOLEAN, prot : Protections,
                crop : [Dirs -> Nat], st : [Dirs -> SUBSET {"REQBUFS", "QBUF"}]]
    /\ drv \in [q : [Dirs -> Queue], trf : SUBSET {"H", "V", "R"},
                csc : [eq : Nat, range : Nat], prot : BOOLEAN, rate : FrameRates \cup {0}]
    /\ job.queued \in BOOLEAN
    /\ waiting \in BOOLEAN
    /\ aborted \in BOOLEAN
    /\ last \in [op : {"none", "wait"} \cup Kinds, ok : BOOLEAN,
                 struck : BOOLEAN, flagged : BOOLEAN, n : 0..MaxFences,
                 slots : Seq({-2, NoFence, 0, 1}), leaked : SUBSET Dirs]
    /\ Len(last.slots) = last.n

\* The frame the scaler is about to process is the frame execute() was
\* asked for: the formats and crop rectangles of both queues, the colour
\* conversion where configureCSC() asks for one, the flips and the content
\* protection of the device are those of the layer and the canvas at the time
\* of the call, whatever the device was set to by the frames before and
\* whichever calls failed in between.  This is what
\* resetMode(), changeMode(), setTransform() and prepareExecute() have to
\* achieve with the ioctls they skip.
FrameProcessedAsConfigured ==
    job.queued =>
        /\ \A dir \in Dirs : /\ drv.q[dir].fmt = job.mode[dir]
                             /\ drv.q[dir].crop = job.crop[dir]
        /\ LET sel == CscSel(job.mode["SOURCE"], job.mode["TARGET"])
           IN  sel # 0 => drv.csc = [eq |-> sel, range |-> sel]
        /\ drv.trf = job.trf
        /\ drv.prot = job.prot

\* Every release fence the driver created in queueBuffer() is handed to the
\* caller in fence[] or closed before execute() returns, also when the
\* target could not be queued after the source was.
NoReleaseFenceLeak ==
    last.leaked = {}

\* Once queueBuffer() has marked both queues STATE_QBUF the hardware gets to
\* run the job, so that the VIDIOC_DQBUF of the next execute() or
\* waitExecution() returns: both queues stream and hold their buffer.
QueuedFrameCompletes ==
    (\A dir \in Dirs : "QBUF" \in eng.st[dir])
        ~> (\A dir \in Dirs : Finished(drv, dir))

\* (acrylic_mscl9810.cpp:415, "reset the state of the output path", and
\* :292, "cancel reqbufs") A call fails only when the environment failed one
\* of its ioctls or its validation: the device never has to refuse the
\* engine, because mDeviceState says which queue owns buffers and which
\* holds one queued after every failure, that of changeMode() and
\* prepareExecute() and that of queueBuffer().
EngineRecovers ==
    ~last.ok => last.struck


\* (acrylic_mscl9810.cpp:563) The assertion of dequeueBuffer() holds whenever
\* execute() or waitExecution() is called: no sequence of calls and failed
\* ioctls leaves one direction marked STATE_QBUF and the other not, so the
\* process is never ended by it.
DequeueAssertionHolds ==
    ~aborted

\* The two directions are marked STATE_QBUF together by queueBuffer() and
\* lose the mark together in dequeueBuffer(), with one exception: a
\* VIDIOC_DQBUF of the target that the environment fails after the source
\* was dequeued.  The call reports that failure and the mark that stays is
\* the target's.  The next call ends the process on the assertion of
\* dequeueBuffer(); where the build has no assertion it skips the source
\* and asks for the buffer that is still owed, and the first call that
\* succeeds finds the directions alike again.  No failure of queueBuffer(),
\* prepareExecute() or resetMode() parts the two marks.
QueuesMarkedTogether ==
    /\ [][MarkedAlike /\ ~MarkedAlike' =>
            /\ ~last'.ok /\ last'.struck
            /\ "QBUF" \in eng'.st["TARGET"]]_vars
    /\ [][~MarkedAlike /\ last'.op # "none" /\ last'.ok => MarkedAlike']_vars
-----------------------------------------------------------------------------
(* The engine as an implementation of the fence contract *)

\* the acquire fences the engine holds: getFence() >= 0 of layer and canvas
HeldFences == Cardinality({dir \in Dirs : image[dir].fence})

\* fence[] as the caller sees it: a release fence, -1, or what was there
CallerView(slots) ==
    [i \in DOMAIN slots |-> IF slots[i] >= 0 THEN 0 ELSE slots[i]]

Contract ==
    INSTANCE AcrylicContract WITH
        MaxBuffers <- 2,
        held <- HeldFences,
        answer <- IF last.op \in Kinds
                  THEN [call |-> "execute", ok |-> last.ok, n |-> last.n,
                        slots |-> CallerView(last.slots)]
                  ELSE [call |-> "other", ok |-> TRUE, n |-> 0, slots |-> <<>>]

\* Every call of the MSCL engine is a step of the fence contract: a frame
\* queueBuffer() queued has consumed both acquire fences and filled all n
\* slots of fence[], a frame that failed before queueBuffer() keeps both
\* acquire fences and one that failed inside it keeps neither, and a
\* failed call leaves no release fence in fence[]; waitExecution() and
\* requestPerformanceQoS() touch no fence.
ImplementsContract == Contract!Spec
=============================================================================
