# libacryl (Exynos 9810): TLA+ models

libacryl is the user-space library through which Android's hardware composer
drives the 2D engines of the Exynos 9810: the G2D compositor, reached through
the single-shot job ioctls of `m2m1shot2`, and the MSCL scaler, reached as a
V4L2 memory-to-memory device. The sources under `graphics/libacryl/` hold the
two backends, a dummy backend, the capability tables and the factory. The base
classes (`Acrylic`, `AcrylicCanvas`, `AcrylicLayer`, `AcrylicDevice`) and the
kernel drivers are not part of the repository.

This directory holds the models of the library, the TLC configurations that
check them, and `PROJECT.json`, which maps every definition to the source lines
it stands for and lists the runs, the mutants, the findings and the hazards.

## 1. Inventory

| Part | Source | State | Operations |
|---|---|---|---|
| Capability descriptor, factory | `acrylic_factory.cpp` | constant tables; the engine the caller holds | `createInstance`, `createCompositor`, `createScaler`, `createBlter`, `createAcrylic` |
| Canvas, Layer | outside the repository | format, dimension, rectangles, transform, buffer, acquire fence, modified flags, protection | setters (called by the user), `setFence`, `clearSettingModified` (called by the backends) |
| G2D engine | `acrylic_g2d.cpp`, `.h` | `mDesc` (job descriptor: sources array, flags), `mMaxSourceCount`, `mPriority`, `mClientION`, the device context and its priority | `execute(fence[], n)`, `execute(handle)`, `execute(NULL)`, `waitExecution`, `prioritize`, `requestPerformanceQoS`, `removeTransitData`, constructor, destructor |
| Prescale pipeline | `acrylic_g2d.cpp` 91-338, `acrylic_g2d.h` 60-112 | per layer a transit: nested engine, nested layer, intermediate dmabuf with length and protection | `prescaleSource`, `preparePrescaleBuffer`, `setBuffer`, nested `execute` and `prioritize` |
| Fence protocol | `acrylic_g2d.cpp` 502-613, `acrylic_mscl9810.cpp` 325-450 | acquire fence of every image; the release fences the driver returns | flag selection, hand-over into `fence[]`, padding, closing |
| QoS estimator | `acrylic_g2d.cpp` 732-847, `acrylic_mscl9810.cpp` 624-643 | the request standing in the driver | bandwidth computation, `REQUEST_PERF`; `SC_CID_FRAMERATE` |
| MSCL engine | `acrylic_mscl9810.cpp`, `.h` | `mDeviceState[dir]` (REQBUFS, QBUF bits), `mCurrentCrop[dir]`, `mCurrentTransform`, `mTransformChanged`, `mProtectedContent` | `execute` (three forms), `waitExecution`, `requestPerformanceQoS`; inside them `dequeueBuffer`, `setTransform`, `resetMode`, `changeMode`, `prepareExecute`, `queueBuffer` |
| V4L2 device | kernel | per queue: format, crop, buffers requested, streaming, state of the one buffer; flips, colour conversion, protection | the ioctls; the hardware ending a job, well or with `V4L2_BUF_FLAG_ERROR` |
| Dummy backend | `acrylic_dummy.cpp` | the fences and modified flags of canvas and layers | `execute` (two forms), `waitExecution` |
| G2D9810 backend, HDR writer | `acrylic_g2d9810.h` | engine: declaration only; writer: `mWriter`, `mCmds` | `getCommands`, `putCommands`, constructor, destructor; setters that pass through to the plug-in |

How the parts interact. The user configures a canvas and layers and calls
`execute()`. The G2D engine walks the layers; a layer whose scaling ratio
exceeds the hardware's gets a *transit*, a nested G2D engine with its own device
context that resizes the layer into an intermediate buffer; the prescale job is
submitted first, the composition job then reads the intermediate buffer. The
engine's scheduling priority is propagated to the nested engines. The MSCL
engine keeps a picture of the device and, per frame, issues only the ioctls the
picture calls for. Both backends take acquire fences from the images and hand
release fences back through `fence[]`.

The library has no threads and no locks: the engine is driven by one caller.
What is hard in it is not interleaving but *partial failure*: every call is a
sequence of up to a dozen ioctls and allocations, any of which may fail, and the
engine keeps state across calls (a cached transit, a sticky flag, a picture of
the device) that must stay true whichever step failed. The only concurrent
actor is the hardware, which completes queued jobs on its own.

What must hold:

* G2D: the release fences returned are exactly those the fence rules promise;
  the job never has more sources than `mDesc.sources` holds; a cached
  intermediate buffer suits the frame that uses it; no dmabuf descriptor is
  leaked; the engine, its device context and all its prescalers run at one
  priority; `prioritize()` reports what it did; blocking `execute()` blocks; a
  failed `execute()` has submitted nothing.
* MSCL: the frame the scaler processes is configured as `execute()` was asked;
  no release fence is leaked; a queued frame is eventually run; the engine
  recovers from a failed call; a job the hardware ended in error is reported
  as a failure.
* Every backend: after `execute()` the caller knows who owns which fence
  (`AcrylicContract`).
* Library: an engine is created with a table its class can serve; the first
  stage of a two-stage scaling is itself within the reach of the hardware; the
  bandwidth requested covers the frame; borrowed HDR command lists go back.

## 2. Plan

Order of work, most important behaviour first:

1. `AcrylicG2D`: the G2D engine with its prescale pipeline, fences and
   priority (done).
2. `V4L2M2M` and `AcrylicMSCL`: the MSCL engine against a model of the device
   (done).
3. `AcrylicContract`: the fence contract of `execute()` of sections 4.1, 4.3
   and 7 of the specification, with `AcrylicG2D`, `AcrylicMSCL` and
   `AcrylicDummy` shown to implement it through refinement mappings (done).
4. `AcrylicFactory`, `AcrylicPrescale`, `AcrylicQoS`, `G2DHdrWriter`,
   `AcrylicDummy`, composed in `AcrylicLibrary`: what depends on the class and
   the table of the engine the factory made (done).
5. The hardware as a source of failure: a job of the scaler that ends in
   error, `EAGAIN` from the wait of the G2D engine (done).
6. The assertion of `dequeueBuffer()`, line 563, as a step that ends the
   process, and the run that reaches it (done).
7. Open: the hazards of `PROJECT.json` that have a note in place of a
   property. Those that are statements about this code and fail (the scaling
   weight of the estimator, line 792; the ignored `STREAMOFF` of
   `resetMode()`, line 101; the hardware error `waitExecution()` of the
   scaler reports as success, line 601; the prescaler left at the default
   priority, line 286) need a run of their own; section 8 says what TLC finds
   for each.

## 3. Modules

### AcrylicG2D (`acrylic_g2d.cpp`, `acrylic_g2d.h`)

| Variable | Code |
|---|---|
| `canvas`, `layers`, `background` | the target, the layers in order, `hasBackgroundColor()`; of each image the acquire fence, the length of intermediate image its scaling needs (0: none), its protection, and its transit |
| `mPriority`, `devPriority` | `mPriority`; the priority of the m2m1shot2 context |
| `mMaxSourceCount`, `descFlags` | the size of `mDesc.sources`; `mDesc.flags` |
| `mClientION`, `ionLive` | the ION client is open; the number of dmabufs the process holds |
| `clean` | history: the driver refused no `SET_PRIORITY` so far |
| `last` | what the last call returned: result, fence slots, the job as submitted, prescale jobs submitted |

Each API call is one action and takes a `fault`: the one step of the call
that the environment fails (validation, plane check, ION open, allocation,
prescaler set-up, prescale job, priority of a new prescaler, submission,
hardware error), at a given layer. `Execute` is `Prepare` followed by
`Submit`. `Prepare` folds `PrepareSource` over the layers, which calls
`PrescaleSource` (`AttachTransit`: reuse or create the transit, prioritize the
new prescaler, reallocate the buffer when `BufferFits` fails; `RunPrescaler`:
configure and submit the nested job) and then `PrepareImage`, the plane check
of the layer, which a layer whose prescaling failed does not reach. `Submit`
chooses the fence flags (`MarkAcquired`, `ForceRelease`), submits, and fills
the slots (`ReturnedSlots`, `PaddedSlots`). `WaitExecution` takes what the
driver answers: the job ended well, ended in error, the ioctl failed, or it
failed with `EAGAIN`, in which case the code reads the flags an earlier call
left in `mDesc`. `Prioritize` has one disjunct for each way through
`prioritize()`; the driver's answers come from `PrioScenarios`. `RemoveLayer`
runs the destructor of the transit (`Closes`); `Recreate` is the destructor
of the engine followed by the constructor. Of the two only the lines of this
repository are translated (the descriptor array and the ION client); that the
layers and the canvas go with the engine is the base class, taken from the
specification, as is the range of priorities `SetPriority` accepts before it
reaches the ioctl.

The driver is taken to write `mDesc.flags` when it accepts a job or a wait:
`M2M1SHOT2_FLAG_ERROR` is set when the job failed and cleared when it did
not. When an ioctl fails the flags stay as the caller left them. The driver
is taken to leave `M2M1SHOT2_FLAG_NONBLOCK` as it found it, on which
`BlockingExecuteBlocks` depends: the flag is an input of the job, and a
driver that cleared it on return would hide what run `g2d_blocking` shows.

`ImplementsContract` maps the engine to `AcrylicContract`: `held` is the
number of images with an acquire fence, `answer` the fence slots of the last
`execute()` with every release fence read as "a fence".

Abstractions: formats, sizes and addresses are left out; a buffer is its
length and protection; the intermediate size is the length the frame needs
(its geometry is module `AcrylicPrescale`); the
nested engine is its priority, its context priority and its buffer, because the
only calls made on it are `prioritize`, configuration and a non-blocking
`execute`.

### V4L2M2M (kernel, modelled from the V4L2 interface)

The device as records: two queues, each with format, crop, `bufs`,
`streaming` and the state of its one buffer (`free`, `queued`, `done`,
`error`), and the controls. An ioctl is an operator from the device to `[ok, d]`. The rules are
those every videobuf2 driver enforces: no `S_FMT` while buffers are requested,
no `REQBUFS` while streaming, `STREAMON` needs buffers, `QBUF` needs the buffer
in the caller's hands, `DQBUF` sleeps while it is queued on a streaming queue.
`S_FMT` resets the crop to the whole image. `SCsc` stores one of the two
controls of the colour conversion, its matrix (`eq`) and its swing
(`range`). `SFrameRate` stores the frame
rate of the performance control. `Run(d, end)` is the hardware ending the job
of both buffers; a buffer that ended in `error` is dequeued like one that is
`done`, and `Flagged` says that it carries `V4L2_BUF_FLAG_ERROR`.

### AcrylicMSCL (`acrylic_mscl9810.cpp`, `acrylic_mscl9810.h`)

| Variable | Code |
|---|---|
| `image[dir]` | the layer (SOURCE) and the canvas (TARGET): `mode` (format and dimension), rectangle, acquire fence, modified flags |
| `transform`, `protected` | `getLayer(0)->getTransform()`, `getCanvas().isProtected()` |
| `eng` | `mCurrentTransform`, `mTransformChanged`, `mProtectedContent`, `mCurrentCrop`, `mDeviceState` |
| `drv` | the device of `V4L2M2M` |
| `job` | history: the configuration asked for the frame now queued |
| `waiting` | the caller is inside `execute(NULL)`, between queueing and its wait |
| `last` | result of the last call, the fence slots, the release fences still open, whether a buffer it dequeued was flagged as failed |
| `aborted` | the assertion of `dequeueBuffer()` has ended the process |

A call threads a record through the steps of the code in their order
(`dequeueBuffer`, `setTransform`, `resetMode`, `changeMode`, `prepareExecute`,
`queueBuffer`), each named after its function; each ioctl is `Ioctl(m, site,
answer)`, which fails when the fault names its site or the device refuses.
`Ignoring` is the same for the calls whose result the code drops. `Frame` is
`execute()` up to `prepareExecute()`, `Submit` its last step, and `Returns`
writes the record back to the variables. A call that would sleep in
`VIDIOC_DQBUF` is not enabled until `Hardware` has ended the job:
`Complete("done")`, or `Complete("error")` in the runs whose faults include a
hardware error.

`configureCSC()` asks for a conversion only when exactly one of the two
formats is without chroma subsampling (`Unsubsampled`); `CscSel` is the
matrix and swing it then derives from the other image, and the two controls
are issued in the order of the code, the second only after the first
succeeded. `HandOver` is the end of `queueBuffer()`: `Handed` are the release
fences the first loop writes into `fence[]` (lines 430-431), the close loop
takes the others (434-436), and `Slots` pads the rest with -1; after a failed
`VIDIOC_QBUF` nothing is handed over and nothing closed here.

`dequeueBuffer()` begins with an assertion that both directions agree on
`STATE_QBUF` (`MarkedAlike`). `LOGASSERT` is defined outside the repository,
so both builds are in the model: while the two marks differ the next
`execute()` or `waitExecution()` either ends the process (`AssertionFails`,
after which only the stuttering step `Halted` is left and no call is
enabled) or goes on as the code after the assertion says. Run `mscl_assert`
shows that the assertion can fail; `QueuesMarkedTogether` says how: the marks
part only in a call that reports a failed `VIDIOC_DQBUF` of the target, the
mark that stays is the target's, and where the process goes on the next call
that succeeds joins them.
`RequestPerformanceQoS` is a call like the others, not enabled while the
caller is inside `execute(NULL)`; it writes the frame rate of the request, or
0, and drops the result of the control. `ImplementsContract` maps the engine to
`AcrylicContract` as for the G2D engine, with the two images of the scaler.

### AcrylicContract (specification, sections 4.1, 4.3, 7)

The abstract specification of the fences of `execute()`, with two variables:
`held`, the number of acquire fences the engine holds for the caller, and
`answer`, what the last call gave back. `Accept(n)` consumes every acquire
fence and writes all `n` slots, release fences first, at least `min(n, held)`
of them; `Reject(n)` leaves the acquire fences in place or drops them all, and
no slot holds a release fence; `Configure` is every other call. It does not
say which buffer a fence belongs to: that differs between the backends and is
what `ReleaseFencesAsRequested` and `NoReleaseFenceLeak` state for each.

### AcrylicFactory (`acrylic_factory.cpp`)

The format arrays as sets of format families, the dataspace arrays, the ten
`stHW2DCapability` tables as records (the first in full, the others as the
source differs from it), and `Variants`, the chain of `strcmp()` of
`createInstance()` as a table from the name to class, capability and colour
mode. Variable `engine` is the engine the caller holds; `CreateAcrylic` and
`CreateDefault` are the creation calls. The names of the default engines are
build macros and constants of the module.

### AcrylicPrescale (`acrylic_g2d.cpp` 184-245, 340-359)

`prescaleSource()` up to the intermediate size as operators: `div_align`,
`TransitFormat` (the format with the smaller subsampling code), `Side` (the
three-way choice per axis), `prescaleSource` (rotation of the target before,
of the result after when magnifying). Action `PrescaleSource` is the branch of
`prepareSource()` that calls it, guarded as in the code by
`ATTR_NORESAMPLING` and `supportedHWResampling()`; variable `stage` keeps the
request with its result. The accessors of the capability and the subsampling
code of a format are outside the repository and written from the
specification.

### AcrylicQoS (`acrylic_g2d.cpp` 732-847)

The estimator as operators (`pixelcount`, `weight`, `layer_bw`,
`ReadBandwidth`, `WriteBandwidth`, `FrameData`) and the call as the action
`RequestPerformanceQoS(request, accepted)`; variable `perf` is the request
standing in the driver and the last return value. A request without frames is
the cancellation.

### G2DHdrWriter (`acrylic_g2d9810.h` 30-108)

Variable `hdr`: whether `mWriter` and `mCmds` are set, and `lent`, the command
lists the plug-in has handed out. `GetCommands`, `PutCommands`, `Create` and
`Destroy` are the four methods that change it.

### AcrylicDummy (`acrylic_dummy.cpp`)

Variables `images` (fence and modified flag of canvas and layers) and
`result`. `Execute` is the fence form, which runs the handle form first and
then numbers the slots; `ExecuteHandle` the handle form; both take the outcome
of `validateAllLayers()` as input.

### AcrylicLibrary

The composition: `Create` is a creation call of the factory, or the
construction of a dummy compositor, followed by the constructors of the
members of the class; `Use` is a step of the modules above that belong to the
class of `engine`, the prescale computed from `engine.capability`; `Delete`
runs the destructors. The fence protocols of the G2D and MSCL engines stay in
their own modules and runs.

## 4. Runs

All runs have one engine and a single caller. Bounds: two layers are enough for
"an earlier layer succeeded, a later one failed" and for the fence loops to meet
`num_fences` below, at and above the number of images; two lengths, two
formats, two rectangles and two priorities are enough to tell "same" from
"changed", which is all the code asks of them. A call takes at most one fault;
sequences of calls have no bound, the state spaces are finite.

| Run | Checks | Result |
|---|---|---|
| `g2d_fences` | `TypeOK`, `DescriptorHoldsJob`, `ReleaseFencesAsRequested`, `ImplementsContract` with 0-3 fence slots, fences anywhere, background colour, all three `execute` forms, `waitExecution` with every answer of the driver, failing validation, plane check, prescaler set-up, submission and hardware | pass |
| `g2d_prescale` | `TransitBufferSuitsFrame`, `NoTransitBufferLeak`, `PriorityAgreement` with two lengths, protection, failing ION, allocation, prescale job and priority of a new prescaler, `prioritize()` with a valid and an invalid priority and a driver that refuses at the engine, at a prescaler, in the restore loop or in the revert | pass |
| `g2d_rollback` | `RollbackReportsFailure` | violated: after a rollback whose revert succeeds, `prioritize()` falls through to `mPriority = priority; return 0` (lines 716-729) |
| `g2d_busy` | `PriorityAgreement` with a driver that answers EBUSY | violated: return 1 leaves `mPriority` stale and the prescalers untold (line 676) |
| `g2d_blocking` | `BlockingExecuteBlocks` | violated: `mDesc.flags` keeps `NONBLOCK` from an earlier non-blocking call (line 504) |
| `g2d_partial` | `NoPartialSubmission` | violated: the prescale job of layer 1 is on the hardware when layer 2 fails (line 328) |
| `mscl_config` | `FrameProcessedAsConfigured`, `EngineRecovers` over changes of format, rectangle, transform and failing configuration ioctls | pass |
| `mscl_fences` | `TypeOK`, `FrameProcessedAsConfigured`, `NoReleaseFenceLeak`, `QueuedFrameCompletes`, `QueuesMarkedTogether`, `ImplementsContract` with 0-3 slots, acquire fences, protection, performance requests, failing QBUF, DQBUF, STREAMON and controls, jobs that end in error | pass |
| `mscl_flip` | `FrameProcessedAsConfigured` with failing flip controls | violated: the device keeps the flip of a failed call (line 218) |
| `mscl_stranded` | `EngineRecovers` with a failing QBUF of the target | violated: the source buffer stays queued and every later `execute()` fails (line 416) |
| `mscl_assert` | `DequeueAssertionHolds` with a failing DQBUF of the target | violated: `dequeueBuffer()` returns with the source unmarked and the target marked, and the next call enters it with the assertion false (line 563) |
| `library` | `TypeOK`, `CapabilityFitsBackend`, `PrescaleInOnePass`, `EstimateCoversTraffic`, `CommandsReturned`, `DummyImplementsContract` over all names of the factory | pass |

Bounds of `library`. The names are all eleven the factory knows, the three
default names and one it does not know. The sides of an image are 5 and 100,
those of a target 1 and 5: with the factor 2 of the m2m1shot2 tables that
gives a side the filter reaches (5 to 5), sides it does not (5 to 1, 100 to 1,
100 to 5), and an odd side on which the rounding of `div_align()` shows; the
table of the 8890, whose smallest dimension is 4, takes part with the sides
from 5 up. Every pair of formats of the table is a layer and a canvas format.
The branch of `prescaleSource()` for magnification is never taken: the tables
allow a factor of 32767 and no image is larger than 8192, so the branch is
dead with every table the factory has. The performance requests are a
cancellation, one frame, two frames of two layers (one of them rotated 4:2:0,
one shrunk) and a frame with only a background, of at most 64 by 64 pixels at
60 frames per second: the products of the estimator stay below 2^31, the
largest integer of TLC, so the run says nothing about its 32-bit wrap-around
(hazard at line 777). The dummy compositor has a canvas and one layer and is
asked for up to two fences.

`mscl_fences` asks for up to three fences, one more than the scaler has
images, so that the padding of `queueBuffer()` is taken.

`mscl_config` has every ioctl of `changeMode()` and `prepareExecute()` fail,
in either direction, and each of the two controls of the colour conversion
(one of the two formats is without chroma subsampling, so that frames with
and without a conversion occur), and
none of `queueBuffer()`: `EngineRecovers` holds up
to the first `VIDIOC_QBUF` that fails and not after it, which is the subject
of `mscl_stranded`. Two formats, an empty and a partial target rectangle and
one turn are what it takes for each test of `resetMode()` to decide a frame
alone.

`g2d_prescale` is the one run in which frames, `prioritize()` and a
refusing driver meet: the priority is only raised (from the default to 1; the
constructor of `Recreate` brings the default back), which is enough for a
prescaler created before, between and after the changes of priority, and 7
stands for every priority `prioritize()` rejects. `PriorityAgreement` is
stated for the time up to the first `SET_PRIORITY` the driver refuses; what
the code does after one is the subject of `g2d_rollback` and of the hazard at
line 286. The plane check and the submission fail in `g2d_fences`, where a
layer may need an intermediate image too.

`mscl_assert` is the smallest instance that has a job: one format, no
fences, `execute(fence[], 0)`, and a `VIDIOC_DQBUF` of the target that fails
as the only fault. The trace has four steps: a frame is queued, the hardware
ends it, the next `execute()` dequeues the source and fails on the target,
and the call after it meets the assertion.

The passing runs split the inputs between them so that each finishes within
a few minutes on two workers (`g2d_prescale`, the largest, has 180,586
states); every action and every disjunct of the next-state relations is taken in some
passing run. Each property of a passing run has a mutant in
`PROJECT.json`: a plausible wrong version of one mapped definition under which
the run must fail.

The failures the passing MSCL runs leave out are the ones the violation runs
are about, and a failing `STREAMOFF` or `REQBUFS(0)` inside `resetMode()`,
whose result the code ignores: with them `FrameProcessedAsConfigured` is
violated in five steps (hazard at line 101).

## 5. Refinement

`AcrylicContract` is the abstract specification; `ImplementsContract` in
`AcrylicG2D`, `AcrylicMSCL` and `AcrylicDummy` is `Contract!Spec` under the
mapping of that module, checked as a temporal property of the runs
`g2d_fences`, `mscl_fences` and `library`. Each step of a backend has to be a
`Configure`, an `Accept` or a `Reject` of the contract, or leave `held` and
`answer` as they are. The three backends differ in what a failed call does
with the acquire fences, which is why `Reject` allows both: the G2D engine
drops all of them whatever failed, the scaler and the dummy keep them when the
call failed before anything was queued.

## 6. Fairness

`AcrylicG2D` and `AcrylicLibrary` have no liveness property and no fairness:
the G2D engine hands its job to the driver in one ioctl and keeps nothing that
waits for the hardware. `AcrylicMSCL` assumes weak fairness of `Hardware`
only: a job that both queues hold while streaming is ended by the hardware,
well or in error. `QueuedFrameCompletes` therefore promises that the buffers
of a queued frame become ready to be dequeued, not that the frame was
processed well. Nothing is assumed of the caller, who may stop calling at any
time.

Deadlock is checked in every run. The one state of `AcrylicMSCL` in which
nothing more can happen, the process ended by the assertion, has the
stuttering step `Halted`.

## 7. Not modelled

* Pixel formats beyond their family, plane layout, addresses, the HDR
  coefficients and the values written into the job descriptor, beyond what
  the tables above name.
* Failure of C++ `new`, which throws and does not return NULL: the tests of
  its result in `prescaleSource()` (lines 261-280) and `executeG2D()` (lines
  449-452) are never taken.
* `LOG_FATAL(handle == 1)` in `waitExecution()` of the G2D engine (line 617)
  and of the dummy (line 81): the macro takes a format string, so the lines
  compile only where it is defined away. The callers of the model pass the
  handle `execute()` gave them.
* The classes of canvas and layer. `Init` starts with the modified flags set
  because an image passes `validateAllLayers()` only after its setters were
  called, and the setters set the flag (specification, sections 3 and 4.1).
* `sortLayers()` and the second `clearSettingModified()` pass of the dummy
  compositor, which change nothing the model has.
* The G2D9810 engine, of which only the declaration is in the repository, and
  with it the callers of `G2DHdrWriter`; the setters of the writer and
  `getLayerHdrMode()`, which move data between the plug-in and the task and
  leave the writer as it is.
* The 32-bit wrap-around of the estimator, which TLC cannot evaluate, and the
  length of `data.frame[]`, which is in a kernel header.
* The jobs of the G2D engine inside the driver: the m2m1shot2 driver is not
  in the repository, and whether it runs the jobs of two contexts in the
  order they were submitted, and what `EAGAIN` says about a job, would be
  decided by assumption. The model has every answer the code distinguishes
  and no scheduler.
* An error return of `VIDIOC_DQBUF` while the job is still running: a fault
  at `dqbuf` is injected only once the caller would no longer sleep.

## 8. Observations without a run

Met while modelling, recorded as hazards in `PROJECT.json`:

* `dequeueBuffer()` of the scaler tests `V4L2_BUF_FLAG_ERROR` on the buffer
  it dequeued, writes a log line and goes on (lines 598-603):
  `waitExecution()` and `execute(NULL)` return true for a job the hardware
  ended in error, where the specification (sections 4.1 and 7) has the wait
  fail.
  The model has the flagged buffer (`last.flagged`); no run states the
  sentence.
* `resetMode()` takes both queues down because, as its comment says, the
  driver needs `REQBUFS(0)` in both directions before a format changes. After
  a turned layer whose `REQBUFS` or `STREAMON` of the target failed, the
  source streams and the target has no buffers; the next `execute()` finds
  nothing changed, `mTransformChanged` having been cleared by the failed
  call, and sets the format of the target beside the streaming source (line
  122), in five steps. The device of `V4L2M2M` accepts that, as videobuf2
  does, and `EngineRecovers` shows that the queue whose format is set never
  owns buffers; what the scaler's driver does beyond that rule is not in the
  repository.
* With a failing `STREAMOFF` or `REQBUFS(0)` in `resetMode()`
  `FrameProcessedAsConfigured` is violated in five steps (line 101).
* A prescaler whose first `prioritize()` fails stays cached at the default
  priority while the engine runs at another (line 286).
* The composition job carries no fence for the intermediate buffer and the
  prescale job is not waited for (line 361); the specification (section 5)
  has the order enforced by fences or a synchronous job. The same holds
  between frames: a cached intermediate buffer is written by the prescale job
  of the next frame while the composition job of this one may still read it
  (line 299). The order of the jobs is the driver's, and no property of the
  project speaks about it.
* `waitExecution()` of the G2D engine takes `EAGAIN` for success and reads
  flags the failed ioctl did not write (line 626).
* `requestPerformanceQoS()` of the G2D engine decides "no scaling" by the sum
  of the differences of the sides; a layer shrunk on one axis and stretched by
  as much on the other is weighted as unscaled (line 792).
* `prescaleSource()` takes the format whose subsampling code is smaller, which
  is the finer one; the specification (section 4.2) calls it the coarser.
* One intermediate stage halves a side at most (tables of the 8890 and the
  8895): a layer shrunk by more than four leaves the composition job with a
  ratio beyond the filter (line 357).
* The tables of the 9610 family have `max_downsampling_factor` {31767, 32767}.
* `requestPerformanceQoS()` of the scaler returns true when the control failed.
* `getLayerHdrMode()` trusts the offsets of the plug-in as indices.
