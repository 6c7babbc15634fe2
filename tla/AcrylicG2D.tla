----------------------------- MODULE AcrylicG2D -----------------------------
(***************************************************************************)
(* The G2D compositor of libacryl that drives /dev/fimg2d through the      *)
(* m2m1shot2 job-descriptor ioctls: AcrylicCompositorM2M1SHOT2_G2D and its *)
(* per-layer prescaler cache AcrylicTransitM2M1SHOT2_G2D                   *)
(* (acrylic_g2d.cpp, acrylic_g2d.h).                                       *)
(*                                                                         *)
(* One engine is driven by one caller thread, so every API call is one     *)
(* atomic action.  What the caller cannot control is the driver: each      *)
(* action takes the outcome of its ioctls and allocations as an input.     *)
(* A layer is abstracted to what the control flow reads: whether it        *)
(* carries an acquire fence, whether the frame needs the two-stage         *)
(* prescale (and then the byte length of the intermediate image), and      *)
(* whether its content is protected.  The geometry of the prescale is in   *)
(* module AcrylicPrescale.                                                 *)
(***************************************************************************)
EXTENDS Integers, Sequences, FiniteSets, SequencesExt

CONSTANTS
    MaxLayers,        \* max_layers of the capability: createLayer() refuses more
    MaxFences,        \* largest num_fences passed to execute(fence[], num_fences)
    Kinds,            \* the execute() variants the caller uses
    AcquireFences,    \* subset of BOOLEAN: may a buffer come with an acquire fence
    Backgrounds,      \* subset of BOOLEAN: may a background colour be configured
    Needs,            \* 0: the hardware resamples in one pass; n > 0: the frame
                      \* needs a prescale into an intermediate image of n bytes
    Protections,      \* subset of BOOLEAN: may a layer hold protected content
    Priorities,       \* the priorities passed to prioritize()
    ValidPriorities,  \* the priorities Acrylic::prioritize() accepts
    PrioOutcomes,     \* outcomes of M2M1SHOT2_IOC_SET_PRIORITY the driver shows
    Faults            \* the failure sites of execute() the environment exercises

ASSUME /\ MaxLayers \in Nat \ {0} /\ MaxFences \in Nat
       /\ Kinds \subseteq {"fences", "handle", "blocking"}
       /\ AcquireFences \subseteq BOOLEAN /\ FALSE \in AcquireFences
       /\ Backgrounds \subseteq BOOLEAN /\ FALSE \in Backgrounds
       /\ Needs \subseteq Nat /\ 0 \in Needs
       /\ Protections \subseteq BOOLEAN /\ FALSE \in Protections
       /\ Priorities \subseteq Int /\ ValidPriorities \subseteq Int
       /\ PrioOutcomes \subseteq {"ok", "busy", "fail"} /\ "ok" \in PrioOutcomes

VARIABLES
    canvas,           \* the target image: [fence]
    layers,           \* the source layers in composition order
    background,       \* hasBackgroundColor()
    mPriority,        \* the priority the engine believes it runs at
    devPriority,      \* the priority the driver context really has
    mMaxSourceCount,  \* capacity of mDesc.sources
    descFlags,        \* mDesc.flags, shared by the caller and the driver
    mClientION,       \* is the /dev/ion client open
    ionLive,          \* dmabuf descriptors allocated and not yet closed
    clean,            \* history: the driver refused no SET_PRIORITY so far
    last              \* what the most recent API call returned and submitted

vars == <<canvas, layers, background, mPriority, devPriority, mMaxSourceCount,
          descFlags, mClientION, ionLive, clean, last>>

-----------------------------------------------------------------------------
(* Values *)

DefaultPriority == -1

\* A failure site of execute() and where it strikes: at the call itself (0)
\* or at layer `at`.  One execute() meets at most one failure.
CallSites  == {"validate", "planes", "submit", "hwerror"}
LayerSites == {"planes", "prio", "priobusy", "ionopen", "alloc", "canvas",
               "prescale"}
ExecFaults ==
    {[site |-> "none", at |-> 0]}
        \cup [site : Faults \cap CallSites, at : {0}]
        \cup [site : Faults \cap LayerSites, at : 1..MaxLayers]

Hit(fault, site, i) == fault = [site |-> site, at |-> i]

DevPriorities == {"DEFAULT", "LOW", "MEDIUM", "HIGH", "HIGHEST"}

convertAcrylPriorityToM2M1SHOT2(priority) ==
    CASE priority > 2 -> "HIGHEST"
      [] priority < 0 -> "DEFAULT"
      [] OTHER        -> <<"LOW", "MEDIUM", "HIGH">>[priority + 1]

\* A layer without AcrylicTransitM2M1SHOT2_G2D; with one, `live` is TRUE, prio
\* and dev are the prescaler's mPriority and driver priority, buf the length
\* of the intermediate buffer (0: mBufferFD is -1) and prot its protection.
NoTransit ==
    [live |-> FALSE, prio |-> DefaultPriority, dev |-> "DEFAULT",
     buf |-> 0, prot |-> FALSE]

\* the constructor of the prescaler engine and of its transit record
NewTransit == [NoTransit EXCEPT !.live = TRUE]

NewLayer == [fence |-> FALSE, need |-> 0, prot |-> FALSE, transit |-> NoTransit]

NoJob == [sent |-> FALSE, sources |-> 0, nonblock |-> FALSE]

Idle ==
    [op |-> "none", ok |-> TRUE, ret |-> 0, n |-> 0, slots |-> <<>>,
     job |-> NoJob,
     prescaled |-> {}, allocated |-> {}, undone |-> FALSE]

\* ~AcrylicTransitM2M1SHOT2_G2D(): the number of descriptors the destructor
\* closes, mBufferFD if there is one; the nested layer and the prescaler with
\* its device context are deleted with the record
Closes(t) == IF t.buf > 0 THEN 1 ELSE 0

HeldBuffers(ls) == Cardinality({i \in DOMAIN ls : ls[i].transit.buf > 0})


-----------------------------------------------------------------------------
(* Release fences: executeG2D(), the part between prepareSource() and the  *)
(* fence[] array.  Buffer 1 is the target, buffer i + 1 is layer i; a      *)
(* background colour source never takes a fence.                           *)

NoFence   == -1     \* the value execute() stores for "no fence generated"
Untouched == -2     \* a slot of fence[] execute() never wrote

\* prepareImage(): ACQUIRE_FENCE is set for a buffer whose getFence() >= 0.
\* A prescaled layer is read through the prescaler's canvas, which has none.
AcquireFlags(c, ls) ==
    <<c.fence>> \o [i \in DOMAIN ls |-> ls[i].fence /\ ls[i].need = 0]

\* the first pass as it would be if the sources were flagged without counting
\* the slots left
MarkAcquiredUnbounded(acq, n) ==
    FoldLeftDomain(LAMBDA a, j : IF acq[j]
                                 THEN [rel |-> a.rel \cup {j}, idx |-> a.idx + 1]
                                 ELSE a,
                   [rel |-> {}, idx |-> 0], acq)

\* first pass: a release fence for every buffer that came with an acquire
\* fence, the target unconditionally, the sources while slots remain
MarkAcquired(acq, n) ==
    FoldLeftDomain(LAMBDA a, j : IF acq[j] /\ (j = 1 \/ a.idx < n)
                                 THEN [rel |-> a.rel \cup {j}, idx |-> a.idx + 1]
                                 ELSE a,
                   [rel |-> {}, idx |-> 0], acq)

\* the second pass as it would be if it served the sources before the target
ForceReleaseSourcesFirst(a, acq, n) ==
    FoldLeftDomain(LAMBDA b, j : IF j \notin b.rel /\ j # 1 /\ b.idx < n
                                 THEN [rel |-> b.rel \cup {j}, idx |-> b.idx + 1]
                                 ELSE b,
                   a, acq)

\* second pass: slots are left, so buffers without an acquire fence are
\* forced to generate one, the target first
ForceRelease(a, acq, n) ==
    FoldLeftDomain(LAMBDA b, j : IF j \notin b.rel /\ b.idx < n
                                 THEN [rel |-> b.rel \cup {j}, idx |-> b.idx + 1]
                                 ELSE b,
                   a, acq)

\* the buffers that get M2M1SHOT2_IMGFLAG_RELEASE_FENCE
ReleaseFlags(acq, n) ==
    IF n = 0 THEN {} ELSE ForceRelease(MarkAcquired(acq, n), acq, n).rel

\* fence[] as it would be without the loop that stores -1
PaddedSlotsForgotten(rel, n) ==
    [i \in 1..n |-> Untouched]

\* fence[] before the ioctl: the slots past the flagged buffers are set to -1
PaddedSlots(rel, n) ==
    [i \in 1..n |-> IF i > Cardinality(rel) THEN NoFence ELSE Untouched]

\* fence[] after a successful job: the fences of the flagged buffers, target
\* first and then the sources in order, each named by its buffer (0: target)
ReturnedSlots(rel, n, acq) ==
    LET given == SelectSeq([j \in DOMAIN acq |-> j], LAMBDA j : j \in rel)
    IN  [i \in 1..Max({n, Len(given)}) |->
            IF i <= Len(given) THEN given[i] - 1 ELSE PaddedSlots(rel, n)[i]]

-----------------------------------------------------------------------------
(* Priorities *)

\* prioritize() of an engine none of whose layers has a prescaler, which is
\* what a prescaler is: `e` is any record with the fields prio and dev.
SetPriority(e, priority, outcome) ==
    CASE priority = e.prio               -> [ret |-> 0, e |-> e]
      [] priority \notin ValidPriorities -> [ret |-> -1, e |-> e]
      [] outcome = "fail"                -> [ret |-> -1, e |-> e]
      [] outcome = "busy"                ->
            [ret |-> 1,
             e |-> [e EXCEPT !.dev = convertAcrylPriorityToM2M1SHOT2(priority)]]
      [] OTHER                           ->
            [ret |-> 0,
             e |-> [e EXCEPT !.dev = convertAcrylPriorityToM2M1SHOT2(priority),
                             !.prio = priority]]

-----------------------------------------------------------------------------
(* The prescale pipeline: prescaleSource() and prepareSource().  `s` is the *)
(* state one execute() call threads through its layers: the layers, the    *)
(* ION client, the live dmabufs, the layers whose prescale job went to the *)
(* hardware, the layers that got a new buffer, and whether the call is     *)
(* still going.                                                            *)

Abort(s) == [s EXCEPT !.ok = FALSE]

\* the reuse test as it would be if it compared the length only
BufferFitsLenOnly(t, l) == t.buf >= l.need

\* the cached intermediate buffer is kept when it is long enough and has the
\* protection of the layer
BufferFits(t, l) == t.buf >= l.need /\ t.prot = l.prot

\* setBuffer() as it would be without the close() of the buffer it replaces
SetBufferNoClose(s, i, len, prot) ==
    [s EXCEPT !.layers[i].transit.buf = len, !.layers[i].transit.prot = prot]

\* AcrylicTransitM2M1SHOT2_G2D::setBuffer() closes the descriptor it held
SetBuffer(s, i, len, prot) ==
    [s EXCEPT !.layers[i].transit.buf = len,
              !.layers[i].transit.prot = prot,
              !.live = IF s.layers[i].transit.buf > 0 THEN @ - 1 ELSE @]

\* prescaleSource() as it would be if a new prescaler were not prioritized
AttachTransitUnprioritized(s, i, fault) ==
    IF s.layers[i].transit.live
    THEN IF s.layers[i].transit.buf > 0
              /\ ~BufferFits(s.layers[i].transit, s.layers[i])
         THEN SetBuffer(s, i, 0, FALSE)
         ELSE s
    ELSE [s EXCEPT !.layers[i].transit = NewTransit]

\* a layer prescaled for the first time gets a prescaler at the engine's
\* priority; a layer prescaled before gives up a buffer that no longer fits
AttachTransit(s, i, fault) ==
    IF s.layers[i].transit.live
    THEN IF s.layers[i].transit.buf > 0
              /\ ~BufferFits(s.layers[i].transit, s.layers[i])
         THEN SetBuffer(s, i, 0, FALSE)
         ELSE s
    ELSE LET outcome == CASE Hit(fault, "prio", i)     -> "fail"
                          [] Hit(fault, "priobusy", i) -> "busy"
                          [] OTHER                     -> "ok"
             set     == SetPriority(NewTransit, mPriority, outcome)
         IN  [s EXCEPT !.layers[i].transit = set.e, !.ok = set.ret >= 0]

\* preparePrescaleBuffer(): open the ION client on first use, allocate
PreparePrescaleBuffer(s, i, fault) ==
    CASE ~s.ion /\ Hit(fault, "ionopen", i) -> Abort(s)
      [] Hit(fault, "alloc", i)             -> Abort([s EXCEPT !.ion = TRUE])
      [] OTHER ->
            SetBuffer([s EXCEPT !.ion = TRUE, !.live = @ + 1,
                                !.allocated = @ \cup {i}],
                      i, s.layers[i].need, s.layers[i].prot)

\* the prescaler's canvas is set up and its job submitted without blocking
RunPrescaler(s, i, fault) ==
    IF Hit(fault, "canvas", i) \/ Hit(fault, "prescale", i)
    THEN Abort(s)
    ELSE [s EXCEPT !.prescaled = @ \cup {i}]

PrescaleSource(s, i, fault) ==
    LET attached == AttachTransit(s, i, fault)
        buffered == IF attached.ok /\ attached.layers[i].transit.buf = 0
                    THEN PreparePrescaleBuffer(attached, i, fault)
                    ELSE attached
    IN  IF buffered.ok THEN RunPrescaler(buffered, i, fault) ELSE buffered

\* prepareImage() of what the composition job reads for the layer: the
\* layer itself, or the canvas of the prescaler that has just been started
PrepareImage(s, i, fault) ==
    IF s.ok /\ Hit(fault, "planes", i) THEN Abort(s) ELSE s

PrepareSource(s, i, fault) ==
    CASE ~s.ok                -> s
      [] s.layers[i].need > 0 -> PrepareImage(PrescaleSource(s, i, fault), i, fault)
      [] OTHER                -> PrepareImage(s, i, fault)

-----------------------------------------------------------------------------
(* execute() *)

\* the growth of mDesc.sources as it would be if the background colour
\* were not counted as a source
GrowDescriptorBeforeBackground(s, layercount) ==
    [s EXCEPT !.capacity = Max({@, Len(s.layers)})]

\* mDesc.sources only ever grows, to the largest source count seen
GrowDescriptor(s, layercount) ==
    [s EXCEPT !.capacity = Max({@, layercount})]

\* executeG2D() from validateAllLayers() to the last prepareSource()
Prepare(fault) ==
    LET layercount == Len(layers) + IF background THEN 1 ELSE 0
        start == [layers |-> layers, ion |-> mClientION, live |-> ionLive,
                  prescaled |-> {}, allocated |-> {}, ok |-> TRUE,
                  capacity |-> mMaxSourceCount]
    IN  CASE Hit(fault, "validate", 0)
               \/ (background /\ layercount > MaxLayers) -> Abort(start)
          [] Hit(fault, "planes", 0) -> Abort(GrowDescriptor(start, layercount))
          [] OTHER ->
               FoldLeftDomain(LAMBDA s, i : PrepareSource(s, i, fault),
                              GrowDescriptor(start, layercount), layers)

\* executeG2D() from the flags of the descriptor to the fences it returns,
\* for the sources as prepareSource() left them in `s`
Submit(kind, n, fault, s) ==
    LET acq   == AcquireFlags(canvas, layers)
        rel   == ReleaseFlags(acq, n)
        flags == IF s.ok /\ kind # "blocking" THEN {"NONBLOCK"} ELSE descFlags
        sent  == s.ok /\ ~Hit(fault, "submit", 0)
        ok    == sent /\ ~Hit(fault, "hwerror", 0)
    IN  /\ canvas' = [canvas EXCEPT !.fence = FALSE]
        /\ layers' = [i \in DOMAIN layers |-> [s.layers[i] EXCEPT !.fence = FALSE]]
        /\ mMaxSourceCount' = s.capacity
        /\ descFlags' = CASE ok   -> flags \ {"ERROR"}
                          [] sent -> flags \cup {"ERROR"}
                          [] OTHER -> flags
        /\ mClientION' = s.ion
        /\ ionLive' = s.live
        /\ clean' = (clean /\ fault.site # "prio")
        /\ last' = [Idle EXCEPT
                      !.op = kind, !.ok = ok, !.n = n,
                      !.slots = CASE ok    -> ReturnedSlots(rel, n, acq)
                                  [] s.ok  -> PaddedSlots(rel, n)
                                  [] OTHER -> [i \in 1..n |-> Untouched],
                      !.job = IF sent
                              THEN [sent |-> TRUE,
                                    sources |-> Len(layers) + IF background THEN 1 ELSE 0,
                                    nonblock |-> "NONBLOCK" \in flags]
                              ELSE NoJob,
                      !.prescaled = s.prescaled, !.allocated = s.allocated]

\* execute(fence[], n), execute(&handle) and execute(NULL): executeG2D() and
\* the expiry of every acquire fence, which happens whatever the result
Execute(kind, n, fault) ==
    /\ kind \in Kinds
    /\ n \in IF kind = "fences" THEN 0..MaxFences ELSE {0}
    /\ Submit(kind, n, fault, Prepare(fault))
    /\ UNCHANGED <<background, mPriority, devPriority>>

\* waitExecution(): the driver reports the state of the job it waited for
\* in mDesc.flags; when the ioctl fails the descriptor is not written, and
\* with EAGAIN ("again") the flags an earlier call left decide the result
WaitExecution(outcome) ==
    /\ outcome \in {"ok"} \cup ({"submit", "hwerror", "again"} \cap Faults)
    /\ descFlags' = CASE outcome = "ok"      -> descFlags \ {"ERROR"}
                      [] outcome = "hwerror" -> descFlags \cup {"ERROR"}
                      [] OTHER               -> descFlags
    /\ last' = [Idle EXCEPT !.op = "wait",
                            !.ok = outcome # "submit" /\ "ERROR" \notin descFlags']
    /\ UNCHANGED <<canvas, layers, background, mPriority, devPriority,
                   mMaxSourceCount, mClientION, ionLive, clean>>

-----------------------------------------------------------------------------
(* prioritize() *)

\* What the driver answers to the SET_PRIORITY ioctls of one prioritize():
\* `top` to the engine's own, `child` to that of the prescaler of layer `at`
\* (the other prescalers succeed), `undo` to those that restore prescalers
\* and `revert` to the one that restores the engine.
PrioScenarios ==
    {o \in [top : PrioOutcomes, at : 0..MaxLayers, child : PrioOutcomes,
            undo : PrioOutcomes, revert : PrioOutcomes] :
        /\ o.top # "ok" => o.at = 0
        /\ o.at = 0 <=> o.child = "ok"
        /\ o.child # "fail" => o.undo = "ok" /\ o.revert = "ok"}

\* the loop over the layers' prescalers, which stops at the first that fails
Propagate(priority, o) ==
    FoldLeftDomain(
        LAMBDA a, i :
            IF a.ret < 0 \/ ~a.layers[i].transit.live
            THEN a
            ELSE LET set == SetPriority(a.layers[i].transit, priority,
                                        IF i = o.at THEN o.child ELSE "ok")
                 IN  [layers |-> [a.layers EXCEPT ![i].transit = set.e],
                      ret    |-> set.ret,
                      failed |-> IF set.ret < 0 THEN i ELSE 0],
        [layers |-> layers, ret |-> 0, failed |-> 0], layers)

\* the prescalers before the failed one go back to the engine's priority
Restore(a, o) ==
    [i \in DOMAIN a.layers |->
        IF i < a.failed /\ a.layers[i].transit.live
        THEN [a.layers[i] EXCEPT
                 !.transit = SetPriority(@, mPriority, o.undo).e]
        ELSE a.layers[i]]

Prioritize(priority, o) ==
    LET top  == SetPriority([prio |-> mPriority, dev |-> devPriority],
                            priority, o.top)
        fwd  == Propagate(priority, o)
        old  == convertAcrylPriorityToM2M1SHOT2(mPriority)
        done(ret, undone) == last' = [Idle EXCEPT !.op = "prioritize",
                                                  !.ret = ret, !.undone = undone]
    IN  /\ clean' = (clean /\ "fail" \notin {o.top, o.child})
        /\ UNCHANGED <<canvas, background, mMaxSourceCount, descFlags,
                       mClientION, ionLive>>
        /\ \/ \* same priority, rejected, ioctl failed, or EBUSY
              /\ priority = mPriority \/ top.ret # 0
              /\ devPriority' = top.e.dev
              /\ done(top.ret, FALSE)
              /\ UNCHANGED <<mPriority, layers>>
           \/ \* applied to the engine and to every prescaler
              /\ priority # mPriority /\ top.ret = 0 /\ fwd.ret >= 0
              /\ devPriority' = top.e.dev
              /\ layers' = fwd.layers
              /\ mPriority' = priority
              /\ done(0, FALSE)
           \/ \* a prescaler refused: roll back; the revert ioctl failed
              /\ priority # mPriority /\ top.ret = 0 /\ fwd.ret < 0
              /\ o.revert # "ok"
              /\ devPriority' = IF o.revert = "busy" THEN old ELSE top.e.dev
              /\ layers' = Restore(fwd, o)
              /\ done(fwd.ret, TRUE)
              /\ UNCHANGED mPriority
           \/ \* a prescaler refused: roll back; the revert ioctl succeeded
              \* and control leaves the if to the common exit
              /\ priority # mPriority /\ top.ret = 0 /\ fwd.ret < 0
              /\ o.revert = "ok"
              /\ devPriority' = old
              /\ layers' = Restore(fwd, o)
              /\ mPriority' = priority
              /\ done(0, TRUE)

-----------------------------------------------------------------------------
(* The caller's configuration calls, and the engine's life cycle *)

CreateLayer ==
    /\ Len(layers) < MaxLayers
    /\ layers' = Append(layers, NewLayer)
    /\ last' = Idle
    /\ UNCHANGED <<canvas, background, mPriority, devPriority, mMaxSourceCount,
                   descFlags, mClientION, ionLive, clean>>

\* removeTransitData(): deleting the transit closes its buffer and deletes
\* its prescaler
RemoveLayer(i) ==
    /\ i \in DOMAIN layers
    /\ layers' = RemoveAt(layers, i)
    /\ ionLive' = ionLive - Closes(layers[i].transit)
    /\ last' = Idle
    /\ UNCHANGED <<canvas, background, mPriority, devPriority, mMaxSourceCount,
                   descFlags, mClientION, clean>>

ConfigureLayer(i, fence, need, prot) ==
    /\ i \in DOMAIN layers
    /\ layers' = [layers EXCEPT ![i].fence = fence, ![i].need = need,
                                ![i].prot = prot]
    /\ last' = Idle
    /\ UNCHANGED <<canvas, background, mPriority, devPriority, mMaxSourceCount,
                   descFlags, mClientION, ionLive, clean>>

ConfigureCanvas(fence, bg) ==
    /\ canvas' = [canvas EXCEPT !.fence = fence]
    /\ background' = bg
    /\ last' = Idle
    /\ UNCHANGED <<layers, mPriority, devPriority, mMaxSourceCount, descFlags,
                   mClientION, ionLive, clean>>

Init ==
    /\ canvas = [fence |-> FALSE]
    /\ layers = <<>>
    /\ background = FALSE
    /\ mPriority = DefaultPriority
    /\ devPriority = "DEFAULT"
    /\ mMaxSourceCount = 0
    /\ descFlags = {}
    /\ mClientION = FALSE
    /\ ionLive = 0
    /\ clean = TRUE
    /\ last = Idle

\* the destructor, which removes every layer and closes the ION client, and
\* the constructor of the next engine
Recreate ==
    /\ canvas' = [fence |-> FALSE]
    /\ layers' = <<>>
    /\ background' = FALSE
    /\ mPriority' = DefaultPriority
    /\ devPriority' = "DEFAULT"
    /\ mMaxSourceCount' = 0
    /\ descFlags' = {}
    /\ mClientION' = FALSE
    /\ ionLive' = ionLive - HeldBuffers(layers)
    /\ clean' = TRUE
    /\ last' = Idle

Next ==
    \/ CreateLayer
    \/ \E i \in 1..MaxLayers : RemoveLayer(i)
    \/ \E i \in 1..MaxLayers, f \in AcquireFences, n \in Needs, p \in Protections :
          ConfigureLayer(i, f, n, p)
    \/ \E f \in AcquireFences, b \in Backgrounds : ConfigureCanvas(f, b)
    \/ \E k \in Kinds, n \in 0..MaxFences, f \in ExecFaults : Execute(k, n, f)
    \/ \E o \in {"ok", "submit", "hwerror", "again"} : WaitExecution(o)
    \/ \E p \in Priorities, o \in PrioScenarios : Prioritize(p, o)
    \/ Recreate

Spec == Init /\ [][Next]_vars

-----------------------------------------------------------------------------
(* Properties *)

Layer ==
    [fence : AcquireFences, need : Needs, prot : Protections,
     transit : [live : BOOLEAN, prio : ValidPriorities \cup {DefaultPriority},
                dev : DevPriorities, buf : Needs, prot : Protections]]

TypeOK ==
    /\ canvas \in [fence : AcquireFences]
    /\ layers \in Seq(Layer) /\ Len(layers) <= MaxLayers
    /\ background \in Backgrounds
    /\ mPriority \in ValidPriorities \cup {DefaultPriority}
    /\ devPriority \in DevPriorities
    /\ mMaxSourceCount \in 0..MaxLayers
    /\ descFlags \subseteq {"NONBLOCK", "ERROR"}
    /\ mClientION \in BOOLEAN
    /\ ionLive \in 0..MaxLayers
    /\ clean \in BOOLEAN
    /\ last \in [op : {"none", "wait", "prioritize"} \cup Kinds,
                 ok : BOOLEAN, ret : {-1, 0, 1}, n : 0..MaxFences,
                 slots : Seq({Untouched, NoFence} \cup 0..MaxLayers),
                 job : [sent : BOOLEAN, sources : 0..MaxLayers,
                        nonblock : BOOLEAN],
                 prescaled : SUBSET (1..MaxLayers),
                 allocated : SUBSET (1..MaxLayers), undone : BOOLEAN]
    /\ Len(last.slots) = last.n

\* The release fences a caller of execute(fence[], n) is entitled to, stated
\* without the two passes: order the buffers so that those with an acquire
\* fence come first, the target leading each group; the first n of them
\* generate a fence; fence[] lists these in buffer order and ends in -1.
RequestedFences(acq, n) ==
    LET bufs   == [j \in DOMAIN acq |-> j]
        order  == SelectSeq(bufs, LAMBDA j : acq[j])
                    \o SelectSeq(bufs, LAMBDA j : ~acq[j])
        served == ToSet(SubSeq(order, 1, Min({n, Len(order)})))
        given  == SelectSeq(bufs, LAMBDA j : j \in served)
    IN  [i \in 1..n |-> IF i <= Len(given) THEN given[i] - 1 ELSE NoFence]

\* A successful execute(fence[], n) writes exactly the n slots it was given,
\* never more, and they hold the release fences of the buffers the fence
\* rules of executeG2D() select from the configuration the call found:
\* every acquire fence is answered before any buffer is forced, the target
\* is forced before the sources, and unserved slots read -1.
ReleaseFencesAsRequested ==
    [][last'.op = "fences" /\ last'.ok
          => last'.slots = RequestedFences(AcquireFlags(canvas, layers), last'.n)]_vars

\* Whenever executeG2D() hands a job to M2M1SHOT2_IOC_PROCESS, the array
\* mDesc.sources it grew in some earlier or in this call holds every source
\* of the job, the background colour source included.
DescriptorHoldsJob ==
    last.job.sent => last.job.sources <= mMaxSourceCount

\* The intermediate buffer a prescale job of execute() wrote to is as long
\* as the frame needs and protected exactly when the layer is, however the
\* buffer cached by prescaleSource() was sized and protected by the frames
\* before.
TransitBufferSuitsFrame ==
    \A i \in last.prescaled :
        /\ layers[i].transit.buf >= layers[i].need
        /\ layers[i].transit.prot = layers[i].prot

\* Every dmabuf preparePrescaleBuffer() allocated is either held by exactly
\* one layer's transit or was closed: replacing a buffer, removing a layer,
\* failing half-way through execute() and destroying the engine leak none.
NoTransitBufferLeak ==
    ionLive = HeldBuffers(layers)

\* As long as the driver refused no SET_PRIORITY (it answered success, or
\* EBUSY, which the header of prioritize() calls "configured successfully"),
\* the engine, its driver context and the prescaler of every layer run at
\* one priority, the one prioritize() recorded: prescalers created by a
\* later execute() join at it, and the job that reads an intermediate image
\* cannot overtake the job that writes it.
PriorityAgreement ==
    clean =>
        /\ devPriority = convertAcrylPriorityToM2M1SHOT2(mPriority)
        /\ \A i \in DOMAIN layers :
              layers[i].transit.live =>
                  /\ layers[i].transit.prio = mPriority
                  /\ layers[i].transit.dev = devPriority

\* (specification, section 8) When prioritize() had to roll back because a
\* prescaler refused the priority, the call returns failure.
RollbackReportsFailure ==
    last.op = "prioritize" /\ last.undone => last.ret < 0

\* (specification, section 4.1) execute(NULL) blocks until the job is
\* complete: the job it submits does not carry M2M1SHOT2_FLAG_NONBLOCK.
BlockingExecuteBlocks ==
    last.op = "blocking" /\ last.job.sent => ~last.job.nonblock

\* (specification, section 4.2) A failure at any step of the prescale
\* pipeline aborts execute() with no hardware submission: when the
\* composition job was not submitted, no prescale job was either.
NoPartialSubmission ==
    last.op \in Kinds /\ ~last.job.sent => last.prescaled = {}
-----------------------------------------------------------------------------
(* The engine as an implementation of the fence contract *)

\* the acquire fences the engine holds: getFence() >= 0 of canvas and layers
HeldFences ==
    Cardinality({i \in DOMAIN layers : layers[i].fence})
        + IF canvas.fence THEN 1 ELSE 0

\* fence[] as the caller sees it: a release fence, -1, or what was there
CallerView(slots) ==
    [i \in DOMAIN slots |-> IF slots[i] >= 0 THEN 0 ELSE slots[i]]

Contract ==
    INSTANCE AcrylicContract WITH
        MaxBuffers <- MaxLayers + 1,
        held <- HeldFences,
        answer <- IF last.op \in Kinds
                  THEN [call |-> "execute", ok |-> last.ok, n |-> last.n,
                        slots |-> CallerView(last.slots)]
                  ELSE [call |-> "other", ok |-> TRUE, n |-> 0, slots |-> <<>>]

\* Every call of the G2D engine is a step of the fence contract: execute()
\* and its two wrappers consume every acquire fence when they succeed and
\* leave none half-owned when executeG2D() fails at any of its steps, a
\* successful execute(fence[], n) writes all n slots, and a failed one
\* leaves no release fence in fence[].
ImplementsContract == Contract!Spec
=============================================================================
