----------------------------- MODULE AcrylicQoS -----------------------------
(***************************************************************************)
(* The performance request of the G2D engine                               *)
(* (AcrylicCompositorM2M1SHOT2_G2D::requestPerformanceQoS,                 *)
(* acrylic_g2d.cpp): the caller announces the frames it is about to        *)
(* compose, the engine turns each into the memory bandwidth it will read   *)
(* and write and passes the figures to the driver, which keeps them until  *)
(* the next request.  A request without frames cancels the standing one.   *)
(*                                                                         *)
(* A request is a sequence of frames; a frame is                           *)
(*   [layers, rate, target, fmt, background]                               *)
(* and a layer [src, dst, fmt, rot], src and dst the sizes <<hori, vert>>  *)
(* of its source and target rectangles.  The sums are taken in the         *)
(* integers: the instances are bounded so that none reaches 2^31.          *)
(***************************************************************************)
EXTENDS Integers, Sequences, Functions, FiniteSetsExt

CONSTANTS
    Requests,       \* the requests the caller makes
    PerfMaxFrames   \* M2M1SHOT2_PERF_MAX_FRAMES: the length of data.frame[]

ASSUME PerfMaxFrames \in Nat

VARIABLES
    perf            \* [request, data: the driver's standing request;
                    \*  ok: what the most recent call returned]

\* halfmt_bpp(): bits per pixel of a format
halfmt_bpp(fmt) ==
    CASE fmt \in {"YUV420", "YUV420_3P"} -> 12
      [] fmt \in {"YUV422", "RGB565"}    -> 16
      [] fmt \in {"YUV420_10B", "P010"}  -> 24
      [] OTHER                           -> 32

pixels(size) == size[1] * size[2]

\* pixelcount of a layer: of its source and its target the larger
pixelcount(layer) == Max({pixels(layer.src), pixels(layer.dst)})

\* zero when "no scaling is involved": the differences of the sides, those
\* of a rotated layer crosswise, added up
weight(layer) ==
    IF layer.rot
    THEN (layer.src[1] - layer.dst[2]) + (layer.src[2] - layer.dst[1])
    ELSE (layer.src[1] - layer.dst[1]) + (layer.src[2] - layer.dst[2])

\* sixteen times the bits of the layer, and an eighth more when it scales
layer_bw(layer) ==
    pixelcount(layer) * halfmt_bpp(layer.fmt)
        * IF weight(layer) = 0 THEN 16 ELSE 18

\* the bandwidth of a frame as it would be with = in place of +=
ReadBandwidthOfLast(frame) ==
    LET n == Len(frame.layers)
    IN  ((IF n = 0 THEN 0 ELSE layer_bw(frame.layers[n])) * frame.rate)
            \div 2^17

\* bandwidth_read of a frame, in kilobytes per second
ReadBandwidth(frame) ==
    (SumFunction([idx \in DOMAIN frame.layers |-> layer_bw(frame.layers[idx])])
        * frame.rate) \div 2^17

\* bandwidth_write: twice the figure for a 4:2:0 target of rotated 4:2:0
WriteBandwidth(frame) ==
    LET bpp        == halfmt_bpp(frame.fmt)
        src_yuv420 == \E idx \in DOMAIN frame.layers :
                         halfmt_bpp(frame.layers[idx].fmt) = 12
        src_rotate == \E idx \in DOMAIN frame.layers : frame.layers[idx].rot
    IN  (pixels(frame.target) * (frame.rate * bpp))
            \div (IF bpp = 12 /\ src_yuv420 /\ src_rotate THEN 2^12 ELSE 2^13)

\* data.frame[i]
FrameData(frame) ==
    [layer |-> [idx \in DOMAIN frame.layers |->
                  [pixelcount |-> pixelcount(frame.layers[idx]),
                   rotate |-> frame.layers[idx].rot]],
     bandwidth_read |-> ReadBandwidth(frame),
     bandwidth_write |-> WriteBandwidth(frame),
     solidcolorfill |-> frame.background,
     num_layers |-> Len(frame.layers),
     target_pixelcount |-> pixels(frame.target),
     frame_rate |-> frame.rate]

NoRequest == [request |-> <<>>, data |-> <<>>, ok |-> TRUE]

-----------------------------------------------------------------------------

\* requestPerformanceQoS(request): M2M1SHOT2_IOC_REQUEST_PERF replaces the
\* standing request if the driver accepts it.  The loop writes data.frame[i]
\* for every frame of the request without asking for the length of the array:
\* PerfMaxFrames bounds the requests taken here.
RequestPerformanceQoS(request, accepted) ==
    /\ Len(request) <= PerfMaxFrames
    /\ perf' = IF accepted
               THEN [request |-> request, ok |-> TRUE,
                     data |-> [i \in DOMAIN request |-> FrameData(request[i])]]
               ELSE [perf EXCEPT !.ok = FALSE]

Init == perf = NoRequest

\* the device is closed: the driver drops the request of the context
Delete == perf' = NoRequest

Next ==
    \E request \in Requests, accepted \in BOOLEAN :
        RequestPerformanceQoS(request, accepted)

-----------------------------------------------------------------------------

\* The bandwidth the driver has been told to reserve for reading covers
\* what the layers of the frame amount to: every layer of the frame counts,
\* with its source or its target, whichever has more pixels, at the bits
\* per pixel of its format and the rate of the frame, and a failed request
\* leaves the figures of the request before it in force.
EstimateCoversTraffic ==
    \A i \in DOMAIN perf.data :
        LET frame == perf.request[i]
            bits  == SumFunction([idx \in DOMAIN frame.layers |->
                        Max({pixels(frame.layers[idx].src),
                             pixels(frame.layers[idx].dst)})
                           * halfmt_bpp(frame.layers[idx].fmt)])
        IN  /\ (perf.data[i].bandwidth_read + 1) * 2^13 > bits * frame.rate
            /\ perf.data[i].num_layers = Len(frame.layers)
=============================================================================
