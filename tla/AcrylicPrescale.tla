--------------------------- MODULE AcrylicPrescale ---------------------------
(***************************************************************************)
(* The geometry of the two-stage scaling of the G2D engine                 *)
(* (AcrylicCompositorM2M1SHOT2_G2D::prescaleSource, acrylic_g2d.cpp): when *)
(* the hardware cannot resample a layer onto its target rectangle in one   *)
(* pass, a nested engine first scales it into an intermediate image whose  *)
(* size and format are computed here.  Module AcrylicG2D has the control   *)
(* of the pipeline (buffers, priorities, failures) and takes the need for  *)
(* a prescale as given.                                                    *)
(*                                                                         *)
(* A size is a pair <<hori, vert>>.  A layer is what the computation       *)
(* reads: the size of its image rectangle, its pixel format, whether its   *)
(* transform rotates by 90 degrees, and the attribute ATTR_NORESAMPLING.   *)
(***************************************************************************)
EXTENDS Integers

CONSTANTS
    ImageSizes,   \* lengths of the sides of the image rectangle of a layer
    TargetSizes   \* lengths of the sides of its target rectangle

ASSUME ImageSizes \subseteq Nat \ {0} /\ TargetSizes \subseteq Nat \ {0}

VARIABLES
    stage         \* the prescale job of the layer: the request and the
                  \* intermediate image configured for it

swap(size) == <<size[2], size[1]>>

NoStage == [made |-> FALSE]

-----------------------------------------------------------------------------
(* What the engine asks of the capability and of the format tables *)

\* halfmt_chroma_subsampling(): the horizontal factor in the high nibble,
\* the vertical one in the low nibble
halfmt_chroma_subsampling(fmt) ==
    CASE fmt \in {"YUV420", "YUV420_3P", "YUV420_10B", "P010", "SBWC",
                  "SBWC_LOSSY"} -> 2 * 16 + 2
      [] fmt = "YUV422"                            -> 2 * 16 + 1
      [] OTHER                                     -> 1 * 16 + 1

supportedMaxMagnification(cap) == cap.max_upsampling_num

supportedMinMinification(cap) == cap.max_downsampling_factor

\* HW2DCapability::supportedHWResampling(): the filter of the hardware
\* reaches from `from` to `to`, the sides of `to` taken in the orientation
\* of the source
supportedHWResampling(cap, from, to, rotated) ==
    LET aim == IF rotated THEN swap(to) ELSE to
    IN  \A axis \in 1..2 :
           /\ from[axis] * supportedMaxMagnification(cap)[axis] >= aim[axis]
           /\ aim[axis] * supportedMinMinification(cap)[axis] >= from[axis]

\* validateAllLayers() has accepted the layer: the sides of its image and
\* of its target are within the dimensions of the table
Validated(cap, layer, target_size) ==
    \A axis \in 1..2 :
       /\ layer.image[axis] \in
             cap.min_src_dimension[axis]..cap.max_src_dimension[axis]
       /\ target_size[axis] \in
             cap.min_dst_dimension[axis]..cap.max_dst_dimension[axis]

-----------------------------------------------------------------------------
(* prescaleSource() *)

\* div_align() as it would be with a division that rounds down
div_align_down(opr, div, align) ==
    (((opr \div div) + align - 1) \div align) * align

\* div_align(): opr / div rounded up, and that rounded up to a multiple of
\* align, a power of two
div_align(opr, div, align) ==
    ((((opr + div - 1) \div div) + align - 1) \div align) * align

\* the format of the intermediate image: of the layer and the canvas the
\* one whose subsampling code is smaller, the layer's when they agree
TransitFormat(layer, canvasFormat) ==
    IF halfmt_chroma_subsampling(layer.fmt)
          > halfmt_chroma_subsampling(canvasFormat)
    THEN canvasFormat ELSE layer.fmt

\* one side of the intermediate image: as far as the hardware magnifies,
\* as far as it minifies, or the side of the target when it reaches that
Side(image, target, max, min, factor) ==
    CASE image * max < target -> [length |-> image * max, upscaling |-> TRUE]
      [] image > target * min ->
            [length |-> div_align(image, min, factor), upscaling |-> FALSE]
      [] OTHER -> [length |-> target, upscaling |-> FALSE]

\* the intermediate image of a layer that is to fill target_size
prescaleSource(cap, layer, canvasFormat, target_size) ==
    LET fmt    == TransitFormat(layer, canvasFormat)
        packed == halfmt_chroma_subsampling(fmt)
        factor == <<(packed \div 16) % 16, packed % 16>>
        target == IF layer.rot THEN swap(target_size) ELSE target_size
        side   == [axis \in 1..2 |->
                     Side(layer.image[axis], target[axis],
                          supportedMaxMagnification(cap)[axis],
                          supportedMinMinification(cap)[axis], factor[axis])]
        up     == \E axis \in 1..2 : side[axis].upscaling
        size   == <<side[1].length, side[2].length>>
    IN  [fmt |-> fmt, upscaling |-> up,
         size |-> IF up /\ layer.rot THEN swap(size) ELSE size]

-----------------------------------------------------------------------------

Layers(formats) ==
    [image : ImageSizes \X ImageSizes, fmt : formats, rot : BOOLEAN,
     noresampling : BOOLEAN]

\* prepareSource() of a layer the hardware cannot resample in one pass: the
\* nested engine gets the intermediate image as its canvas and the layer,
\* with its transform when it magnifies, as its source
PrescaleSource(cap, layer, canvasFormat, target_size) ==
    /\ Validated(cap, layer, target_size)
    /\ ~layer.noresampling
    /\ ~supportedHWResampling(cap, layer.image, target_size, layer.rot)
    /\ stage' = [made |-> TRUE, layer |-> layer, target |-> target_size,
                 transit |-> prescaleSource(cap, layer, canvasFormat,
                                            target_size)]

\* the layer is removed and its transit with it
RemoveTransit ==
    /\ stage.made
    /\ stage' = NoStage

Init == stage = NoStage

Next(cap) ==
    \/ \E layer \in Layers(cap.pixformats), canvasFormat \in cap.pixformats,
          target_size \in TargetSizes \X TargetSizes :
          PrescaleSource(cap, layer, canvasFormat, target_size)
    \/ RemoveTransit

-----------------------------------------------------------------------------

\* The prescale job is one the hardware does in one pass, so that the
\* nested engine never has to prescale in turn: the intermediate image is
\* within the reach of the filter from the image of the layer, in the
\* orientation the nested engine works in.  And each side that was cut
\* down to what the filter reaches is a multiple of the chroma subsampling
\* of the intermediate format, while no side has become longer than the
\* image on the way to a shorter target; and the nested engine, which
\* validates the intermediate image as its canvas, finds it within the
\* dimensions of the table.
PrescaleInOnePass(cap) ==
    stage.made =>
        LET t       == stage.transit
            image   == stage.layer.image
            turned  == t.upscaling /\ stage.layer.rot
            packed  == halfmt_chroma_subsampling(t.fmt)
            factor  == <<(packed \div 16) % 16, packed % 16>>
            target  == IF stage.layer.rot THEN swap(stage.target)
                                          ELSE stage.target
            upright == IF turned THEN swap(t.size) ELSE t.size
        IN  /\ supportedHWResampling(cap, image, t.size, turned)
            /\ \A axis \in 1..2 :
                  t.size[axis] \in
                     cap.min_dst_dimension[axis]..cap.max_dst_dimension[axis]
            /\ \A axis \in 1..2 :
                  image[axis] > target[axis]
                                   * supportedMinMinification(cap)[axis]
                     => /\ upright[axis] % factor[axis] = 0
                        /\ upright[axis] >= target[axis]
                        /\ upright[axis] <= image[axis] + factor[axis] - 1
=============================================================================
