--------------------------- MODULE AcrylicFactory ---------------------------
(***************************************************************************)
(* The capability tables of libacryl and the factory that pairs a hardware *)
(* name with a backend class and one of them (acrylic_factory.cpp).        *)
(*                                                                         *)
(* A pixel format is abstracted to its family, which is what the tables    *)
(* differ in ("RGB" is every 8-bit RGB format; that the scaler tables lack *)
(* the 24-bit one of the G2D tables is not told apart); the per-axis       *)
(* limits are kept as the pairs <<hori, vert>> of the source.  The names   *)
(* of the default engines are fixed when the library is built              *)
(* (LIBACRYL_DEFAULT_COMPOSITOR, _SCALER, _BLTER) and are constants here.  *)
(***************************************************************************)
EXTENDS Integers

CONSTANTS
    DefaultCompositor,  \* LIBACRYL_DEFAULT_COMPOSITOR
    DefaultScaler,      \* LIBACRYL_DEFAULT_SCALER
    DefaultBlter        \* LIBACRYL_DEFAULT_BLTER

VARIABLES
    engine              \* the Acrylic* the caller got from the factory

-----------------------------------------------------------------------------
(* Pixel formats and dataspaces *)

rgb_formats == {"RGB"}

all_fimg2d_formats == rgb_formats \cup {"YUV420", "YUV420_10B", "YUV422"}

all_fimg2d_hdr_formats == all_fimg2d_formats \cup {"RGB_10B", "P010"}

all_fimg2d_sbwc_formats == all_fimg2d_hdr_formats \cup {"SBWC"}

all_fimg2d_sbwc_lossy_formats == all_fimg2d_sbwc_formats \cup {"SBWC_LOSSY"}

all_mscl_formats ==
    {"RGB", "YUV420_3P", "YUV420", "YUV420_10B", "P010", "YUV422"}

all_mscl_sbwc_formats == all_mscl_formats \cup {"RGB_10B", "SBWC"}

all_mscl_sbwc_lossy_formats == all_mscl_sbwc_formats \cup {"SBWC_LOSSY"}

\* every standard with no, the full and the limited range, the bare ranges
\* and the legacy names
all_hwc_dataspaces ==
    ({"BT709", "BT2020", "BT601_625", "BT601_525", "BT601_625_UNADJUSTED",
      "BT601_525_UNADJUSTED", "DCI_P3", "FILM", "UNSPECIFIED"}
         \X {"UNSPECIFIED", "FULL", "LIMITED"})
        \cup {<<"LEGACY", n>> : n \in {"SRGB", "JFIF", "BT601_525",
                                      "BT601_625", "BT709"}}

srgb_dataspaces ==
    {<<"UNSPECIFIED", "FULL">>, <<"BT709", "FULL">>, <<"LEGACY", "SRGB">>}

-----------------------------------------------------------------------------
(* stHW2DCapability, one table for each hardware *)

Blends == {"NONE", "SRC_COPY", "SRC_OVER"}

Afbc == {"AFBC_ENCODE", "AFBC_DECODE"}

capability_fimg2d_8895 ==
    [max_upsampling_num |-> <<32767, 32767>>,
     max_downsampling_factor |-> <<2, 2>>,
     max_upsizing_num |-> <<32767, 32767>>,
     max_downsizing_factor |-> <<32767, 32767>>,
     min_src_dimension |-> <<1, 1>>, max_src_dimension |-> <<8192, 8192>>,
     min_dst_dimension |-> <<1, 1>>, max_dst_dimension |-> <<8192, 8192>>,
     min_pix_align |-> <<1, 1>>, rescaling_count |-> 1,
     compositing_mode |-> Blends, transform_type |-> "ALL",
     auxiliary_feature |-> {"PLANE_ALPHA", "UORDER_WRITE"} \cup Afbc,
     max_layers |-> 8, pixformats |-> all_fimg2d_formats,
     dataspaces |-> all_hwc_dataspaces, base_align |-> 1]

capability_fimg2d_9610 ==
    [capability_fimg2d_8895 EXCEPT
        !.max_downsampling_factor = <<31767, 32767>>,
        !.rescaling_count = 0,
        !.auxiliary_feature = @ \cup {"OTF_WRITE"},
        !.pixformats = all_fimg2d_hdr_formats]

capability_fimg2d_9810 ==
    [capability_fimg2d_9610 EXCEPT !.max_layers = 16]

capability_fimg2d_9810_blter ==
    [capability_fimg2d_9610 EXCEPT
        !.auxiliary_feature = {"PLANE_ALPHA", "UORDER_WRITE"},
        !.max_layers = 2, !.pixformats = rgb_formats,
        !.dataspaces = srgb_dataspaces]

capability_fimg2d_L16FSBWC ==
    [capability_fimg2d_9810 EXCEPT
        !.auxiliary_feature = @ \cup {"SOLIDCOLOR"},
        !.pixformats = all_fimg2d_sbwc_formats]

capability_fimg2d_L8FSBWCL ==
    [capability_fimg2d_L16FSBWC EXCEPT
        !.max_layers = 8, !.pixformats = all_fimg2d_sbwc_lossy_formats]

capability_fimg2d_8890 ==
    [capability_fimg2d_8895 EXCEPT
        !.min_src_dimension = <<4, 4>>, !.min_dst_dimension = <<4, 4>>,
        !.auxiliary_feature = {"PLANE_ALPHA", "AFBC_DECODE"},
        !.max_layers = 3, !.pixformats = rgb_formats,
        !.dataspaces = srgb_dataspaces]

capability_mscl_9810 ==
    [max_upsampling_num |-> <<64, 64>>,
     max_downsampling_factor |-> <<16, 16>>,
     max_upsizing_num |-> <<64, 64>>,
     max_downsizing_factor |-> <<16, 16>>,
     min_src_dimension |-> <<16, 16>>, max_src_dimension |-> <<8192, 8192>>,
     min_dst_dimension |-> <<4, 4>>, max_dst_dimension |-> <<8192, 8192>>,
     min_pix_align |-> <<1, 1>>, rescaling_count |-> 0,
     compositing_mode |-> Blends, transform_type |-> "ALL",
     auxiliary_feature |-> {},
     max_layers |-> 1, pixformats |-> all_mscl_formats,
     dataspaces |-> all_hwc_dataspaces, base_align |-> 4]

capability_mscl_sbwc ==
    [capability_mscl_9810 EXCEPT !.pixformats = all_mscl_sbwc_formats]

capability_mscl_sbwcl ==
    [capability_mscl_9810 EXCEPT !.pixformats = all_mscl_sbwc_lossy_formats]

-----------------------------------------------------------------------------
(* The factory *)

NoCapability == [max_layers |-> 0]

\* the null pointer
NULL == [class |-> "NULL", capability |-> NoCapability, newcolormode |-> FALSE]

\* new <class>(capability) and new AcrylicCompositorG2D9810(capability, mode)
New(class, capability, newcolormode) ==
    [class |-> class, capability |-> capability, newcolormode |-> newcolormode]

\* the chain of strcmp() in createInstance(): the class and the table of
\* each hardware name
Variants ==
    [fimg2d_8890       |-> New("M2M1SHOT2_G2D", capability_fimg2d_8890, FALSE),
     fimg2d_8895       |-> New("M2M1SHOT2_G2D", capability_fimg2d_8895, FALSE),
     fimg2d_9610       |-> New("G2D9810", capability_fimg2d_9610, FALSE),
     fimg2d_9810       |-> New("G2D9810", capability_fimg2d_9810, FALSE),
     fimg2d_9810_blter |-> New("G2D9810", capability_fimg2d_9810_blter, FALSE),
     fimg2d_9820       |-> New("G2D9810", capability_fimg2d_9810, TRUE),
     fimg2d_L8FSBWCL   |-> New("G2D9810", capability_fimg2d_L8FSBWCL, TRUE),
     fimg2d_L16FSBWC   |-> New("G2D9810", capability_fimg2d_L16FSBWC, TRUE),
     mscl_9810         |-> New("MSCL9810", capability_mscl_9810, FALSE),
     mscl_sbwc         |-> New("MSCL9810", capability_mscl_sbwc, FALSE),
     mscl_sbwcl        |-> New("MSCL9810", capability_mscl_sbwcl, FALSE)]

\* createInstance() as it would be with the table of the branch above
\* left in the first scaler branch
createInstancePasted(spec) ==
    CASE spec = "mscl_9810" ->
            New("MSCL9810", capability_fimg2d_L16FSBWC, FALSE)
      [] spec \in DOMAIN Variants -> Variants[spec]
      [] OTHER -> NULL

\* Acrylic::createInstance(spec): an unknown name yields the null pointer
createInstance(spec) ==
    IF spec \in DOMAIN Variants THEN Variants[spec] ELSE NULL

\* Acrylic::createCompositor(), createScaler() and createBlter()
createDefault(role) ==
    CASE role = "compositor" -> createInstance(DefaultCompositor)
      [] role = "scaler"     -> createInstance(DefaultScaler)
      [] role = "blter"      -> createInstance(DefaultBlter)

\* AcrylicFactory::createAcrylic(spec)
createAcrylic(spec) ==
    CASE spec = "default_compositor" -> createInstance(DefaultCompositor)
      [] spec = "default_scaler"     -> createInstance(DefaultScaler)
      [] spec = "default_blter"      -> createInstance(DefaultBlter)
      [] OTHER                       -> createInstance(spec)

-----------------------------------------------------------------------------
(* Actions: the caller holds at most one engine *)

CreateAcrylic(spec) ==
    /\ engine = NULL
    /\ engine' = createAcrylic(spec)

CreateDefault(role) ==
    /\ engine = NULL
    /\ engine' = createDefault(role)
=============================================================================
