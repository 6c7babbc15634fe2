-------------------------- MODULE MCAcrylicLibrary --------------------------
(***************************************************************************)
(* The instance of AcrylicLibrary that TLC checks.                         *)
(***************************************************************************)
EXTENDS AcrylicLibrary, Sequences

\* every name createInstance() knows, the names of the defaults, and one it
\* does not know
AllNames ==
    DOMAIN Variants
        \cup {"default_compositor", "default_scaler", "default_blter", "fimg2d"}

\* sides on both sides of the factor 2 the filter of the G2D reaches down
\* to: 5 -> 1 and 100 -> 5 need the intermediate image, 5 -> 5 does not, and
\* an odd side makes the rounding of div_align() show
SomeImageSizes == {5, 100}

SomeTargetSizes == {1, 5}

Plain == [src |-> <<64, 64>>, dst |-> <<64, 64>>, fmt |-> "RGB", rot |-> FALSE]

Scaled == [src |-> <<32, 64>>, dst |-> <<64, 32>>, fmt |-> "YUV420", rot |-> TRUE]

Shrunk == [src |-> <<64, 64>>, dst |-> <<16, 8>>, fmt |-> "YUV422", rot |-> FALSE]

Frame(layers, fmt, background) ==
    [layers |-> layers, rate |-> 60, target |-> <<64, 64>>, fmt |-> fmt,
     background |-> background]

\* a cancellation, one frame, two frames of two layers, and a frame with
\* only a background
SomeRequests ==
    {<<>>,
     <<Frame(<<Plain>>, "RGB", FALSE)>>,
     <<Frame(<<Scaled, Plain>>, "YUV420", FALSE),
       Frame(<<Plain, Shrunk>>, "RGB", TRUE)>>,
     <<Frame(<<>>, "RGB", TRUE)>>}
=============================================================================
