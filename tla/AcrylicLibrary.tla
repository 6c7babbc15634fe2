--------------------------- MODULE AcrylicLibrary ---------------------------
(***************************************************************************)
(* libacryl as its caller sees it: the factory hands out an engine of one  *)
(* of the backend classes with the capability table of the hardware asked  *)
(* for, and the caller then uses what that class offers until it deletes   *)
(* the engine.  The module composes the factory with the parts of the      *)
(* backends that depend on the class and the table:                        *)
(*                                                                         *)
(*   M2M1SHOT2_G2D  the prescale geometry (AcrylicPrescale), computed from *)
(*                  the table of the engine, and the performance request   *)
(*                  (AcrylicQoS);                                          *)
(*   G2D9810        the HDR command writer (G2DHdrWriter);                 *)
(*   Dummy          the compositor without hardware (AcrylicDummy), which  *)
(*                  the caller constructs itself;                          *)
(*   MSCL9810       nothing here: the engine is module AcrylicMSCL.        *)
(*                                                                         *)
(* The fence protocol of the G2D engine is module AcrylicG2D.              *)
(***************************************************************************)
EXTENDS AcrylicFactory

CONSTANTS
    Names,          \* the names the caller asks the factory for
    ImageSizes, TargetSizes, Requests, PerfMaxFrames, DummyLayers, MaxFences

VARIABLES stage, perf, hdr, images, result

vars == <<engine, stage, perf, hdr, images, result>>

Prescale == INSTANCE AcrylicPrescale
QoS      == INSTANCE AcrylicQoS
Hdr      == INSTANCE G2DHdrWriter
Dummy    == INSTANCE AcrylicDummy

\* new AcrylicCompositorDummy(capability): the caller brings a table of its
\* own, those of the factory are static to acrylic_factory.cpp
NewDummy == New("Dummy", [max_layers |-> DummyLayers], FALSE)

-----------------------------------------------------------------------------

\* the members the constructor of the class of engine' sets up
Constructed ==
    /\ IF engine'.class = "G2D9810"
       THEN \E loaded \in BOOLEAN : Hdr!Create(loaded)
       ELSE UNCHANGED hdr
    /\ UNCHANGED <<stage, perf, images, result>>

Create ==
    /\ \/ \E spec \in Names : CreateAcrylic(spec)
       \/ \E role \in {"compositor", "scaler", "blter"} : CreateDefault(role)
       \/ engine = NULL /\ engine' = NewDummy
    /\ Constructed

\* a call of the engine the caller holds
Use ==
    \/ /\ engine.class = "M2M1SHOT2_G2D"
       /\ \/ Prescale!Next(engine.capability) /\ UNCHANGED perf
          \/ QoS!Next /\ UNCHANGED stage
       /\ UNCHANGED <<engine, hdr, images, result>>
    \/ /\ engine.class = "G2D9810"
       /\ \/ \E got \in BOOLEAN : Hdr!GetCommands(got)
          \/ Hdr!PutCommands
       /\ UNCHANGED <<engine, stage, perf, images, result>>
    \/ /\ engine.class = "Dummy"
       /\ Dummy!Next
       /\ UNCHANGED <<engine, stage, perf, hdr>>

\* delete engine: the destructors of its members
Delete ==
    /\ engine # NULL
    /\ engine' = NULL
    /\ Hdr!Destroy
    /\ stage' = Prescale!NoStage
    /\ QoS!Delete
    /\ Dummy!Delete

Init ==
    /\ engine = NULL
    /\ Prescale!Init /\ QoS!Init /\ Hdr!Init /\ Dummy!Init

Next == Create \/ Use \/ Delete

Spec == Init /\ [][Next]_vars

-----------------------------------------------------------------------------

Engines ==
    {createInstance(spec) : spec \in DOMAIN Variants} \cup {NULL, NewDummy}

TypeOK ==
    /\ engine \in Engines
    /\ hdr \in [mWriter : BOOLEAN, mCmds : BOOLEAN, lent : 0..1]
    /\ stage.made \in BOOLEAN
    /\ perf.ok \in BOOLEAN /\ DOMAIN perf.data = DOMAIN perf.request
    /\ DOMAIN images = 0..DummyLayers
    /\ result.n \in 0..MaxFences

\* The table an engine is created with is one its class can serve: the
\* scaler class takes a single layer and has no second scaling stage, the
\* G2D classes take no more layers than a task of the driver has sources
\* and only formats of the G2D families, and only the class that computes
\* intermediate images is given a table that asks for them.  It is about
\* the chain of strcmp() in createInstance(), where each branch pairs a
\* class with a table by hand.
CapabilityFitsBackend ==
    LET cap == engine.capability
    IN  /\ engine.class = "MSCL9810" =>
              /\ cap.max_layers = 1 /\ cap.rescaling_count = 0
              /\ cap.pixformats \subseteq all_mscl_sbwc_lossy_formats
        /\ engine.class \in {"M2M1SHOT2_G2D", "G2D9810"} =>
              /\ cap.max_layers \in 1..16
              /\ cap.pixformats \subseteq all_fimg2d_sbwc_lossy_formats
        /\ engine.class = "G2D9810" => cap.rescaling_count = 0

\* see module AcrylicPrescale
PrescaleInOnePass ==
    engine.class = "M2M1SHOT2_G2D" =>
        Prescale!PrescaleInOnePass(engine.capability)

\* see module AcrylicQoS
EstimateCoversTraffic == QoS!EstimateCoversTraffic

\* see module G2DHdrWriter
CommandsReturned == Hdr!CommandsReturned

\* see module AcrylicDummy
DummyImplementsContract == Dummy!ImplementsContract
=============================================================================
