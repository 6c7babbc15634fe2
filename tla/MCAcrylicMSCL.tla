--------------------------- MODULE MCAcrylicMSCL ---------------------------
(***************************************************************************)
(* The values the runs give to the constants of AcrylicMSCL.               *)
(***************************************************************************)
EXTENDS AcrylicMSCL

TwoModes == {1, 2}
OneMode == {1}
WholeOrPart == {0, 1}
OneRect == {1}
Upright == {{}}
UprightOrTurned == {{}, {"H", "V"}}
Both == BOOLEAN
Never == {FALSE}
AllKinds == {"fences", "handle", "blocking"}
FencesOnly == {"fences"}
NoRates == {}
OneRate == {60}

Ioctls(names) == {<<name, dir>> : name \in names, dir \in Dirs}

\* failures while the device is being configured
ConfigFaults ==
    Ioctls({"sfmt", "scrop", "reqbufs", "streamon"})
        \cup {<<"validate", "-">>, <<"csc", "eq">>, <<"csc", "range">>}

\* failures while buffers are queued and dequeued
BufferFaults ==
    Ioctls({"dqbuf", "qbuf"})
        \cup {<<"streamon", "TARGET">>, <<"prot", "-">>, <<"rate", "-">>,
              <<"hwerror", "-">>}

FlipFaults == {<<"flip", "H">>, <<"flip", "V">>}
QueueFaults == {<<"qbuf", "TARGET">>}
DequeueFaults == {<<"dqbuf", "TARGET">>}
NoFaults == {}
=============================================================================
