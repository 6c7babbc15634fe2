--------------------------- MODULE AcrylicContract ---------------------------
(***************************************************************************)
(* What every compositor of libacryl promises its caller about fences,     *)
(* whichever hardware is behind it: the contract of Acrylic::execute()     *)
(* that the backends override (specification, sections 4.1, 4.3 and 7).    *)
(*                                                                         *)
(* The caller hands acquire fences to the engine with the buffers it       *)
(* configures and asks execute(fence[], n) for n release fences.  The      *)
(* contract does not say which buffer a release fence belongs to, that is  *)
(* the business of each backend; it says who owns which fence after the    *)
(* call.  Modules AcrylicG2D, AcrylicMSCL and AcrylicDummy implement it.   *)
(***************************************************************************)
EXTENDS Integers, Sequences, FiniteSetsExt

CONSTANTS
    MaxBuffers,   \* the buffers an engine can hold: the canvas and the layers
    MaxFences     \* largest num_fences passed to execute(fence[], num_fences)

ASSUME MaxBuffers \in Nat /\ MaxFences \in Nat

VARIABLES
    held,         \* number of acquire fences the engine holds for the caller
    answer        \* what the most recent call gave back

vars == <<held, answer>>

Fence     == 0    \* a slot of fence[] that received a release fence
NoFence   == -1   \* a slot set to "no fence"
Untouched == -2   \* a slot the call did not write

\* a call that returns no fences
Quiet == [call |-> "other", ok |-> TRUE, n |-> 0, slots |-> <<>>]

\* fence[] with k release fences, the other slots saying so
Fenced(n, k) == [i \in 1..n |-> IF i <= k THEN Fence ELSE NoFence]

-----------------------------------------------------------------------------

\* The setters of the canvas and the layers, and the calls that are no
\* execute(): the caller decides which buffers carry an acquire fence.
Configure ==
    /\ held' \in 0..MaxBuffers
    /\ answer' = Quiet

\* execute() took the frame.  Every acquire fence is consumed.  All n slots
\* are written: release fences first, at least one for each acquire fence
\* while slots remain, and "no fence" in the others (4.3 a-c).
Accept(n) ==
    /\ held' = 0
    /\ \E k \in Min({n, held})..n :
          answer' = [call |-> "execute", ok |-> TRUE, n |-> n,
                     slots |-> Fenced(n, k)]

\* execute() failed.  The acquire fences are invalidated (4.3 d) or, when
\* nothing was submitted, all still in place; in no case does a slot hold
\* a release fence the caller would have to close.
Reject(n) ==
    /\ held' \in {held, 0}
    /\ \E s \in [1..n -> {Untouched, NoFence}] :
          answer' = [call |-> "execute", ok |-> FALSE, n |-> n, slots |-> s]

Init ==
    /\ held = 0
    /\ answer = Quiet

Next ==
    \/ Configure
    \/ \E n \in 0..MaxFences : Accept(n) \/ Reject(n)

Spec == Init /\ [][Next]_vars
=============================================================================
