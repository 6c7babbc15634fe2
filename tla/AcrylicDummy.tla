---------------------------- MODULE AcrylicDummy ----------------------------
(***************************************************************************)
(* AcrylicCompositorDummy (acrylic_dummy.cpp, .h): the compositor without  *)
(* hardware behind it.  It validates and sorts the layers as every backend *)
(* does, processes nothing, and answers every request for release fences   *)
(* with made-up ones.  What remains of a backend is the ownership of the   *)
(* fences, which it has to get right for its callers to be testable.       *)
(***************************************************************************)
EXTENDS Integers, Sequences, FiniteSets

CONSTANTS
    DummyLayers,  \* number of layers the caller has created
    MaxFences     \* largest num_fences passed to execute(fence[], num_fences)

ASSUME DummyLayers \in Nat /\ MaxFences \in Nat

VARIABLES
    images,       \* canvas (0) and layers (1..): [fence, modified]
    result        \* what the most recent call returned

dummyVars == <<images, result>>

Buffers == 0..DummyLayers

Configured == [fence |-> FALSE, modified |-> TRUE]

Silent == [op |-> "none", ok |-> TRUE, n |-> 0, slots |-> <<>>, handle |-> -1]

-----------------------------------------------------------------------------

\* execute(handle) as it would be with the fence of the canvas left alone
ProcessSkippingCanvas(ims, valid) ==
    IF valid
    THEN [b \in DOMAIN ims |->
            [fence |-> b = 0 /\ ims[b].fence, modified |-> FALSE]]
    ELSE ims

\* execute(handle) for what it does to the images: when validateAllLayers()
\* accepts them, every acquire fence is dropped and every modified flag
\* cleared
Process(ims, valid) ==
    IF valid
    THEN [b \in DOMAIN ims |-> [fence |-> FALSE, modified |-> FALSE]]
    ELSE ims

\* execute(fence[], num_fences): execute(NULL), and then slot i is i + 1
Execute(n, valid) ==
    /\ images' = Process(images, valid)
    /\ result' = [Silent EXCEPT
                    !.op = "fences", !.ok = valid, !.n = n,
                    !.slots = [i \in 1..n |-> IF valid THEN i ELSE -2]]

\* execute(handle): the handle, when asked for, is 0
ExecuteHandle(wanted, valid) ==
    /\ images' = Process(images, valid)
    /\ result' = [Silent EXCEPT
                    !.op = "handle", !.ok = valid,
                    !.handle = IF valid /\ wanted THEN 0 ELSE -1]

waitExecution ==
    /\ result' = [Silent EXCEPT !.op = "wait"]
    /\ UNCHANGED images

\* the setters of the canvas and the layers
Configure(b, fence) ==
    /\ images' = [images EXCEPT ![b] = [fence |-> fence, modified |-> TRUE]]
    /\ result' = Silent

\* the constructor
Init ==
    /\ images = [b \in Buffers |-> Configured]
    /\ result = Silent

\* the destructor, and the constructor of the next
Delete ==
    /\ images' = [b \in Buffers |-> Configured]
    /\ result' = Silent

Next ==
    \/ \E n \in 0..MaxFences, valid \in BOOLEAN : Execute(n, valid)
    \/ \E wanted, valid \in BOOLEAN : ExecuteHandle(wanted, valid)
    \/ waitExecution
    \/ \E b \in Buffers, fence \in BOOLEAN : Configure(b, fence)

Spec == Init /\ [][Next]_dummyVars

-----------------------------------------------------------------------------
(* The engine as an implementation of the fence contract *)

HeldFences == Cardinality({b \in Buffers : images[b].fence})

CallerView(slots) ==
    [i \in DOMAIN slots |-> IF slots[i] >= 0 THEN 0 ELSE slots[i]]

Contract ==
    INSTANCE AcrylicContract WITH
        MaxBuffers <- DummyLayers + 1,
        held <- HeldFences,
        answer <- IF result.op \in {"fences", "handle"}
                  THEN [call |-> "execute", ok |-> result.ok, n |-> result.n,
                        slots |-> CallerView(result.slots)]
                  ELSE [call |-> "other", ok |-> TRUE, n |-> 0, slots |-> <<>>]

\* Every call of the dummy compositor is a step of the fence contract: an
\* execute() it accepts drops the acquire fence of the canvas and of every
\* layer and writes all num_fences slots, and one that validateAllLayers()
\* refused leaves the fences and fence[] as they were.
ImplementsContract == Contract!Spec
=============================================================================
