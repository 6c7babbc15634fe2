---------------------------- MODULE MCAcrylicG2D ----------------------------
(***************************************************************************)
(* Instances of AcrylicG2D for the model checker.  Each configuration      *)
(* opens the dimensions its properties are about and closes the others.    *)
(***************************************************************************)
EXTENDS AcrylicG2D

AllKinds == {"fences", "handle", "blocking"}

FencesOnly == {"fences"}

Both == BOOLEAN

Never == {FALSE}

OneLength == {0, 1}

TwoLengths == {0, 1, 2}

DefaultOnly == {-1}

TwoPriorities == {-1, 1}

RaiseOrInvalid == {1, 7}

ReliableDriver == {"ok"}

AnyDriverOutcome == {"ok", "busy", "fail"}

\* the steps of execute() outside the transit cache
SubmitFaults == {"validate", "planes", "canvas", "submit", "hwerror", "again"}

\* the steps of prescaleSource() that create, size and use the transit
CacheFaults == {"ionopen", "alloc", "prescale", "prio"}

PriorityFaults == {"prio"}

OkOrBusy == {"ok", "busy"}

BusyFaults == {"priobusy"}

AllocFaults == {"alloc"}

NoFaults == {}

OkOrFail == {"ok", "fail"}
=============================================================================
