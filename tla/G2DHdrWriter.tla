---------------------------- MODULE G2DHdrWriter ----------------------------
(***************************************************************************)
(* G2DHdrWriter (acrylic_g2d9810.h): the member of AcrylicCompositorG2D9810 *)
(* that borrows the HDR register commands of a frame from the HDR plug-in   *)
(* (IG2DHdr10CommandWriter) and has to give each list back.  The plug-in    *)
(* is optional: without it every method does nothing and succeeds.  The     *)
(* methods of the engine that call the writer are not in the repository,    *)
(* so the writer is taken with any order of calls.                          *)
(***************************************************************************)
EXTENDS Integers

VARIABLES
    hdr     \* [mWriter, mCmds: do the pointers point at something;
            \*  lent: command lists the plug-in has handed out]

NoWriter == [mWriter |-> FALSE, mCmds |-> FALSE, lent |-> 0]

\* G2DHdrWriter(): createInstance() of the plug-in yields a writer or null
Construct(loaded) == [NoWriter EXCEPT !.mWriter = loaded]

\* getCommands() as it would be without the test of mCmds
getCommandsAgain(w, got) ==
    IF w.mWriter
    THEN [w EXCEPT !.mCmds = got, !.lent = @ + IF got THEN 1 ELSE 0]
    ELSE w

\* getCommands(): the plug-in hands out the list of the frame, or null when
\* the frame needs no HDR processing
getCommands(w, got) ==
    IF ~w.mCmds /\ w.mWriter
    THEN [w EXCEPT !.mCmds = got, !.lent = @ + IF got THEN 1 ELSE 0]
    ELSE w

\* putCommands() as it would be if it kept the pointer
putCommandsKeeping(w) ==
    IF w.mWriter /\ w.mCmds THEN [w EXCEPT !.lent = @ - 1] ELSE w

putCommands(w) ==
    IF w.mWriter /\ w.mCmds
    THEN [w EXCEPT !.mCmds = FALSE, !.lent = @ - 1]
    ELSE w

\* getCommandCount(), and the number of registers write() copies
getCommandCount(w, command_count) == IF w.mCmds THEN command_count ELSE 0

-----------------------------------------------------------------------------

GetCommands(got) == hdr' = getCommands(hdr, got)

PutCommands == hdr' = putCommands(hdr)

\* G2DHdrWriter(), with the engine it is a member of: an engine has one
\* writer, constructed when there is none
Create(loaded) ==
    /\ ~hdr.mWriter /\ ~hdr.mCmds
    /\ hdr' = [Construct(loaded) EXCEPT !.lent = hdr.lent]

\* ~G2DHdrWriter(): putCommands(), and the writer is deleted
Destroy == hdr' = [putCommands(hdr) EXCEPT !.mWriter = FALSE]

Init == hdr = NoWriter

Next ==
    \/ \E got \in BOOLEAN : GetCommands(got)
    \/ PutCommands
    \/ \E loaded \in BOOLEAN : Create(loaded)
    \/ Destroy

Spec == Init /\ [][Next]_hdr

-----------------------------------------------------------------------------

\* The writer holds exactly the command lists the plug-in has handed out:
\* getCommands() does not fetch a second list over the one it holds,
\* putCommands() forgets the list it gave back, and the destructor returns
\* the list of an unfinished frame, so that no list leaks and none is given
\* back twice.
CommandsReturned ==
    hdr.lent = IF hdr.mCmds THEN 1 ELSE 0
=============================================================================
