---------------------------- MODULE StorePromise ----------------------------
(***************************************************************************)
(* What AsyncStore promises about the content in memory and the content of *)
(* the file, without threads, events or version counters.                  *)
(*                                                                         *)
(* One request is carried out at a time.  The store knows of each side     *)
(* whether it holds anything, and whether the file is behind the memory;   *)
(* that is all synchronize() needs to choose between load, save and        *)
(* bootstrap, and it is always right about the last of the three.          *)
(***************************************************************************)

CONSTANTS Data, Blank, Torn, NoFile, Nothing, CanFail

VARIABLES
    memory,   \* the content in memory
    file,     \* the content of the file
    held,     \* memory holds a version
    kept,     \* the file is known to hold a version
    behind,   \* the version in the file is older than the one in memory
    doing,    \* the request that is being carried out
    with,     \* what a set is to store
    unseen    \* the file call that failed in the last load or save, unseen, or "none"

vars == <<memory, file, held, kept, behind, doing, with, unseen>>

Requests == {"status", "clear", "get", "set", "load", "save", "generate", "synchronize", "complete"}
Readable == file \notin {NoFile, Torn}

Init ==
    /\ memory = Blank
    /\ file \in Data \cup {NoFile}
    /\ held = FALSE /\ kept = FALSE /\ behind = FALSE
    /\ doing = "nothing" /\ with = Nothing /\ unseen = "none"

\* An existing file is a version to load.
Discover ==
    /\ file # NoFile
    /\ doing = "nothing"
    /\ ~held
    /\ kept' = TRUE
    /\ UNCHANGED <<memory, file, held, behind, doing, with, unseen>>

Begin ==
    /\ doing = "nothing"
    /\ doing' \in Requests
    /\ with' \in IF doing' = "set" THEN Data ELSE {Nothing}
    /\ UNCHANGED <<memory, file, held, kept, behind, unseen>>

End == doing' = "nothing" /\ with' = Nothing

\* What is to be done now for the request.
Job ==
    IF doing # "synchronize" THEN doing
    ELSE IF held /\ (~kept \/ behind) THEN "save"
    ELSE IF kept /\ ~held THEN "load"
    ELSE IF ~kept /\ ~held THEN "generate" ELSE "get"

\* Memory holds a new version that the file does not have.
Renew(d) ==
    /\ memory' = d
    /\ held' = TRUE
    /\ behind' = kept
    /\ UNCHANGED <<file, kept, unseen>>

\* Nothing changes but that the request is over: it only looks, or it fails.
Look ==
    /\ Job \in {"status", "get", "complete"} \/ CanFail # {} \/ (Job = "load" /\ ~Readable)
    /\ doing # "nothing"
    /\ End
    /\ UNCHANGED <<memory, file, held, kept, behind, unseen>>

Set == Job = "set" /\ Renew(with) /\ End

\* A bootstrap goes on with a save.
Generate ==
    /\ Job = "generate"
    /\ \E d \in Data : Renew(d)
    /\ IF doing = "generate" THEN End ELSE UNCHANGED <<doing, with>>

\* A file that is there and cannot be opened passes for an empty one.
Load ==
    /\ Job = "load"
    /\ \/ Readable /\ memory' = file /\ unseen' = "none"
       \/ "fileRead" \in CanFail /\ file # NoFile /\ memory' = Blank /\ unseen' = "fileRead"
    /\ held' = kept
    /\ behind' = FALSE
    /\ End
    /\ UNCHANGED <<file, kept>>

\* The store does not notice that the text does not get to the file.
Save ==
    /\ Job = "save"
    /\ \/ file' = memory /\ unseen' = "none"
       \/ "fileWrite" \in CanFail /\ file' \in {Blank, Torn} /\ unseen' = "fileWrite"
    /\ kept' = held
    /\ behind' = FALSE
    /\ End
    /\ UNCHANGED <<memory, held>>

\* Either side may fail to be cleared.
Clear ==
    /\ Job = "clear"
    /\ \/ file' = NoFile /\ kept' = FALSE
       \/ CanFail # {} /\ UNCHANGED <<file, kept>>
    /\ \/ memory' = Blank /\ held' = FALSE
       \/ CanFail # {} /\ UNCHANGED <<memory, held>>
    /\ behind' = (behind /\ kept' /\ held')
    /\ End
    /\ UNCHANGED unseen

\* The process dies and starts again.  It knows nothing then; a file that was
\* being written may be empty, half, or whole.
Crash ==
    /\ file' \in IF Job = "save" THEN {file, Blank, Torn, memory} ELSE {file}
    /\ memory' = Blank
    /\ held' = FALSE /\ kept' = FALSE /\ behind' = FALSE
    /\ unseen' = "none"
    /\ End

Next == Crash \/ Discover \/ Begin \/ Look \/ Set \/ Generate \/ Load \/ Save \/ Clear

Spec == Init /\ [][Next]_vars

\* A file that is not behind holds what memory holds, unless one of the two is
\* what a failure left that the last load or save did not see.
UpToDate ==
    held /\ kept /\ ~behind =>
        \/ file = memory
        \/ unseen = "fileWrite" /\ file \in {Blank, Torn}
        \/ unseen = "fileRead" /\ memory = Blank
=============================================================================
