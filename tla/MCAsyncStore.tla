---------------------------- MODULE MCAsyncStore ----------------------------
(* Small instances of AsyncStore for TLC. *)
EXTENDS AsyncStore, TLC

AllTypes == {"status", "clear", "get", "set", "load", "save", "generate", "synchronize"}
FewTypes == {"set", "save", "synchronize"}
AllFailures ==
    {"clearBackend", "clearFrontend", "setFrontend", "getFrontend", "generateFrontend",
     "loadBackend", "saveBackend", "fileRead", "fileWrite"}

\* Nothing tells one content from another.
DataSymmetry == Permutations(Data)
=============================================================================
