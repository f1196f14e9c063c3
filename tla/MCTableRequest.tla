--------------------------- MODULE MCTableRequest ---------------------------
(* TableRequest for TLC: HIP's common and raw tables and its compiler's     *)
(* common table.                                                            *)
EXTENDS TableRequest, TLC

CONSTANTS t1, t2

MCLayer == "common" :> "core" @@ "raw" :> "api" @@ "compiler" :> "rtc"
MCLibrary == "common" :> "hip" @@ "raw" :> "hip" @@ "compiler" :> "hiprtc"
MCEntries ==
    "common" :> <<"attribute", "malloc", "dtod">>
        @@ "raw" :> <<"malloc", "dtod">>
        @@ "compiler" :> <<"create">>
MCHome ==
    "common" :> <<"validate", "build", "table">>
        @@ "raw" :> <<"direct", "direct">>
        @@ "compiler" :> <<"publish">>
Symmetry == Permutations(Threads)

=============================================================================
