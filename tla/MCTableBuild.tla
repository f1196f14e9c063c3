---------------------------- MODULE MCTableBuild ----------------------------
(***************************************************************************)
(* Two small drivers: a CUDA library and a HIP one of three majors, with   *)
(* versions below, in and above every interval of the profiles.            *)
(***************************************************************************)
EXTENDS TableBuild

MCCore ==
    [d \in {"cuda", "hip"} |->
        IF d = "cuda" THEN <<"init", "attribute", "driver_version">>
        ELSE <<"init", "attribute", "malloc", "htod">>]

MCInventory ==
    [d \in {"cuda", "hip"} |->
        IF d = "cuda" THEN <<"unlisted", "init", "attribute", "driver_version", "foreign">>
        ELSE <<"init", "attribute", "runtime_version", "malloc", "htod", "dtod",
               "extra", "foreign">>]

\* Major 5 is a profile that lacks a required symbol's declaration.
MCProfiles ==
    [m \in 5..7 |->
        CASE m = 5 -> [min |-> 52, max |-> 59, proc |-> {}, raw |-> {},
                       exact |-> {"init", "attribute"}]
          [] m = 6 -> [min |-> 61, max |-> 69, proc |-> {62}, raw |-> {},
                       exact |-> {"init", "attribute", "malloc"}]
          [] m = 7 -> [min |-> 70, max |-> 75, proc |-> {70}, raw |-> {72},
                       exact |-> {"init", "attribute", "malloc", "htod"}]]

MCClaims ==
    [n \in {"so.6", "so.7", "so"} |->
        CASE n = "so.6" -> {6} [] n = "so.7" -> {7} [] n = "so" -> {5, 6, 7}]

MCSince ==
    [s \in {"init", "attribute", "malloc", "htod", "dtod", "driver_version",
            "runtime_version", "extra", "foreign", "unlisted"} |->
        CASE s = "htod" -> 70
          [] s \in {"extra", "foreign"} -> 72
          [] OTHER -> 20]

=============================================================================
