------------------------------ MODULE PackageStore ------------------------------
(***************************************************************************)
(* What the content-addressable store promises to the jobs that install    *)
(* packages, whatever workers, temporary files and crashes are behind it:  *)
(* a package becomes available as a whole, stays available, and a job uses *)
(* its package only once it is.                                            *)
(***************************************************************************)
CONSTANTS Jobs, Pkgs, PkgOf

VARIABLES
  available,  \* the packages whose files can be linked
  served      \* the jobs that linked theirs

Init == available \in SUBSET Pkgs /\ served = {}

Publish(p) ==
  /\ p \notin available
  /\ available' = available \cup {p}
  /\ UNCHANGED served

Serve(j) ==
  /\ j \notin served /\ PkgOf[j] \in available
  /\ served' = served \cup {j}
  /\ UNCHANGED available

Next == (\E p \in Pkgs : Publish(p)) \/ (\E j \in Jobs : Serve(j))

Spec == Init /\ [][Next]_<<available, served>>
=============================================================================
