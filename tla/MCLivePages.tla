---------------------------- MODULE MCLivePages ----------------------------
EXTENDS LivePages, TLC

CONSTANTS v1, v2

(* Two viewers of every page, and pages of two kinds at a time: two modes  *)
(* on one topic and on two, and pages of different connections.            *)
SomePages ==
  {[v \in Viewers |-> p] : p \in Pages \ {"internet-advanced", "remote", "access-points-advanced"}}
  \cup {(v1 :> "storage") @@ (v2 :> "storage-minimal"),
        (v1 :> "internet") @@ (v2 :> "internet-advanced"),
        (v1 :> "access-points-advanced") @@ (v2 :> "remote")}
=============================================================================
