---------------------------- MODULE MCSidecarIPC ----------------------------
EXTENDS SidecarIPC, TLC

CONSTANTS r1, r2

(* Two operations that need a bus of the sidecar, one that needs none, and *)
(* one that does not exist.                                                *)
SomeWishes ==
  {(r1 :> "rebooted" @@ r2 :> "drop-in-updated"), (r1 :> "reloaded" @@ r2 :> "soft-rebooted"),
   (r1 :> "powered-off" @@ r2 :> "unknown-state")}
=============================================================================
