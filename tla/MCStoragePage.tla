--------------------------- MODULE MCStoragePage ---------------------------
(* StoragePage for TLC: a card with the partitions for firmware and root,  *)
(* a stick without an ID, and a device without a drive (loop or mapper).   *)
EXTENDS StoragePage, TLC

MCDrives == {"card", "stick"}
MCDriveOf ==
  ("firmware" :> "card") @@ ("root" :> "card") @@ ("data" :> "stick") @@ ("mapper" :> "none")
MCDevices == DOMAIN MCDriveOf
MCDriveID == ("card" :> "card ID") @@ ("stick" :> "")
MCRank == ("mapper" :> 0) @@ ("firmware" :> 1) @@ ("root" :> 2) @@ ("data" :> 3)
MCMayHold ==
  ("/" :> {"root", "mapper"}) @@ ("/boot/firmware" :> {"firmware"})
  @@ ("/media" :> {"data", "firmware"})
=============================================================================
