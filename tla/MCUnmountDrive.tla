-------------------------- MODULE MCUnmountDrive --------------------------
(* UnmountDrive with model values for TLC: a drive of two partitions and a *)
(* device of another drive.                                                *)
EXTENDS UnmountDrive

CONSTANTS part1, part2, other

AllDevices == {part1, part2, other}
Partitions == {part1, part2}
None == {}
(* Only the first partition may be mounted twice. *)
SomeMounts == {<<part1, 1>>, <<part1, 2>>, <<part2, 1>>, <<other, 1>>}
=============================================================================
