----------------------------- MODULE PSKDropIn -----------------------------
(***************************************************************************)
(* The sidecar's varlink method UpdatePSKDropInFile                        *)
(* (src/internal/app/sidecar/routes/openuc2/routes.go), which replaces the *)
(* Wi-Fi password in the drop-in file of ONE connection profile.           *)
(*                                                                         *)
(* varlink serves every connection in a goroutine of its own and the       *)
(* handler takes no lock, so calls interleave at the granularity of their  *)
(* file-system operations.  Files are inodes reached through the names of  *)
(* the drop-in and of its swap file, because a rename moves the name while *)
(* open descriptors keep the inode.                                        *)
(*                                                                         *)
(* A file's contents are abstracted to the set of its psk values and the   *)
(* set of its other lines.  Where a line stands is left out, but not that  *)
(* the psk line may be the last, with no newline after it: what is left of *)
(* longer data then becomes part of the password.                          *)
(***************************************************************************)
EXTENDS FiniteSets

CONSTANTS
  Calls,       \* the calls of UpdatePSKDropInFile, each made once
  Passwords,   \* the values a psk line may have
  OtherLines,  \* the lines of the drop-in file that are not psk lines
  Leftover,    \* a line, or a psk value, that a rest of longer data has spoiled
  Orig,        \* the inode of the drop-in file before any call
  NoFile,      \* a name in the directory which refers to no file
  NoDir,       \* the profile has no drop-in directory
  Serialized   \* TRUE: clients never make two calls at once

ASSUME CallsAssumption ==
  /\ Orig \notin Calls /\ NoFile \notin Calls \cup {Orig}
  /\ NoDir \notin Calls \cup {Orig, NoFile}
ASSUME LinesAssumption == Leftover \notin OtherLines \cup Passwords
ASSUME SerializedAssumption == Serialized \in BOOLEAN

VARIABLES
  dropIn,  \* what the name 51-wifi-security-password.nmconnection refers to
  swap,    \* what the name 51-wifi-security-password.nmconnection.swp refers to
  inode,   \* the contents of every inode
  pc,      \* how far each call is
  fd,      \* the inode each call has open
  lines,   \* the local variable of each call, once read and updated
  newPw,   \* the argument of each call
  reply    \* what the client was told

vars == <<dropIn, swap, inode, pc, fd, lines, newPw, reply>>

(* One call creates at most one file, so a new inode is named by its call. *)
Inodes == Calls \cup {Orig}

Contents ==
  [psk : SUBSET (Passwords \cup {Leftover}), rest : SUBSET (OtherLines \cup {Leftover})]
Empty == [psk |-> {}, rest |-> {}]

Phases == {"idle", "opened", "read", "truncated", "written", "renamed", "done"}
Replies == {"none", "ok", "readError", "writeError", "renameError", "lost"}

TypeOK ==
  /\ dropIn \in Inodes \cup {NoFile, NoDir}
  /\ swap \in Inodes \cup {NoFile}
  /\ inode \in [Inodes -> Contents]
  /\ pc \in [Calls -> Phases]
  /\ fd \in [Calls -> Inodes \cup {NoFile}]
  /\ lines \in [Calls -> Contents]
  /\ newPw \in [Calls -> Passwords]
  /\ reply \in [Calls -> Replies]

InFlight(c) == pc[c] \notin {"idle", "done"}
Writing(c) == pc[c] \in {"truncated", "written"}

(* Before the first call the drop-in, if there is one, may lack a psk line *)
(* and there is no swap file.                                              *)
Init ==
  /\ dropIn \in {Orig, NoFile, NoDir}
  /\ swap = NoFile
  /\ \E old \in SUBSET Passwords :
       inode = [i \in Inodes |->
                  IF i = Orig THEN [psk |-> old, rest |-> OtherLines] ELSE Empty]
  /\ pc = [c \in Calls |-> "idle"]
  /\ fd = [c \in Calls |-> NoFile]
  /\ lines = [c \in Calls |-> Empty]
  /\ newPw \in [Calls -> Passwords]
  /\ reply = [c \in Calls |-> "none"]

-----------------------------------------------------------------------------
(* Mutant: a key which the file does not have yet is not added. *)
SetKeyIfPresent(contents, pw) ==
  [contents EXCEPT !.psk = IF @ = {} THEN {} ELSE {pw}]

(* setKey gives every psk line the new value, and adds one if there is none. *)
SetKey(contents, pw) == [contents EXCEPT !.psk = {pw}]

(* The end of longer data is left behind shorter data: it begins in the    *)
(* middle of a line, which is glued to the last line of what was written,  *)
(* be that the psk line (with others of its kind before it, or not) or     *)
(* another, or the empty one after a final newline.                        *)
Glued(new) ==
  {[new EXCEPT !.psk = psk] : psk \in {{Leftover}, new.psk \cup {Leftover}}}
  \cup {[new EXCEPT !.rest = (@ \ last) \cup {Leftover}] :
          last \in {{}} \cup {{line} : line \in new.rest}}

(* What WriteFile leaves in a file truncated by this call, but perhaps     *)
(* written since by another: data shorter than what is there leaves a tail *)
(* of it, in which whole lines may follow the glued one.                   *)
Overwrite(old, new) ==
  {new} \cup
  {[psk |-> file.psk \cup psk, rest |-> file.rest \cup rest] :
     file \in IF old = Empty THEN {} ELSE {new} \cup Glued(new),
     psk \in SUBSET old.psk, rest \in SUBSET old.rest}

(* The call ends: its descriptor is closed and the client has its answer. *)
Return(c, answer) ==
  /\ pc' = [pc EXCEPT ![c] = "done"]
  /\ reply' = [reply EXCEPT ![c] = answer]
  /\ fd' = [fd EXCEPT ![c] = NoFile]

Arrives(c) ==
  /\ pc[c] = "idle"
  /\ Serialized => \A d \in Calls : ~InFlight(d)

(* Mutant: the error of OpenRoot is dropped. *)
OpenDropInAnywhere(c) ==
  /\ Arrives(c)
  /\ dropIn # NoFile
  /\ fd' = [fd EXCEPT ![c] = dropIn]
  /\ pc' = [pc EXCEPT ![c] = "opened"]
  /\ UNCHANGED <<dropIn, swap, inode, lines, newPw, reply>>

(* OpenRoot of the drop-in directory, and the open in ReadFile. *)
OpenDropIn(c) ==
  /\ Arrives(c)
  /\ dropIn \in Inodes
  /\ fd' = [fd EXCEPT ![c] = dropIn]
  /\ pc' = [pc EXCEPT ![c] = "opened"]
  /\ UNCHANGED <<dropIn, swap, inode, lines, newPw, reply>>

(* A missing file is reported as an error.  For a missing directory the    *)
(* handler returns without a reply, and the connection is closed.          *)
OpenDropInFails(c) ==
  /\ Arrives(c)
  /\ dropIn \notin Inodes
  /\ Return(c, IF dropIn = NoDir THEN "lost" ELSE "readError")
  /\ UNCHANGED <<dropIn, swap, inode, lines, newPw>>

(* The read in ReadFile, its close, and setKey on the lines read. *)
ReadDropIn(c) ==
  /\ pc[c] = "opened"
  /\ lines' = [lines EXCEPT ![c] = SetKey(inode[fd[c]], newPw[c])]
  /\ fd' = [fd EXCEPT ![c] = NoFile]
  /\ pc' = [pc EXCEPT ![c] = "read"]
  /\ UNCHANGED <<dropIn, swap, inode, newPw, reply>>

(* Mutant: the swap file is opened without O_TRUNC. *)
OpenSwapUntruncated(c) ==
  /\ pc[c] = "read"
  /\ swap' = IF swap = NoFile THEN c ELSE swap
  /\ fd' = [fd EXCEPT ![c] = swap']
  /\ pc' = [pc EXCEPT ![c] = "truncated"]
  /\ UNCHANGED <<dropIn, inode, lines, newPw, reply>>

(* WriteFile opens the swap file with O_CREATE and O_TRUNC. *)
OpenSwap(c) ==
  /\ pc[c] = "read"
  /\ swap' = IF swap = NoFile THEN c ELSE swap
  /\ inode' = [inode EXCEPT ![swap'] = Empty]
  /\ fd' = [fd EXCEPT ![c] = swap']
  /\ pc' = [pc EXCEPT ![c] = "truncated"]
  /\ UNCHANGED <<dropIn, lines, newPw, reply>>

WriteSwap(c) ==
  /\ pc[c] = "truncated"
  /\ \E data \in Overwrite(inode[fd[c]], lines[c]) :
       inode' = [inode EXCEPT ![fd[c]] = data]
  /\ fd' = [fd EXCEPT ![c] = NoFile]
  /\ pc' = [pc EXCEPT ![c] = "written"]
  /\ UNCHANGED <<dropIn, swap, lines, newPw, reply>>

(* The write fails, for instance on a full disk; the swap file stays. *)
WriteSwapFails(c) ==
  /\ pc[c] = "truncated"
  /\ Return(c, "writeError")
  /\ UNCHANGED <<dropIn, swap, inode, lines, newPw>>

(* Rename moves whatever the swap file's name refers to now. *)
RenameSwap(c) ==
  /\ pc[c] = "written"
  /\ swap # NoFile
  /\ dropIn' = swap
  /\ swap' = NoFile
  /\ pc' = [pc EXCEPT ![c] = "renamed"]
  /\ UNCHANGED <<inode, fd, lines, newPw, reply>>

(* Mutant: the error of Rename is dropped. *)
RenameSwapFailsSilently(c) ==
  /\ pc[c] = "written"
  /\ swap = NoFile
  /\ Return(c, "ok")
  /\ UNCHANGED <<dropIn, swap, inode, lines, newPw>>

RenameSwapFails(c) ==
  /\ pc[c] = "written"
  /\ swap = NoFile
  /\ Return(c, "renameError")
  /\ UNCHANGED <<dropIn, swap, inode, lines, newPw>>

(* Mutant: the reply is sent before the rename. *)
ReplyOKEarly(c) ==
  /\ pc[c] \in {"written", "renamed"}
  /\ Return(c, "ok")
  /\ UNCHANGED <<dropIn, swap, inode, lines, newPw>>

ReplyOK(c) ==
  /\ pc[c] = "renamed"
  /\ Return(c, "ok")
  /\ UNCHANGED <<dropIn, swap, inode, lines, newPw>>

(* The sidecar process ends: sidecarMain returns without waiting for calls *)
(* in progress, or it crashes.  Files stay as they are and a new process   *)
(* serves the calls made later.                                            *)
Crash ==
  /\ \E c \in Calls : InFlight(c)
  /\ pc' = [c \in Calls |-> IF InFlight(c) THEN "done" ELSE pc[c]]
  /\ reply' = [c \in Calls |-> IF InFlight(c) THEN "lost" ELSE reply[c]]
  /\ fd' = [c \in Calls |-> NoFile]
  /\ UNCHANGED <<dropIn, swap, inode, lines, newPw>>

Next ==
  \/ \E c \in Calls :
       \/ OpenDropIn(c) \/ OpenDropInFails(c) \/ ReadDropIn(c)
       \/ OpenSwap(c) \/ WriteSwap(c) \/ WriteSwapFails(c)
       \/ RenameSwap(c) \/ RenameSwapFails(c) \/ ReplyOK(c)
  \/ Crash

Spec == Init /\ [][Next]_vars

-----------------------------------------------------------------------------
(* PROPERTIES *)

Quiescent == \A c \in Calls : ~InFlight(c)
Ended(answers) == \E c \in Calls : reply[c] \in answers

(* writeAtomically promises readers of the drop-in (the assembly service)  *)
(* the old or the new version: in every state, also after a crash, the     *)
(* file still has each line which is not the password, and nothing more.   *)
DropInIntact == dropIn \in Inodes => inode[dropIn].rest = OtherLines

(* Calls which share the swap file can destroy the drop-in, but never      *)
(* behind everybody's back: once no call is running and none was told of a *)
(* failed write, a failed rename or a lost connection, the drop-in is      *)
(* whole and its password is that of a call answered with success.         *)
NoSilentCorruption ==
  (/\ Quiescent
   /\ ~Ended({"writeError", "renameError", "lost"})
   /\ Ended({"ok"}))
  => /\ DropInIntact
     /\ \E c \in Calls : reply[c] = "ok" /\ inode[dropIn].psk = {newPw[c]}

(* Even when renames failed because another call had moved the swap file,  *)
(* the drop-in is not left without a password once every call is over, nor *)
(* with one from before the calls: it has submitted ones, or one which the *)
(* rest of a longer file has spoiled.  The exceptions are a failed write   *)
(* and a call cut off between truncation and write.                        *)
PasswordIsReplaced ==
  (Quiescent /\ ~Ended({"writeError", "lost"}) /\ Ended({"ok"}))
  => /\ inode[dropIn].psk # {}
     /\ inode[dropIn].psk \subseteq {newPw[c] : c \in Calls} \cup {Leftover}

(* What PSKStore calls the state of a call, and the drop-in file. *)
StoreStatus(c) ==
  IF reply[c] \in {"readError", "writeError", "renameError"} THEN "error"
  ELSE IF reply[c] # "none" THEN reply[c]
  ELSE IF pc[c] = "renamed" THEN "applied"
  ELSE "pending"
StoreFile == IF dropIn \in Inodes THEN {inode[dropIn]} ELSE {}

Store == INSTANCE PSKStore WITH
  file <- StoreFile,
  status <- [c \in Calls |-> StoreStatus(c)]

(* Calls made one at a time behave as PSKStore, whatever crash or failed   *)
(* write left a stale swap file behind.                                    *)
StoreSpec == Store!Spec
=============================================================================
