-------------------------- MODULE PSKDropInProofs --------------------------
(***************************************************************************)
(* Proofs about PSKDropIn for any number of calls, any passwords and any   *)
(* other lines of the file.                                                *)
(***************************************************************************)
EXTENDS PSKDropIn, TLAPS

(* A call's name for a new inode is unused until it opens the swap file,   *)
(* only calls which are over have an answer, and only calls which found    *)
(* the file go on.                                                         *)
Fresh ==
  \A c \in Calls :
    /\ pc[c] \in {"idle", "opened", "read"} =>
         dropIn # c /\ swap # c /\ \A d \in Calls : fd[d] # c
    /\ reply[c] # "none" => pc[c] = "done"
    /\ InFlight(c) => dropIn \in Inodes

OneAtATime ==
  Serialized => \A c, d \in Calls : InFlight(c) /\ InFlight(d) => c = d

(* Some call about to write or to rename is bound to meet another's file.  *)
Contended ==
  \/ \E c \in Calls : Writing(c) /\ swap = NoFile
  \/ \E c, d \in Calls : Writing(c) /\ Writing(d) /\ c # d

Failures == {"writeError", "renameError", "lost"}

Undisturbed == ~Ended(Failures) /\ ~Contended

(* The swap file belongs to the only call which is writing, the drop-in    *)
(* and whatever readers have open are whole.                               *)
Clean ==
  /\ ~Contended
  /\ DropInIntact
  /\ swap # NoFile => swap # dropIn
  /\ \A c \in Calls :
       /\ pc[c] = "opened" =>
            /\ fd[c] \in Inodes /\ fd[c] # swap
            /\ inode[fd[c]].rest = OtherLines
       /\ pc[c] \in {"read", "truncated", "written"} =>
            lines[c].rest = OtherLines /\ lines[c].psk = {newPw[c]}
       /\ pc[c] = "truncated" => fd[c] = swap /\ inode[swap] = Empty
       /\ pc[c] = "written" => inode[swap] = lines[c]

Renamed(c) == pc[c] = "renamed" \/ reply[c] = "ok"

LastRenameWins ==
  /\ swap # NoFile => \E c \in Calls : Writing(c)
  /\ (\E c \in Calls : Renamed(c)) =>
       /\ dropIn \in Inodes
       /\ \E c \in Calls : Renamed(c) /\ inode[dropIn].psk = {newPw[c]}

IInv ==
  /\ TypeOK
  /\ Fresh
  /\ OneAtATime
  /\ Serialized \/ Undisturbed => Clean
  /\ Undisturbed => LastRenameWins
-----------------------------------------------------------------------------
(* A call which is about to read or to write has a file open. *)
Descriptors ==
  \A c \in Calls : pc[c] \in {"opened", "truncated"} => fd[c] \in Inodes

(* What is written over a file's contents are contents. *)
LEMMA OverwriteTypes ==
  ASSUME NEW old \in Contents, NEW new \in Contents
  PROVE  Overwrite(old, new) \subseteq Contents
  <1>1. Glued(new) \subseteq Contents
    BY DEF Glued, Contents
  <1>2. ASSUME NEW file \in Contents, NEW psk \in SUBSET old.psk, NEW rest \in SUBSET old.rest
        PROVE  [psk |-> file.psk \cup psk, rest |-> file.rest \cup rest] \in Contents
    BY DEF Contents
  <1>3. QED
    BY <1>1, <1>2 DEF Overwrite

(* Every variable of PSKDropIn keeps its type in every step of a call and  *)
(* in a crash.                                                             *)
THEOREM TypeCorrect == Spec => []TypeOK
  <1> USE DEF TypeOK, Inodes, Contents, Empty, Phases, Replies
  <1>1. Init => TypeOK /\ Descriptors
    BY DEF Init, Descriptors
  <1>2. TypeOK /\ Descriptors /\ [Next]_vars => (TypeOK /\ Descriptors)'
    <2> SUFFICES ASSUME TypeOK, Descriptors, [Next]_vars
                 PROVE  (TypeOK /\ Descriptors)'
      OBVIOUS
    <2>1. ASSUME NEW c \in Calls, OpenDropIn(c)
          PROVE  (TypeOK /\ Descriptors)'
      BY <2>1 DEF Descriptors, OpenDropIn, Arrives
    <2>2. ASSUME NEW c \in Calls, OpenDropInFails(c)
          PROVE  (TypeOK /\ Descriptors)'
      BY <2>2 DEF Descriptors, OpenDropInFails, Arrives, Return
    <2>3. ASSUME NEW c \in Calls, ReadDropIn(c)
          PROVE  (TypeOK /\ Descriptors)'
      <3>1. newPw[c] \in Passwords
        OBVIOUS
      <3>2. ASSUME NEW s \in Contents
            PROVE  SetKey(s, newPw[c]) \in Contents
        BY <3>1 DEF SetKey
      <3>3. fd[c] \in Inodes
        BY <2>3 DEF ReadDropIn, Descriptors
      <3>4. QED
        BY <2>3, <3>2, <3>3 DEF ReadDropIn, Descriptors
    <2>4. ASSUME NEW c \in Calls, OpenSwap(c)
          PROVE  (TypeOK /\ Descriptors)'
      BY <2>4 DEF Descriptors, OpenSwap
    <2>5. ASSUME NEW c \in Calls, WriteSwap(c)
          PROVE  (TypeOK /\ Descriptors)'
      <3>1. fd[c] \in Inodes /\ inode[fd[c]] \in Contents /\ lines[c] \in Contents
        BY <2>5 DEF WriteSwap, Descriptors
      <3>2. Overwrite(inode[fd[c]], lines[c]) \subseteq Contents
        BY <3>1, OverwriteTypes
      <3>3. PICK data \in Contents : inode' = [inode EXCEPT ![fd[c]] = data]
        BY <2>5, <3>2 DEF WriteSwap
      <3>4. QED
        BY <2>5, <3>1, <3>3 DEF WriteSwap, Descriptors
    <2>6. ASSUME NEW c \in Calls, WriteSwapFails(c)
          PROVE  (TypeOK /\ Descriptors)'
      BY <2>6 DEF Descriptors, WriteSwapFails, Return
    <2>7. ASSUME NEW c \in Calls, RenameSwap(c)
          PROVE  (TypeOK /\ Descriptors)'
      BY <2>7 DEF Descriptors, RenameSwap
    <2>8. ASSUME NEW c \in Calls, RenameSwapFails(c)
          PROVE  (TypeOK /\ Descriptors)'
      BY <2>8 DEF Descriptors, RenameSwapFails, Return
    <2>9. ASSUME NEW c \in Calls, ReplyOK(c)
          PROVE  (TypeOK /\ Descriptors)'
      BY <2>9 DEF Descriptors, ReplyOK, Return
    <2>10. CASE Crash
      BY <2>10 DEF Descriptors, Crash, InFlight
    <2>11. CASE UNCHANGED vars
      BY <2>11 DEF Descriptors, vars
    <2>12. QED
      BY <2>1, <2>2, <2>3, <2>4, <2>5, <2>6, <2>7, <2>8, <2>9, <2>10, <2>11 DEF Next
  <1>3. QED
    BY <1>1, <1>2, PTL DEF Spec

(* Only OpenSwap(c) gives the name c to an inode, and then c is past it.  *)
LEMMA FreshStep ==
  ASSUME TypeOK, Fresh, [Next]_vars
  PROVE  Fresh'
  <1> USE DEF TypeOK, Phases, Replies, Inodes, Fresh, InFlight
  <1>1. ASSUME NEW c \in Calls, OpenDropIn(c)
        PROVE  Fresh'
    BY <1>1, CallsAssumption DEF OpenDropIn, Arrives
  <1>2. ASSUME NEW c \in Calls, OpenDropInFails(c)
        PROVE  Fresh'
    BY <1>2, CallsAssumption DEF OpenDropInFails, Arrives, Return
  <1>3. ASSUME NEW c \in Calls, ReadDropIn(c)
        PROVE  Fresh'
    BY <1>3, CallsAssumption DEF ReadDropIn, SetKey
  <1>4. ASSUME NEW c \in Calls, OpenSwap(c)
        PROVE  Fresh'
    BY <1>4, CallsAssumption DEF OpenSwap
  <1>5. ASSUME NEW c \in Calls, WriteSwap(c)
        PROVE  Fresh'
    BY <1>5, CallsAssumption DEF WriteSwap, Overwrite
  <1>6. ASSUME NEW c \in Calls, WriteSwapFails(c)
        PROVE  Fresh'
    BY <1>6, CallsAssumption DEF WriteSwapFails, Return
  <1>7. ASSUME NEW c \in Calls, RenameSwap(c)
        PROVE  Fresh'
    BY <1>7, CallsAssumption DEF RenameSwap
  <1>8. ASSUME NEW c \in Calls, RenameSwapFails(c)
        PROVE  Fresh'
    BY <1>8, CallsAssumption DEF RenameSwapFails, Return
  <1>9. ASSUME NEW c \in Calls, ReplyOK(c)
        PROVE  Fresh'
    BY <1>9, CallsAssumption DEF ReplyOK, Return
  <1>10. CASE Crash
    BY <1>10, CallsAssumption DEF Crash
  <1>11. CASE UNCHANGED vars
    BY <1>11, CallsAssumption DEF vars
  <1>12. QED
    BY <1>1, <1>2, <1>3, <1>4, <1>5, <1>6, <1>7, <1>8, <1>9, <1>10, <1>11 DEF Next

(* A call arrives only while no other is running, if clients are serial. *)
LEMMA SerialStep ==
  ASSUME TypeOK, OneAtATime, [Next]_vars
  PROVE  OneAtATime'
  <1> USE DEF TypeOK, Phases, Replies, OneAtATime, InFlight
  <1>1. ASSUME NEW c \in Calls, OpenDropIn(c)
        PROVE  OneAtATime'
    BY <1>1 DEF OpenDropIn, Arrives
  <1>2. ASSUME NEW c \in Calls, OpenDropInFails(c)
        PROVE  OneAtATime'
    BY <1>2 DEF OpenDropInFails, Arrives, Return
  <1>3. ASSUME NEW c \in Calls, ReadDropIn(c)
        PROVE  OneAtATime'
    BY <1>3 DEF ReadDropIn, SetKey
  <1>4. ASSUME NEW c \in Calls, OpenSwap(c)
        PROVE  OneAtATime'
    BY <1>4 DEF OpenSwap
  <1>5. ASSUME NEW c \in Calls, WriteSwap(c)
        PROVE  OneAtATime'
    BY <1>5 DEF WriteSwap, Overwrite
  <1>6. ASSUME NEW c \in Calls, WriteSwapFails(c)
        PROVE  OneAtATime'
    BY <1>6 DEF WriteSwapFails, Return
  <1>7. ASSUME NEW c \in Calls, RenameSwap(c)
        PROVE  OneAtATime'
    BY <1>7 DEF RenameSwap
  <1>8. ASSUME NEW c \in Calls, RenameSwapFails(c)
        PROVE  OneAtATime'
    BY <1>8 DEF RenameSwapFails, Return
  <1>9. ASSUME NEW c \in Calls, ReplyOK(c)
        PROVE  OneAtATime'
    BY <1>9 DEF ReplyOK, Return
  <1>10. CASE Crash
    BY <1>10 DEF Crash
  <1>11. CASE UNCHANGED vars
    BY <1>11 DEF vars
  <1>12. QED
    BY <1>1, <1>2, <1>3, <1>4, <1>5, <1>6, <1>7, <1>8, <1>9, <1>10, <1>11 DEF Next

(* Once calls are bound to collide, they stay so until one of them fails,  *)
(* and a failure is never forgotten: calm after a step means calm before.  *)
LEMMA CalmBefore ==
  ASSUME TypeOK, Fresh, [Next]_vars, Undisturbed'
  PROVE  Undisturbed
  <1> USE DEF TypeOK, Phases, Replies, Inodes, Fresh, Undisturbed, Contended, Ended, Failures,
              Writing
  <1>1. ASSUME NEW c \in Calls, OpenDropIn(c)
        PROVE  Undisturbed
    BY <1>1, CallsAssumption DEF OpenDropIn, Arrives
  <1>2. ASSUME NEW c \in Calls, OpenDropInFails(c)
        PROVE  Undisturbed
    BY <1>2, CallsAssumption DEF OpenDropInFails, Arrives, Return
  <1>3. ASSUME NEW c \in Calls, ReadDropIn(c)
        PROVE  Undisturbed
    BY <1>3, CallsAssumption DEF ReadDropIn, SetKey
  <1>4. ASSUME NEW c \in Calls, OpenSwap(c)
        PROVE  Undisturbed
    BY <1>4, CallsAssumption DEF OpenSwap
  <1>5. ASSUME NEW c \in Calls, WriteSwap(c)
        PROVE  Undisturbed
    BY <1>5, CallsAssumption DEF WriteSwap, Overwrite
  <1>6. ASSUME NEW c \in Calls, WriteSwapFails(c)
        PROVE  Undisturbed
    BY <1>6, CallsAssumption DEF WriteSwapFails, Return
  <1>7. ASSUME NEW c \in Calls, RenameSwap(c)
        PROVE  Undisturbed
    BY <1>7, CallsAssumption DEF RenameSwap
  <1>8. ASSUME NEW c \in Calls, RenameSwapFails(c)
        PROVE  Undisturbed
    BY <1>8, CallsAssumption DEF RenameSwapFails, Return
  <1>9. ASSUME NEW c \in Calls, ReplyOK(c)
        PROVE  Undisturbed
    BY <1>9, CallsAssumption DEF ReplyOK, Return
  <1>10. CASE Crash
    BY <1>10, CallsAssumption DEF Crash
  <1>11. CASE UNCHANGED vars
    BY <1>11, CallsAssumption DEF vars
  <1>12. QED
    BY <1>1, <1>2, <1>3, <1>4, <1>5, <1>6, <1>7, <1>8, <1>9, <1>10, <1>11 DEF Next

(* What keeps the files whole: a step of serial calls, or a step before    *)
(* and after which nothing failed and no two calls are writing at once.    *)
LEMMA CleanStep ==
  ASSUME TypeOK, Fresh, OneAtATime, [Next]_vars, Clean,
         Serialized \/ (Undisturbed' /\ Undisturbed /\ LastRenameWins)
  PROVE  Clean'
  <1> USE DEF TypeOK, Phases, Inodes, InFlight, Writing, Clean, Contended, DropInIntact, Fresh
  <1>1. ASSUME NEW c \in Calls, OpenDropIn(c)
        PROVE  Clean'
    BY <1>1, CallsAssumption DEF OpenDropIn, Arrives
  <1>2. ASSUME NEW c \in Calls, OpenDropInFails(c)
        PROVE  Clean'
    BY <1>2, CallsAssumption DEF OpenDropInFails, Arrives, Return
  <1>3. ASSUME NEW c \in Calls, ReadDropIn(c)
        PROVE  Clean'
    BY <1>3, CallsAssumption DEF ReadDropIn, SetKey
  <1>4. ASSUME NEW c \in Calls, OpenSwap(c)
        PROVE  Clean'
    <2>1. \A d \in Calls : ~Writing(d)
      BY <1>4 DEF OpenSwap, OneAtATime, LastRenameWins, Undisturbed
    <2>2. swap' \in Inodes /\ swap' # NoFile /\ swap' # dropIn
      BY <1>4, CallsAssumption DEF OpenSwap
    <2>3. ASSUME NEW d \in Calls, pc'[d] = "opened"
          PROVE  fd[d] # swap'
      BY <1>4, <2>3 DEF OpenSwap
    <2>4. ~Contended'
      BY <1>4, <2>1, <2>2 DEF OpenSwap
    <2>5. DropInIntact'
      BY <1>4, <2>2 DEF OpenSwap
    <2>6. QED
      BY <1>4, <2>1, <2>2, <2>3, <2>4, <2>5 DEF OpenSwap
  <1>5. ASSUME NEW c \in Calls, WriteSwap(c)
        PROVE  Clean'
    BY <1>5, CallsAssumption DEF WriteSwap, Overwrite
  <1>6. ASSUME NEW c \in Calls, WriteSwapFails(c)
        PROVE  Clean'
    BY <1>6, CallsAssumption DEF WriteSwapFails, Return
  <1>7. ASSUME NEW c \in Calls, RenameSwap(c)
        PROVE  Clean'
    BY <1>7, CallsAssumption DEF RenameSwap
  <1>8. ASSUME NEW c \in Calls, RenameSwapFails(c)
        PROVE  Clean'
    BY <1>8, CallsAssumption DEF RenameSwapFails, Return
  <1>9. ASSUME NEW c \in Calls, ReplyOK(c)
        PROVE  Clean'
    BY <1>9, CallsAssumption DEF ReplyOK, Return
  <1>10. CASE Crash
    BY <1>10, CallsAssumption DEF Crash
  <1>11. CASE UNCHANGED vars
    BY <1>11, CallsAssumption DEF vars
  <1>12. QED
    BY <1>1, <1>2, <1>3, <1>4, <1>5, <1>6, <1>7, <1>8, <1>9, <1>10, <1>11 DEF Next

(* Undisturbed calls have renamed their own file, the last one last.       *)
LEMMA LastStep ==
  ASSUME TypeOK, Fresh, [Next]_vars, Clean, Undisturbed', LastRenameWins
  PROVE  LastRenameWins'
  <1> USE DEF TypeOK, Phases, Inodes, InFlight, Writing, Clean, Contended, DropInIntact, Fresh,
              LastRenameWins, Renamed
  <1>1. ASSUME NEW c \in Calls, OpenDropIn(c)
        PROVE  LastRenameWins'
    BY <1>1, CallsAssumption DEF OpenDropIn, Arrives
  <1>2. ASSUME NEW c \in Calls, OpenDropInFails(c)
        PROVE  LastRenameWins'
    BY <1>2, CallsAssumption DEF OpenDropInFails, Arrives, Return
  <1>3. ASSUME NEW c \in Calls, ReadDropIn(c)
        PROVE  LastRenameWins'
    BY <1>3, CallsAssumption DEF ReadDropIn, SetKey
  <1>4. ASSUME NEW c \in Calls, OpenSwap(c)
        PROVE  LastRenameWins'
    BY <1>4, CallsAssumption DEF OpenSwap
  <1>5. ASSUME NEW c \in Calls, WriteSwap(c)
        PROVE  LastRenameWins'
    BY <1>5, CallsAssumption DEF WriteSwap, Overwrite
  <1>6. ASSUME NEW c \in Calls, WriteSwapFails(c)
        PROVE  LastRenameWins'
    BY <1>6, CallsAssumption DEF WriteSwapFails, Return, Undisturbed, Ended, Failures
  <1>7. ASSUME NEW c \in Calls, RenameSwap(c)
        PROVE  LastRenameWins'
    BY <1>7, CallsAssumption DEF RenameSwap
  <1>8. ASSUME NEW c \in Calls, RenameSwapFails(c)
        PROVE  LastRenameWins'
    BY <1>8, CallsAssumption DEF RenameSwapFails, Return
  <1>9. ASSUME NEW c \in Calls, ReplyOK(c)
        PROVE  LastRenameWins'
    BY <1>9, CallsAssumption DEF ReplyOK, Return
  <1>10. CASE Crash
    BY <1>10, CallsAssumption DEF Crash, Undisturbed, Ended, Failures
  <1>11. CASE UNCHANGED vars
    BY <1>11, CallsAssumption DEF vars
  <1>12. QED
    BY <1>1, <1>2, <1>3, <1>4, <1>5, <1>6, <1>7, <1>8, <1>9, <1>10, <1>11 DEF Next

(* IInv, from which the theorems below follow, is an invariant of any      *)
(* number of interleaved calls.                                            *)
THEOREM Invariance == Spec => []IInv
  <1>1. Init => IInv
    <2> SUFFICES ASSUME Init
                 PROVE  IInv
      OBVIOUS
    <2>1. TypeOK
      BY DEF Init, TypeOK, Inodes, Contents, Empty, Phases, Replies
    <2>2. Fresh /\ OneAtATime
      BY CallsAssumption DEF Init, Fresh, OneAtATime, InFlight
    <2>3. Clean
      BY CallsAssumption DEF Init, Clean, Contended, Writing, DropInIntact, Inodes
    <2>4. LastRenameWins
      BY DEF Init, LastRenameWins, Renamed
    <2>5. QED
      BY <2>1, <2>2, <2>3, <2>4 DEF IInv
  <1>2. IInv /\ TypeOK' /\ [Next]_vars => IInv'
    <2> SUFFICES ASSUME IInv, TypeOK', [Next]_vars
                 PROVE  IInv'
      OBVIOUS
    <2>1. TypeOK /\ Fresh /\ OneAtATime
      BY DEF IInv
    <2>2. Fresh' /\ OneAtATime'
      BY <2>1, FreshStep, SerialStep
    <2>3. Undisturbed' => Undisturbed
      BY <2>1, CalmBefore
    <2>4. Serialized \/ Undisturbed' => Clean'
      BY <2>1, <2>3, CleanStep DEF IInv
    <2>5. Undisturbed' => LastRenameWins'
      BY <2>1, <2>3, LastStep DEF IInv
    <2>6. QED
      BY <2>2, <2>4, <2>5 DEF IInv
  <1>3. QED
    BY <1>1, <1>2, TypeCorrect, PTL DEF Spec

(* Calls made one at a time never let a reader of the drop-in see anything *)
(* but a whole file, whatever crashes and failed writes have left behind.  *)
THEOREM SerialCallsKeepDropInIntact ==
  ASSUME Serialized
  PROVE  Spec => []DropInIntact
  <1>1. IInv => DropInIntact
    BY DEF IInv, Clean
  <1>2. QED
    BY <1>1, Invariance, PTL

(* However many calls overlap: when all are over and none has failed, the  *)
(* drop-in is whole and has the password of a call answered with success.  *)
THEOREM CorruptionIsReported == Spec => []NoSilentCorruption
  <1>1. IInv => NoSilentCorruption
    <2> SUFFICES ASSUME IInv, Quiescent, ~Ended(Failures), Ended({"ok"})
                 PROVE  /\ DropInIntact
                        /\ \E c \in Calls :
                             reply[c] = "ok" /\ inode[dropIn].psk = {newPw[c]}
      BY DEF NoSilentCorruption, Failures
    <2>1. Undisturbed
      BY DEF Undisturbed, Contended, Quiescent, InFlight, Writing
    <2>2. DropInIntact
      BY <2>1 DEF IInv, Clean
    <2>3. PICK c \in Calls : Renamed(c) /\ inode[dropIn].psk = {newPw[c]}
      BY <2>1 DEF IInv, LastRenameWins, Ended, Renamed
    <2>4. reply[c] = "ok"
      BY <2>3 DEF Quiescent, InFlight, Renamed
    <2>5. QED
      BY <2>2, <2>3, <2>4
  <1>2. QED
    BY <1>1, Invariance, PTL

(* Calls made one at a time implement an atomic register: the rename is    *)
(* the update, and every other step changes nothing a client can see.      *)
THEOREM SerialCallsImplementStore ==
  ASSUME Serialized
  PROVE  Spec => StoreSpec
  <1> DEFINE status == [c \in Calls |-> StoreStatus(c)]
  <1>1. Init => Store!Init
    BY CallsAssumption DEF Init, Store!Init, Inodes, StoreFile, StoreStatus
  <1>2. IInv /\ IInv' /\ [Next]_vars => [Store!Next]_Store!vars
    <2> SUFFICES ASSUME IInv, IInv', [Next]_vars
                 PROVE  Store!Next \/ UNCHANGED <<StoreFile, newPw, status>>
      BY DEF Store!vars
    <2>0. TypeOK /\ Fresh /\ Clean /\ TypeOK'
      BY DEF IInv
    <2> USE <2>0, CallsAssumption DEF TypeOK, Phases, Inodes, Fresh, Clean, Return
    <2>1. ASSUME NEW c \in Calls, OpenDropIn(c)
          PROVE  UNCHANGED <<StoreFile, newPw, status>>
      BY <2>1 DEF OpenDropIn, Arrives, StoreFile, StoreStatus
    <2>2. ASSUME NEW c \in Calls, OpenDropInFails(c)
          PROVE  Store!Next
      <3>1. CASE dropIn = NoDir
        <4>1. status' = [d \in Calls |-> IF d \in {c} THEN "lost" ELSE status[d]]
          BY <2>2, <3>1 DEF OpenDropInFails, Arrives, StoreStatus
        <4>2. status[c] = "pending"
          BY <2>2 DEF OpenDropInFails, Arrives, StoreStatus
        <4>3. UNCHANGED <<StoreFile, newPw>>
          BY <2>2 DEF OpenDropInFails, StoreFile
        <4>4. Store!Disconnect
          <5>1. {c} \in SUBSET {d \in Calls : status[d] \in {"pending", "applied"}}
            BY <4>2
          <5> HIDE DEF status
          <5>2. QED
            BY <4>1, <4>3, <5>1 DEF Store!Disconnect, status
        <4>5. QED
          BY <4>4 DEF Store!Next
      <3>2. CASE dropIn # NoDir
        <4>1. status' = [status EXCEPT ![c] = "error"] /\ status[c] = "pending"
          BY <2>2, <3>2 DEF OpenDropInFails, Arrives, StoreStatus
        <4>2. Store!Reject(c)
          BY <2>2, <4>1 DEF OpenDropInFails, Store!Reject, StoreFile
        <4>3. QED
          BY <4>2 DEF Store!Next
      <3>3. QED
        BY <3>1, <3>2
    <2>3. ASSUME NEW c \in Calls, ReadDropIn(c)
          PROVE  UNCHANGED <<StoreFile, newPw, status>>
      BY <2>3 DEF ReadDropIn, StoreFile, StoreStatus
    <2>4. ASSUME NEW c \in Calls, OpenSwap(c)
          PROVE  UNCHANGED <<StoreFile, newPw, status>>
      BY <2>4 DEF OpenSwap, StoreFile, StoreStatus
    <2>5. ASSUME NEW c \in Calls, WriteSwap(c)
          PROVE  UNCHANGED <<StoreFile, newPw, status>>
      <3>1. inode'[dropIn] = inode[dropIn]
        BY <2>5 DEF WriteSwap
      <3>2. UNCHANGED StoreFile
        BY <2>5, <3>1 DEF WriteSwap, StoreFile
      <3>3. \A d \in Calls : UNCHANGED StoreStatus(d)
        BY <2>5 DEF WriteSwap, StoreStatus
      <3>4. QED
        BY <2>5, <3>2, <3>3 DEF WriteSwap
    <2>6. ASSUME NEW c \in Calls, WriteSwapFails(c)
          PROVE  Store!Reject(c)
      BY <2>6 DEF WriteSwapFails, Store!Reject, StoreFile, StoreStatus
    <2>7. ASSUME NEW c \in Calls, RenameSwap(c)
          PROVE  Store!Update(c)
      <3>1. StoreFile' = {[psk |-> {newPw[c]}, rest |-> OtherLines]}
        <4>1. inode[swap] \in Contents /\ inode[swap] = lines[c]
          BY <2>7 DEF RenameSwap
        <4>2. inode[swap] = [psk |-> {newPw[c]}, rest |-> OtherLines]
          BY <2>7, <4>1 DEF RenameSwap, Contents
        <4>3. QED
          BY <2>7, <4>2 DEF RenameSwap, StoreFile
      <3>2. StoreFile # {}
        BY <2>7 DEF RenameSwap, InFlight, StoreFile
      <3>3. status[c] = "pending"
        BY <2>7 DEF RenameSwap, StoreStatus
      <3>4. status' = [status EXCEPT ![c] = "applied"]
        BY <2>7 DEF RenameSwap, StoreStatus
      <3>5. QED
        BY <2>7, <3>1, <3>2, <3>3, <3>4 DEF RenameSwap, Store!Update
    <2>8. ASSUME NEW c \in Calls, RenameSwapFails(c)
          PROVE  Store!Reject(c)
      BY <2>8 DEF RenameSwapFails, Store!Reject, StoreFile, StoreStatus
    <2>9. ASSUME NEW c \in Calls, ReplyOK(c)
          PROVE  Store!Acknowledge(c)
      BY <2>9 DEF ReplyOK, Store!Acknowledge, StoreFile, StoreStatus
    <2>10. CASE Crash
      <3> DEFINE cut == {c \in Calls : InFlight(c)}
      <3>1. status' = [c \in Calls |-> IF c \in cut THEN "lost" ELSE status[c]]
        BY <2>10 DEF Crash, InFlight, StoreStatus
      <3>2. \A c \in cut : status[c] \in {"pending", "applied"}
        BY DEF InFlight, StoreStatus
      <3>3. UNCHANGED <<StoreFile, newPw>>
        BY <2>10 DEF Crash, StoreFile
      <3>4. Store!Disconnect
        <4>1. cut \in SUBSET {c \in Calls : status[c] \in {"pending", "applied"}}
          BY <3>2
        <4> HIDE DEF cut
        <4>2. QED
          BY <3>1, <3>3, <4>1 DEF Store!Disconnect
      <3>5. QED
        BY <3>4 DEF Store!Next
    <2>11. CASE UNCHANGED vars
      BY <2>11 DEF vars, StoreFile, StoreStatus
    <2>12. QED
      BY <2>1, <2>2, <2>3, <2>4, <2>5, <2>6, <2>7, <2>8, <2>9, <2>10, <2>11
      DEF Next, Store!Next
  <1>3. QED
    BY <1>1, <1>2, Invariance, PTL DEF Spec, StoreSpec, Store!Spec

-----------------------------------------------------------------------------
Submitted == {newPw[c] : c \in Calls}

(* A file has a password, or will have when who truncated it has written.  *)
Filled(i) ==
  \/ inode[i].psk # {}
  \/ \E c \in Calls : pc[c] = "truncated" /\ fd[c] = i

Unbroken == ~Ended({"writeError", "lost"})

(* However renames go wrong, a swap file and whatever has been renamed are *)
(* filled, as long as no write fails and no call is cut off; and a file    *)
(* made by a call never has a password from before the calls.              *)
Filling ==
  Unbroken =>
    /\ swap \in Calls \cup {NoFile}
    /\ swap # NoFile => swap # dropIn /\ Filled(swap)
    /\ (\E c \in Calls : Renamed(c)) => dropIn \in Calls /\ Filled(dropIn)
    /\ \A c \in Calls :
         /\ pc[c] = "opened" => fd[c] \in Inodes
         /\ pc[c] = "truncated" => fd[c] \in Calls
         /\ pc[c] \in {"read", "truncated"} => lines[c].psk = {newPw[c]}
         /\ inode[c].psk \subseteq Submitted \cup {Leftover}

(* A file written over another has a password if the new contents have,    *)
(* and all it has are theirs, the old contents' or spoiled.                *)
LEMMA OverwritePasswords ==
  ASSUME NEW old \in Contents, NEW new \in Contents, new.psk # {},
         NEW data \in Overwrite(old, new)
  PROVE  /\ data.psk # {}
         /\ data.psk \subseteq new.psk \cup old.psk \cup {Leftover}
  <1>1. ASSUME NEW file \in Glued(new)
        PROVE  file.psk # {} /\ file.psk \subseteq new.psk \cup {Leftover}
    BY <1>1 DEF Glued, Contents
  <1>2. ASSUME NEW file \in {new} \cup Glued(new), NEW psk \in SUBSET old.psk,
               NEW rest \in SUBSET old.rest,
               data = [psk |-> file.psk \cup psk, rest |-> file.rest \cup rest]
        PROVE  /\ data.psk # {}
               /\ data.psk \subseteq new.psk \cup old.psk \cup {Leftover}
    BY <1>1, <1>2
  <1>3. CASE data = new
    BY <1>3
  <1>4. QED
    BY <1>2, <1>3 DEF Overwrite

(* A file is emptied only by who then writes it, and the drop-in only by   *)
(* the renaming of a swap file.                                            *)
LEMMA FillingStep ==
  ASSUME TypeOK, Fresh, Filling, [Next]_vars
  PROVE  Filling'
<1> USE CallsAssumption DEF TypeOK, Phases, Replies, Inodes, Contents, Empty, Fresh, InFlight,
        Filling, Unbroken, Ended, Filled, Renamed, Submitted
<1>1. ASSUME NEW c \in Calls, OpenDropIn(c) PROVE Filling'
  BY <1>1 DEF OpenDropIn, Arrives
<1>2. ASSUME NEW c \in Calls, OpenDropInFails(c) PROVE Filling'
  BY <1>2 DEF OpenDropInFails, Arrives, Return
<1>3. ASSUME NEW c \in Calls, ReadDropIn(c) PROVE Filling'
  <2> SUFFICES ASSUME Unbroken PROVE Filling'
    BY <1>3 DEF ReadDropIn
  <2>1. inode[fd[c]] \in Contents
    BY <1>3 DEF ReadDropIn
  <2>2. lines'[c].psk = {newPw[c]}
    BY <1>3, <2>1 DEF ReadDropIn, SetKey
  <2> QED
    BY <1>3, <2>2 DEF ReadDropIn
<1>4. ASSUME NEW c \in Calls, OpenSwap(c) PROVE Filling'
  BY <1>4 DEF OpenSwap
<1>5. ASSUME NEW c \in Calls, WriteSwap(c) PROVE Filling'
  <2> SUFFICES ASSUME Unbroken PROVE Filling'
    BY <1>5 DEF WriteSwap
  <2>1. fd[c] \in Calls /\ inode[fd[c]] \in Contents /\ lines[c] \in Contents
        /\ lines[c].psk = {newPw[c]}
    BY <1>5 DEF WriteSwap
  <2>2. PICK data \in Overwrite(inode[fd[c]], lines[c]) : inode' = [inode EXCEPT ![fd[c]] = data]
    BY <1>5 DEF WriteSwap
  <2>3. data.psk # {} /\ data.psk \subseteq {newPw[c]} \cup inode[fd[c]].psk \cup {Leftover}
    <3> HIDE DEF Contents, Filling
    <3>1. ASSUME NEW old \in Contents, NEW new \in Contents, new.psk = {newPw[c]}, data \in Overwrite(old, new)
          PROVE  data.psk # {} /\ data.psk \subseteq {newPw[c]} \cup old.psk \cup {Leftover}
      <4>1. new.psk # {}
        BY <3>1
      <4> QED
        BY <3>1, <4>1, OverwritePasswords
    <3> QED
      BY <2>1, <2>2, <3>1
  <2>4. inode'[fd[c]].psk # {} /\ inode'[fd[c]].psk \subseteq Submitted \cup {Leftover}
    BY <2>1, <2>2, <2>3
  <2>5. ASSUME NEW i \in Inodes, Filled(i) PROVE Filled(i)'
    <3>1. CASE i = fd[c]
      BY <1>5, <2>4, <3>1 DEF WriteSwap
    <3>2. CASE i # fd[c]
      BY <1>5, <2>2, <2>5, <3>2 DEF WriteSwap
    <3> QED
      BY <3>1, <3>2
  <2>6. \A d \in Calls : inode'[d].psk \subseteq Submitted' \cup {Leftover}
    BY <1>5, <2>1, <2>2, <2>4 DEF WriteSwap
  <2> HIDE DEF Filled, Submitted
  <2> QED
    BY <1>5, <2>1, <2>5, <2>6 DEF WriteSwap
<1>6. ASSUME NEW c \in Calls, WriteSwapFails(c) PROVE Filling'
  BY <1>6 DEF WriteSwapFails, Return
<1>7. ASSUME NEW c \in Calls, RenameSwap(c) PROVE Filling'
  BY <1>7 DEF RenameSwap
<1>8. ASSUME NEW c \in Calls, RenameSwapFails(c) PROVE Filling'
  BY <1>8 DEF RenameSwapFails, Return
<1>9. ASSUME NEW c \in Calls, ReplyOK(c) PROVE Filling'
  BY <1>9 DEF ReplyOK, Return
<1>10. CASE Crash
  BY <1>10 DEF Crash
<1>11. CASE UNCHANGED vars
  BY <1>11 DEF vars
<1> QED
  BY <1>1, <1>2, <1>3, <1>4, <1>5, <1>6, <1>7, <1>8, <1>9, <1>10, <1>11 DEF Next

(* Even unrestricted concurrent calls leave a password in the drop-in and  *)
(* none from before them, once one has succeeded and no write has failed   *)
(* or been cut off.                                                        *)
THEOREM OldPasswordGoes == Spec => []PasswordIsReplaced
<1>1. Init => Filling
  BY CallsAssumption DEF Init, Filling, Renamed, Inodes, Empty
<1>2. IInv /\ Filling /\ [Next]_vars => Filling'
  BY FillingStep DEF IInv
<1>3. Filling => PasswordIsReplaced
  BY DEF Filling, PasswordIsReplaced, Unbroken, Ended, Renamed, Filled, Quiescent, InFlight, Submitted
<1> QED
  BY <1>1, <1>2, <1>3, Invariance, PTL DEF Spec
=============================================================================
