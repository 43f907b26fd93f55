------------------------------ MODULE CharDriver ------------------------------
(***************************************************************************)
(* The ram disk of hw5/char_driver.c: lseek, read, write and the clearing  *)
(* ioctl, by threads of which several may share an open file.              *)
(*                                                                         *)
(* The kernel hands mycdrv_read and mycdrv_write a copy of the file's      *)
(* position and stores it back when they return, with no lock for a        *)
(* character device; lseek and the ioctl set the position in the file.     *)
(* The bytes themselves are not modelled, only which of them a call copies.*)
(* A position, a loff_t, is at most MaxPosition; a length, a size_t, and   *)
(* the sum of the two are unsigned and have one bit more.                  *)
(***************************************************************************)
EXTENDS Integers

CONSTANTS Threads, Files, Devices,
          FileOf,       \* the file of each thread
          DeviceOf,     \* the device of each file
          ramdisk_size,
          MaxPosition,
          Lengths,      \* what is read and written; the kernel cuts longer requests
          Offsets       \* what is sought

Positions == 0..MaxPosition
SizeRange == 2 * (MaxPosition + 1)

ASSUME CharDriverAssumption ==
  /\ FileOf \in [Threads -> Files] /\ DeviceOf \in [Files -> Devices]
  /\ MaxPosition \in Nat
  /\ ramdisk_size \in Positions
  /\ Lengths \subseteq Positions
  /\ Offsets \subseteq (Positions \cup {-p : p \in Positions})

VARIABLES sem,     \* of each device
          f_pos,   \* of each file
          pc,      \* of each thread: "user", "down", "copy", "back"
          lbuf, ppos,
          covered, \* history: the bytes that calls on each file copied
          sought   \* history: the files whose position lseek set

vars == <<sem, f_pos, pc, lbuf, ppos, covered, sought>>
Dev(t) == DeviceOf[FileOf[t]]

\* my_init, and the opening of the files.
Init ==
  /\ sem = [d \in Devices |-> 1]
  /\ f_pos = [f \in Files |-> 0]
  /\ pc = [t \in Threads |-> "user"]
  /\ lbuf = [t \in Threads |-> 0] /\ ppos = [t \in Threads |-> 0]
  /\ covered = [f \in Files |-> {}] /\ sought = {}

\* down_interruptible, whose result is ignored: a thread that a signal interrupts
\* while it waits goes on without the semaphore, and ups it all the same.
Down(d) == sem' = [sem EXCEPT ![d] = IF @ > 0 THEN @ - 1 ELSE 0]
DownUp(d) == sem' = [sem EXCEPT ![d] = IF @ > 0 THEN @ ELSE 1]

GoTo(t, place) == pc' = [pc EXCEPT ![t] = place]

-----------------------------------------------------------------------------
(* Reading and writing *)

\* vfs_read and vfs_write: the position is copied, and an end that a position
\* cannot have is refused.
Begin(t) ==
  /\ pc[t] = "user"
  /\ \E n \in Lengths :
       /\ f_pos[FileOf[t]] + n \in Positions
       /\ lbuf' = [lbuf EXCEPT ![t] = n]
  /\ ppos' = [ppos EXCEPT ![t] = f_pos[FileOf[t]]]
  /\ GoTo(t, "down")
  /\ UNCHANGED <<sem, f_pos, covered, sought>>

\* A variant that tests where the request begins.
BeginsPastEnd(t) == ppos[t] > ramdisk_size

\* Lines 87 and 104, in unsigned arithmetic.
PastEnd(t) == (lbuf[t] + ppos[t]) % SizeRange > ramdisk_size

Refuse(t) ==
  /\ pc[t] = "down" /\ PastEnd(t)
  /\ DownUp(Dev(t))
  /\ GoTo(t, "back")
  /\ UNCHANGED <<f_pos, lbuf, ppos, covered, sought>>

BeginCopy(t) ==
  /\ pc[t] = "down" /\ ~PastEnd(t)
  /\ Down(Dev(t))
  /\ GoTo(t, "copy")
  /\ UNCHANGED <<f_pos, lbuf, ppos, covered, sought>>

\* A variant that advances the position by what was asked for.
EndCopyAsAsked(t) ==
  /\ pc[t] = "copy"
  /\ \E n \in 0..lbuf[t] :
       covered' = [covered EXCEPT ![FileOf[t]] = @ \cup ppos[t]..(ppos[t] + n - 1)]
  /\ ppos' = [ppos EXCEPT ![t] = @ + lbuf[t]]
  /\ sem' = [sem EXCEPT ![Dev(t)] = @ + 1]
  /\ GoTo(t, "back")
  /\ UNCHANGED <<f_pos, lbuf, sought>>

\* copy_to_user or copy_from_user may stop short.
EndCopy(t) ==
  /\ pc[t] = "copy"
  /\ \E n \in 0..lbuf[t] :
       /\ covered' = [covered EXCEPT ![FileOf[t]] = @ \cup ppos[t]..(ppos[t] + n - 1)]
       /\ ppos' = [ppos EXCEPT ![t] = @ + n]
  /\ sem' = [sem EXCEPT ![Dev(t)] = @ + 1]
  /\ GoTo(t, "back")
  /\ UNCHANGED <<f_pos, lbuf, sought>>

\* The kernel stores the position, as it was if the request was refused.
Back(t) ==
  /\ pc[t] = "back"
  /\ f_pos' = [f_pos EXCEPT ![FileOf[t]] = ppos[t]]
  /\ lbuf' = [lbuf EXCEPT ![t] = 0] /\ ppos' = [ppos EXCEPT ![t] = 0]
  /\ GoTo(t, "user")
  /\ UNCHANGED <<sem, covered, sought>>

-----------------------------------------------------------------------------
(* Seeking and clearing *)

Signed(n) == IF n > MaxPosition THEN n - SizeRange ELSE n

\* The position that mycdrv_lseek computes, for SEEK_SET, SEEK_CUR and SEEK_END.
NewPositions(t) ==
  {Signed(base + offset) : base \in {0, f_pos[FileOf[t]], ramdisk_size}, offset \in Offsets}

SoughtPositions(t) == NewPositions(t) \cap Positions

\* A position below 0 is refused.
Seek(t) ==
  /\ pc[t] = "user"
  /\ DownUp(Dev(t))
  /\ \/ \E pos \in SoughtPositions(t) :
          f_pos' = [f_pos EXCEPT ![FileOf[t]] = pos] /\ sought' = sought \cup {FileOf[t]}
     \/ UNCHANGED <<f_pos, sought>>
  /\ UNCHANGED <<pc, lbuf, ppos, covered>>

\* ASP_CLEAR_BUF.
Clear(t) ==
  /\ pc[t] = "user"
  /\ DownUp(Dev(t))
  /\ f_pos' = [f_pos EXCEPT ![FileOf[t]] = 0]
  /\ UNCHANGED <<pc, lbuf, ppos, covered, sought>>

-----------------------------------------------------------------------------
Next == \E t \in Threads :
  Begin(t) \/ Refuse(t) \/ BeginCopy(t) \/ EndCopy(t) \/ Back(t) \/ Seek(t) \/ Clear(t)

Spec == Init /\ [][Next]_vars

-----------------------------------------------------------------------------
(* Properties *)

\* A copy stays within the ram disk, wherever the position was set, whatever other
\* threads do to it while the call waits, and with or without the semaphore.
InBounds ==
  \A t \in Threads : pc[t] = "copy" => ppos[t] >= 0 /\ ppos[t] + lbuf[t] <= ramdisk_size

\* Threads that share a file may be given the same bytes twice, and a clearing may be
\* undone, but while nobody seeks no byte is passed over: every byte before the
\* position, and before where a call will put it, was copied by a call on the file.
NoSkip ==
  \A f \in Files \ sought :
    /\ 0..(f_pos[f] - 1) \subseteq covered[f]
    /\ \A t \in Threads : FileOf[t] = f => 0..(ppos[t] - 1) \subseteq covered[f]
=============================================================================
