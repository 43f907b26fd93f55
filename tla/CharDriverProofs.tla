-------------------------- MODULE CharDriverProofs --------------------------
(***************************************************************************)
(* The ram disk of hw5/char_driver.c, for every number of threads, files   *)
(* and devices, every size of the disk and every width of a position.      *)
(***************************************************************************)
EXTENDS CharDriver, TLAPS

(* The inductive invariant *)

CharTypes ==
  /\ f_pos \in [Files -> Positions]
  /\ pc \in [Threads -> {"user", "down", "copy", "back"}]
  /\ lbuf \in [Threads -> Positions] /\ ppos \in [Threads -> Positions]
  /\ covered \in [Files -> SUBSET Int]

\* Until a request has been copied it ends at a position, as the kernel made sure:
\* the sum that the driver compares with the size has not wrapped.
RequestFits ==
  \A t \in Threads : pc[t] \in {"down", "copy"} => ppos[t] + lbuf[t] \in Positions

CharInv == CharTypes /\ RequestFits /\ InBounds /\ NoSkip

-----------------------------------------------------------------------------
(* The invariant is inductive *)

\* A request that the driver goes on with ends within the disk: the unsigned sum
\* is the sum.
LEMMA NotPastEnd ==
  ASSUME CharTypes, RequestFits, NEW t \in Threads, pc[t] = "down", ~PastEnd(t)
  PROVE  ppos[t] + lbuf[t] <= ramdisk_size
<1>1. lbuf[t] + ppos[t] \in 0 .. MaxPosition /\ ppos[t] + lbuf[t] = lbuf[t] + ppos[t]
  BY CharDriverAssumption DEF CharTypes, RequestFits, Positions
<1> DEFINE x == lbuf[t] + ppos[t]
<1>2. x % SizeRange = x
  <2> HIDE DEF x
  <2>1. x \in 0 .. SizeRange - 1 /\ SizeRange \in Nat \ {0}
    BY <1>1, CharDriverAssumption DEF SizeRange, x
  <2> QED
    BY <2>1
<1> QED
  BY <1>1, <1>2, CharDriverAssumption DEF PastEnd, Positions

\* Nothing has been asked for.
LEMMA CharInvInit == Init => CharInv
<1> SUFFICES ASSUME Init PROVE CharInv
  OBVIOUS
<1> USE CharDriverAssumption DEF Init
<1>1. CharTypes
  BY DEF CharTypes, Positions
<1>2. RequestFits /\ InBounds
  BY DEF RequestFits, InBounds
<1>3. NoSkip
  BY DEF NoSkip
<1> QED
  BY <1>1, <1>2, <1>3 DEF CharInv

\* The position is copied as it is.
LEMMA BeginKeeps ==
  ASSUME CharInv, NEW t \in Threads, Begin(t)
  PROVE  CharInv'
<1> USE CharDriverAssumption DEF CharInv, CharTypes, Begin, GoTo
<1>1. PICK n \in Lengths :
        f_pos[FileOf[t]] + n \in Positions /\ lbuf' = [lbuf EXCEPT ![t] = n]
  OBVIOUS
<1>2. CharTypes'
  BY <1>1
<1>3. RequestFits'
  BY <1>1 DEF RequestFits
<1>4. InBounds'
  BY <1>1 DEF InBounds
<1>5. NoSkip'
  BY DEF NoSkip
<1> QED
  BY <1>2, <1>3, <1>4, <1>5

\* A refusal copies nothing and leaves the position to be stored back.
LEMMA RefuseKeeps ==
  ASSUME CharInv, NEW t \in Threads, Refuse(t)
  PROVE  CharInv'
  BY DEF CharInv, CharTypes, RequestFits, InBounds, NoSkip, Refuse, GoTo

\* The copy begins within the disk.
LEMMA BeginCopyKeeps ==
  ASSUME CharInv, NEW t \in Threads, BeginCopy(t)
  PROVE  CharInv'
<1> USE DEF CharInv, CharTypes, BeginCopy, GoTo
<1>1. CharTypes' /\ RequestFits' /\ NoSkip'
  BY DEF RequestFits, NoSkip
<1>2. ppos[t] + lbuf[t] <= ramdisk_size
  BY NotPastEnd
<1>3. InBounds'
  BY <1>2 DEF InBounds, Positions
<1> QED
  BY <1>1, <1>3

\* The position of the call advances by what the call has copied.
LEMMA EndCopyKeeps ==
  ASSUME CharInv, NEW t \in Threads, EndCopy(t)
  PROVE  CharInv'
<1> USE CharDriverAssumption DEF CharInv, CharTypes, EndCopy, GoTo
<1> DEFINE f == FileOf[t]
<1>1. PICK n \in 0 .. lbuf[t] :
        /\ covered' = [covered EXCEPT ![f] = @ \cup ppos[t] .. (ppos[t] + n - 1)]
        /\ ppos' = [ppos EXCEPT ![t] = @ + n]
  OBVIOUS
<1>2. f \in Files /\ ppos[t] \in Nat /\ lbuf[t] \in Nat /\ MaxPosition \in Nat
  <2>1. f \in Files
    OBVIOUS
  <2>2. ppos[t] \in Positions /\ lbuf[t] \in Positions
    OBVIOUS
  <2> QED
    BY <2>1, <2>2 DEF Positions
<1>3. ppos[t] + n \in Positions
  BY <1>1, <1>2 DEF RequestFits, Positions
<1>4. CharTypes'
  <2>1. covered' \in [Files -> SUBSET Int]
    <3>1. ppos[t] .. (ppos[t] + n - 1) \subseteq Int
      BY <1>2
    <3> QED
      BY <1>1, <1>2, <3>1
  <2> QED
    BY <1>1, <1>3, <2>1
<1>5. RequestFits' /\ InBounds'
  BY <1>1 DEF RequestFits, InBounds
<1>6. NoSkip'
  <2> SUFFICES ASSUME NEW g \in Files \ sought
               PROVE  /\ 0 .. (f_pos[g] - 1) \subseteq covered'[g]
                      /\ \A u \in Threads :
                           FileOf[u] = g => 0 .. (ppos'[u] - 1) \subseteq covered'[g]
    BY DEF NoSkip
  <2>1. covered[g] \subseteq covered'[g]
    BY <1>1, <1>2
  <2>2. ASSUME f = g
        PROVE  0 .. (ppos[t] + n - 1) \subseteq covered'[g]
    <3>1. 0 .. (ppos[t] - 1) \subseteq covered[g]
      BY <2>2 DEF NoSkip
    <3>2. ppos[t] .. (ppos[t] + n - 1) \subseteq covered'[g]
      BY <1>1, <1>2, <2>2
    <3>3. \A b \in 0 .. (ppos[t] + n - 1) :
            b \in 0 .. (ppos[t] - 1) \/ b \in ppos[t] .. (ppos[t] + n - 1)
      BY <1>2
    <3> QED
      BY <2>1, <3>1, <3>2, <3>3
  <2>3. ASSUME NEW u \in Threads, FileOf[u] = g
        PROVE  0 .. (ppos'[u] - 1) \subseteq covered'[g]
    <3>1. CASE u = t
      <4>1. f = g /\ ppos'[u] = ppos[t] + n
        BY <1>1, <2>3, <3>1
      <4>2. 0 .. (ppos[t] + n - 1) \subseteq covered'[g]
        BY <2>2, <4>1
      <4> QED
        BY <1>2, <4>1, <4>2
    <3>2. CASE u # t
      BY <1>1, <2>1, <2>3, <3>2 DEF NoSkip
    <3> QED
      BY <3>1, <3>2
  <2> QED
    BY <2>1, <2>3 DEF NoSkip
<1> QED
  BY <1>4, <1>5, <1>6

\* What is stored in the file is where the call has copied up to.
LEMMA BackKeeps ==
  ASSUME CharInv, NEW t \in Threads, Back(t)
  PROVE  CharInv'
<1> USE CharDriverAssumption DEF CharInv, CharTypes, Back, GoTo
<1>1. CharTypes'
  <2>1. FileOf[t] \in Files
    OBVIOUS
  <2>2. ppos[t] \in Positions
    OBVIOUS
  <2>3. 0 \in Positions
    BY DEF Positions
  <2> QED
    BY <2>1, <2>2, <2>3
<1>2. RequestFits' /\ InBounds'
  BY DEF RequestFits, InBounds
<1>3. NoSkip'
  BY DEF NoSkip
<1> QED
  BY <1>1, <1>2, <1>3

\* A position that is set is one that a position can have, and the file is sought.
LEMMA SeekKeeps ==
  ASSUME CharInv, NEW t \in Threads, Seek(t)
  PROVE  CharInv'
<1> USE CharDriverAssumption DEF CharInv, CharTypes, Seek
<1>1. CharTypes'
  BY DEF SoughtPositions
<1>2. RequestFits' /\ InBounds'
  BY DEF RequestFits, InBounds
<1>3. NoSkip'
  BY DEF NoSkip
<1> QED
  BY <1>1, <1>2, <1>3

\* No byte lies before position 0.
LEMMA ClearKeeps ==
  ASSUME CharInv, NEW t \in Threads, Clear(t)
  PROVE  CharInv'
<1> USE CharDriverAssumption DEF CharInv, CharTypes, Clear
<1>1. CharTypes'
  BY DEF Positions
<1>2. RequestFits' /\ InBounds'
  BY DEF RequestFits, InBounds
<1>3. NoSkip'
  BY DEF NoSkip
<1> QED
  BY <1>1, <1>2, <1>3

\* The invariant is inductive.
LEMMA CharInvNext == CharInv /\ [Next]_vars => CharInv'
<1> SUFFICES ASSUME CharInv, [Next]_vars PROVE CharInv'
  OBVIOUS
<1>1. CASE UNCHANGED vars
  BY <1>1 DEF vars, CharInv, CharTypes, RequestFits, InBounds, NoSkip
<1>2. CASE Next
  BY <1>2, BeginKeeps, RefuseKeeps, BeginCopyKeeps, EndCopyKeeps, BackKeeps, SeekKeeps,
     ClearKeeps DEF Next
<1> QED
  BY <1>1, <1>2

\* No call of mycdrv_read or mycdrv_write copies outside the ram disk, although
\* down_interruptible may fail and the position may be set while the call waits.
THEOREM CharInBounds == Spec => []InBounds
<1>1. CharInv => InBounds
  BY DEF CharInv
<1> QED
  BY <1>1, CharInvInit, CharInvNext, PTL DEF Spec

\* While nobody seeks in a file, every byte before its position, and before the
\* position a call will store, was copied by a call on the file.
THEOREM CharNoSkip == Spec => []NoSkip
<1>1. CharInv => NoSkip
  BY DEF CharInv
<1> QED
  BY <1>1, CharInvInit, CharInvNext, PTL DEF Spec
=============================================================================
