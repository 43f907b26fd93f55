--------------------------- MODULE E2DeviceProofs ---------------------------
(***************************************************************************)
(* The device of hw6/assignment6.c, for every number of processes, of      *)
(* threads, of files and every way in which the processes have the         *)
(* threads, while no signal interrupts a wait.                             *)
(***************************************************************************)
EXTENDS E2Device, FiniteSetTheorems, TLAPS

(* The inductive invariant *)

\* The three summands of Counts.
Opened == Cardinality(OpenFiles)
Admitting == Cardinality(AdmittingThreads)
Leaving == Cardinality(LeavingThreads)

OnFile == {"read", "write", MODE1, MODE2}

Types ==
  /\ sem1 \in 0 .. 1 /\ sem2 \in 0 .. 1
  /\ count1 \in Nat /\ count2 \in Int
  /\ mode \in Modes
  /\ ProcessOf \in Sharings
  /\ files \in [Processes -> Nat]
  /\ pc \in [Threads -> Places]
  /\ op \in [Threads -> Calls \cup {"none"}]

\* Which calls come to a place.
CallsOK ==
  \A t \in Threads :
    /\ pc[t] = "user" <=> op[t] = "none"
    /\ pc[t] \in {"openUp", "openDown2"} => op[t] = "open"
    /\ pc[t] = "releaseUp2" => op[t] = "release"
    /\ pc[t] \in {"startCopy", "copy", "copyLocked"} => op[t] \in Transfers
    /\ pc[t] \in {"upAndWait", "waitEvent", "asleep", "relock"} => op[t] \in Modes
    /\ pc[t] = "up2" => op[t] = MODE2
    /\ pc[t] = "down2" => op[t] = MODE1

\* The places between a down and an up of sem1.
Held1 == {"openUp", "releaseUp2", "startCopy", "copyLocked", "upAndWait", "up2", "down2",
          "up1"}

Sem1Held ==
  /\ \A t, u \in Threads : pc[t] \in Held1 /\ pc[u] \in Held1 => t = u
  /\ sem1 = 0 <=> \E t \in Threads : pc[t] \in Held1

\* The kernel keeps a file open during the calls on it, and a process that has
\* files has a thread; no more files are open and opened than MaxFiles.
FilesHeld ==
  /\ \A t \in Threads : op[t] \in OnFile => files[ProcessOf[t]] > 0
  /\ \A p \in Processes : files[p] > 0 => \E t \in Threads : ProcessOf[t] = p
FilesBounded ==
  \A p \in Processes : files[p] + Cardinality(InCall(p, {"open"})) <= MaxFiles

\* The mode does not change under sem1, nor while a file waits for sem2.
ModeAt ==
  \A t \in Threads :
    /\ pc[t] \in {"openUp", "openDown2", "releaseUp2", "startCopy", "down2"} => mode = MODE1
    /\ pc[t] \in {"copyLocked", "up2"} => mode = MODE2
    /\ pc[t] = "up1" /\ op[t] = "open" => mode = MODE2

\* Who has sem2.  In MODE1 it is the only file that is open or closed and not
\* yet taken off; in MODE2 nobody has it; in between it is on its way.
Sem2Held ==
  /\ \A t \in Threads :
       /\ pc[t] = "releaseUp2" => sem2 = 0 /\ Opened + Leaving = 0
       /\ pc[t] = "down2" =>
            \/ SwitchedTwice /\ Opened + Leaving = 1
            \/ sem2 = 1 /\ count1 = 1 /\ count2 = 0 /\ Opened + Leaving = 1
       /\ pc[t] = "up2" => sem2 = 0
  /\ mode = MODE1 /\ (\A t \in Threads : pc[t] \notin {"releaseUp2", "down2"}) =>
       sem2 + Opened + Leaving = 1
  /\ mode = MODE2 /\ (\A t \in Threads : pc[t] # "up2") => sem2 = 1

\* A thread that waits for MODE2 waits for an open that waits for the thread's own
\* file, and never gets further.  One that waits for MODE1 is counted, unless
\* another thread of its process has switched for it.
WaitOK(t) ==
  /\ op[t] = MODE2 =>
       /\ pc[t] # "relock"
       /\ pc[t] \in {"upAndWait", "waitEvent", "asleep"} => mode = MODE1 /\ count1 > 1
  /\ op[t] = MODE1 /\ ~Sharing(t) =>
       /\ pc[t] \in {"upAndWait", "asleep"} => count2 > 1
       /\ pc[t] \in {"waitEvent", "relock"} => count2 > 0
WaitsOK == \A t \in Threads : WaitOK(t)

\* Only another thread of the process can switch during a copy begun in MODE1.
CopiesOK ==
  \A t \in Threads : pc[t] = "copy" /\ ~Sharing(t) => mode = MODE1

DeviceInv ==
  /\ Types /\ CallsOK
  /\ Sem1Held
  /\ FilesHeld /\ FilesBounded
  /\ ModeAt
  /\ Sem2Held
  /\ CountsAgree
  /\ WaitsOK
  /\ CopiesOK

-----------------------------------------------------------------------------
(* The counts *)

\* Two sets that differ by one member at most.
LEMMA CardChange ==
  ASSUME NEW A, NEW B, IsFiniteSet(A), NEW t, A \ {t} = B \ {t}
  PROVE  /\ Cardinality(A) \in Nat /\ Cardinality(B) \in Nat
         /\ t \in A => Cardinality(A) > 0
         /\ (t \in A <=> t \in B) => Cardinality(B) = Cardinality(A)
         /\ t \in A /\ t \notin B => Cardinality(B) = Cardinality(A) - 1
         /\ t \notin A /\ t \in B => Cardinality(B) = Cardinality(A) + 1
<1> DEFINE C == A \ {t}
<1>1. IsFiniteSet(C) /\ Cardinality(C) \in Nat /\ Cardinality(C \cup {t}) = Cardinality(C) + 1
  BY FS_Subset, FS_CardinalityType, FS_AddElement
<1>2. A = IF t \in A THEN C \cup {t} ELSE C
  OBVIOUS
<1>3. B = IF t \in B THEN C \cup {t} ELSE C
  OBVIOUS
<1> HIDE DEF C
<1>4. Cardinality(A) = IF t \in A THEN Cardinality(C) + 1 ELSE Cardinality(C)
  BY <1>1, <1>2
<1>5. Cardinality(B) = IF t \in B THEN Cardinality(C) + 1 ELSE Cardinality(C)
  BY <1>1, <1>3
<1> QED
  BY <1>1, <1>4, <1>5

\* The threads and the files are finitely many.
LEMMA CountsFinite ==
  /\ IsFiniteSet(OpenFiles) /\ Opened \in Nat
  /\ IsFiniteSet(AdmittingThreads) /\ Admitting \in Nat
  /\ IsFiniteSet(LeavingThreads) /\ Leaving \in Nat
  /\ Counts = Opened + Admitting + Leaving
<1>1. IsFiniteSet(Processes \X (1 .. MaxFiles))
  <2>1. IsFiniteSet(1 .. MaxFiles) /\ IsFiniteSet(Processes)
    BY FS_Interval, DeviceAssumption
  <2> QED
    BY <2>1, FS_Product
<1>2. IsFiniteSet(OpenFiles)
  <2>1. OpenFiles \subseteq Processes \X (1 .. MaxFiles)
    BY DEF OpenFiles
  <2> QED
    BY <1>1, <2>1, FS_Subset
<1>3. IsFiniteSet(AdmittingThreads) /\ IsFiniteSet(LeavingThreads)
  BY FS_Subset, DeviceAssumption DEF AdmittingThreads, LeavingThreads
<1> QED
  BY <1>2, <1>3, FS_CardinalityType
     DEF Opened, Admitting, Leaving, Counts, OpenFiles, AdmittingThreads, LeavingThreads

\* A thread that is admitted or leaves is counted; what is counted exists.
LEMMA CountedThreads ==
  /\ \A t \in Threads : op[t] = "open" /\ pc[t] \in {"openUp", "openDown2", "up1"}
       => Admitting > 0
  /\ \A t \in Threads : op[t] = "release" /\ pc[t] = "down1" => Leaving > 0
  /\ Admitting > 0 => AdmittingThreads # {}
  /\ Leaving > 0 => LeavingThreads # {}
<1>1. \A t \in AdmittingThreads : Admitting > 0
  BY CountsFinite, CardChange DEF Admitting
<1>2. \A t \in LeavingThreads : Leaving > 0
  BY CountsFinite, CardChange DEF Leaving
<1> QED
  BY <1>1, <1>2, FS_EmptySet DEF AdmittingThreads, LeavingThreads, Admitting, Leaving

\* The files of a process are counted, as many as they are.
LEMMA CountedFiles ==
  ASSUME Types, \A p \in Processes : files[p] <= MaxFiles
  PROVE  /\ \A p \in Processes : files[p] > 0 => Opened > 0
         /\ \A p, q \in Processes : p # q /\ files[p] > 0 /\ files[q] > 0 => Opened > 1
         /\ \A p \in Processes : files[p] > 1 => Opened > 1
         /\ Opened > 0 => \E p \in Processes : files[p] > 0
<1>1. \A p \in Processes : files[p] \in Nat
  BY DEF Types
<1>2. \A x \in OpenFiles : Opened > 0
  BY CountsFinite, CardChange DEF Opened
<1>3. ASSUME NEW x \in OpenFiles, NEW y \in OpenFiles, x # y
      PROVE  Opened > 1
  <2> DEFINE B == OpenFiles \ {x}
  <2>1. OpenFiles \ {x} = B \ {x} /\ x \notin B
    OBVIOUS
  <2>2. Cardinality(B) = Opened - 1
    BY <2>1, CountsFinite, CardChange DEF Opened
  <2>3. IsFiniteSet(B) /\ y \in B
    BY <1>3, CountsFinite, FS_Subset
  <2>4. Cardinality(B) > 0
    BY <2>3, CardChange
  <2> QED
    BY <2>2, <2>4, CountsFinite
<1>4. \A p \in Processes : files[p] > 0 => <<p, 1>> \in OpenFiles
  BY <1>1, DeviceAssumption DEF OpenFiles
<1>5. \A p \in Processes : files[p] > 1 => <<p, 2>> \in OpenFiles
  BY <1>1, DeviceAssumption DEF OpenFiles
<1>6. \A p \in Processes : files[p] > 0 => Opened > 0
  BY <1>2, <1>4
<1>7. \A p, q \in Processes : p # q /\ files[p] > 0 /\ files[q] > 0 => Opened > 1
  BY <1>3, <1>4
<1>8. \A p \in Processes : files[p] > 1 => Opened > 1
  <2> SUFFICES ASSUME NEW p \in Processes, files[p] > 1 PROVE Opened > 1
    OBVIOUS
  <2>1. <<p, 1>> \in OpenFiles /\ <<p, 2>> \in OpenFiles /\ <<p, 1>> # <<p, 2>>
    BY <1>1, <1>4, <1>5
  <2> QED
    BY <1>3, <2>1
<1>9. Opened > 0 => \E p \in Processes : files[p] > 0
  <2> SUFFICES ASSUME Opened > 0 PROVE \E p \in Processes : files[p] > 0
    OBVIOUS
  <2>1. OpenFiles # {}
    BY FS_EmptySet DEF Opened
  <2>2. PICK p \in Processes, i \in 1 .. MaxFiles : i <= files[p]
    BY <2>1 DEF OpenFiles
  <2> QED
    BY <1>1, <2>2
<1> QED
  BY <1>6, <1>7, <1>8, <1>9

\* One file more, and one file less.
LEMMA FileOpened ==
  ASSUME Types, NEW p \in Processes, files[p] < MaxFiles,
         files' = [files EXCEPT ![p] = @ + 1]
  PROVE  Opened' = Opened + 1
<1> DEFINE x == <<p, files[p] + 1>>
<1>1. \A q \in Processes : files[q] \in Nat
  BY DEF Types
<1>2. \A q \in Processes : files'[q] = IF q = p THEN files[q] + 1 ELSE files[q]
  BY DEF Types
<1>3. x \in OpenFiles' /\ x \notin OpenFiles
  BY <1>1, <1>2, DeviceAssumption DEF OpenFiles
<1>4. \A q \in Processes, i \in 1 .. MaxFiles :
        <<q, i>> # x => (i <= files[q] <=> i <= files'[q])
  BY <1>1, <1>2
<1>5. OpenFiles \ {x} = OpenFiles' \ {x}
  BY <1>4 DEF OpenFiles
<1> HIDE DEF x
<1>6. Cardinality(OpenFiles') = Cardinality(OpenFiles) + 1
  BY <1>3, <1>5, CountsFinite, CardChange
<1> QED
  BY <1>6 DEF Opened

LEMMA FileClosed ==
  ASSUME Types, NEW p \in Processes, files[p] > 0, files[p] <= MaxFiles,
         files' = [files EXCEPT ![p] = @ - 1]
  PROVE  Opened' = Opened - 1
<1> DEFINE x == <<p, files[p]>>
<1>1. \A q \in Processes : files[q] \in Nat
  BY DEF Types
<1>2. \A q \in Processes : files'[q] = IF q = p THEN files[q] - 1 ELSE files[q]
  BY DEF Types
<1>3. x \notin OpenFiles' /\ x \in OpenFiles
  BY <1>1, <1>2, DeviceAssumption DEF OpenFiles
<1>4. \A q \in Processes, i \in 1 .. MaxFiles :
        <<q, i>> # x => (i <= files[q] <=> i <= files'[q])
  BY <1>1, <1>2
<1>5. OpenFiles \ {x} = OpenFiles' \ {x}
  BY <1>4 DEF OpenFiles
<1> HIDE DEF x
<1>6. Cardinality(OpenFiles') = Cardinality(OpenFiles) - 1
  BY <1>3, <1>5, CountsFinite, CardChange
<1> QED
  BY <1>6 DEF Opened

\* A step of t leaves the other threads where they are, or wakes them.
OthersStay(t) ==
  \A u \in Threads : u # t =>
    /\ op'[u] = op[u]
    /\ pc'[u] = pc[u] \/ (pc[u] = "asleep" /\ pc'[u] = "waitEvent")

Admits(t) == op[t] = "open" /\ pc[t] \in {"openUp", "openDown2", "up1"}
Leaves(t) == op[t] = "release" /\ pc[t] = "down1"

\* Such a step changes the number of threads admitted and of those that leave by t.
LEMMA ThreadsCounted ==
  ASSUME NEW t \in Threads, OthersStay(t)
  PROVE  /\ (Admits(t) <=> Admits(t)') => Admitting' = Admitting
         /\ Admits(t) /\ ~Admits(t)' => Admitting' = Admitting - 1
         /\ ~Admits(t) /\ Admits(t)' => Admitting' = Admitting + 1
         /\ (Leaves(t) <=> Leaves(t)') => Leaving' = Leaving
         /\ Leaves(t) /\ ~Leaves(t)' => Leaving' = Leaving - 1
         /\ ~Leaves(t) /\ Leaves(t)' => Leaving' = Leaving + 1
<1>1. AdmittingThreads \ {t} = AdmittingThreads' \ {t}
  BY DEF AdmittingThreads, OthersStay
<1>2. LeavingThreads \ {t} = LeavingThreads' \ {t}
  BY DEF LeavingThreads, OthersStay
<1>3. /\ (t \in AdmittingThreads <=> Admits(t)) /\ (t \in AdmittingThreads' <=> Admits(t)')
      /\ (t \in LeavingThreads <=> Leaves(t)) /\ (t \in LeavingThreads' <=> Leaves(t)')
  BY DEF AdmittingThreads, LeavingThreads, Admits, Leaves
<1>4. /\ (t \in AdmittingThreads <=> t \in AdmittingThreads') => Admitting' = Admitting
      /\ t \in AdmittingThreads /\ t \notin AdmittingThreads' => Admitting' = Admitting - 1
      /\ t \notin AdmittingThreads /\ t \in AdmittingThreads' => Admitting' = Admitting + 1
  BY <1>1, CountsFinite, CardChange DEF Admitting
<1>5. /\ (t \in LeavingThreads <=> t \in LeavingThreads') => Leaving' = Leaving
      /\ t \in LeavingThreads /\ t \notin LeavingThreads' => Leaving' = Leaving - 1
      /\ t \notin LeavingThreads /\ t \in LeavingThreads' => Leaving' = Leaving + 1
  BY <1>2, CountsFinite, CardChange DEF Leaving
<1> QED
  BY <1>3, <1>4, <1>5

-----------------------------------------------------------------------------
(* What the invariant says of a state *)

\* No process has more files than MaxFiles.
LEMMA FilesAtMost == FilesBounded /\ Types => \A p \in Processes : files[p] <= MaxFiles
<1> SUFFICES ASSUME FilesBounded, Types, NEW p \in Processes PROVE files[p] <= MaxFiles
  OBVIOUS
<1>1. IsFiniteSet(InCall(p, {"open"}))
  BY FS_Subset, DeviceAssumption DEF InCall
<1>2. Cardinality(InCall(p, {"open"})) \in Nat
  BY <1>1, FS_CardinalityType
<1> QED
  BY <1>2, DeviceAssumption DEF FilesBounded, Types

\* A call on a file keeps it open, and two calls of different processes two.
LEMMA CallKeepsOpen ==
  ASSUME DeviceInv
  PROVE  /\ \A t \in Threads : op[t] \in OnFile => Opened > 0
         /\ \A t, u \in Threads :
              op[t] \in OnFile /\ op[u] \in OnFile /\ Opened <= 1 => ProcessOf[t] = ProcessOf[u]
<1>1. \A t \in Threads : ProcessOf[t] \in Processes
  BY DeviceAssumption DEF DeviceInv, Types
<1>2. \A t \in Threads : op[t] \in OnFile => files[ProcessOf[t]] > 0
  BY DEF DeviceInv, FilesHeld
<1>3. /\ \A p \in Processes : files[p] > 0 => Opened > 0
      /\ \A p, q \in Processes : p # q /\ files[p] > 0 /\ files[q] > 0 => Opened > 1
  BY FilesAtMost, CountedFiles DEF DeviceInv
<1>4. Opened \in Nat
  BY CountsFinite
<1> QED
  BY <1>1, <1>2, <1>3, <1>4

\* In MODE1 there is one file at most.
LEMMA Mode1Alone ==
  ASSUME DeviceInv, mode = MODE1
  PROVE  Opened + Leaving <= 1
<1>1. Opened \in Nat /\ Leaving \in Nat /\ sem2 \in 0 .. 1
  BY CountsFinite DEF DeviceInv, Types
<1> QED
  BY <1>1 DEF DeviceInv, Sem2Held

\* While nobody has sem1 the counts agree and sem2 is where it should be.
LEMMA Sem1Free ==
  ASSUME DeviceInv, sem1 > 0
  PROVE  /\ sem1 = 1
         /\ \A t \in Threads : pc[t] \notin Held1
         /\ ~SwitchedTwice
         /\ mode = MODE1 => /\ sem2 + Opened + Leaving = 1
                            /\ count1 = Opened + Admitting + Leaving /\ count2 = 0
         /\ mode = MODE2 => /\ sem2 = 1
                            /\ count2 = Opened + Admitting + Leaving /\ count1 = 0
<1>1. sem1 = 1
  BY DEF DeviceInv, Types
<1>2. \A t \in Threads : pc[t] \notin Held1
  BY <1>1 DEF DeviceInv, Sem1Held
<1>3. ~SwitchedTwice
  BY <1>1 DEF SwitchedTwice
<1>4. mode = MODE1 => sem2 + Opened + Leaving = 1
  BY <1>2 DEF DeviceInv, Sem2Held, Held1
<1>5. mode = MODE2 => sem2 = 1
  BY <1>2 DEF DeviceInv, Sem2Held, Held1
<1> QED
  BY <1>1, <1>2, <1>3, <1>4, <1>5, CountsFinite DEF DeviceInv, CountsAgree, MODE1, MODE2

\* A thread that has sem1 and may switch to the other mode is alone: the one file
\* is its process's, nobody is to be admitted and nobody leaves.
LEMMA SwitchAlone ==
  ASSUME DeviceInv, sem1 > 0, NEW t \in Threads, op[t] \in Modes \ {mode}, Counted(op[t]) <= 1
  PROVE  Opened = 1 /\ Admitting = 0 /\ Leaving = 0 /\ Counted(op[t]) = 1
<1>1. Opened > 0
  BY CallKeepsOpen DEF OnFile, Modes
<1>2. Opened \in Nat /\ Admitting \in Nat /\ Leaving \in Nat
  BY CountsFinite
<1>3. Counted(op[t]) = Opened + Admitting + Leaving
  BY Sem1Free DEF Counted, Modes, MODE1, MODE2, DeviceInv, Types
<1> QED
  BY <1>1, <1>2, <1>3

\* A step of thread t, without signals.
AnyStep(t) ==
  \/ CallOpen(t) \/ CallOnFile(t) \/ CallRelease(t)
  \/ OpenMode1(t) \/ OpenMode2(t) \/ OpenUp(t) \/ OpenDown2(t)
  \/ ReleaseMode1(t) \/ ReleaseUp2(t) \/ ReleaseMode2(t)
  \/ EnterMode1(t) \/ StartCopy(t) \/ EndCopy(t) \/ EnterMode2(t) \/ EndCopyLocked(t)
  \/ IoctlSame(t) \/ IoctlWait(t) \/ IoctlSwitch(t) \/ UpAndWait(t) \/ TestEvent(t)
  \/ RelockWait(t) \/ RelockSwitch(t) \/ IoctlUp2(t) \/ IoctlDown2(t) \/ Return(t)

LEMMA StepsAre ==
  ASSUME NEW t \in Threads,
         CallOpen(t) \/ CallOnFile(t) \/ CallRelease(t) \/ DriverStep(t)
  PROVE  AnyStep(t) /\ ProcessOf' = ProcessOf
  BY DEF CallOpen, CallOnFile, CallRelease, Call, DriverStep, OpenStep, ReleaseStep, CopyStep,
         IoctlStep, AnyStep

-----------------------------------------------------------------------------
(* The invariant is inductive *)

\* The places: what a thread does in its call, who has sem1, and the mode.
LEMMA PlacesNext ==
  ASSUME DeviceInv, ~Signals, NEW t \in Threads, AnyStep(t), ProcessOf' = ProcessOf
  PROVE  CallsOK' /\ Sem1Held'
<1>0. Types /\ CallsOK /\ Sem1Held
  BY DEF DeviceInv
<1> USE DEF Types, CallsOK, Sem1Held, Held1, Calls, Transfers, Modes, MODE1, MODE2,
        GoTo, deviceVars
<1>1. CASE CallOpen(t)
  BY <1>1, <1>0 DEF CallOpen, Call
<1>2. CASE CallOnFile(t)
  BY <1>2, <1>0 DEF CallOnFile, Call
<1>3. CASE CallRelease(t)
  BY <1>3, <1>0 DEF CallRelease, Call
<1>4. CASE OpenMode1(t)
  BY <1>4, <1>0 DEF OpenMode1, Enter, Down1
<1>5. CASE OpenMode2(t)
  BY <1>5, <1>0 DEF OpenMode2, Enter, Down1
<1>6. CASE OpenUp(t)
  BY <1>6, <1>0 DEF OpenUp, Up1
<1>7. CASE OpenDown2(t)
  BY <1>7, <1>0 DEF OpenDown2, Down2, BackToUser
<1>8. CASE ReleaseMode1(t)
  BY <1>8, <1>0 DEF ReleaseMode1, Enter, Down1, WakeAndGo
<1>9. CASE ReleaseUp2(t)
  BY <1>9, <1>0 DEF ReleaseUp2, Up2
<1>10. CASE ReleaseMode2(t)
  BY <1>10, <1>0 DEF ReleaseMode2, Enter, Down1, WakeAndGo
<1>11. CASE EnterMode1(t)
  BY <1>11, <1>0 DEF EnterMode1, Enter, Down1
<1>12. CASE StartCopy(t)
  BY <1>12, <1>0 DEF StartCopy, Up1, BackToUser
<1>13. CASE EndCopy(t)
  BY <1>13, <1>0 DEF EndCopy, BackToUser
<1>14. CASE EnterMode2(t)
  BY <1>14, <1>0 DEF EnterMode2, Enter, Down1
<1>15. CASE EndCopyLocked(t)
  BY <1>15, <1>0 DEF EndCopyLocked
<1>16. CASE IoctlSame(t)
  BY <1>16, <1>0 DEF IoctlSame, Enter, Down1
<1>17. CASE IoctlWait(t)
  BY <1>17, <1>0 DEF IoctlWait, Wait, Enter, Down1
<1>18. CASE IoctlSwitch(t)
  BY <1>18, <1>0 DEF IoctlSwitch, Switch, Enter, Down1
<1>19. CASE UpAndWait(t)
  BY <1>19, <1>0 DEF UpAndWait, Up1
<1>20. CASE TestEvent(t)
  BY <1>20, <1>0 DEF TestEvent
<1>21. CASE RelockWait(t)
  BY <1>21, <1>0 DEF RelockWait, Relock, Wait, Down1
<1>22. CASE RelockSwitch(t)
  BY <1>22, <1>0 DEF RelockSwitch, Relock, Switch, Down1
<1>23. CASE IoctlUp2(t)
  BY <1>23, <1>0 DEF IoctlUp2, Up2
<1>24. CASE IoctlDown2(t)
  BY <1>24, <1>0 DEF IoctlDown2, Down2
<1>25. CASE Return(t)
  BY <1>25, <1>0 DEF Return, Up1, BackToUser
<1> QED
  BY <1>1, <1>2, <1>3, <1>4, <1>5, <1>6, <1>7, <1>8, <1>9, <1>10, <1>11, <1>12, <1>13, <1>14, <1>15, <1>16, <1>17, <1>18, <1>19, <1>20, <1>21, <1>22, <1>23, <1>24, <1>25 DEF AnyStep

\* The mode changes under sem1, and only while nobody is to be admitted.
LEMMA ModeNext ==
  ASSUME DeviceInv, ~Signals, NEW t \in Threads, AnyStep(t), ProcessOf' = ProcessOf
  PROVE  ModeAt'
<1>0. Types /\ CallsOK /\ Sem1Held /\ ModeAt
  BY DEF DeviceInv
<1>a. ASSUME sem1 > 0, op[t] \in Modes \ {mode}, Counted(op[t]) <= 1
      PROVE  \A u \in Threads : pc[u] \notin {"openUp", "openDown2", "releaseUp2", "startCopy",
                                              "down2", "copyLocked", "up2", "up1"}
  <2>1. \A u \in Threads : pc[u] # "openDown2"
    BY <1>0, <1>a, SwitchAlone, CountedThreads, CountsFinite DEF CallsOK
  <2> QED
    BY <1>a, <2>1, Sem1Free DEF Held1
<1> USE DEF Types, CallsOK, Sem1Held, ModeAt, Held1, Calls, Transfers, Modes, MODE1, MODE2,
        GoTo, deviceVars
<1>1. CASE CallOpen(t)
  BY <1>1, <1>0 DEF CallOpen, Call
<1>2. CASE CallOnFile(t)
  BY <1>2, <1>0 DEF CallOnFile, Call
<1>3. CASE CallRelease(t)
  BY <1>3, <1>0 DEF CallRelease, Call
<1>4. CASE OpenMode1(t)
  BY <1>4, <1>0 DEF OpenMode1, Enter, Down1
<1>5. CASE OpenMode2(t)
  BY <1>5, <1>0 DEF OpenMode2, Enter, Down1
<1>6. CASE OpenUp(t)
  BY <1>6, <1>0 DEF OpenUp, Up1
<1>7. CASE OpenDown2(t)
  BY <1>7, <1>0 DEF OpenDown2, Down2, BackToUser
<1>8. CASE ReleaseMode1(t)
  BY <1>8, <1>0 DEF ReleaseMode1, Enter, Down1, WakeAndGo
<1>9. CASE ReleaseUp2(t)
  BY <1>9, <1>0 DEF ReleaseUp2, Up2
<1>10. CASE ReleaseMode2(t)
  BY <1>10, <1>0 DEF ReleaseMode2, Enter, Down1, WakeAndGo
<1>11. CASE EnterMode1(t)
  BY <1>11, <1>0 DEF EnterMode1, Enter, Down1
<1>12. CASE StartCopy(t)
  BY <1>12, <1>0 DEF StartCopy, Up1, BackToUser
<1>13. CASE EndCopy(t)
  BY <1>13, <1>0 DEF EndCopy, BackToUser
<1>14. CASE EnterMode2(t)
  BY <1>14, <1>0 DEF EnterMode2, Enter, Down1
<1>15. CASE EndCopyLocked(t)
  BY <1>15, <1>0 DEF EndCopyLocked
<1>16. CASE IoctlSame(t)
  BY <1>16, <1>0 DEF IoctlSame, Enter, Down1
<1>17. CASE IoctlWait(t)
  BY <1>17, <1>0 DEF IoctlWait, Wait, Enter, Down1
<1>18. CASE IoctlSwitch(t)
  <2>1. sem1 > 0 /\ op[t] \in Modes \ {mode} /\ Counted(op[t]) <= 1
    BY <1>0, <1>18 DEF IoctlSwitch, Switch, Enter, Down1
  <2> QED
    BY <1>0, <1>a, <1>18, <2>1 DEF IoctlSwitch, Switch, Enter, Down1
<1>19. CASE UpAndWait(t)
  BY <1>19, <1>0 DEF UpAndWait, Up1
<1>20. CASE TestEvent(t)
  BY <1>20, <1>0 DEF TestEvent
<1>21. CASE RelockWait(t)
  BY <1>21, <1>0 DEF RelockWait, Relock, Wait, Down1
<1>22. CASE RelockSwitch(t)
  <2>1. sem1 > 0 /\ op[t] \in Modes /\ Counted(op[t]) <= 1 /\ mode' = op[t] /\ op[t] = MODE1
    BY <1>0, <1>22 DEF RelockSwitch, Relock, Switch, Down1, DeviceInv, WaitsOK, WaitOK
  <2>2. CASE mode # MODE1
    BY <1>0, <1>a, <1>22, <2>1, <2>2 DEF RelockSwitch, Relock, Switch, Down1
  <2>3. CASE mode = MODE1
    BY <1>0, <1>22, <2>1, <2>3 DEF RelockSwitch, Relock, Switch, Down1
  <2> QED
    BY <2>2, <2>3
<1>23. CASE IoctlUp2(t)
  BY <1>23, <1>0 DEF IoctlUp2, Up2
<1>24. CASE IoctlDown2(t)
  BY <1>24, <1>0 DEF IoctlDown2, Down2
<1>25. CASE Return(t)
  BY <1>25, <1>0 DEF Return, Up1, BackToUser
<1> QED
  BY <1>1, <1>2, <1>3, <1>4, <1>5, <1>6, <1>7, <1>8, <1>9, <1>10, <1>11, <1>12, <1>13, <1>14, <1>15, <1>16, <1>17, <1>18, <1>19, <1>20, <1>21, <1>22, <1>23, <1>24, <1>25 DEF AnyStep

\* Two threads that switched stop the driver: nobody else gets sem1, and sem2 is
\* gone.
LEMMA SwitchedTwiceStaysNext ==
  ASSUME DeviceInv, ~Signals, NEW t \in Threads, AnyStep(t), ProcessOf' = ProcessOf,
         SwitchedTwice
  PROVE  SwitchedTwice'
<1>0. Types /\ CallsOK /\ Sem1Held
  BY DEF DeviceInv
<1>a. sem1 = 0 /\ sem2 = 0 /\ \E u \in Threads : op[u] = MODE1 /\ pc[u] = "down2"
  BY DEF SwitchedTwice
<1> USE DEF SwitchedTwice, Types, CallsOK, Sem1Held, Held1, Calls, Transfers, Modes, MODE1, MODE2,
        GoTo, deviceVars
<1>1. CASE CallOpen(t)
  BY <1>1, <1>0, <1>a DEF CallOpen, Call
<1>2. CASE CallOnFile(t)
  BY <1>2, <1>0, <1>a DEF CallOnFile, Call
<1>3. CASE CallRelease(t)
  BY <1>3, <1>0, <1>a DEF CallRelease, Call
<1>4. CASE OpenMode1(t)
  BY <1>4, <1>0, <1>a DEF OpenMode1, Enter, Down1
<1>5. CASE OpenMode2(t)
  BY <1>5, <1>0, <1>a DEF OpenMode2, Enter, Down1
<1>6. CASE OpenUp(t)
  BY <1>6, <1>0, <1>a DEF OpenUp, Up1
<1>7. CASE OpenDown2(t)
  BY <1>7, <1>0, <1>a DEF OpenDown2, Down2, BackToUser
<1>8. CASE ReleaseMode1(t)
  BY <1>8, <1>0, <1>a DEF ReleaseMode1, Enter, Down1, WakeAndGo
<1>9. CASE ReleaseUp2(t)
  BY <1>9, <1>0, <1>a DEF ReleaseUp2, Up2
<1>10. CASE ReleaseMode2(t)
  BY <1>10, <1>0, <1>a DEF ReleaseMode2, Enter, Down1, WakeAndGo
<1>11. CASE EnterMode1(t)
  BY <1>11, <1>0, <1>a DEF EnterMode1, Enter, Down1
<1>12. CASE StartCopy(t)
  BY <1>12, <1>0, <1>a DEF StartCopy, Up1, BackToUser
<1>13. CASE EndCopy(t)
  BY <1>13, <1>0, <1>a DEF EndCopy, BackToUser
<1>14. CASE EnterMode2(t)
  BY <1>14, <1>0, <1>a DEF EnterMode2, Enter, Down1
<1>15. CASE EndCopyLocked(t)
  BY <1>15, <1>0, <1>a DEF EndCopyLocked
<1>16. CASE IoctlSame(t)
  BY <1>16, <1>0, <1>a DEF IoctlSame, Enter, Down1
<1>17. CASE IoctlWait(t)
  BY <1>17, <1>0, <1>a DEF IoctlWait, Wait, Enter, Down1
<1>18. CASE IoctlSwitch(t)
  BY <1>18, <1>0, <1>a DEF IoctlSwitch, Switch, Enter, Down1
<1>19. CASE UpAndWait(t)
  BY <1>19, <1>0, <1>a DEF UpAndWait, Up1
<1>20. CASE TestEvent(t)
  BY <1>20, <1>0, <1>a DEF TestEvent
<1>21. CASE RelockWait(t)
  BY <1>21, <1>0, <1>a DEF RelockWait, Relock, Wait, Down1
<1>22. CASE RelockSwitch(t)
  BY <1>22, <1>0, <1>a DEF RelockSwitch, Relock, Switch, Down1
<1>23. CASE IoctlUp2(t)
  BY <1>23, <1>0, <1>a DEF IoctlUp2, Up2
<1>24. CASE IoctlDown2(t)
  BY <1>24, <1>0, <1>a DEF IoctlDown2, Down2
<1>25. CASE Return(t)
  BY <1>25, <1>0, <1>a DEF Return, Up1, BackToUser
<1> QED
  BY <1>1, <1>2, <1>3, <1>4, <1>5, <1>6, <1>7, <1>8, <1>9, <1>10, <1>11, <1>12, <1>13, <1>14, <1>15, <1>16, <1>17, <1>18, <1>19, <1>20, <1>21, <1>22, <1>23, <1>24, <1>25 DEF AnyStep

\* A step of a thread leaves the others where they are, or wakes them.
LEMMA OthersNext ==
  ASSUME Types, NEW t \in Threads, AnyStep(t)
  PROVE  OthersStay(t)
<1> USE DEF OthersStay, Types, GoTo, deviceVars
<1>1. CASE CallOpen(t)
  BY <1>1 DEF CallOpen, Call
<1>2. CASE CallOnFile(t)
  BY <1>2 DEF CallOnFile, Call
<1>3. CASE CallRelease(t)
  BY <1>3 DEF CallRelease, Call
<1>4. CASE OpenMode1(t)
  BY <1>4 DEF OpenMode1, Enter, Down1
<1>5. CASE OpenMode2(t)
  BY <1>5 DEF OpenMode2, Enter, Down1
<1>6. CASE OpenUp(t)
  BY <1>6 DEF OpenUp, Up1
<1>7. CASE OpenDown2(t)
  BY <1>7 DEF OpenDown2, Down2, BackToUser
<1>8. CASE ReleaseMode1(t)
  BY <1>8 DEF ReleaseMode1, Enter, Down1, WakeAndGo
<1>9. CASE ReleaseUp2(t)
  BY <1>9 DEF ReleaseUp2, Up2
<1>10. CASE ReleaseMode2(t)
  BY <1>10 DEF ReleaseMode2, Enter, Down1, WakeAndGo
<1>11. CASE EnterMode1(t)
  BY <1>11 DEF EnterMode1, Enter, Down1
<1>12. CASE StartCopy(t)
  BY <1>12 DEF StartCopy, Up1, BackToUser
<1>13. CASE EndCopy(t)
  BY <1>13 DEF EndCopy, BackToUser
<1>14. CASE EnterMode2(t)
  BY <1>14 DEF EnterMode2, Enter, Down1
<1>15. CASE EndCopyLocked(t)
  BY <1>15 DEF EndCopyLocked
<1>16. CASE IoctlSame(t)
  BY <1>16 DEF IoctlSame, Enter, Down1
<1>17. CASE IoctlWait(t)
  BY <1>17 DEF IoctlWait, Wait, Enter, Down1
<1>18. CASE IoctlSwitch(t)
  BY <1>18 DEF IoctlSwitch, Switch, Enter, Down1
<1>19. CASE UpAndWait(t)
  BY <1>19 DEF UpAndWait, Up1
<1>20. CASE TestEvent(t)
  BY <1>20 DEF TestEvent
<1>21. CASE RelockWait(t)
  BY <1>21 DEF RelockWait, Relock, Wait, Down1
<1>22. CASE RelockSwitch(t)
  BY <1>22 DEF RelockSwitch, Relock, Switch, Down1
<1>23. CASE IoctlUp2(t)
  BY <1>23 DEF IoctlUp2, Up2
<1>24. CASE IoctlDown2(t)
  BY <1>24 DEF IoctlDown2, Down2
<1>25. CASE Return(t)
  BY <1>25 DEF Return, Up1, BackToUser
<1> QED
  BY <1>1, <1>2, <1>3, <1>4, <1>5, <1>6, <1>7, <1>8, <1>9, <1>10, <1>11, <1>12, <1>13, <1>14, <1>15, <1>16, <1>17, <1>18, <1>19, <1>20, <1>21, <1>22, <1>23, <1>24, <1>25 DEF AnyStep

Opening(p) == Cardinality(InCall(p, {"open"}))

\* Such a step changes the number of files that a process is opening by t.
LEMMA OpeningCounted ==
  ASSUME NEW t \in Threads, OthersStay(t), ProcessOf' = ProcessOf, NEW p
  PROVE  /\ Opening(p) \in Nat /\ Opening(p)' \in Nat
         /\ ProcessOf[t] = p /\ op[t] = "open" => Opening(p) > 0
         /\ ProcessOf[t] # p \/ (op[t] = "open" <=> op'[t] = "open") =>
              Opening(p)' = Opening(p)
         /\ ProcessOf[t] = p /\ op[t] = "open" /\ op'[t] # "open" =>
              Opening(p)' = Opening(p) - 1
         /\ ProcessOf[t] = p /\ op[t] # "open" /\ op'[t] = "open" =>
              Opening(p)' = Opening(p) + 1
<1> DEFINE A == InCall(p, {"open"})
           B == InCall(p, {"open"})'
<1>1. A \ {t} = B \ {t}
  BY DEF InCall, OthersStay
<1>2. /\ (t \in A <=> ProcessOf[t] = p /\ op[t] = "open")
      /\ (t \in B <=> ProcessOf[t] = p /\ op'[t] = "open")
  BY DEF InCall
<1>3. IsFiniteSet(A)
  BY FS_Subset, DeviceAssumption DEF InCall
<1>4. Opening(p) = Cardinality(A) /\ Opening(p)' = Cardinality(B)
  BY DEF Opening
<1> HIDE DEF A, B
<1>5. /\ Cardinality(A) \in Nat /\ Cardinality(B) \in Nat
      /\ t \in A => Cardinality(A) > 0
      /\ (t \in A <=> t \in B) => Cardinality(B) = Cardinality(A)
      /\ t \in A /\ t \notin B => Cardinality(B) = Cardinality(A) - 1
      /\ t \notin A /\ t \in B => Cardinality(B) = Cardinality(A) + 1
  BY <1>1, <1>3, CardChange
<1> QED
  BY <1>2, <1>4, <1>5

\* The files: a process keeps its file open until its calls on it have returned,
\* and has no more than MaxFiles with those it is opening.
LEMMA FilesNext ==
  ASSUME DeviceInv, ~Signals, NEW t \in Threads, AnyStep(t), ProcessOf' = ProcessOf
  PROVE  FilesHeld' /\ FilesBounded' /\ files' \in [Processes -> Nat]
<1>0. Types /\ CallsOK /\ FilesHeld /\ OthersStay(t) /\ ProcessOf \in [Threads -> Processes]
  BY OthersNext, DeviceAssumption DEF DeviceInv, Types
<1> DEFINE p == ProcessOf[t]
\* The step opens a file, closes one, or neither.
<1>1. \/ /\ files' = files
         /\ op[t] # "open" /\ op'[t] = "open" => files[p] + Opening(p) < MaxFiles
         /\ op'[t] \in OnFile => op[t] = op'[t] \/ files[p] > 0
      \/ /\ files' = [files EXCEPT ![p] = @ + 1]
         /\ op[t] = "open" /\ op'[t] = "none"
      \/ /\ files' = [files EXCEPT ![p] = @ - 1] /\ files[p] > 0
         /\ files[p] = 1 => InCall(p, Calls \ {"open", "release"}) = {}
         /\ op[t] = "none" /\ op'[t] = "release"
  <2> USE DEF Types, GoTo, deviceVars, Calls, Modes, MODE1, MODE2, OnFile, CallsOK, Opening, Transfers
  <2>1. CASE CallOpen(t)
    BY <1>0, <2>1 DEF CallOpen, Call
  <2>2. CASE CallOnFile(t)
    BY <1>0, <2>2 DEF CallOnFile, Call
  <2>3. CASE CallRelease(t)
    BY <1>0, <2>3 DEF CallRelease, Call
  <2>4. CASE OpenMode1(t)
    BY <1>0, <2>4 DEF OpenMode1, Enter, Down1
  <2>5. CASE OpenMode2(t)
    BY <1>0, <2>5 DEF OpenMode2, Enter, Down1
  <2>6. CASE OpenUp(t)
    BY <1>0, <2>6 DEF OpenUp, Up1
  <2>7. CASE OpenDown2(t)
    BY <1>0, <2>7 DEF OpenDown2, Down2, BackToUser
  <2>8. CASE ReleaseMode1(t)
    BY <1>0, <2>8 DEF ReleaseMode1, Enter, Down1, WakeAndGo
  <2>9. CASE ReleaseUp2(t)
    BY <1>0, <2>9 DEF ReleaseUp2, Up2
  <2>10. CASE ReleaseMode2(t)
    BY <1>0, <2>10 DEF ReleaseMode2, Enter, Down1, WakeAndGo
  <2>11. CASE EnterMode1(t)
    BY <1>0, <2>11 DEF EnterMode1, Enter, Down1
  <2>12. CASE StartCopy(t)
    BY <1>0, <2>12 DEF StartCopy, Up1, BackToUser
  <2>13. CASE EndCopy(t)
    BY <1>0, <2>13 DEF EndCopy, BackToUser
  <2>14. CASE EnterMode2(t)
    BY <1>0, <2>14 DEF EnterMode2, Enter, Down1
  <2>15. CASE EndCopyLocked(t)
    BY <1>0, <2>15 DEF EndCopyLocked
  <2>16. CASE IoctlSame(t)
    BY <1>0, <2>16 DEF IoctlSame, Enter, Down1
  <2>17. CASE IoctlWait(t)
    BY <1>0, <2>17 DEF IoctlWait, Wait, Enter, Down1
  <2>18. CASE IoctlSwitch(t)
    BY <1>0, <2>18 DEF IoctlSwitch, Switch, Enter, Down1
  <2>19. CASE UpAndWait(t)
    BY <1>0, <2>19 DEF UpAndWait, Up1
  <2>20. CASE TestEvent(t)
    BY <1>0, <2>20 DEF TestEvent
  <2>21. CASE RelockWait(t)
    BY <1>0, <2>21 DEF RelockWait, Relock, Wait, Down1
  <2>22. CASE RelockSwitch(t)
    BY <1>0, <2>22 DEF RelockSwitch, Relock, Switch, Down1
  <2>23. CASE IoctlUp2(t)
    BY <1>0, <2>23 DEF IoctlUp2, Up2
  <2>24. CASE IoctlDown2(t)
    BY <1>0, <2>24 DEF IoctlDown2, Down2
  <2>25. CASE Return(t)
    BY <1>0, <2>25 DEF Return, Up1, BackToUser
  <2> QED
    BY <2>1, <2>2, <2>3, <2>4, <2>5, <2>6, <2>7, <2>8, <2>9, <2>10, <2>11, <2>12, <2>13, <2>14, <2>15, <2>16, <2>17, <2>18, <2>19, <2>20, <2>21, <2>22, <2>23, <2>24, <2>25 DEF AnyStep
<1>2. p \in Processes /\ \A q \in Processes : files[q] \in Nat
  BY <1>0 DEF Types
<1>3. \A q \in Processes : files'[q] = IF q = p THEN files'[p] ELSE files[q]
  BY <1>0, <1>1, <1>2 DEF Types
<1>4. files' \in [Processes -> Nat]
  BY <1>0, <1>1, <1>2 DEF Types
<1>5. ASSUME NEW q \in Processes
      PROVE  (files[q] + Opening(q) <= MaxFiles)'
  <2>1. files[q] + Opening(q) <= MaxFiles /\ MaxFiles \in Nat
    BY DeviceAssumption DEF DeviceInv, FilesBounded, Opening
  <2>2. CASE q # p
    BY <1>0, <1>2, <1>3, <2>1, <2>2, OpeningCounted
  <2>3. CASE q = p
    BY <1>0, <1>1, <1>2, <1>4, <2>1, <2>3, OpeningCounted DEF Types
  <2> QED
    BY <2>2, <2>3
<1>6. FilesHeld'
  <2>1. ASSUME NEW u \in Threads, op'[u] \in OnFile
        PROVE  files'[ProcessOf[u]] > 0
    <3>1. CASE u = t
      BY <1>0, <1>1, <1>2, <2>1, <3>1 DEF OnFile, MODE1, MODE2, FilesHeld
    <3>2. CASE u # t
      <4>1. op[u] = op'[u] /\ files[ProcessOf[u]] > 0 /\ ProcessOf[u] \in Processes
        BY <1>0, <2>1, <3>2 DEF OthersStay, FilesHeld
      <4>2. ProcessOf[u] = p => u \in InCall(p, Calls \ {"open", "release"})
        BY <2>1, <4>1 DEF InCall, OnFile, Calls, MODE1, MODE2
      <4> QED
        BY <1>0, <1>1, <1>2, <1>3, <4>1, <4>2 DEF Types
    <3> QED
      BY <3>1, <3>2
  <2>2. ASSUME NEW q \in Processes, files'[q] > 0
        PROVE  \E u \in Threads : ProcessOf[u] = q
    BY <1>0, <1>3, <2>2 DEF FilesHeld
  <2> QED
    BY <2>1, <2>2 DEF FilesHeld
<1> QED
  BY <1>4, <1>5, <1>6 DEF FilesBounded, Opening

\* The steps that neither count a thread nor open or close a file.
Uncounted(t) ==
  \/ CallOpen(t) \/ CallOnFile(t) \/ OpenUp(t) \/ ReleaseUp2(t)
  \/ EnterMode1(t) \/ StartCopy(t) \/ EndCopy(t) \/ EnterMode2(t) \/ EndCopyLocked(t)
  \/ IoctlSame(t) \/ IoctlWait(t) \/ IoctlSwitch(t) \/ UpAndWait(t) \/ TestEvent(t)
  \/ RelockWait(t) \/ RelockSwitch(t) \/ IoctlUp2(t) \/ IoctlDown2(t)
  \/ (Return(t) /\ op[t] # "open")

\* What a step does to the three counts.
LEMMA CountsMove ==
  ASSUME DeviceInv, ~Signals, NEW t \in Threads, AnyStep(t), ProcessOf' = ProcessOf
  PROVE  /\ CallRelease(t) =>
              /\ Opened > 0
              /\ Opened' = Opened - 1 /\ Admitting' = Admitting /\ Leaving' = Leaving + 1
         /\ OpenMode1(t) \/ OpenMode2(t) =>
              Opened' = Opened /\ Admitting' = Admitting + 1 /\ Leaving' = Leaving
         /\ OpenDown2(t) \/ (Return(t) /\ op[t] = "open") =>
              /\ Admitting > 0
              /\ Opened' = Opened + 1 /\ Admitting' = Admitting - 1 /\ Leaving' = Leaving
         /\ ReleaseMode1(t) \/ ReleaseMode2(t) =>
              /\ Leaving > 0
              /\ Opened' = Opened /\ Admitting' = Admitting /\ Leaving' = Leaving - 1
         /\ Uncounted(t) =>
              Opened' = Opened /\ Admitting' = Admitting /\ Leaving' = Leaving
<1>0. Types /\ CallsOK /\ OthersStay(t) /\ ProcessOf[t] \in Processes
  BY OthersNext, DeviceAssumption DEF DeviceInv, Types
<1>a. ASSUME files' = files
      PROVE  Opened' = Opened
  BY <1>a DEF Opened, OpenFiles
<1>b. ASSUME op[t] = "open", files' = [files EXCEPT ![ProcessOf[t]] = @ + 1]
      PROVE  Opened' = Opened + 1
  <2>1. files[ProcessOf[t]] + Opening(ProcessOf[t]) <= MaxFiles
    BY <1>0 DEF DeviceInv, FilesBounded, Opening
  <2>2. Opening(ProcessOf[t]) \in Nat /\ Opening(ProcessOf[t]) > 0
    BY <1>0, <1>b, OpeningCounted
  <2>3. files[ProcessOf[t]] < MaxFiles
    BY <1>0, <2>1, <2>2, DeviceAssumption DEF Types
  <2> QED
    BY <1>0, <1>b, <2>3, FileOpened
<1>c. ASSUME files[ProcessOf[t]] > 0, files' = [files EXCEPT ![ProcessOf[t]] = @ - 1]
      PROVE  Opened > 0 /\ Opened' = Opened - 1
  <2>1. \A p \in Processes : files[p] <= MaxFiles
    BY FilesAtMost DEF DeviceInv
  <2> QED
    BY <1>0, <1>c, <2>1, FileClosed, CountedFiles
<1> USE DEF Types, CallsOK, GoTo, deviceVars, Admits, Leaves, Calls, Transfers, Modes, MODE1, MODE2
<1>1. ASSUME CallRelease(t)
      PROVE  /\ Opened > 0
             /\ Opened' = Opened - 1 /\ Admitting' = Admitting /\ Leaving' = Leaving + 1
  <2>1. /\ files[ProcessOf[t]] > 0 /\ files' = [files EXCEPT ![ProcessOf[t]] = @ - 1]
        /\ ~Admits(t) /\ ~Admits(t)' /\ ~Leaves(t) /\ Leaves(t)'
    BY <1>0, <1>1 DEF CallRelease, Call
  <2> QED
    BY <1>0, <1>c, <2>1, ThreadsCounted
<1>2. ASSUME OpenMode1(t) \/ OpenMode2(t)
      PROVE  Opened' = Opened /\ Admitting' = Admitting + 1 /\ Leaving' = Leaving
  <2>1. files' = files /\ ~Admits(t) /\ Admits(t)' /\ ~Leaves(t) /\ ~Leaves(t)'
    BY <1>0, <1>2 DEF OpenMode1, OpenMode2, Enter
  <2> QED
    BY <1>0, <1>a, <2>1, ThreadsCounted
<1>3. ASSUME OpenDown2(t) \/ (Return(t) /\ op[t] = "open")
      PROVE  /\ Admitting > 0
             /\ Opened' = Opened + 1 /\ Admitting' = Admitting - 1 /\ Leaving' = Leaving
  <2>1. /\ files' = [files EXCEPT ![ProcessOf[t]] = @ + 1] /\ op[t] = "open"
        /\ pc[t] \in {"openDown2", "up1"}
        /\ Admits(t) /\ ~Admits(t)' /\ ~Leaves(t) /\ ~Leaves(t)'
    BY <1>0, <1>3 DEF OpenDown2, Return, BackToUser
  <2> QED
    BY <1>0, <1>b, <2>1, ThreadsCounted, CountedThreads
<1>4. ASSUME ReleaseMode1(t) \/ ReleaseMode2(t)
      PROVE  /\ Leaving > 0
             /\ Opened' = Opened /\ Admitting' = Admitting /\ Leaving' = Leaving - 1
  <2>1. /\ files' = files /\ op[t] = "release" /\ pc[t] = "down1"
        /\ ~Admits(t) /\ ~Admits(t)' /\ Leaves(t) /\ ~Leaves(t)'
    BY <1>0, <1>4 DEF ReleaseMode1, ReleaseMode2, Enter, WakeAndGo
  <2> QED
    BY <1>0, <1>a, <2>1, ThreadsCounted, CountedThreads
<1>5. ASSUME Uncounted(t)
      PROVE  Opened' = Opened /\ Admitting' = Admitting /\ Leaving' = Leaving
  <2>1. files' = files /\ (Admits(t)' <=> Admits(t)) /\ (Leaves(t)' <=> Leaves(t))
    <3>1. CASE CallOpen(t)
      BY <1>0, <3>1 DEF CallOpen, Call
    <3>2. CASE CallOnFile(t)
      BY <1>0, <3>2 DEF CallOnFile, Call
    <3>3. CASE OpenUp(t)
      BY <1>0, <3>3 DEF OpenUp, Up1
    <3>4. CASE ReleaseUp2(t)
      BY <1>0, <3>4 DEF ReleaseUp2, Up2
    <3>5. CASE EnterMode1(t)
      BY <1>0, <3>5 DEF EnterMode1, Enter, Down1
    <3>6. CASE StartCopy(t)
      BY <1>0, <3>6 DEF StartCopy, Up1, BackToUser
    <3>7. CASE EndCopy(t)
      BY <1>0, <3>7 DEF EndCopy, BackToUser
    <3>8. CASE EnterMode2(t)
      BY <1>0, <3>8 DEF EnterMode2, Enter, Down1
    <3>9. CASE EndCopyLocked(t)
      BY <1>0, <3>9 DEF EndCopyLocked
    <3>10. CASE IoctlSame(t)
      BY <1>0, <3>10 DEF IoctlSame, Enter, Down1
    <3>11. CASE IoctlWait(t)
      BY <1>0, <3>11 DEF IoctlWait, Wait, Enter, Down1
    <3>12. CASE IoctlSwitch(t)
      BY <1>0, <3>12 DEF IoctlSwitch, Switch, Enter, Down1
    <3>13. CASE UpAndWait(t)
      BY <1>0, <3>13 DEF UpAndWait, Up1
    <3>14. CASE TestEvent(t)
      BY <1>0, <3>14 DEF TestEvent
    <3>15. CASE RelockWait(t)
      BY <1>0, <3>15 DEF RelockWait, Relock, Wait, Down1
    <3>16. CASE RelockSwitch(t)
      BY <1>0, <3>16 DEF RelockSwitch, Relock, Switch, Down1
    <3>17. CASE IoctlUp2(t)
      BY <1>0, <3>17 DEF IoctlUp2, Up2
    <3>18. CASE IoctlDown2(t)
      BY <1>0, <3>18 DEF IoctlDown2, Down2
    <3>19. CASE Return(t) /\ op[t] # "open"
      BY <1>0, <3>19 DEF Return, Up1, BackToUser
    <3> QED
      BY <1>5, <3>1, <3>2, <3>3, <3>4, <3>5, <3>6, <3>7, <3>8, <3>9, <3>10, <3>11, <3>12, <3>13, <3>14, <3>15, <3>16, <3>17, <3>18, <3>19 DEF Uncounted
  <2> QED
    BY <1>0, <1>a, <2>1, ThreadsCounted
<1> QED
  BY <1>1, <1>2, <1>3, <1>4, <1>5

\* After two threads have switched only the threads outside the semaphores move.
LEMMA StuckNext ==
  ASSUME DeviceInv, ~Signals, NEW t \in Threads, AnyStep(t), ProcessOf' = ProcessOf,
         SwitchedTwice
  PROVE  Sem2Held' /\ CountsAgree'
<1>0. Types /\ CallsOK /\ Sem1Held /\ Sem2Held
  BY DEF DeviceInv
<1>1. SwitchedTwice'
  BY SwitchedTwiceStaysNext
<1>2. Sem1Held'
  BY PlacesNext
<1>3. PICK u \in Threads : op[u] = MODE1 /\ pc[u] = "down2"
  BY DEF SwitchedTwice
<1>4. sem1 = 0 /\ sem2 = 0 /\ mode = MODE1 /\ count2 = -1 /\ Opened + Leaving = 1
  BY <1>0, <1>3 DEF SwitchedTwice, Sem2Held
<1>5. \A v \in Threads : pc[v] \in Held1 => v = u
  BY <1>0, <1>3 DEF Sem1Held, Held1
<1>6. CallRelease(t) \/ Uncounted(t)
  BY <1>0, <1>3, <1>4, <1>5
     DEF AnyStep, Uncounted, OpenMode1, OpenMode2, OpenDown2, ReleaseMode1, ReleaseMode2, Enter,
         Down1, Down2, Return, Held1, CallsOK, MODE1
<1>7. Opened' + Leaving' = 1
  BY <1>4, <1>6, CountsMove, CountsFinite
<1>8. PICK w \in Threads : op'[w] = MODE1 /\ pc'[w] = "down2"
  BY <1>1 DEF SwitchedTwice
<1>9. \A v \in Threads : pc'[v] \in Held1 => v = w
  BY <1>2, <1>8 DEF Sem1Held, Held1
<1>10. /\ \A v \in Threads : pc'[v] # "releaseUp2" /\ pc'[v] # "up2"
       /\ mode' = MODE1
  BY <1>1, <1>8, <1>9 DEF Held1, SwitchedTwice
<1> QED
  BY <1>1, <1>7, <1>8, <1>10 DEF Sem2Held, CountsAgree, MODE1, MODE2

\* Where sem2 is, and what the counters count: the two go together, since the file
\* that has sem2 is the one that lets the mode change.
LEMMA Sem2Next ==
  ASSUME DeviceInv, ~Signals, NEW t \in Threads, AnyStep(t), ProcessOf' = ProcessOf
  PROVE  Sem2Held' /\ CountsAgree'
<1>1. CASE SwitchedTwice
  BY <1>1, StuckNext
<1> SUFFICES ASSUME ~SwitchedTwice PROVE Sem2Held' /\ CountsAgree'
  BY <1>1
<1> DEFINE O == Opened
           A == Admitting
           L == Leaving
           Special == {"releaseUp2", "down2", "up2"}
           Quiet == /\ sem2' = sem2 /\ mode' = mode /\ count1' = count1 /\ count2' = count2
                    /\ pc[t] \notin Special /\ pc'[t] \notin Special
<1>2. /\ Types /\ CallsOK /\ Sem1Held /\ ModeAt /\ Sem2Held
      /\ O \in Nat /\ A \in Nat /\ L \in Nat
      /\ \/ mode = MODE1 /\ count1 = O + A + L /\ count2 = 0
         \/ mode = MODE2 /\ count2 = O + A + L /\ count1 = 0
  BY CountsFinite DEF DeviceInv, CountsAgree
<1>3. Counts' = Opened' + Admitting' + Leaving'
  BY DEF Counts, Opened, Admitting, Leaving
<1>a. OthersStay(t)
  BY <1>2, OthersNext
<1> USE DEF CountsAgree, Held1, Modes, MODE1, MODE2
\* A switch to the other mode.
<1>b. ASSUME sem1 > 0, sem2' = sem2, mode' = op[t], op[t] # mode, op[t] \in Modes,
             Counted(op[t]) <= 1,
             \/ /\ op[t] = MODE2 /\ pc'[t] = "up2"
                /\ count1' = count1 - 1 /\ count2' = count2 + 1
             \/ /\ op[t] = MODE1 /\ pc'[t] = "down2"
                /\ count1' = count1 + 1 /\ count2' = count2 - 1,
             Opened' = O, Leaving' = L, Admitting' = A
      PROVE  Sem2Held' /\ CountsAgree'
  <2>1. O = 1 /\ A = 0 /\ L = 0
    BY <1>b, SwitchAlone
  <2>2. \A u \in Threads : u # t => pc'[u] \notin Held1
    BY <1>a, <1>b, Sem1Free DEF OthersStay
  <2>3. CASE op[t] = MODE2
    <3>1. mode = MODE1 /\ sem2 = 0 /\ count1 = 1 /\ count2 = 0
      BY <1>2, <1>b, <2>1, <2>3, Sem1Free DEF Types
    <3> QED
      BY <1>3, <1>b, <2>1, <2>2, <2>3, <3>1 DEF Sem2Held
  <2>4. CASE op[t] = MODE1
    <3>1. mode = MODE2 /\ sem2 = 1 /\ count1 = 0 /\ count2 = 1
      BY <1>2, <1>b, <2>1, <2>4, Sem1Free DEF Types
    <3> QED
      BY <1>3, <1>b, <2>1, <2>2, <2>4, <3>1 DEF Sem2Held
  <2> QED
    BY <1>b, <2>3, <2>4
\* A step that has nothing to do with sem2 or the counts.
<1>c. ASSUME Quiet, Uncounted(t)
      PROVE  Sem2Held' /\ CountsAgree'
  <2>1. Opened' = O /\ Leaving' = L /\ Admitting' = A
    BY <1>c, CountsMove
  <2>2. CountsAgree'
    BY <1>2, <1>3, <1>c, <2>1
  <2>3. \A u \in Threads : \A place \in Special : pc'[u] = place <=> pc[u] = place
    BY <1>a, <1>c DEF OthersStay
  <2> QED
    BY <1>2, <1>c, <2>1, <2>2, <2>3 DEF Sem2Held
<1>4. CASE CallOpen(t)
  <2>1. Quiet
    BY <1>2, <1>4 DEF CallOpen, Call, Types, CallsOK, Calls, Transfers, GoTo, deviceVars
  <2> QED
    BY <1>c, <1>4, <2>1 DEF Uncounted
<1>5. CASE CallOnFile(t)
  <2>1. Quiet
    BY <1>2, <1>5 DEF CallOnFile, Call, Types, CallsOK, Calls, Transfers, GoTo, deviceVars
  <2> QED
    BY <1>c, <1>5, <2>1 DEF Uncounted
<1>6. CASE CallRelease(t)
  <2>1. /\ pc'[t] = "down1" /\ mode' = mode /\ sem2' = sem2
        /\ count1' = count1 /\ count2' = count2 /\ pc[t] = "user"
    BY <1>2, <1>6 DEF Types, CallRelease, Call, deviceVars, GoTo
  <2>2. Opened' = O - 1 /\ Leaving' = L + 1 /\ Admitting' = A
    BY <1>6, CountsMove DEF Uncounted
  <2>3. /\ Opened' + Leaving' = O + L /\ Opened' + Admitting' + Leaving' = O + A + L
        /\ sem2' + Opened' + Leaving' = sem2 + O + L
    BY <1>2, <2>1, <2>2 DEF Types
  <2>4. CountsAgree'
    BY <1>2, <1>3, <2>1, <2>3
  <2>5. \A u \in Threads : \A place \in {"releaseUp2", "down2", "up2"} :
          pc'[u] = place <=> pc[u] = place
    BY <1>a, <2>1 DEF OthersStay
  <2> QED
    BY <1>2, <2>1, <2>3, <2>4, <2>5 DEF Sem2Held
<1>7. CASE OpenMode1(t)
  <2>1. /\ pc'[t] = "openUp" /\ mode' = MODE1 /\ mode = MODE1 /\ sem2' = sem2
        /\ count1' = count1 + 1 /\ count2' = count2 /\ sem1 > 0
    BY <1>2, <1>7 DEF Types, OpenMode1, Enter, Down1, GoTo
  <2>2. Opened' = O /\ Leaving' = L /\ Admitting' = A + 1
    BY <1>7, CountsMove DEF Uncounted
  <2> HIDE DEF O, A, L
  <2> QED
    BY <1>2, <1>3, <1>a, <2>1, <2>2, Sem1Free DEF OthersStay, Sem2Held, Sem1Held, O, A, L
<1>8. CASE OpenMode2(t)
  <2>1. /\ pc'[t] = "up1" /\ mode' = MODE2 /\ mode = MODE2 /\ sem2' = sem2
        /\ count1' = count1 /\ count2' = count2 + 1 /\ sem1 > 0
    BY <1>2, <1>8 DEF Types, OpenMode2, Enter, Down1, GoTo
  <2>2. Opened' = O /\ Leaving' = L /\ Admitting' = A + 1
    BY <1>8, CountsMove DEF Uncounted
  <2> HIDE DEF O, A, L
  <2> QED
    BY <1>2, <1>3, <1>a, <2>1, <2>2, Sem1Free DEF OthersStay, Sem2Held, Sem1Held, O, A, L
<1>9. CASE OpenUp(t)
  <2>1. Quiet
    BY <1>2, <1>9 DEF OpenUp, Up1, Types, CallsOK, Calls, Transfers, GoTo, deviceVars
  <2> QED
    BY <1>c, <1>9, <2>1 DEF Uncounted
<1>10. CASE OpenDown2(t)
  <2>1. /\ pc[t] = "openDown2" /\ pc'[t] = "user" /\ mode' = MODE1 /\ mode = MODE1
        /\ sem2 = 1 /\ sem2' = 0 /\ count1' = count1 /\ count2' = count2
    BY <1>2, <1>10 DEF Types, OpenDown2, Down2, BackToUser, GoTo, ModeAt
  <2>2. Opened' = O + 1 /\ Leaving' = L /\ Admitting' = A - 1 /\ A > 0
    BY <1>10, CountsMove DEF Uncounted
  <2> HIDE DEF O, A, L
  <2> QED
    BY <1>2, <1>3, <1>a, <2>1, <2>2, Sem1Free DEF OthersStay, Sem2Held, Sem1Held, O, A, L
<1>11. CASE ReleaseMode1(t)
  <2>1. /\ pc'[t] = "releaseUp2" /\ mode' = MODE1 /\ mode = MODE1 /\ sem2' = sem2
        /\ count1' = count1 - 1 /\ count2' = count2 /\ sem1 > 0
    BY <1>2, <1>11 DEF Types, ReleaseMode1, Enter, Down1, GoTo, WakeAndGo
  <2>2. Opened' = O /\ Leaving' = L - 1 /\ Admitting' = A /\ L > 0
    BY <1>11, CountsMove DEF Uncounted
  <2>3. O = 0 /\ L = 1 /\ sem2 = 0
    BY <1>2, <2>1, <2>2, Sem1Free DEF Types
  <2> HIDE DEF O, A, L
  <2> QED
    BY <1>2, <1>3, <1>a, <2>1, <2>2, <2>3, Sem1Free DEF OthersStay, Sem2Held, Sem1Held, O, A, L
<1>12. CASE ReleaseUp2(t)
  <2>1. /\ pc[t] = "releaseUp2" /\ pc'[t] = "up1" /\ mode' = MODE1 /\ mode = MODE1
        /\ O + L = 0 /\ sem2' = 1 /\ count1' = count1 /\ count2' = count2
    BY <1>2, <1>12 DEF Types, ReleaseUp2, Up2, GoTo, ModeAt, Sem2Held
  <2>2. Opened' = O /\ Leaving' = L /\ Admitting' = A
    BY <1>12, CountsMove DEF Uncounted
  <2> HIDE DEF O, A, L
  <2> QED
    BY <1>2, <1>3, <1>a, <2>1, <2>2, Sem1Free DEF OthersStay, Sem2Held, Sem1Held, O, A, L
<1>13. CASE ReleaseMode2(t)
  <2>1. /\ pc'[t] = "up1" /\ mode' = MODE2 /\ mode = MODE2 /\ sem2' = sem2
        /\ count1' = count1 /\ count2' = count2 - 1 /\ sem1 > 0
    BY <1>2, <1>13 DEF Types, ReleaseMode2, Enter, Down1, GoTo, WakeAndGo
  <2>2. Opened' = O /\ Leaving' = L - 1 /\ Admitting' = A /\ L > 0
    BY <1>13, CountsMove DEF Uncounted
  <2> HIDE DEF O, A, L
  <2> QED
    BY <1>2, <1>3, <1>a, <2>1, <2>2, Sem1Free DEF OthersStay, Sem2Held, Sem1Held, O, A, L
<1>14. CASE EnterMode1(t)
  <2>1. Quiet
    BY <1>2, <1>14 DEF EnterMode1, Enter, Down1, Types, CallsOK, Calls, Transfers, GoTo, deviceVars
  <2> QED
    BY <1>c, <1>14, <2>1 DEF Uncounted
<1>15. CASE StartCopy(t)
  <2>1. Quiet
    BY <1>2, <1>15 DEF StartCopy, Up1, BackToUser, Types, CallsOK, Calls, Transfers, GoTo, deviceVars
  <2> QED
    BY <1>c, <1>15, <2>1 DEF Uncounted
<1>16. CASE EndCopy(t)
  <2>1. Quiet
    BY <1>2, <1>16 DEF EndCopy, BackToUser, Types, CallsOK, Calls, Transfers, GoTo, deviceVars
  <2> QED
    BY <1>c, <1>16, <2>1 DEF Uncounted
<1>17. CASE EnterMode2(t)
  <2>1. Quiet
    BY <1>2, <1>17 DEF EnterMode2, Enter, Down1, Types, CallsOK, Calls, Transfers, GoTo, deviceVars
  <2> QED
    BY <1>c, <1>17, <2>1 DEF Uncounted
<1>18. CASE EndCopyLocked(t)
  <2>1. Quiet
    BY <1>2, <1>18 DEF EndCopyLocked, Types, CallsOK, Calls, Transfers, GoTo, deviceVars
  <2> QED
    BY <1>c, <1>18, <2>1 DEF Uncounted
<1>19. CASE IoctlSame(t)
  <2>1. Quiet
    BY <1>2, <1>19 DEF IoctlSame, Enter, Down1, Types, CallsOK, Calls, Transfers, GoTo, deviceVars
  <2> QED
    BY <1>c, <1>19, <2>1 DEF Uncounted
<1>20. CASE IoctlWait(t)
  <2>1. Quiet
    BY <1>2, <1>20 DEF IoctlWait, Wait, Enter, Down1, Types, CallsOK, Calls, Transfers, GoTo, deviceVars
  <2> QED
    BY <1>c, <1>20, <2>1 DEF Uncounted
<1>21. CASE IoctlSwitch(t)
  <2>1. /\ sem1 > 0 /\ sem2' = sem2 /\ mode' = op[t] /\ op[t] # mode /\ Counted(op[t]) <= 1
        /\ op[t] \in Modes
        /\ \/ /\ op[t] = MODE2 /\ pc'[t] = "up2"
              /\ count1' = count1 - 1 /\ count2' = count2 + 1
           \/ /\ op[t] = MODE1 /\ pc'[t] = "down2"
              /\ count1' = count1 + 1 /\ count2' = count2 - 1
    BY <1>2, <1>21 DEF Types, IoctlSwitch, Switch, Enter, Down1, GoTo
  <2>2. Opened' = O /\ Leaving' = L /\ Admitting' = A
    BY <1>21, CountsMove DEF Uncounted
  <2> QED
    BY <1>b, <2>1, <2>2
<1>22. CASE UpAndWait(t)
  <2>1. Quiet
    BY <1>2, <1>22 DEF UpAndWait, Up1, Types, CallsOK, Calls, Transfers, GoTo, deviceVars
  <2> QED
    BY <1>c, <1>22, <2>1 DEF Uncounted
<1>23. CASE TestEvent(t)
  <2>1. Quiet
    BY <1>2, <1>23 DEF TestEvent, Types, CallsOK, Calls, Transfers, GoTo, deviceVars
  <2> QED
    BY <1>c, <1>23, <2>1 DEF Uncounted
<1>24. CASE RelockWait(t)
  <2>1. Quiet
    BY <1>2, <1>24 DEF RelockWait, Relock, Wait, Down1, Types, CallsOK, Calls, Transfers, GoTo, deviceVars
  <2> QED
    BY <1>c, <1>24, <2>1 DEF Uncounted
<1>25. CASE RelockSwitch(t)
  <2>1. /\ sem1 > 0 /\ sem1' = sem1 - 1 /\ sem2' = sem2
        /\ mode' = MODE1 /\ op[t] = MODE1 /\ op'[t] = MODE1 /\ Counted(op[t]) <= 1
        /\ pc'[t] = "down2" /\ count1' = count1 + 1 /\ count2' = count2 - 1
    BY <1>2, <1>25 DEF Types, RelockSwitch, Relock, Switch, Down1, GoTo, DeviceInv, WaitsOK, WaitOK, CallsOK
  <2>2. Opened' = O /\ Leaving' = L /\ Admitting' = A
    BY <1>25, CountsMove DEF Uncounted
  <2>3. CASE mode # MODE1
    BY <1>b, <2>1, <2>2, <2>3
\* The second switch: the thread's file has sem2.
  <2>4. CASE mode = MODE1
    <3>1. O > 0
      BY <2>1, CallKeepsOpen DEF OnFile
    <3>2. sem2 = 0 /\ O + L = 1 /\ count2 = 0 /\ sem1 = 1
      BY <1>2, <2>1, <2>4, <3>1, Sem1Free DEF Types
    <3>3. SwitchedTwice'
      BY <2>1, <3>2 DEF SwitchedTwice
    <3>4. \A u \in Threads : pc'[u] \notin {"releaseUp2", "up2"}
      BY <1>a, <2>1, Sem1Free DEF OthersStay
    <3> QED
      BY <2>1, <2>2, <3>2, <3>3, <3>4 DEF Sem2Held
  <2> QED
    BY <2>3, <2>4
<1>26. CASE IoctlUp2(t)
  <2>1. /\ pc[t] = "up2" /\ pc'[t] = "up1" /\ mode' = MODE2 /\ mode = MODE2
        /\ sem2' = 1 /\ count1' = count1 /\ count2' = count2
    BY <1>2, <1>26 DEF Types, IoctlUp2, Up2, GoTo, ModeAt, Sem2Held
  <2>2. Opened' = O /\ Leaving' = L /\ Admitting' = A
    BY <1>26, CountsMove DEF Uncounted
  <2> HIDE DEF O, A, L
  <2> QED
    BY <1>2, <1>3, <1>a, <2>1, <2>2, Sem1Free DEF OthersStay, Sem2Held, Sem1Held, O, A, L
<1>27. CASE IoctlDown2(t)
  <2>1. /\ pc[t] = "down2" /\ pc'[t] = "up1" /\ mode' = MODE1 /\ mode = MODE1
        /\ O + L = 1 /\ sem2' = 0 /\ count1' = count1 /\ count2' = count2
    BY <1>2, <1>27 DEF Types, IoctlDown2, Down2, GoTo, ModeAt, Sem2Held
  <2>2. Opened' = O /\ Leaving' = L /\ Admitting' = A
    BY <1>27, CountsMove DEF Uncounted
  <2> HIDE DEF O, A, L
  <2> QED
    BY <1>2, <1>3, <1>a, <2>1, <2>2, Sem1Free DEF OthersStay, Sem2Held, Sem1Held, O, A, L
<1>28. CASE Return(t)
  <2>1. /\ pc[t] = "up1" /\ pc'[t] = "user" /\ mode' = mode /\ sem2' = sem2
        /\ count1' = count1 /\ count2' = count2
    BY <1>2, <1>28 DEF Types, Return, BackToUser, GoTo
  <2>2. \A u \in Threads : pc[u] \notin {"releaseUp2", "down2", "up2"}
    BY <1>2, <2>1 DEF Sem1Held
  <2>3. /\ Opened' + Admitting' + Leaving' = O + A + L /\ Leaving' = L
        /\ Opened' = O \/ op[t] = "open"
    BY <1>2, <1>28, CountsMove DEF Uncounted
  <2>4. op[t] = "open" => mode = MODE2
    BY <1>2, <2>1 DEF ModeAt
  <2> QED
    BY <1>2, <1>3, <1>a, <2>1, <2>2, <2>3, <2>4 DEF OthersStay, Sem2Held
<1> QED
  BY <1>4, <1>5, <1>6, <1>7, <1>8, <1>9, <1>10, <1>11, <1>12, <1>13, <1>14, <1>15, <1>16, <1>17, <1>18, <1>19, <1>20, <1>21, <1>22, <1>23, <1>24, <1>25, <1>26, <1>27, <1>28 DEF AnyStep

\* The threads that wait in an ioctl, and the copies under way: a thread whose wait
\* or copy is overtaken by a switch shares its file with the thread that switched.
LEMMA WaitsNext ==
  ASSUME DeviceInv, ~Signals, NEW t \in Threads, AnyStep(t), ProcessOf' = ProcessOf
  PROVE  WaitsOK' /\ CopiesOK'
<1> USE DEF Types, CallsOK, ModeAt, MODE1, MODE2, Modes, Transfers, Calls, GoTo, deviceVars
<1>0. /\ Types /\ CallsOK /\ ModeAt /\ OthersStay(t)
      /\ \A u \in Threads : WaitOK(u)
      /\ \A u \in Threads : pc[u] = "copy" /\ ~Sharing(u) => mode = MODE1
  BY OthersNext DEF DeviceInv, WaitsOK, CopiesOK
<1>s. \A u \in Threads : Sharing(u)' <=> Sharing(u)
  BY DEF Sharing
<1>o. ASSUME NEW u \in Threads, u # t
      PROVE  /\ op'[u] = op[u]
             /\ pc'[u] = pc[u] \/ (pc[u] = "asleep" /\ pc'[u] = "waitEvent")
             /\ WaitOK(u)
  BY <1>0, <1>o DEF OthersStay
<1>n. count1 \in Int /\ count2 \in Int
  BY <1>0
\* A step that takes nothing off the counts.
<1>a. ASSUME mode' = mode, count1' >= count1, count2' >= count2, count1' \in Int, count2' \in Int,
             WaitOK(t)', pc'[t] = "copy" => mode' = MODE1
      PROVE  WaitsOK' /\ CopiesOK'
  <2>1. ASSUME NEW u \in Threads, u # t
        PROVE  WaitOK(u)'
    <3> HIDE DEF Types, CallsOK, ModeAt
    <3> QED
      BY <1>n, <1>o, <1>s, <1>a, <2>1 DEF WaitOK
  <2> QED
    BY <1>0, <1>s, <1>a, <2>1 DEF WaitsOK, CopiesOK, OthersStay
\* While one file is open a thread that waits or copies shares it.
<1>b. ASSUME op[t] \in OnFile, Opened <= 1, WaitOK(t)', pc'[t] # "copy",
             \A u \in Threads : u # t /\ op[u] = MODE2 => WaitOK(u)'
      PROVE  WaitsOK' /\ CopiesOK'
  <2>1. \A u \in Threads : u # t /\ op[u] \in OnFile => Sharing(u)'
    BY <1>s, <1>b, CallKeepsOpen DEF Sharing
  <2>2. \A u \in Threads : WaitOK(u)'
    BY <1>0, <1>b, <2>1 DEF WaitOK, OthersStay, OnFile
  <2>3. \A u \in Threads : pc'[u] = "copy" => Sharing(u)'
    BY <1>0, <1>b, <2>1 DEF OthersStay, OnFile
  <2> QED
    BY <2>2, <2>3 DEF WaitsOK, CopiesOK
<1>1. CASE CallOpen(t)
  <2>1. WaitOK(t)' /\ (pc'[t] = "copy" => mode' = MODE1)
    BY <1>0, <1>1, <1>s DEF CallOpen, Call, WaitOK
  <2>2. mode' = mode /\ count1' >= count1 /\ count2' >= count2
        /\ count1' \in Int /\ count2' \in Int
    BY <1>0, <1>1 DEF CallOpen, Call
  <2> QED
    BY <1>a, <2>1, <2>2
<1>2. CASE CallOnFile(t)
  <2>1. WaitOK(t)' /\ (pc'[t] = "copy" => mode' = MODE1)
    BY <1>0, <1>2, <1>s DEF CallOnFile, Call, WaitOK
  <2>2. mode' = mode /\ count1' >= count1 /\ count2' >= count2
        /\ count1' \in Int /\ count2' \in Int
    BY <1>0, <1>2 DEF CallOnFile, Call
  <2> QED
    BY <1>a, <2>1, <2>2
<1>3. CASE CallRelease(t)
  <2>1. WaitOK(t)' /\ (pc'[t] = "copy" => mode' = MODE1)
    BY <1>0, <1>3, <1>s DEF CallRelease, Call, WaitOK
  <2>2. mode' = mode /\ count1' >= count1 /\ count2' >= count2
        /\ count1' \in Int /\ count2' \in Int
    BY <1>0, <1>3 DEF CallRelease, Call
  <2> QED
    BY <1>a, <2>1, <2>2
<1>4. CASE OpenMode1(t)
  <2>1. WaitOK(t)' /\ (pc'[t] = "copy" => mode' = MODE1)
    BY <1>0, <1>4, <1>s DEF OpenMode1, Enter, Down1, WaitOK
  <2>2. mode' = mode /\ count1' >= count1 /\ count2' >= count2
        /\ count1' \in Int /\ count2' \in Int
    BY <1>0, <1>4 DEF OpenMode1, Enter, Down1
  <2> QED
    BY <1>a, <2>1, <2>2
<1>5. CASE OpenMode2(t)
  <2>1. WaitOK(t)' /\ (pc'[t] = "copy" => mode' = MODE1)
    BY <1>0, <1>5, <1>s DEF OpenMode2, Enter, Down1, WaitOK
  <2>2. mode' = mode /\ count1' >= count1 /\ count2' >= count2
        /\ count1' \in Int /\ count2' \in Int
    BY <1>0, <1>5 DEF OpenMode2, Enter, Down1
  <2> QED
    BY <1>a, <2>1, <2>2
<1>6. CASE OpenUp(t)
  <2>1. WaitOK(t)' /\ (pc'[t] = "copy" => mode' = MODE1)
    BY <1>0, <1>6, <1>s DEF OpenUp, Up1, WaitOK
  <2>2. mode' = mode /\ count1' >= count1 /\ count2' >= count2
        /\ count1' \in Int /\ count2' \in Int
    BY <1>0, <1>6 DEF OpenUp, Up1
  <2> QED
    BY <1>a, <2>1, <2>2
<1>7. CASE OpenDown2(t)
  <2>1. WaitOK(t)' /\ (pc'[t] = "copy" => mode' = MODE1)
    BY <1>0, <1>7, <1>s DEF OpenDown2, Down2, BackToUser, WaitOK
  <2>2. mode' = mode /\ count1' >= count1 /\ count2' >= count2
        /\ count1' \in Int /\ count2' \in Int
    BY <1>0, <1>7 DEF OpenDown2, Down2, BackToUser
  <2> QED
    BY <1>a, <2>1, <2>2
<1>8. CASE ReleaseMode1(t)
  <2>1. /\ mode = MODE1 /\ mode' = MODE1 /\ count2' = count2
        /\ pc'[t] = "releaseUp2" /\ Leaving > 0
    BY <1>0, <1>8, CountsMove DEF ReleaseMode1, Enter, Down1, WakeAndGo
  <2>2. \A u \in Threads : op[u] # MODE2
    BY <1>0, <2>1, Mode1Alone, CallKeepsOpen, CountsFinite DEF OnFile
  <2>3. ASSUME NEW u \in Threads, u # t
        PROVE  WaitOK(u)'
    <3> HIDE DEF Types, CallsOK, ModeAt
    <3> QED
      BY <1>n, <1>o, <1>s, <2>1, <2>2, <2>3 DEF WaitOK
  <2>4. WaitOK(t)'
    BY <2>1 DEF WaitOK
  <2> QED
    BY <2>1, <2>3, <2>4 DEF WaitsOK, CopiesOK
<1>9. CASE ReleaseUp2(t)
  <2>1. WaitOK(t)' /\ (pc'[t] = "copy" => mode' = MODE1)
    BY <1>0, <1>9, <1>s DEF ReleaseUp2, Up2, WaitOK
  <2>2. mode' = mode /\ count1' >= count1 /\ count2' >= count2
        /\ count1' \in Int /\ count2' \in Int
    BY <1>0, <1>9 DEF ReleaseUp2, Up2
  <2> QED
    BY <1>a, <2>1, <2>2
<1>10. CASE ReleaseMode2(t)
  <2>1. /\ mode = MODE2 /\ mode' = MODE2 /\ count2' = count2 - 1 /\ count1' = count1
        /\ pc'[t] = "up1" /\ sem1 > 0 /\ Leaving > 0
        /\ \A u \in Threads : u # t /\ pc[u] = "asleep" /\ op[u] = MODE1 /\ count2' = 1 =>
             pc'[u] = "waitEvent"
    BY <1>0, <1>10, CountsMove DEF ReleaseMode2, Enter, Down1, WakeAndGo
  <2>2. \A u \in Threads : op[u] = MODE1 => count2' > 0
    BY <1>0, <2>1, Sem1Free, CallKeepsOpen, CountsFinite DEF OnFile
  <2>3. \A u \in Threads : pc[u] # "upAndWait"
    BY <2>1, Sem1Free DEF Held1
  <2>4. ASSUME NEW u \in Threads, u # t
        PROVE  WaitOK(u)'
    <3>1. count2' \in Int /\ pc[u] # "upAndWait" /\ (op[u] = MODE1 => count2' > 0)
      BY <1>n, <2>1, <2>2, <2>3
    <3> HIDE DEF Types, CallsOK, ModeAt
    <3> QED
      BY <1>n, <1>o, <1>s, <2>1, <2>4, <3>1 DEF WaitOK
  <2>5. WaitOK(t)'
    BY <2>1 DEF WaitOK
  <2>6. \A u \in Threads : pc'[u] = "copy" => Sharing(u)'
    BY <1>0, <1>s, <2>1 DEF OthersStay
  <2> QED
    BY <2>4, <2>5, <2>6 DEF WaitsOK, CopiesOK
<1>11. CASE EnterMode1(t)
  <2>1. WaitOK(t)' /\ (pc'[t] = "copy" => mode' = MODE1)
    BY <1>0, <1>11, <1>s DEF EnterMode1, Enter, Down1, WaitOK
  <2>2. mode' = mode /\ count1' >= count1 /\ count2' >= count2
        /\ count1' \in Int /\ count2' \in Int
    BY <1>0, <1>11 DEF EnterMode1, Enter, Down1
  <2> QED
    BY <1>a, <2>1, <2>2
<1>12. CASE StartCopy(t)
  <2>1. WaitOK(t)' /\ (pc'[t] = "copy" => mode' = MODE1)
    BY <1>0, <1>12, <1>s DEF StartCopy, Up1, BackToUser, WaitOK
  <2>2. mode' = mode /\ count1' >= count1 /\ count2' >= count2
        /\ count1' \in Int /\ count2' \in Int
    BY <1>0, <1>12 DEF StartCopy, Up1, BackToUser
  <2> QED
    BY <1>a, <2>1, <2>2
<1>13. CASE EndCopy(t)
  <2>1. WaitOK(t)' /\ (pc'[t] = "copy" => mode' = MODE1)
    BY <1>0, <1>13, <1>s DEF EndCopy, BackToUser, WaitOK
  <2>2. mode' = mode /\ count1' >= count1 /\ count2' >= count2
        /\ count1' \in Int /\ count2' \in Int
    BY <1>0, <1>13 DEF EndCopy, BackToUser
  <2> QED
    BY <1>a, <2>1, <2>2
<1>14. CASE EnterMode2(t)
  <2>1. WaitOK(t)' /\ (pc'[t] = "copy" => mode' = MODE1)
    BY <1>0, <1>14, <1>s DEF EnterMode2, Enter, Down1, WaitOK
  <2>2. mode' = mode /\ count1' >= count1 /\ count2' >= count2
        /\ count1' \in Int /\ count2' \in Int
    BY <1>0, <1>14 DEF EnterMode2, Enter, Down1
  <2> QED
    BY <1>a, <2>1, <2>2
<1>15. CASE EndCopyLocked(t)
  <2>1. WaitOK(t)' /\ (pc'[t] = "copy" => mode' = MODE1)
    BY <1>0, <1>15, <1>s DEF EndCopyLocked, WaitOK
  <2>2. mode' = mode /\ count1' >= count1 /\ count2' >= count2
        /\ count1' \in Int /\ count2' \in Int
    BY <1>0, <1>15 DEF EndCopyLocked
  <2> QED
    BY <1>a, <2>1, <2>2
<1>16. CASE IoctlSame(t)
  <2>1. WaitOK(t)' /\ (pc'[t] = "copy" => mode' = MODE1)
    BY <1>0, <1>16, <1>s DEF IoctlSame, Enter, Down1, WaitOK
  <2>2. mode' = mode /\ count1' >= count1 /\ count2' >= count2
        /\ count1' \in Int /\ count2' \in Int
    BY <1>0, <1>16 DEF IoctlSame, Enter, Down1
  <2> QED
    BY <1>a, <2>1, <2>2
<1>17. CASE IoctlWait(t)
  <2>1. WaitOK(t)' /\ (pc'[t] = "copy" => mode' = MODE1)
    BY <1>0, <1>17, <1>s DEF IoctlWait, Wait, Enter, Down1, WaitOK, Counted
  <2>2. mode' = mode /\ count1' >= count1 /\ count2' >= count2
        /\ count1' \in Int /\ count2' \in Int
    BY <1>0, <1>17 DEF IoctlWait, Wait, Enter, Down1
  <2> QED
    BY <1>a, <2>1, <2>2
<1>18. CASE IoctlSwitch(t)
  <2>1. /\ sem1 > 0 /\ Counted(op[t]) <= 1 /\ op[t] \in Modes \ {mode}
        /\ pc'[t] \in {"up2", "down2"}
    BY <1>0, <1>18 DEF IoctlSwitch, Switch, Enter, Down1
  <2>2. Opened <= 1
    BY <2>1, SwitchAlone
  <2>3. mode = MODE2 \/ count1 <= 1
    BY <1>0, <2>1 DEF Counted
  <2>4. \A u \in Threads : u # t /\ op[u] = MODE2 => WaitOK(u)'
    BY <1>0, <2>3 DEF OthersStay, WaitOK
  <2>5. WaitOK(t)'
    BY <2>1 DEF WaitOK
  <2> QED
    BY <1>b, <2>1, <2>2, <2>4, <2>5 DEF OnFile
<1>19. CASE UpAndWait(t)
  <2>1. WaitOK(t)' /\ (pc'[t] = "copy" => mode' = MODE1)
    BY <1>0, <1>19, <1>s DEF UpAndWait, Up1, WaitOK
  <2>2. mode' = mode /\ count1' >= count1 /\ count2' >= count2
        /\ count1' \in Int /\ count2' \in Int
    BY <1>0, <1>19 DEF UpAndWait, Up1
  <2> QED
    BY <1>a, <2>1, <2>2
<1>20. CASE TestEvent(t)
  <2>1. WaitOK(t)' /\ (pc'[t] = "copy" => mode' = MODE1)
    BY <1>0, <1>20, <1>s DEF TestEvent, WaitOK, Counted
  <2>2. mode' = mode /\ count1' >= count1 /\ count2' >= count2
        /\ count1' \in Int /\ count2' \in Int
    BY <1>0, <1>20 DEF TestEvent
  <2> QED
    BY <1>a, <2>1, <2>2
<1>21. CASE RelockWait(t)
  <2>1. WaitOK(t)' /\ (pc'[t] = "copy" => mode' = MODE1)
    BY <1>0, <1>21, <1>s DEF RelockWait, Relock, Wait, Down1, WaitOK, Counted
  <2>2. mode' = mode /\ count1' >= count1 /\ count2' >= count2
        /\ count1' \in Int /\ count2' \in Int
    BY <1>0, <1>21 DEF RelockWait, Relock, Wait, Down1
  <2> QED
    BY <1>a, <2>1, <2>2
<1>22. CASE RelockSwitch(t)
  <2>1. /\ sem1 > 0 /\ Counted(op[t]) <= 1 /\ op[t] = MODE1 /\ pc'[t] = "down2"
        /\ mode' = MODE1 /\ count1' = count1 + 1
    BY <1>0, <1>22 DEF RelockSwitch, Relock, Switch, Down1, WaitOK
  <2>2. Opened <= 1
    <3>1. CASE mode = MODE1
      BY <3>1, Mode1Alone, CountsFinite
    <3>2. CASE mode # MODE1
      BY <2>1, <3>2, SwitchAlone
    <3> QED
      BY <3>1, <3>2
  <2>4. \A u \in Threads : u # t /\ op[u] = MODE2 => WaitOK(u)'
    BY <1>0, <2>1 DEF OthersStay, WaitOK
  <2>5. WaitOK(t)'
    BY <2>1 DEF WaitOK
  <2> QED
    BY <1>b, <2>1, <2>2, <2>4, <2>5 DEF OnFile
<1>23. CASE IoctlUp2(t)
  <2>1. WaitOK(t)' /\ (pc'[t] = "copy" => mode' = MODE1)
    BY <1>0, <1>23, <1>s DEF IoctlUp2, Up2, WaitOK
  <2>2. mode' = mode /\ count1' >= count1 /\ count2' >= count2
        /\ count1' \in Int /\ count2' \in Int
    BY <1>0, <1>23 DEF IoctlUp2, Up2
  <2> QED
    BY <1>a, <2>1, <2>2
<1>24. CASE IoctlDown2(t)
  <2>1. WaitOK(t)' /\ (pc'[t] = "copy" => mode' = MODE1)
    BY <1>0, <1>24, <1>s DEF IoctlDown2, Down2, WaitOK
  <2>2. mode' = mode /\ count1' >= count1 /\ count2' >= count2
        /\ count1' \in Int /\ count2' \in Int
    BY <1>0, <1>24 DEF IoctlDown2, Down2
  <2> QED
    BY <1>a, <2>1, <2>2
<1>25. CASE Return(t)
  <2>1. WaitOK(t)' /\ (pc'[t] = "copy" => mode' = MODE1)
    BY <1>0, <1>25, <1>s DEF Return, Up1, BackToUser, WaitOK
  <2>2. mode' = mode /\ count1' >= count1 /\ count2' >= count2
        /\ count1' \in Int /\ count2' \in Int
    BY <1>0, <1>25 DEF Return, Up1, BackToUser
  <2> QED
    BY <1>a, <2>1, <2>2
<1> QED
  BY <1>1, <1>2, <1>3, <1>4, <1>5, <1>6, <1>7, <1>8, <1>9, <1>10, <1>11, <1>12, <1>13, <1>14, <1>15, <1>16, <1>17, <1>18, <1>19, <1>20, <1>21, <1>22, <1>23, <1>24, <1>25 DEF AnyStep

\* The types; an up is made only by who has the semaphore.
LEMMA TypesNext ==
  ASSUME DeviceInv, ~Signals, NEW t \in Threads, AnyStep(t), ProcessOf' = ProcessOf
  PROVE  Types'
<1>0. Types /\ files' \in [Processes -> Nat]
  BY FilesNext DEF DeviceInv
<1>1. pc[t] \in Held1 => sem1 = 0
  BY DEF DeviceInv, Sem1Held
<1>2. pc[t] \in {"releaseUp2", "up2"} => sem2 = 0
  BY DEF DeviceInv, Sem2Held
<1> SUFFICES /\ sem1' \in 0 .. 1 /\ sem2' \in 0 .. 1
             /\ count1' \in Nat /\ count2' \in Int
             /\ mode' \in Modes
             /\ pc' \in [Threads -> Places] /\ op' \in [Threads -> Calls \cup {"none"}]
  BY <1>0 DEF Types
<1> USE DEF Types, Held1, Places, Calls, Transfers, Modes, MODE1, MODE2, GoTo, deviceVars
<1>3. CASE CallOpen(t)
  BY <1>0, <1>1, <1>2, <1>3 DEF CallOpen, Call
<1>4. CASE CallOnFile(t)
  BY <1>0, <1>1, <1>2, <1>4 DEF CallOnFile, Call
<1>5. CASE CallRelease(t)
  BY <1>0, <1>1, <1>2, <1>5 DEF CallRelease, Call
<1>6. CASE OpenMode1(t)
  BY <1>0, <1>1, <1>2, <1>6 DEF OpenMode1, Enter, Down1
<1>7. CASE OpenMode2(t)
  BY <1>0, <1>1, <1>2, <1>7 DEF OpenMode2, Enter, Down1
<1>8. CASE OpenUp(t)
  BY <1>0, <1>1, <1>2, <1>8 DEF OpenUp, Up1
<1>9. CASE OpenDown2(t)
  BY <1>0, <1>1, <1>2, <1>9 DEF OpenDown2, Down2, BackToUser
<1>10. CASE ReleaseMode1(t)
  <2>1. count1 > 0
    BY <1>0, <1>10, Sem1Free, CountsMove, CountsFinite DEF ReleaseMode1, Enter, Down1
  <2> QED
    BY <1>0, <1>1, <1>2, <1>10, <2>1 DEF ReleaseMode1, Enter, Down1, WakeAndGo
<1>11. CASE ReleaseUp2(t)
  BY <1>0, <1>1, <1>2, <1>11 DEF ReleaseUp2, Up2
<1>12. CASE ReleaseMode2(t)
  BY <1>0, <1>1, <1>2, <1>12 DEF ReleaseMode2, Enter, Down1, WakeAndGo
<1>13. CASE EnterMode1(t)
  BY <1>0, <1>1, <1>2, <1>13 DEF EnterMode1, Enter, Down1
<1>14. CASE StartCopy(t)
  BY <1>0, <1>1, <1>2, <1>14 DEF StartCopy, Up1, BackToUser
<1>15. CASE EndCopy(t)
  BY <1>0, <1>1, <1>2, <1>15 DEF EndCopy, BackToUser
<1>16. CASE EnterMode2(t)
  BY <1>0, <1>1, <1>2, <1>16 DEF EnterMode2, Enter, Down1
<1>17. CASE EndCopyLocked(t)
  BY <1>0, <1>1, <1>2, <1>17 DEF EndCopyLocked
<1>18. CASE IoctlSame(t)
  BY <1>0, <1>1, <1>2, <1>18 DEF IoctlSame, Enter, Down1
<1>19. CASE IoctlWait(t)
  BY <1>0, <1>1, <1>2, <1>19 DEF IoctlWait, Wait, Enter, Down1
<1>20. CASE IoctlSwitch(t)
  <2>1. op[t] = MODE2 => count1 > 0
    BY <1>0, <1>20, SwitchAlone DEF IoctlSwitch, Switch, Enter, Down1, Counted
  <2> QED
    BY <1>0, <1>1, <1>2, <1>20, <2>1 DEF IoctlSwitch, Switch, Enter, Down1
<1>21. CASE UpAndWait(t)
  BY <1>0, <1>1, <1>2, <1>21 DEF UpAndWait, Up1
<1>22. CASE TestEvent(t)
  BY <1>0, <1>1, <1>2, <1>22 DEF TestEvent
<1>23. CASE RelockWait(t)
  BY <1>0, <1>1, <1>2, <1>23 DEF RelockWait, Relock, Wait, Down1
<1>24. CASE RelockSwitch(t)
  <2>1. op[t] # MODE2
    BY <1>24 DEF RelockSwitch, Relock, DeviceInv, WaitsOK, WaitOK
  <2> QED
    BY <1>0, <1>1, <1>2, <1>24, <2>1 DEF RelockSwitch, Relock, Switch, Down1
<1>25. CASE IoctlUp2(t)
  BY <1>0, <1>1, <1>2, <1>25 DEF IoctlUp2, Up2
<1>26. CASE IoctlDown2(t)
  BY <1>0, <1>1, <1>2, <1>26 DEF IoctlDown2, Down2
<1>27. CASE Return(t)
  BY <1>0, <1>1, <1>2, <1>27 DEF Return, Up1, BackToUser, DeviceInv
<1> QED
  BY <1>3, <1>4, <1>5, <1>6, <1>7, <1>8, <1>9, <1>10, <1>11, <1>12, <1>13, <1>14, <1>15, <1>16, <1>17, <1>18, <1>19, <1>20, <1>21, <1>22, <1>23, <1>24, <1>25, <1>26, <1>27 DEF AnyStep

\* Nothing is counted at first.
LEMMA DeviceInvInit == Init => DeviceInv
<1> SUFFICES ASSUME Init PROVE DeviceInv
  OBVIOUS
<1>1. /\ OpenFiles = {} /\ AdmittingThreads = {} /\ LeavingThreads = {}
      /\ \A p \in Processes : InCall(p, {"open"}) = {}
  BY DeviceAssumption DEF Init, OpenFiles, AdmittingThreads, LeavingThreads, InCall
<1>2. Opened = 0 /\ Admitting = 0 /\ Leaving = 0 /\ Counts = 0
  BY <1>1, FS_EmptySet DEF Opened, Admitting, Leaving, Counts
<1>3. FilesBounded
  <2> SUFFICES ASSUME NEW p \in Processes
               PROVE  files[p] + Cardinality(InCall(p, {"open"})) <= MaxFiles
    BY DEF FilesBounded
  <2>1. Cardinality(InCall(p, {"open"})) = 0
    BY <1>1, FS_EmptySet
  <2>2. files[p] = 0
    BY DEF Init
  <2> QED
    BY <2>1, <2>2, DeviceAssumption
<1>4. Types /\ CallsOK /\ Sem1Held /\ FilesHeld /\ ModeAt
  BY DEF Init, Types, CallsOK, Sem1Held, FilesHeld, ModeAt, Modes, Places, Held1, OnFile,
         MODE1, MODE2
<1>5. Sem2Held /\ CountsAgree
  BY <1>2 DEF Init, Sem2Held, CountsAgree, MODE1, MODE2
<1>6. WaitsOK /\ CopiesOK
  BY DEF Init, WaitsOK, WaitOK, CopiesOK, MODE1, MODE2
<1> QED
  BY <1>3, <1>4, <1>5, <1>6 DEF DeviceInv

LEMMA DeviceInvNext == ~Signals /\ DeviceInv /\ [Next]_vars => DeviceInv'
<1> SUFFICES ASSUME ~Signals, DeviceInv, [Next]_vars PROVE DeviceInv'
  OBVIOUS
<1>1. CASE Next
  <2>1. PICK t \in Threads : CallOpen(t) \/ CallOnFile(t) \/ CallRelease(t) \/ DriverStep(t)
    BY <1>1 DEF Next
  <2>2. AnyStep(t) /\ ProcessOf' = ProcessOf
    BY <2>1, StepsAre
  <2> QED
    BY <2>2, TypesNext, PlacesNext, FilesNext, ModeNext, Sem2Next, WaitsNext DEF DeviceInv
<1>2. CASE UNCHANGED vars
  <2> USE <1>2 DEF vars
  <2>1. /\ Opened' = Opened /\ Admitting' = Admitting /\ Leaving' = Leaving
        /\ Counts' = Counts /\ (SwitchedTwice' <=> SwitchedTwice)
    BY DEF Opened, Admitting, Leaving, Counts, OpenFiles, AdmittingThreads, LeavingThreads,
           SwitchedTwice
  <2>2. Types' /\ CallsOK' /\ Sem1Held' /\ FilesHeld' /\ FilesBounded' /\ ModeAt'
    BY DEF DeviceInv, Types, CallsOK, Sem1Held, FilesHeld, FilesBounded, ModeAt, InCall
  <2>3. Sem2Held' /\ CountsAgree'
    BY <2>1 DEF DeviceInv, Sem2Held, CountsAgree
  <2>4. WaitsOK' /\ CopiesOK'
    BY DEF DeviceInv, WaitsOK, WaitOK, CopiesOK, Sharing
  <2> QED
    BY <2>2, <2>3, <2>4 DEF DeviceInv
<1> QED
  BY <1>1, <1>2

-----------------------------------------------------------------------------
(* What the device promises *)

\* While signals are off every reachable state satisfies the invariant.
LEMMA DeviceInvariant == ASSUME ~Signals PROVE Spec => []DeviceInv
<1>1. DeviceInv /\ [Next]_vars => DeviceInv'
  BY DeviceInvNext
<1> QED
  BY <1>1, DeviceInvInit, PTL DEF Spec

\* The semaphores stay binary, the counters count and no process has more files than
\* it may have: hw6/assignment6.c, my_init to e2_ioctl.
THEOREM DeviceTypes == ASSUME ~Signals PROVE Spec => []TypeOK
<1>1. DeviceInv => TypeOK
  <2> SUFFICES ASSUME DeviceInv PROVE TypeOK
    OBVIOUS
  <2>1. count2 \in Nat \cup {-1}
    BY CountsFinite DEF DeviceInv, CountsAgree, SwitchedTwice
  <2>2. files \in [Processes -> 0 .. MaxFiles]
    BY FilesAtMost, DeviceAssumption DEF DeviceInv, Types
  <2> QED
    BY <2>1, <2>2 DEF DeviceInv, Types, TypeOK
<1> QED
  BY <1>1, DeviceInvariant, PTL

\* count1 and count2 (lines 47, 53, 63, 71, 158-159 and 178-179) count the files in the
\* driver's hands, each in the current mode, unless two threads switched at once.
THEOREM DeviceCounts == ASSUME ~Signals PROVE Spec => []CountsAgree
<1>1. DeviceInv => CountsAgree
  BY DEF DeviceInv
<1> QED
  BY <1>1, DeviceInvariant, PTL

\* MODE1 is exclusive: the wait of line 49 admits no second file, whatever switches came
\* before.
THEOREM DeviceExclusive == ASSUME ~Signals PROVE Spec => []OneFileInMode1
<1>1. DeviceInv => OneFileInMode1
  BY Mode1Alone, CountsFinite DEF OneFileInMode1, Opened
<1> QED
  BY <1>1, DeviceInvariant, PTL

\* No copy of e2_read or e2_write (lines 78-128) runs during a write, except in a process
\* whose threads share the file.
THEOREM DeviceCopies == ASSUME ~Signals PROVE Spec => []CopyExclusion
<1>1. DeviceInv => CopyExclusion
  <2> SUFFICES ASSUME DeviceInv, NEW t \in Threads, NEW u \in Threads,
                      t # u, Copying(t), Copying(u)
               PROVE  \E v \in {t, u} : pc[v] = "copy" /\ Sharing(v)
    BY DEF CopyExclusion
  <2>1. CASE pc[t] = "copyLocked" /\ pc[u] = "copyLocked"
    BY <2>1 DEF DeviceInv, Sem1Held, Held1
  <2>2. CASE mode = MODE2
    BY <2>1, <2>2 DEF Copying, DeviceInv, CopiesOK, MODE1, MODE2
  <2>3. CASE mode = MODE1
    <3>1. pc[t] = "copy" /\ pc[u] = "copy"
      BY <2>3 DEF Copying, DeviceInv, ModeAt, MODE1, MODE2
    <3>2. op[t] \in OnFile /\ op[u] \in OnFile
      BY <3>1 DEF DeviceInv, CallsOK, Transfers, OnFile
    <3>3. Opened <= 1
      BY <2>3, Mode1Alone, CountsFinite
    <3>4. ProcessOf[t] = ProcessOf[u]
      BY <3>2, <3>3, CallKeepsOpen
    <3> QED
      BY <3>1, <3>4 DEF Sharing
  <2> QED
    BY <2>2, <2>3 DEF DeviceInv, Types, Modes
<1> QED
  BY <1>1, DeviceInvariant, PTL

\* A thread asleep in wait_event_interruptible (lines 154 and 174) has something to wait
\* for, or shares its file.
THEOREM DeviceWakes == ASSUME ~Signals PROVE Spec => []NoLostWakeup
<1>1. DeviceInv => NoLostWakeup
  <2> SUFFICES ASSUME DeviceInv, NEW t \in Threads, pc[t] = "asleep"
               PROVE  Counted(op[t]) > 1 \/ Sharing(t)
    BY DEF NoLostWakeup
  <2>1. op[t] \in Modes
    BY DEF DeviceInv, CallsOK
  <2> QED
    BY <2>1 DEF DeviceInv, WaitsOK, WaitOK, Counted, Modes, MODE1, MODE2
<1> QED
  BY <1>1, DeviceInvariant, PTL

\* With a file of one process only, and one file of it, one file is open.
LEMMA FewFiles ==
  ASSUME Types, NEW p \in Processes, files[p] <= 1, \A q \in Processes \ {p} : files[q] = 0
  PROVE  Opened <= 1
<1>1. OpenFiles \subseteq {<<p, 1>>}
  <2> SUFFICES ASSUME NEW q \in Processes, NEW i \in 1 .. MaxFiles, i <= files[q]
               PROVE  q = p /\ i = 1
    BY DEF OpenFiles
  <2>1. i \in Nat /\ i > 0 /\ files[q] \in Nat
    BY DeviceAssumption DEF Types
  <2>2. q = p
    BY <2>1
  <2> QED
    BY <2>1, <2>2
<1>2. IsFiniteSet({<<p, 1>>}) /\ Cardinality({<<p, 1>>}) = 1
  BY FS_Singleton
<1>3. Cardinality(OpenFiles) <= Cardinality({<<p, 1>>})
  BY <1>1, <1>2, FS_Subset
<1> QED
  BY <1>2, <1>3 DEF Opened

\* When the threads block each other nobody has sem1: all are asleep, or wait for sem2
\* in e2_open.
LEMMA BlockedThreads ==
  ASSUME DeviceInv, \A t \in Threads : Blocked(t), ~SwitchedTwice
  PROVE  /\ sem1 = 1 /\ Leaving = 0
         /\ \A t \in Threads :
              \/ pc[t] = "asleep" /\ op[t] \in Modes
              \/ pc[t] = "openDown2" /\ op[t] = "open" /\ sem2 = 0
<1>1. \A t \in Threads : pc[t] \notin Held1
  BY DEF Blocked, Held1, DeviceInv, Sem2Held
<1>2. sem1 = 1
  BY <1>1 DEF DeviceInv, Sem1Held, Types
<1>3. \A t \in Threads : pc[t] = "asleep" \/ (pc[t] = "openDown2" /\ sem2 = 0)
  BY <1>1, <1>2 DEF Blocked, Held1
<1>4. Leaving = 0
  BY <1>3, CountedThreads, CountsFinite DEF LeavingThreads
<1> QED
  BY <1>2, <1>3, <1>4 DEF DeviceInv, CallsOK

\* A thread asleep in MODE1 that asked for MODE1 shares its file.
LEMMA AsleepShares ==
  ASSUME DeviceInv, sem1 > 0, NEW t \in Threads, pc[t] = "asleep", op[t] = MODE1, mode = MODE1
  PROVE  \E u \in Threads \ {t} : ProcessOf[u] = ProcessOf[t]
BY Sem1Free DEF DeviceInv, WaitsOK, WaitOK, Sharing

\* The threads can block each other in five ways only; the first four are the deadlocks
\* of solution.md and of a process with two files.
THEOREM DeviceDeadlocks == ASSUME ~Signals PROVE Spec => []DeadlockForms
<1>1. DeviceInv => DeadlockForms
  <2> SUFFICES ASSUME DeviceInv, \A t \in Threads : Blocked(t), ~SwitchedTwice
      PROVE \/ \E t \in Threads : pc[t] = "openDown2" /\ files[ProcessOf[t]] > 0
            \/ \E t, u \in Threads : Waiting(t, MODE2, "asleep")
                                     /\ Waiting(u, "open", "openDown2")
            \/ \E t, u \in Threads : t # u /\ Waiting(t, MODE1, "asleep")
                                           /\ Waiting(u, MODE1, "asleep")
            \/ \E t \in Threads : Waiting(t, MODE1, "asleep") /\ files[ProcessOf[t]] > 1
    BY DEF DeadlockForms
  <2> USE DEF Waiting
  <2>1. /\ sem1 = 1 /\ Leaving = 0
        /\ \A t \in Threads :
             \/ pc[t] = "asleep" /\ op[t] \in Modes
             \/ pc[t] = "openDown2" /\ op[t] = "open" /\ sem2 = 0
    BY BlockedThreads
  <2>2. /\ Opened \in Nat /\ Admitting \in Nat
        /\ \A p \in Processes : files[p] \in Nat /\ files[p] <= MaxFiles
        /\ \A t \in Threads : ProcessOf[t] \in Processes
    BY CountsFinite, FilesAtMost, DeviceAssumption DEF DeviceInv, Types
  \* Somebody waits for sem2, which is with the one open file.
  <2>3. CASE \E u \in Threads : pc[u] = "openDown2"
    <3>1. PICK u \in Threads : pc[u] = "openDown2"
      BY <2>3
    <3>2. mode = MODE1 /\ op[u] = "open" /\ sem2 = 0
      BY <2>1, <3>1 DEF DeviceInv, ModeAt
    <3>3. Opened = 1
      BY <2>1, <2>2, <3>2, Sem1Free
    <3>4. PICK p \in Processes : files[p] > 0
      BY <2>2, <3>3, CountedFiles DEF DeviceInv
    <3>5. PICK v \in Threads : ProcessOf[v] = p
      BY <3>4 DEF DeviceInv, FilesHeld
    <3>6. CASE pc[v] = "openDown2"
      BY <3>4, <3>5, <3>6
    <3>7. CASE pc[v] = "asleep" /\ op[v] = MODE2
      BY <3>1, <3>2, <3>7
    <3>8. CASE pc[v] = "asleep" /\ op[v] = MODE1
      <4>1. PICK w \in Threads \ {v} : ProcessOf[w] = p
        BY <2>1, <3>2, <3>5, <3>8, AsleepShares
      <4>2. CASE pc[w] = "openDown2"
        BY <3>4, <4>1, <4>2
      <4>3. CASE pc[w] = "asleep" /\ op[w] = MODE2
        BY <3>1, <3>2, <4>3
      <4>4. CASE pc[w] = "asleep" /\ op[w] = MODE1
        BY <3>8, <4>1, <4>4
      <4> QED
        BY <2>1, <4>2, <4>3, <4>4 DEF Modes
    <3> QED
      BY <2>1, <3>6, <3>7, <3>8 DEF Modes
  \* All are asleep, and nothing is to be admitted.
  <2>4. CASE \A u \in Threads : pc[u] = "asleep"
    <3>1. PICK t \in Threads : pc[t] = "asleep" /\ op[t] \in Modes
      BY <2>1, <2>4, DeviceAssumption
    <3>2. Admitting = 0
      BY <2>2, <2>4, CountedThreads DEF AdmittingThreads
    <3>3. \A u \in Threads : op[u] = MODE1
      <4> SUFFICES ASSUME NEW u \in Threads, op[u] = MODE2 PROVE FALSE
        BY <2>1, <2>4 DEF Modes
      <4>1. mode = MODE1 /\ count1 > 1
        BY <2>4 DEF DeviceInv, WaitsOK, WaitOK
      <4> QED
        BY <2>1, <2>2, <3>2, <4>1, Sem1Free DEF DeviceInv, Types
    <3>4. CASE \E u \in Threads : u # t
      BY <2>4, <3>1, <3>3, <3>4
    <3>5. CASE \A u \in Threads : u = t
      <4>1. count2 > 1
        BY <3>1, <3>3, <3>5 DEF DeviceInv, WaitsOK, WaitOK, Sharing
      <4>2. Opened > 1
        BY <2>1, <2>2, <3>2, <4>1, Sem1Free DEF DeviceInv, Types, Modes
      <4>3. \A q \in Processes \ {ProcessOf[t]} : files[q] = 0
        BY <2>2, <3>5 DEF DeviceInv, FilesHeld
      <4>4. files[ProcessOf[t]] > 1
        BY <2>2, <4>2, <4>3, FewFiles DEF DeviceInv
      <4> QED
        BY <3>1, <3>3, <4>4
    <3> QED
      BY <3>4, <3>5
  <2> QED
    BY <2>1, <2>3, <2>4
<1> QED
  BY <1>1, DeviceInvariant, PTL

\* Two threads that switched stop the driver for good (line 181): the second part of
\* Sem1Released.
THEOREM DeviceStuck == ASSUME ~Signals PROVE Spec => [](SwitchedTwice => []SwitchedTwice)
<1>1. DeviceInv /\ SwitchedTwice /\ [Next]_vars => SwitchedTwice'
  <2> SUFFICES ASSUME DeviceInv, SwitchedTwice, [Next]_vars PROVE SwitchedTwice'
    OBVIOUS
  <2>1. CASE Next
    <3>1. PICK t \in Threads : CallOpen(t) \/ CallOnFile(t) \/ CallRelease(t) \/ DriverStep(t)
      BY <2>1 DEF Next
    <3> QED
      BY <3>1, StepsAre, SwitchedTwiceStaysNext
  <2>2. CASE UNCHANGED vars
    BY <2>2 DEF vars, SwitchedTwice
  <2> QED
    BY <2>1, <2>2
<1> QED
  BY <1>1, DeviceInvariant, PTL DEF Spec
=============================================================================
