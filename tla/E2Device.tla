------------------------------ MODULE E2Device ------------------------------
(***************************************************************************)
(* The character device of hw6/assignment6.c.  In MODE1 one file may be    *)
(* open at a time: e2_open waits for sem2, which e2_release gives back.    *)
(* In MODE2 any number may be open and sem1 is held over each copy.  An    *)
(* ioctl changes the mode once the caller's is the only open file.         *)
(*                                                                         *)
(* A step is one semaphore operation together with the code up to the next *)
(* one; a copy to or from user space begins and ends in different steps.   *)
(* The driver keeps no state per file, so a process has a number of open   *)
(* files, which its threads share.                                         *)
(***************************************************************************)
EXTENDS Integers, FiniteSets

CONSTANTS Threads, Processes,
          Sharings,   \* the ways in which processes may have the threads
          MaxFiles,   \* bound of the model: files a process has open or opens
          Signals     \* whether signals interrupt waiting threads

ASSUME DeviceAssumption ==
  /\ IsFiniteSet(Threads) /\ Threads # {} /\ IsFiniteSet(Processes)
  /\ Sharings \subseteq [Threads -> Processes]
  /\ MaxFiles \in Nat
  /\ Signals \in BOOLEAN

VARIABLES sem1, sem2, count1, count2,
          mode,
          ProcessOf,  \* the process of each thread, which never changes
          files,  \* how many files each process has open
          pc,     \* where each thread is in a call of the driver
          op      \* the call: "open", "release", "read", "write", MODE1, MODE2 or "none"

deviceVars == <<sem1, sem2, count1, count2, mode>>
vars == <<sem1, sem2, count1, count2, mode, ProcessOf, files, pc, op>>

MODE1 == "mode1"
MODE2 == "mode2"
Calls == {"open", "release", "read", "write", MODE1, MODE2}

\* "user" is outside the driver.
Places == {"user", "down1", "openUp", "openDown2", "releaseUp2", "startCopy", "copy",
           "copyLocked", "upAndWait", "waitEvent", "asleep", "relock", "up2", "down2",
           "up1"}

\* my_init
Init ==
  /\ sem1 = 1 /\ sem2 = 1
  /\ count1 = 0 /\ count2 = 0
  /\ mode = MODE1
  /\ ProcessOf \in Sharings
  /\ files = [p \in Processes |-> 0]
  /\ pc = [t \in Threads |-> "user"]
  /\ op = [t \in Threads |-> "none"]

-----------------------------------------------------------------------------
(* Calls from user space *)

InCall(p, calls) == {t \in Threads : ProcessOf[t] = p /\ op[t] \in calls}

GoTo(t, place) == pc' = [pc EXCEPT ![t] = place]
BackToUser(t) == GoTo(t, "user") /\ op' = [op EXCEPT ![t] = "none"]

\* Every call of the driver begins with down_interruptible(sem1).
Call(t, call) ==
  /\ pc[t] = "user"
  /\ op' = [op EXCEPT ![t] = call]
  /\ GoTo(t, "down1")
  /\ UNCHANGED <<deviceVars, ProcessOf>>

CallOpen(t) ==
  /\ files[ProcessOf[t]] + Cardinality(InCall(ProcessOf[t], {"open"})) < MaxFiles
  /\ Call(t, "open")
  /\ UNCHANGED files

\* A read, a write or an ioctl on a file of the thread's process.
CallOnFile(t) ==
  /\ files[ProcessOf[t]] > 0
  /\ \E call \in {"read", "write", MODE1, MODE2} : Call(t, call)
  /\ UNCHANGED files

\* close: the kernel calls e2_release when no call on the file is under way.
CallRelease(t) ==
  LET p == ProcessOf[t]
  IN  /\ files[p] > 0
      /\ files[p] = 1 => InCall(p, Calls \ {"open", "release"}) = {}
      /\ Call(t, "release")
      /\ files' = [files EXCEPT ![p] = @ - 1]

-----------------------------------------------------------------------------
(* The semaphores *)

\* The result of down_interruptible is ignored: interrupted by a signal while
\* it waits, a thread goes on as if it had the semaphore.
Down1 ==
  \/ sem1 > 0 /\ sem1' = sem1 - 1
  \/ Signals /\ sem1 = 0 /\ UNCHANGED sem1
Down2 ==
  \/ sem2 > 0 /\ sem2' = sem2 - 1
  \/ Signals /\ sem2 = 0 /\ UNCHANGED sem2
Up1 == sem1' = sem1 + 1
Up2 == sem2' = sem2 + 1

Enter(t, call) == pc[t] = "down1" /\ op[t] = call /\ Down1

\* The last up(sem1) of a call that needs nothing after it.
Return(t) ==
  /\ pc[t] = "up1"
  /\ Up1
  /\ BackToUser(t)
  /\ files' = IF op[t] = "open" THEN [files EXCEPT ![ProcessOf[t]] = @ + 1] ELSE files
  /\ UNCHANGED <<sem2, count1, count2, mode>>

-----------------------------------------------------------------------------
(* e2_open, lines 41-57 *)

OpenMode1(t) ==
  /\ Enter(t, "open") /\ mode = MODE1
  /\ count1' = count1 + 1
  /\ GoTo(t, "openUp")
  /\ UNCHANGED <<sem2, count2, mode, files, op>>

\* A variant that counts the file in the other mode.
OpenInCount1(t) ==
  /\ Enter(t, "open") /\ mode = MODE2
  /\ count1' = count1 + 1
  /\ GoTo(t, "up1")
  /\ UNCHANGED <<sem2, count2, mode, files, op>>

OpenMode2(t) ==
  /\ Enter(t, "open") /\ mode = MODE2
  /\ count2' = count2 + 1
  /\ GoTo(t, "up1")
  /\ UNCHANGED <<sem2, count1, mode, files, op>>

OpenUp(t) ==
  /\ pc[t] = "openUp"
  /\ Up1
  /\ GoTo(t, "openDown2")
  /\ UNCHANGED <<sem2, count1, count2, mode, files, op>>

\* Line 49; open returns.
OpenDown2(t) ==
  /\ pc[t] = "openDown2"
  /\ Down2
  /\ BackToUser(t)
  /\ files' = [files EXCEPT ![ProcessOf[t]] = @ + 1]
  /\ UNCHANGED <<sem1, count1, count2, mode>>

-----------------------------------------------------------------------------
(* e2_release, lines 59-76 *)

\* wake_up_interruptible: the threads asleep in the ioctl to mode m test their
\* condition again.
WakeAndGo(m, t, place) ==
  pc' = [u \in Threads |-> IF u = t THEN place
                           ELSE IF pc[u] = "asleep" /\ op[u] = m THEN "waitEvent"
                           ELSE pc[u]]

\* A variant that does not give sem2 back.
ReleaseKeepsSem2(t) ==
  /\ Enter(t, "release") /\ mode = MODE1
  /\ count1' = count1 - 1
  /\ IF count1' = 1 THEN WakeAndGo(MODE2, t, "up1") ELSE GoTo(t, "up1")
  /\ UNCHANGED <<sem2, count2, mode, files, op>>

ReleaseMode1(t) ==
  /\ Enter(t, "release") /\ mode = MODE1
  /\ count1' = count1 - 1
  /\ IF count1' = 1 THEN WakeAndGo(MODE2, t, "releaseUp2") ELSE GoTo(t, "releaseUp2")
  /\ UNCHANGED <<sem2, count2, mode, files, op>>

\* A variant without the up of line 67.
ReleaseForgetsUp2(t) ==
  /\ pc[t] = "releaseUp2"
  /\ GoTo(t, "up1")
  /\ UNCHANGED <<deviceVars, files, op>>

ReleaseUp2(t) ==
  /\ pc[t] = "releaseUp2"
  /\ Up2
  /\ GoTo(t, "up1")
  /\ UNCHANGED <<sem1, count1, count2, mode, files, op>>

\* Variants of the MODE2 branch: the up of line 67 made in both modes, and no
\* wake-up.
ReleaseUpsInBothModes(t) ==
  /\ Enter(t, "release") /\ mode = MODE2
  /\ count2' = count2 - 1
  /\ IF count2' = 1 THEN WakeAndGo(MODE1, t, "releaseUp2") ELSE GoTo(t, "releaseUp2")
  /\ UNCHANGED <<sem2, count1, mode, files, op>>

ReleaseWithoutWake(t) ==
  /\ Enter(t, "release") /\ mode = MODE2
  /\ count2' = count2 - 1
  /\ GoTo(t, "up1")
  /\ UNCHANGED <<sem2, count1, mode, files, op>>

ReleaseMode2(t) ==
  /\ Enter(t, "release") /\ mode = MODE2
  /\ count2' = count2 - 1
  /\ IF count2' = 1 THEN WakeAndGo(MODE1, t, "up1") ELSE GoTo(t, "up1")
  /\ UNCHANGED <<sem2, count1, mode, files, op>>

-----------------------------------------------------------------------------
(* e2_read and e2_write, lines 78-128 *)

Transfers == {"read", "write"}

\* MODE1: the lock is given back before the copy.
EnterMode1(t) ==
  /\ \E call \in Transfers : Enter(t, call)
  /\ mode = MODE1
  /\ GoTo(t, "startCopy")
  /\ UNCHANGED <<sem2, count1, count2, mode, files, op>>

\* A count beyond the end of the ramdisk returns without a copy.
StartCopy(t) ==
  /\ pc[t] = "startCopy"
  /\ Up1
  /\ (GoTo(t, "copy") /\ UNCHANGED op) \/ BackToUser(t)
  /\ UNCHANGED <<sem2, count1, count2, mode, files>>

EndCopy(t) ==
  /\ pc[t] = "copy"
  /\ BackToUser(t)
  /\ UNCHANGED <<deviceVars, files>>

\* A variant that gives the lock back before the copy in MODE2 too.
EnterUnlocked(t) ==
  /\ \E call \in Transfers : Enter(t, call)
  /\ mode = MODE2
  /\ GoTo(t, "startCopy")
  /\ UNCHANGED <<sem2, count1, count2, mode, files, op>>

\* MODE2: the copy is made under the lock.
EnterMode2(t) ==
  /\ \E call \in Transfers : Enter(t, call)
  /\ mode = MODE2
  /\ \E place \in {"copyLocked", "up1"} : GoTo(t, place)
  /\ UNCHANGED <<sem2, count1, count2, mode, files, op>>

EndCopyLocked(t) ==
  /\ pc[t] = "copyLocked"
  /\ GoTo(t, "up1")
  /\ UNCHANGED <<deviceVars, files, op>>

-----------------------------------------------------------------------------
(* e2_ioctl, lines 144-190 *)

\* The count that has to come down to 1 before the switch.
Counted(to) == IF to = MODE2 THEN count1 ELSE count2

\* The loop's test and, when it fails, the switch: lines 152 and 158-160, 172
\* and 178-180.  The mode is not looked at again after a wait.
Wait(t) ==
  /\ Counted(op[t]) > 1
  /\ GoTo(t, "upAndWait")
  /\ UNCHANGED <<sem2, count1, count2, mode, files, op>>

\* A variant that switches to MODE1 without sem2.
SwitchWithoutSem2(t) ==
  /\ Counted(op[t]) <= 1
  /\ mode' = op[t]
  /\ \/ /\ op[t] = MODE2
        /\ count1' = count1 - 1 /\ count2' = count2 + 1
        /\ GoTo(t, "up2")
     \/ /\ op[t] = MODE1
        /\ count2' = count2 - 1 /\ count1' = count1 + 1
        /\ GoTo(t, "up1")
  /\ UNCHANGED <<sem2, files, op>>

Switch(t) ==
  /\ Counted(op[t]) <= 1
  /\ mode' = op[t]
  /\ \/ /\ op[t] = MODE2
        /\ count1' = count1 - 1 /\ count2' = count2 + 1
        /\ GoTo(t, "up2")
     \/ /\ op[t] = MODE1
        /\ count2' = count2 - 1 /\ count1' = count1 + 1
        /\ GoTo(t, "down2")
  /\ UNCHANGED <<sem2, files, op>>

Modes == {MODE1, MODE2}

\* A variant without the up of lines 148 and 168.
IoctlSameKeepsSem1(t) ==
  /\ Enter(t, mode)
  /\ BackToUser(t)
  /\ UNCHANGED <<sem2, count1, count2, mode, files>>

IoctlSame(t) ==
  /\ Enter(t, mode)
  /\ GoTo(t, "up1")
  /\ UNCHANGED <<sem2, count1, count2, mode, files, op>>

IoctlWait(t) == (\E to \in Modes \ {mode} : Enter(t, to)) /\ Wait(t)
IoctlSwitch(t) == (\E to \in Modes \ {mode} : Enter(t, to)) /\ Switch(t)

\* Lines 153 and 173.
UpAndWait(t) ==
  /\ pc[t] = "upAndWait"
  /\ Up1
  /\ GoTo(t, "waitEvent")
  /\ UNCHANGED <<sem2, count1, count2, mode, files, op>>

\* Lines 154 and 174: wait_event_interruptible tests its condition before it
\* sleeps and whenever it is woken.
TestEvent(t) ==
  /\ pc[t] = "waitEvent"
  /\ GoTo(t, IF Counted(op[t]) = 1 THEN "relock" ELSE "asleep")
  /\ UNCHANGED <<deviceVars, files, op>>

InterruptWait(t) ==
  /\ Signals
  /\ pc[t] = "asleep"
  /\ GoTo(t, "relock")
  /\ UNCHANGED <<deviceVars, ProcessOf, files, op>>

\* Lines 155 and 175.
Relock(t) == pc[t] = "relock" /\ Down1

RelockWait(t) == Relock(t) /\ Wait(t)
RelockSwitch(t) == Relock(t) /\ Switch(t)

\* Line 161.
IoctlUp2(t) ==
  /\ pc[t] = "up2"
  /\ Up2
  /\ GoTo(t, "up1")
  /\ UNCHANGED <<sem1, count1, count2, mode, files, op>>

\* Line 181: sem2 is waited for with sem1 in hand.
IoctlDown2(t) ==
  /\ pc[t] = "down2"
  /\ Down2
  /\ GoTo(t, "up1")
  /\ UNCHANGED <<sem1, count1, count2, mode, files, op>>

-----------------------------------------------------------------------------
OpenStep(t) == OpenMode1(t) \/ OpenMode2(t) \/ OpenUp(t) \/ OpenDown2(t)
ReleaseStep(t) == ReleaseMode1(t) \/ ReleaseUp2(t) \/ ReleaseMode2(t)
CopyStep(t) ==
  EnterMode1(t) \/ StartCopy(t) \/ EndCopy(t) \/ EnterMode2(t) \/ EndCopyLocked(t)
IoctlStep(t) ==
  \/ IoctlSame(t) \/ IoctlWait(t) \/ IoctlSwitch(t) \/ UpAndWait(t) \/ TestEvent(t)
  \/ RelockWait(t) \/ RelockSwitch(t) \/ IoctlUp2(t) \/ IoctlDown2(t)

DriverStep(t) ==
  /\ OpenStep(t) \/ ReleaseStep(t) \/ CopyStep(t) \/ IoctlStep(t) \/ Return(t)
  /\ UNCHANGED ProcessOf

Next ==
  \E t \in Threads :
    CallOpen(t) \/ CallOnFile(t) \/ CallRelease(t) \/ DriverStep(t)

\* The same with signals, when Signals is TRUE.
SignalNext == Next \/ \E t \in Threads : InterruptWait(t)

\* A thread in the driver is not starved: the kernel hands a semaphore to its
\* waiters in order of arrival.  What user space calls is up to it.
Spec == Init /\ [][Next]_vars /\ \A t \in Threads : SF_vars(DriverStep(t))
SignalSpec == Init /\ [][SignalNext]_vars /\ \A t \in Threads : SF_vars(DriverStep(t))

-----------------------------------------------------------------------------
(* Properties *)

TypeOK ==
  /\ sem1 \in 0 .. 1 /\ sem2 \in 0 .. 1
  /\ count1 \in Nat /\ count2 \in Nat \cup {-1}
  /\ mode \in Modes
  /\ ProcessOf \in Sharings
  /\ files \in [Processes -> 0 .. MaxFiles]
  /\ pc \in [Threads -> Places]
  /\ op \in [Threads -> Calls \cup {"none"}]

\* Lines 172-181: two threads that share a file both waited for MODE1 and both
\* switched, since neither looks at the mode again.  The second one waits for the
\* sem2 that the first one took, with sem1 in hand.
SwitchedTwice ==
  /\ mode = MODE1 /\ count2 = -1
  /\ sem1 = 0 /\ sem2 = 0
  /\ \E t \in Threads : op[t] = MODE1 /\ pc[t] = "down2"

Copying(t) == pc[t] \in {"copy", "copyLocked"}

Sharing(t) == \E u \in Threads \ {t} : ProcessOf[u] = ProcessOf[t]

\* No copy runs at the same time as a write, in either mode and across the
\* switches between them.  Only a copy that began in MODE1, in a process with
\* another thread, may: that thread copies too, or switches and lets others copy.
CopyExclusion ==
  \A t, u \in Threads :
    t # u /\ Copying(t) /\ Copying(u) =>
      \/ op[t] = "read" /\ op[u] = "read"
      \/ \E v \in {t, u} : pc[v] = "copy" /\ Sharing(v)

\* In MODE2 the copies are made under sem1, which "prevents the data race"
\* (solution.md, Race Condition 3).
Mode2CopyExclusion ==
  \A t, u \in Threads :
    t # u /\ pc[t] = "copyLocked" /\ pc[u] = "copyLocked" => op[t] = "read" /\ op[u] = "read"

\* The files the driver has counted: open, waiting to be admitted, or closed
\* and not yet taken off.
OpenFiles == {f \in Processes \X (1 .. MaxFiles) : f[2] <= files[f[1]]}
AdmittingThreads ==
  {t \in Threads : op[t] = "open" /\ pc[t] \in {"openUp", "openDown2", "up1"}}
LeavingThreads == {t \in Threads : op[t] = "release" /\ pc[t] = "down1"}
Counts ==
  Cardinality(OpenFiles) + Cardinality(AdmittingThreads) + Cardinality(LeavingThreads)

\* The counter of the current mode counts those files, whichever mode they
\* were opened in, and the other counter is zero, unless two threads switched.
CountsAgree ==
  \/ SwitchedTwice
  \/ mode = MODE1 /\ count1 = Counts /\ count2 = 0
  \/ mode = MODE2 /\ count2 = Counts /\ count1 = 0

\* A thread that has sem1 gives it back: no wait for sem2 under it (line 181)
\* lasts, because nobody has sem2 in MODE2; but when two threads switched, the
\* driver lets nobody in again.
Sem1Released ==
  /\ sem1 = 0 ~> sem1 = 1 \/ SwitchedTwice
  /\ [](SwitchedTwice => []SwitchedTwice)

\* In MODE1 a file is not admitted before the last one is released: the
\* wait for sem2 is what makes the mode exclusive.
OneFileInMode1 == mode = MODE1 => Cardinality(OpenFiles) <= 1

\* A thread asleep in an ioctl is asleep because other files are open: the counts
\* change in five places and only e2_release wakes anyone.  A thread that shares
\* its file may sleep on: the other one made the switch it waits for, which takes
\* the count to 0 and wakes nobody, even when a switch back makes it 1.
NoLostWakeup ==
  \A t \in Threads : pc[t] = "asleep" => Counted(op[t]) > 1 \/ Sharing(t)

\* Where nothing but another thread lets a thread go on.
Blocked(t) ==
  \/ pc[t] = "asleep"
  \/ pc[t] \in {"down1", "relock"} /\ sem1 = 0
  \/ pc[t] \in {"openDown2", "down2"} /\ sem2 = 0
Waiting(t, call, place) == op[t] = call /\ pc[t] = place

\* The ways in which all threads can block each other: the three deadlocks of
\* solution.md, a process with two files of its own in MODE2 that asks for MODE1,
\* and two threads that switched.
DeadlockForms ==
  (\A t \in Threads : Blocked(t)) =>
    \/ \E t \in Threads : pc[t] = "openDown2" /\ files[ProcessOf[t]] > 0
    \/ \E t, u \in Threads : Waiting(t, MODE2, "asleep") /\ Waiting(u, "open", "openDown2")
    \/ \E t, u \in Threads : t # u /\ Waiting(t, MODE1, "asleep")
                                   /\ Waiting(u, MODE1, "asleep")
    \/ \E t \in Threads : Waiting(t, MODE1, "asleep") /\ files[ProcessOf[t]] > 1
    \/ SwitchedTwice

\* Users that never switch, have one file each, use it in one thread at a time and
\* close it are all admitted.
PoliteUsers ==
  /\ \A t \in Threads : op[t] \notin Modes
  /\ \A p \in Processes :
       /\ files[p] + Cardinality(InCall(p, {"open"})) <= 1
       /\ Cardinality(InCall(p, Calls)) <= 1

OpenAdmitted ==
  [](PoliteUsers) /\ (\A t \in Threads : SF_vars(CallRelease(t)))
    => \A t \in Threads : pc[t] = "openDown2" ~> pc[t] = "user"
=============================================================================
