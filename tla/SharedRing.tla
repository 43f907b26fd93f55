------------------------------ MODULE SharedRing ------------------------------
(***************************************************************************)
(* hw4: instances of mmap_location_updater.  Each sets up three named      *)
(* semaphores and a ring in shared memory, and forks: the child is the     *)
(* producer (the email filter), the parent the consumer (the calendar      *)
(* filter).  The names are those of the system, the same for every         *)
(* instance; an earlier run may have left semaphores under them.           *)
(*                                                                         *)
(* A line is an event of the input that the email filter keeps.  No kept   *)
(* line is as long as STRING_LEN, so that the exit at line 32 of           *)
(* shared_ring_buffer.c is not modelled; head and tail do not overflow.    *)
(***************************************************************************)
EXTENDS Integers, Sequences

CONSTANTS Instances, Lines,
          Capacity,
          Input,      \* the kept lines of each instance
          EOF, None,
          Left        \* the earlier run

ASSUME SharedRingAssumption ==
  /\ Capacity \in Nat \ {0}
  /\ Input \in [Instances -> Seq(Lines)]
  /\ EOF \notin Lines
  /\ {None, Left} \cap Instances = {} /\ None # Left

VARIABLES
  bound,       \* who made the semaphore that each name stands for, or None
  value,       \* the values of the semaphores, by maker and name
  sems,        \* of each instance and name: the maker of the one it opened
  step,        \* how many calls of its set-up each instance has made
  pc,          \* of the producer and the consumer of each instance
  head, tail, buffer,
  got,         \* history: the lines the consumer has taken
  overlapped   \* history: a call was made in the middle of another's set-up

setUpVars == <<bound, sems, step, overlapped>>
ringVars == <<head, tail, buffer, got>>
vars == <<setUpVars, ringVars, value, pc>>

Names == {"mut", "full", "empty"}
Initially == [mut |-> 1, full |-> 0, empty |-> Capacity]
Roles == {"producer", "consumer"}

\* The calls of init_semaphores and initSharedRingBuffer, in order.
SetUp ==
  LET calls(call, names) == [n \in 1..3 |-> [call |-> call, name |-> names[n]]]
  IN  calls("unlink", <<"empty", "mut", "full">>) \o calls("create", <<"mut", "full", "empty">>)
        \o calls("open", <<"mut", "full", "empty">>)

Init ==
  /\ bound \in [Names -> {None, Left}]
  /\ value = [m \in Instances \cup {Left} |-> [n \in Names |-> 0]]
  /\ sems = [i \in Instances |-> [n \in Names |-> None]]
  /\ step = [i \in Instances |-> 0]
  /\ pc = [i \in Instances |-> [r \in Roles |-> "unborn"]]
  /\ head = [i \in Instances |-> 0] /\ tail = [i \in Instances |-> 0]
  /\ buffer = [i \in Instances |-> [n \in 0..(Capacity - 1) |-> None]]
  /\ got = [i \in Instances |-> <<>>]
  /\ overlapped = FALSE

-----------------------------------------------------------------------------
(* Setting up *)

Call(i, call, name) ==
  /\ step[i] < Len(SetUp)
  /\ SetUp[step[i] + 1] = [call |-> call, name |-> name]
  /\ step' = [step EXCEPT ![i] = @ + 1]
  /\ overlapped' = (overlapped \/ \E j \in Instances \ {i} : step[j] \in 1..(Len(SetUp) - 1))
  /\ UNCHANGED <<ringVars, pc>>

\* A variant that finds no name to unlink.
UnlinkNothing(i, name) == Call(i, "unlink", name) /\ UNCHANGED <<bound, value, sems>>

Unlink(i, name) ==
  /\ Call(i, "unlink", name)
  /\ bound' = [bound EXCEPT ![name] = None]
  /\ UNCHANGED <<value, sems>>

\* sem_open with O_CREAT: a semaphore that exists keeps its value.
Create(i, name) ==
  /\ Call(i, "create", name)
  /\ IF bound[name] = None
     THEN /\ bound' = [bound EXCEPT ![name] = i]
          /\ value' = [value EXCEPT ![i][name] = Initially[name]]
     ELSE UNCHANGED <<bound, value>>
  /\ UNCHANGED sems

Open(i, name) ==
  /\ Call(i, "open", name)
  /\ sems' = [sems EXCEPT ![i][name] = bound[name]]
  /\ UNCHANGED <<bound, value>>

IsSetUp(i) == step[i] = Len(SetUp) /\ \A r \in Roles : pc[i][r] = "unborn"

\* Lines 20-23 of shared_ring_buffer.c, or fork fails.
SetUpFails(i) ==
  /\ IsSetUp(i)
  /\ pc' = [pc EXCEPT ![i]["consumer"] = "exited"]
  /\ UNCHANGED <<setUpVars, ringVars, value>>

Fork(i) ==
  /\ IsSetUp(i)
  /\ \A name \in Names : sems[i][name] # None
  /\ pc' = [pc EXCEPT ![i] = [r \in Roles |-> "waitSlot"]]
  /\ UNCHANGED <<setUpVars, ringVars, value>>

-----------------------------------------------------------------------------
(* The ring *)

\* The semaphore each role waits for, and the one it posts.
Slot == [producer |-> "empty", consumer |-> "full"]
Posted == [producer |-> "full", consumer |-> "empty"]

GoTo(i, r, place) == pc' = [pc EXCEPT ![i][r] = place]

SemWait(i, name) ==
  /\ value[sems[i][name]][name] > 0
  /\ value' = [value EXCEPT ![sems[i][name]][name] = @ - 1]

SemPost(i, name) == value' = [value EXCEPT ![sems[i][name]][name] = @ + 1]

WaitSlot(i, r) ==
  /\ pc[i][r] = "waitSlot"
  /\ SemWait(i, Slot[r])
  /\ GoTo(i, r, "waitMut")
  /\ UNCHANGED <<setUpVars, ringVars>>

WaitMut(i, r) ==
  /\ pc[i][r] = "waitMut"
  /\ SemWait(i, "mut")
  /\ GoTo(i, r, "access")
  /\ UNCHANGED <<setUpVars, ringVars>>

\* The line after the last is "EOF".
NextLine(i) == IF tail[i] < Len(Input[i]) THEN Input[i][tail[i] + 1] ELSE EOF

insertIntoSharedRingBuf(i) ==
  /\ pc[i]["producer"] = "access"
  /\ buffer' = [buffer EXCEPT ![i][tail[i] % Capacity] = NextLine(i)]
  /\ tail' = [tail EXCEPT ![i] = @ + 1]
  /\ SemPost(i, Posted["producer"])
  /\ GoTo(i, "producer", "postMut")
  /\ UNCHANGED <<setUpVars, head, got>>

removeFromSharedRingBuff(i) ==
  /\ pc[i]["consumer"] = "access"
  /\ got' = [got EXCEPT ![i] = Append(@, buffer[i][head[i] % Capacity])]
  /\ head' = [head EXCEPT ![i] = @ + 1]
  /\ SemPost(i, Posted["consumer"])
  /\ GoTo(i, "consumer", "postMut")
  /\ UNCHANGED <<setUpVars, tail, buffer>>

Finished(i, r) ==
  IF r = "producer" THEN tail[i] = Len(Input[i]) + 1 ELSE got[i][Len(got[i])] = EOF

\* A variant that leaves the ring without the post.
PostMutButLast(i, r) ==
  /\ pc[i][r] = "postMut"
  /\ IF Finished(i, r) THEN UNCHANGED value ELSE SemPost(i, "mut")
  /\ GoTo(i, r, IF Finished(i, r) THEN "exited" ELSE "waitSlot")
  /\ UNCHANGED <<setUpVars, ringVars>>

\* After the post the producer reads on, and the consumer filters the line.
PostMut(i, r) ==
  /\ pc[i][r] = "postMut"
  /\ SemPost(i, "mut")
  /\ GoTo(i, r, IF Finished(i, r) THEN "exited" ELSE "waitSlot")
  /\ UNCHANGED <<setUpVars, ringVars>>

\* filterCalendarEvent dies of a date without events.
ConsumerDies(i) ==
  /\ pc[i]["consumer"] = "waitSlot" /\ got[i] # <<>>
  /\ GoTo(i, "consumer", "dead")
  /\ UNCHANGED <<setUpVars, ringVars, value>>

-----------------------------------------------------------------------------
Step(i, r) == WaitSlot(i, r) \/ WaitMut(i, r) \/ PostMut(i, r)

Next == \E i \in Instances :
  \/ \E name \in Names : Unlink(i, name) \/ Create(i, name) \/ Open(i, name)
  \/ SetUpFails(i) \/ Fork(i)
  \/ \E r \in Roles : Step(i, r)
  \/ insertIntoSharedRingBuf(i) \/ removeFromSharedRingBuff(i) \/ ConsumerDies(i)

\* Each process is scheduled; nobody need start a second instance.
Fairness == \A i \in Instances :
  /\ WF_vars(step[i] > 0 /\ \E name \in Names : Unlink(i, name) \/ Create(i, name) \/ Open(i, name))
  /\ WF_vars(SetUpFails(i) \/ Fork(i))
  /\ WF_vars(Step(i, "producer") \/ insertIntoSharedRingBuf(i))
  /\ WF_vars(Step(i, "consumer") \/ removeFromSharedRingBuff(i))

Spec == Init /\ [][Next]_vars /\ Fairness

-----------------------------------------------------------------------------
(* Properties *)

\* Unless the set-up of two instances overlaps, an instance has semaphores of its
\* own with their initial values, whatever an earlier run left; and then its consumer
\* takes the lines of its own input, in order, and no slot before it is filled.
OwnLines ==
  ~overlapped =>
    /\ \A i \in Instances : \A name \in Names : sems[i][name] \in {None, i}
    /\ \A i \in Instances : \A k \in DOMAIN got[i] : got[i][k] = Append(Input[i], EOF)[k]

\* Unless set-ups overlap, an instance that starts ends, except that the producer
\* waits for ever for a slot when its consumer has died.
EndsOrOrphans ==
  \/ <>[]overlapped
  \/ <>[](\A i \in Instances :
            \/ step[i] = 0
            \/ \A r \in Roles : pc[i][r] \in {"exited", "unborn"}
            \/ /\ pc[i]["consumer"] = "dead"
               /\ \/ pc[i]["producer"] = "exited"
                  \/ pc[i]["producer"] = "waitSlot" /\ value[sems[i]["empty"]]["empty"] = 0)
=============================================================================
