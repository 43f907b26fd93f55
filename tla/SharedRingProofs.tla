-------------------------- MODULE SharedRingProofs --------------------------
(***************************************************************************)
(* The instances of hw4's mmap_location_updater, for every number of them, *)
(* every input and capacity: while no two set-ups overlap each instance    *)
(* has its own ring and takes its own lines from it.                       *)
(***************************************************************************)
EXTENDS SharedRing, SequenceTheorems, TLAPS

(* The inductive invariant *)

\* The calls of the set-up, by their number.
UnlinkAt == [empty |-> 1, mut |-> 2, full |-> 3]
CreateAt == [mut |-> 4, full |-> 5, empty |-> 6]
OpenAt == [mut |-> 7, full |-> 8, empty |-> 9]

Items == Lines \cup {EOF, None}
Makers == Instances \cup {Left, None}
Places == {"unborn", "waitSlot", "waitMut", "access", "postMut", "exited", "dead"}

Types ==
  /\ bound \in [Names -> Makers]
  /\ value \in [Instances \cup {Left} -> [Names -> Int]]
  /\ sems \in [Instances -> [Names -> Makers]]
  /\ step \in [Instances -> 0..9]
  /\ pc \in [Instances -> [Roles -> Places]]
  /\ head \in [Instances -> Nat] /\ tail \in [Instances -> Nat]
  /\ buffer \in [Instances -> [0..(Capacity - 1) -> Items]]
  /\ got \in [Instances -> Seq(Items)]

\* One instance at a time is in its set-up, and the names are its own.
NamesOwned ==
  /\ \A i, j \in Instances : step[i] \in 1..8 /\ step[j] \in 1..8 => i = j
  /\ \A i \in Instances : step[i] \in 1..8 =>
       \A name \in Names :
         /\ step[i] >= CreateAt[name] => bound[name] = i
         /\ step[i] >= UnlinkAt[name] /\ step[i] < CreateAt[name] => bound[name] = None

SemsOwned ==
  \A i \in Instances : \A name \in Names :
    sems[i][name] = IF step[i] >= OpenAt[name] THEN i ELSE None

\* The line that is written as the k-th.
Line(i, k) == IF k <= Len(Input[i]) THEN Input[i][k] ELSE EOF

\* Whether a process has taken a slot that it has not passed on yet.
Has(i, r) == IF pc[i][r] \in {"waitMut", "access"} THEN 1 ELSE 0

\* An instance without processes has an empty ring and new semaphores.
Unforked(i) ==
  /\ pc[i]["producer"] = "unborn" =>
       /\ head[i] = 0 /\ tail[i] = 0
       /\ pc[i]["consumer"] \in {"unborn", "exited"}
       /\ \A name \in Names : step[i] >= CreateAt[name] => value[i][name] = Initially[name]
  /\ \A r \in Roles : pc[i][r] # "unborn" => step[i] = 9

\* The semaphores of an instance count the filled and the free slots of its ring.
CountsOK(i) ==
  pc[i]["producer"] # "unborn" =>
    /\ value[i]["full"] = tail[i] - head[i] - Has(i, "consumer")
    /\ value[i]["empty"] = Capacity - (tail[i] - head[i]) - Has(i, "producer")
    /\ value[i]["full"] >= 0 /\ value[i]["empty"] >= 0

\* The producer writes each line of its input, and the end.
TailOK(i) ==
  /\ head[i] <= tail[i]
  /\ tail[i] <= Len(Input[i]) + 1
  /\ pc[i]["producer"] \in {"waitSlot", "waitMut", "access"} => tail[i] <= Len(Input[i])

\* The lines taken, and those in the ring, are lines of the input.
LinesOK(i) ==
  /\ Len(got[i]) = head[i]
  /\ \A k \in 1..head[i] : got[i][k] = Line(i, k)
  /\ \A n \in head[i]..(tail[i] - 1) : buffer[i][n % Capacity] = Line(i, n + 1)

RingOK(i) == Unforked(i) /\ CountsOK(i) /\ TailOK(i) /\ LinesOK(i)

Owned == Types /\ NamesOwned /\ SemsOwned /\ \A i \in Instances : RingOK(i)

\* Once two set-ups have overlapped anything may happen.
SharedInv == overlapped \/ Owned

-----------------------------------------------------------------------------
(* The set-up and the slots *)

\* Which call is made at each step.
LEMMA SetUpIs ==
  /\ Len(SetUp) = 9
  /\ \A k \in 1..9, name \in Names :
       /\ SetUp[k] = [call |-> "unlink", name |-> name] <=> k = UnlinkAt[name]
       /\ SetUp[k] = [call |-> "create", name |-> name] <=> k = CreateAt[name]
       /\ SetUp[k] = [call |-> "open", name |-> name] <=> k = OpenAt[name]
<1> DEFINE C == [call : {"unlink", "create", "open"}, name : Names]
           calls(call, names) == [n \in 1..3 |-> [call |-> call, name |-> names[n]]]
           a == calls("unlink", <<"empty", "mut", "full">>)
           b == calls("create", <<"mut", "full", "empty">>)
           c == calls("open", <<"mut", "full", "empty">>)
<1>1. a \in Seq(C) /\ b \in Seq(C) /\ c \in Seq(C) /\ Len(a) = 3 /\ Len(b) = 3 /\ Len(c) = 3
  BY DEF Names
<1>2. SetUp = (a \o b) \o c
  BY DEF SetUp
<1>3. /\ a[1] = [call |-> "unlink", name |-> "empty"] /\ a[2] = [call |-> "unlink", name |-> "mut"]
      /\ a[3] = [call |-> "unlink", name |-> "full"]
      /\ b[1] = [call |-> "create", name |-> "mut"] /\ b[2] = [call |-> "create", name |-> "full"]
      /\ b[3] = [call |-> "create", name |-> "empty"]
      /\ c[1] = [call |-> "open", name |-> "mut"] /\ c[2] = [call |-> "open", name |-> "full"]
      /\ c[3] = [call |-> "open", name |-> "empty"]
  OBVIOUS
<1> HIDE DEF a, b, c, C
<1>4. /\ a \o b \in Seq(C) /\ Len(a \o b) = 6
      /\ \A i \in 1..6 : (a \o b)[i] = IF i <= 3 THEN a[i] ELSE b[i - 3]
  <2>1. /\ a \o b \in Seq(C) /\ Len(a \o b) = Len(a) + Len(b)
        /\ \A i \in 1..(Len(a) + Len(b)) :
             (a \o b)[i] = IF i <= Len(a) THEN a[i] ELSE b[i - Len(a)]
    BY <1>1, ConcatProperties
  <2> QED
    BY <1>1, <2>1
<1>5. /\ Len(SetUp) = 9
      /\ \A i \in 1..9 : SetUp[i] = IF i <= 6 THEN (a \o b)[i] ELSE c[i - 6]
  BY <1>1, <1>2, <1>4, ConcatProperties
<1>6. /\ SetUp[1] = a[1] /\ SetUp[2] = a[2] /\ SetUp[3] = a[3]
      /\ SetUp[4] = b[1] /\ SetUp[5] = b[2] /\ SetUp[6] = b[3]
      /\ SetUp[7] = c[1] /\ SetUp[8] = c[2] /\ SetUp[9] = c[3]
  BY <1>4, <1>5
<1>7. \A k \in 1..9 : k \in {1, 2, 3, 4, 5, 6, 7, 8, 9}
  OBVIOUS
<1> QED
  BY <1>3, <1>5, <1>6, <1>7 DEF Names, UnlinkAt, CreateAt, OpenAt

\* Two counters less than n apart have different slots.
LEMMA SlotsDiffer ==
  ASSUME NEW n \in Nat \ {0}, NEW x \in Int, NEW y \in Int, x < y, y < x + n
  PROVE  x % n # y % n
<1> SUFFICES ASSUME x % n = y % n PROVE FALSE
  OBVIOUS
<1> DEFINE q == x \div n
           r == x % n
           p == y \div n
<1>1. q \in Int /\ p \in Int /\ r \in 0 .. n - 1 /\ n * q + r = x /\ n * p + r = y
  OBVIOUS
<1> HIDE DEF q, r, p
<1>2. y - x = n * (p - q)
  BY <1>1
<1>3. p - q >= 1
  <2> SUFFICES ASSUME p - q <= 0 PROVE FALSE
    BY <1>1
  <2>1. n * (p - q) <= 0
    BY <1>1
  <2> QED
    BY <1>2, <2>1
<1>4. n * (p - q) >= n
  BY <1>1, <1>3
<1> QED
  BY <1>2, <1>4

\* A counter has a slot.
LEMMA SlotIn == \A n \in Nat : n % Capacity \in 0..(Capacity - 1)
  BY SharedRingAssumption

\* The lines and the end are those of Append.
LEMMA LineIs ==
  ASSUME NEW i \in Instances
  PROVE  /\ Len(Input[i]) \in Nat
         /\ \A k \in 1..(Len(Input[i]) + 1) : /\ Line(i, k) \in Items
                                             /\ Append(Input[i], EOF)[k] = Line(i, k)
<1>1. Input[i] \in Seq(Lines)
  BY SharedRingAssumption
<1>2. Len(Input[i]) \in Nat /\ \A k \in 1..Len(Input[i]) : Input[i][k] \in Lines
  BY <1>1, LenProperties, ElementOfSeq
<1>3. Input[i] \in Seq(Lines \cup {EOF})
  BY <1>1
<1>4. /\ \A k \in 1..Len(Input[i]) : Append(Input[i], EOF)[k] = Input[i][k]
      /\ Append(Input[i], EOF)[Len(Input[i]) + 1] = EOF
  BY <1>3, AppendProperties
<1>5. \A k \in 1..(Len(Input[i]) + 1) : k <= Len(Input[i]) => k \in 1..Len(Input[i])
  BY <1>2
<1>6. \A k \in 1..(Len(Input[i]) + 1) : ~(k <= Len(Input[i])) => k = Len(Input[i]) + 1
  BY <1>2
<1> QED
  BY <1>2, <1>4, <1>5, <1>6 DEF Line, Items

-----------------------------------------------------------------------------
(* The invariant is inductive *)

\* A step of another instance leaves an instance alone.
LEMMA RingFrame ==
  ASSUME NEW j \in Instances, RingOK(j),
         head'[j] = head[j], tail'[j] = tail[j], buffer'[j] = buffer[j], got'[j] = got[j],
         value'[j] = value[j], pc'[j] = pc[j], step'[j] = step[j]
  PROVE  RingOK(j)'
<1>1. Unforked(j)' /\ TailOK(j)' /\ LinesOK(j)'
  BY DEF RingOK, Unforked, TailOK, LinesOK, Line
<1>2. CountsOK(j)'
  BY DEF RingOK, CountsOK, Has
<1> QED
  BY <1>1, <1>2 DEF RingOK

\* A call of a set-up, while no other set-up is under way.
LEMMA SetUpNext ==
  ASSUME Owned, NEW i \in Instances, NEW name \in Names,
         Unlink(i, name) \/ Create(i, name) \/ Open(i, name), ~overlapped'
  PROVE  Owned'
<1> USE DEF ringVars
<1>0. Types /\ NamesOwned /\ SemsOwned /\ \A j \in Instances : RingOK(j)
  BY DEF Owned
<1> DEFINE s == step[i] + 1
<1>1. /\ s \in 1..9 /\ step' = [step EXCEPT ![i] = s]
      /\ \A j \in Instances \ {i} : step[j] \notin 1..8
      /\ UNCHANGED <<ringVars, pc>>
  <2>1. /\ step[i] < Len(SetUp) /\ step' = [step EXCEPT ![i] = @ + 1]
        /\ overlapped' = (overlapped \/ \E j \in Instances \ {i} : step[j] \in 1..(Len(SetUp) - 1))
        /\ UNCHANGED <<ringVars, pc>>
    <3>1. CASE Unlink(i, name)
      BY <3>1 DEF Unlink, Call
    <3>2. CASE Create(i, name)
      BY <3>2 DEF Create, Call
    <3>3. CASE Open(i, name)
      BY <3>3 DEF Open, Call
    <3> QED
      BY <3>1, <3>2, <3>3
  <2>2. Len(SetUp) = 9 /\ 1..(Len(SetUp) - 1) = 1..8 /\ step[i] \in 0..9
    BY <1>0, SetUpIs DEF Types
  <2>3. \A j \in Instances \ {i} : step[j] \notin 1..8
    BY <2>1, <2>2
  <2> QED
    BY <2>1, <2>2, <2>3
<1>2. \/ /\ s = UnlinkAt[name] /\ bound' = [bound EXCEPT ![name] = None]
         /\ value' = value /\ sems' = sems
      \/ /\ s = CreateAt[name] /\ sems' = sems
         /\ IF bound[name] = None
            THEN /\ bound' = [bound EXCEPT ![name] = i]
                 /\ value' = [value EXCEPT ![i][name] = Initially[name]]
            ELSE UNCHANGED <<bound, value>>
      \/ /\ s = OpenAt[name] /\ sems' = [sems EXCEPT ![i][name] = bound[name]]
         /\ bound' = bound /\ value' = value
  <2>1. s = step[i] + 1 /\ s \in 1..9
    BY <1>1
  <2>2. CASE Unlink(i, name)
    BY <2>1, <2>2, SetUpIs DEF Unlink, Call
  <2>3. CASE Create(i, name)
    BY <2>1, <2>3, SetUpIs DEF Create, Call
  <2>4. CASE Open(i, name)
    BY <2>1, <2>4, SetUpIs DEF Open, Call
  <2> QED
    BY <2>2, <2>3, <2>4
<1>3. step[i] = s - 1 /\ step'[i] = s /\ \A j \in Instances : j # i => step'[j] = step[j]
  <2>1. step \in [Instances -> 0..9] /\ step[i] \in 0..9
    BY <1>0 DEF Types
  <2> QED
    BY <1>1, <2>1
<1> HIDE DEF s
<1>4. /\ UnlinkAt["empty"] = 1 /\ UnlinkAt["mut"] = 2 /\ UnlinkAt["full"] = 3
      /\ CreateAt["mut"] = 4 /\ CreateAt["full"] = 5 /\ CreateAt["empty"] = 6
      /\ OpenAt["mut"] = 7 /\ OpenAt["full"] = 8 /\ OpenAt["empty"] = 9
  BY DEF UnlinkAt, CreateAt, OpenAt
<1>5. \A n \in Names : /\ UnlinkAt[n] \in 1..3 /\ CreateAt[n] \in 4..6 /\ OpenAt[n] \in 7..9
                       /\ n # name => /\ UnlinkAt[n] # UnlinkAt[name]
                                      /\ CreateAt[n] # CreateAt[name]
                                      /\ OpenAt[n] # OpenAt[name]
  BY <1>4 DEF Names
\* The name that is created has been unlinked, and the one that is opened created.
<1>6. /\ s = CreateAt[name] => bound[name] = None
      /\ s = OpenAt[name] => bound[name] = i
  <2>1. /\ s = CreateAt[name] => step[i] \in 1..8 /\ step[i] >= UnlinkAt[name] /\ step[i] < CreateAt[name]
        /\ s = OpenAt[name] => step[i] \in 1..8 /\ step[i] >= CreateAt[name]
    BY <1>3, <1>5
  <2> QED
    BY <1>0, <2>1 DEF NamesOwned
<1>7. Initially[name] \in Int
  BY SharedRingAssumption DEF Initially, Names
<1>13. /\ bound \in [Names -> Makers] /\ sems \in [Instances -> [Names -> Makers]]
       /\ value \in [Instances \cup {Left} -> [Names -> Int]]
       /\ i \in Makers /\ None \in Makers /\ i \in Instances \cup {Left}
       /\ bound[name] \in Makers /\ sems[i] \in [Names -> Makers] /\ value[i] \in [Names -> Int]
  BY <1>0 DEF Types, Makers
\* What the call does, name by name.
<1>14. bound' \in [Names -> Makers] /\ \A n \in Names : bound'[n] =
         IF n = name /\ s = UnlinkAt[name] THEN None
         ELSE IF n = name /\ s = CreateAt[name] THEN i ELSE bound[n]
  <2>1. CASE s = UnlinkAt[name]
    <3>1. s # CreateAt[name] /\ s # OpenAt[name]
      BY <1>5, <2>1
    <3>2. bound' = [bound EXCEPT ![name] = None]
      BY <1>2, <3>1
    <3> QED
      BY <1>13, <2>1, <3>1, <3>2
  <2>2. CASE s = CreateAt[name]
    <3>1. bound' = [bound EXCEPT ![name] = i]
      BY <1>2, <1>5, <1>6, <2>2
    <3>2. s # UnlinkAt[name]
      BY <1>5, <2>2
    <3> QED
      BY <1>13, <2>2, <3>1, <3>2
  <2>3. CASE s = OpenAt[name]
    BY <1>2, <1>5, <1>13, <2>3
  <2>4. s = UnlinkAt[name] \/ s = CreateAt[name] \/ s = OpenAt[name]
    BY <1>2
  <2> QED
    BY <2>1, <2>2, <2>3, <2>4
<1>15. value' = IF s = CreateAt[name] THEN [value EXCEPT ![i][name] = Initially[name]] ELSE value
  BY <1>2, <1>5, <1>6
<1>16. sems' = IF s = OpenAt[name] THEN [sems EXCEPT ![i][name] = bound[name]] ELSE sems
  BY <1>2, <1>5
<1>17. /\ value' \in [Instances \cup {Left} -> [Names -> Int]]
       /\ \A j \in Instances : j # i => value'[j] = value[j]
       /\ \A n \in Names : value'[i][n] =
            IF n = name /\ s = CreateAt[name] THEN Initially[n] ELSE value[i][n]
  <2> DEFINE w == [value[i] EXCEPT ![name] = Initially[name]]
  <2>1. w \in [Names -> Int] /\ \A n \in Names : w[n] = IF n = name THEN Initially[n] ELSE value[i][n]
    BY <1>7, <1>13
  <2>2. [value EXCEPT ![i][name] = Initially[name]] = [value EXCEPT ![i] = w]
    OBVIOUS
  <2> HIDE DEF w
  <2>3. CASE s = CreateAt[name]
    <3>1. value' = [value EXCEPT ![i] = w]
      BY <1>15, <2>2, <2>3
    <3>2. value'[i] = w /\ value' \in [Instances \cup {Left} -> [Names -> Int]]
      BY <1>13, <2>1, <3>1
    <3>3. \A j \in Instances : j # i => value'[j] = value[j]
      BY <1>13, <3>1
    <3> QED
      BY <2>1, <2>3, <3>2, <3>3
  <2>4. CASE s # CreateAt[name]
    BY <1>13, <1>15, <2>4
  <2> QED
    BY <2>3, <2>4
<1>18. /\ sems' \in [Instances -> [Names -> Makers]]
       /\ \A j \in Instances : j # i => sems'[j] = sems[j]
       /\ \A n \in Names : sems'[i][n] =
            IF n = name /\ s = OpenAt[name] THEN bound[name] ELSE sems[i][n]
  <2> DEFINE w == [sems[i] EXCEPT ![name] = bound[name]]
  <2>1. w \in [Names -> Makers] /\ \A n \in Names : w[n] = IF n = name THEN bound[name] ELSE sems[i][n]
    BY <1>13
  <2>2. [sems EXCEPT ![i][name] = bound[name]] = [sems EXCEPT ![i] = w]
    OBVIOUS
  <2> HIDE DEF w
  <2>3. CASE s = OpenAt[name]
    <3>1. sems' = [sems EXCEPT ![i] = w]
      BY <1>16, <2>2, <2>3
    <3>2. sems'[i] = w /\ sems' \in [Instances -> [Names -> Makers]]
      BY <1>13, <2>1, <3>1
    <3>3. \A j \in Instances : j # i => sems'[j] = sems[j]
      BY <1>13, <3>1
    <3> QED
      BY <2>1, <2>3, <3>2, <3>3
  <2>4. CASE s # OpenAt[name]
    BY <1>13, <1>16, <2>4
  <2> QED
    BY <2>3, <2>4
<1>8. Types'
  <2>1. step' \in [Instances -> 0..9]
    BY <1>0, <1>1, <1>3 DEF Types
  <2> QED
    BY <1>0, <1>1, <1>14, <1>17, <1>18, <2>1 DEF Types
<1>9. NamesOwned'
  <2>1. \A j \in Instances : step'[j] \in 1..8 => j = i
    BY <1>1, <1>3
  <2>2. ASSUME NEW n \in Names, s \in 1..8
        PROVE  /\ s >= CreateAt[n] => bound'[n] = i
               /\ s >= UnlinkAt[n] /\ s < CreateAt[n] => bound'[n] = None
    <3>1. s # 1 => /\ step[i] >= CreateAt[n] => bound[n] = i
                   /\ step[i] >= UnlinkAt[n] /\ step[i] < CreateAt[n] => bound[n] = None
      BY <1>0, <1>1, <1>3 DEF NamesOwned
    <3>2. CASE n = name
      BY <1>1, <1>2, <1>3, <1>5, <1>6, <1>14, <3>1, <3>2
    <3>3. CASE n # name
      <4>1. bound'[n] = bound[n]
        BY <1>14, <3>3
      <4>2. CASE s = UnlinkAt[name]
        BY <1>1, <1>3, <1>5, <3>1, <3>3, <4>1, <4>2
      <4>3. CASE s = CreateAt[name]
        BY <1>1, <1>3, <1>5, <3>1, <3>3, <4>1, <4>3
      <4>4. CASE s = OpenAt[name]
        BY <1>1, <1>3, <1>5, <3>1, <3>3, <4>1, <4>4
      <4> QED
        BY <1>2, <4>2, <4>3, <4>4
    <3> QED
      BY <3>2, <3>3
  <2> QED
    BY <1>3, <2>1, <2>2 DEF NamesOwned
<1>10. SemsOwned'
  <2> SUFFICES ASSUME NEW j \in Instances, NEW n \in Names
               PROVE  sems'[j][n] = IF step'[j] >= OpenAt[n] THEN j ELSE None
    BY DEF SemsOwned
  <2>1. sems[j][n] = IF step[j] >= OpenAt[n] THEN j ELSE None
    BY <1>0 DEF SemsOwned
  <2>2. CASE j = i /\ n = name /\ s = OpenAt[name]
    BY <1>3, <1>5, <1>6, <1>18, <2>2
  <2>3. CASE ~(j = i /\ n = name /\ s = OpenAt[name])
    <3>1. sems'[j][n] = sems[j][n]
      BY <1>18, <2>3
    <3>2. step'[j] >= OpenAt[n] <=> step[j] >= OpenAt[n]
      BY <1>1, <1>2, <1>3, <1>5, <2>3
    <3> QED
      BY <2>1, <3>1, <3>2
  <2> QED
    BY <2>2, <2>3
<1>11. \A j \in Instances : j # i => RingOK(j)'
  <2> SUFFICES ASSUME NEW j \in Instances, j # i PROVE RingOK(j)'
    OBVIOUS
  <2>1. value'[j] = value[j] /\ step'[j] = step[j]
    BY <1>3, <1>17
  <2> QED
    BY <1>0, <1>1, <2>1, RingFrame
<1>12. RingOK(i)'
  <2>1. \A r \in Roles : pc[i][r] = "unborn"
    BY <1>0, <1>1, <1>3 DEF RingOK, Unforked
  <2>2. \A n \in Names : s >= CreateAt[n] => value'[i][n] = Initially[n]
    <3> SUFFICES ASSUME NEW n \in Names, s >= CreateAt[n] PROVE value'[i][n] = Initially[n]
      OBVIOUS
    <3>1. step[i] >= CreateAt[n] => value[i][n] = Initially[n]
      BY <1>0, <2>1 DEF RingOK, Unforked, Roles
    <3>2. CASE n = name /\ s = CreateAt[name]
      BY <1>17, <3>2
    <3>3. CASE ~(n = name /\ s = CreateAt[name])
      <4>1. value'[i][n] = value[i][n]
        BY <1>17, <3>3
      <4>2. step[i] >= CreateAt[n]
        BY <1>1, <1>2, <1>3, <1>5, <3>3
      <4> QED
        BY <3>1, <4>1, <4>2
    <3> QED
      BY <3>2, <3>3
  <2>3. RingOK(i)
    BY <1>0
  <2>4. Unforked(i)' /\ CountsOK(i)'
    BY <1>1, <1>3, <2>1, <2>2, <2>3 DEF RingOK, Unforked, CountsOK, Roles
  <2>5. TailOK(i)' /\ LinesOK(i)'
    BY <1>1, <2>3 DEF RingOK, TailOK, LinesOK, Line
  <2> QED
    BY <2>4, <2>5 DEF RingOK
<1> QED
  BY <1>8, <1>9, <1>10, <1>11, <1>12 DEF Owned

\* What writing a semaphore changes, and moving a process.
LEMMA ValueSet ==
  ASSUME value \in [Instances \cup {Left} -> [Names -> Int]],
         NEW i \in Instances, NEW name \in Names, NEW v \in Int,
         value' = [value EXCEPT ![i][name] = v]
  PROVE  /\ value' \in [Instances \cup {Left} -> [Names -> Int]]
         /\ \A j \in Instances : j # i => value'[j] = value[j]
         /\ \A n \in Names : value'[i][n] = IF n = name THEN v ELSE value[i][n]
<1> DEFINE w == [value[i] EXCEPT ![name] = v]
<1>1. value[i] \in [Names -> Int] /\ i \in Instances \cup {Left}
  OBVIOUS
<1>2. w \in [Names -> Int] /\ \A n \in Names : w[n] = IF n = name THEN v ELSE value[i][n]
  BY <1>1
<1>3. value' = [value EXCEPT ![i] = w]
  OBVIOUS
<1> HIDE DEF w
<1>4. value'[i] = w /\ value' \in [Instances \cup {Left} -> [Names -> Int]]
  BY <1>1, <1>2, <1>3
<1>5. \A j \in Instances : j # i => value'[j] = value[j]
  BY <1>3
<1> QED
  BY <1>2, <1>4, <1>5

LEMMA PlaceSet ==
  ASSUME pc \in [Instances -> [Roles -> Places]],
         NEW i \in Instances, NEW r \in Roles, NEW place \in Places, GoTo(i, r, place)
  PROVE  /\ pc' \in [Instances -> [Roles -> Places]]
         /\ \A j \in Instances : j # i => pc'[j] = pc[j]
         /\ \A q \in Roles : pc'[i][q] = IF q = r THEN place ELSE pc[i][q]
<1> DEFINE w == [pc[i] EXCEPT ![r] = place]
<1>1. pc[i] \in [Roles -> Places]
  OBVIOUS
<1>2. w \in [Roles -> Places] /\ \A q \in Roles : w[q] = IF q = r THEN place ELSE pc[i][q]
  BY <1>1
<1>3. pc' = [pc EXCEPT ![i] = w]
  BY DEF GoTo
<1> HIDE DEF w
<1>4. pc'[i] = w /\ pc' \in [Instances -> [Roles -> Places]]
  BY <1>2, <1>3
<1>5. \A j \in Instances : j # i => pc'[j] = pc[j]
  BY <1>3
<1> QED
  BY <1>2, <1>4, <1>5

\* An instance that runs has set up, and waits for and posts its own semaphores.
LEMMA OwnSems ==
  ASSUME Owned, NEW i \in Instances, NEW r \in Roles, pc[i][r] # "unborn"
  PROVE  step[i] = 9 /\ \A name \in Names : sems[i][name] = i
<1>1. step[i] = 9
  BY DEF Owned, RingOK, Unforked
<1>2. \A name \in Names : OpenAt[name] \in 7..9
  BY DEF OpenAt, Names
<1> QED
  BY <1>1, <1>2 DEF Owned, SemsOwned

\* A step of a process, which leaves the other instances alone.
LEMMA StepFrame ==
  ASSUME Owned, NEW i \in Instances, UNCHANGED setUpVars, Types',
         \A j \in Instances : j # i =>
           /\ head'[j] = head[j] /\ tail'[j] = tail[j] /\ buffer'[j] = buffer[j]
           /\ got'[j] = got[j] /\ value'[j] = value[j] /\ pc'[j] = pc[j],
         RingOK(i)'
  PROVE  Owned'
<1>1. bound' = bound /\ sems' = sems /\ step' = step
  BY DEF setUpVars
<1>2. NamesOwned' /\ SemsOwned'
  BY <1>1 DEF Owned, NamesOwned, SemsOwned
<1>3. \A j \in Instances : j # i => RingOK(j)'
  BY <1>1, RingFrame DEF Owned
<1> QED
  BY <1>2, <1>3 DEF Owned

LEMMA ForkNext ==
  ASSUME Owned, NEW i \in Instances, SetUpFails(i) \/ Fork(i)
  PROVE  Owned'
<1> USE DEF ringVars
<1>0. Types /\ RingOK(i)
  BY DEF Owned
<1>1. step[i] = 9 /\ (\A r \in Roles : pc[i][r] = "unborn") /\ UNCHANGED <<setUpVars, ringVars, value>>
  BY SetUpIs DEF SetUpFails, Fork, IsSetUp
<1>2. /\ pc' \in [Instances -> [Roles -> Places]]
      /\ \A j \in Instances : j # i => pc'[j] = pc[j]
      /\ \/ pc'[i]["producer"] = "unborn" /\ pc'[i]["consumer"] = "exited"
         \/ pc'[i]["producer"] = "waitSlot" /\ pc'[i]["consumer"] = "waitSlot"
  <2>1. CASE SetUpFails(i)
    <3>1. "consumer" \in Roles /\ "producer" \in Roles /\ "exited" \in Places
      BY DEF Roles, Places
    <3>2. GoTo(i, "consumer", "exited") /\ pc \in [Instances -> [Roles -> Places]]
      BY <1>0, <2>1 DEF SetUpFails, GoTo, Types
    <3> QED
      BY <1>1, <3>1, <3>2, PlaceSet
  <2>2. CASE Fork(i)
    BY <1>0, <2>2 DEF Fork, Types, Roles, Places
  <2> QED
    BY <2>1, <2>2
<1>3. Types'
  BY <1>0, <1>1, <1>2 DEF Types, setUpVars
<1>4. \A name \in Names : value[i][name] = Initially[name]
  <2>1. \A name \in Names : CreateAt[name] \in 4..6
    BY DEF CreateAt, Names
  <2> QED
    BY <1>0, <1>1, <2>1 DEF RingOK, Unforked, Roles
<1>5. value[i]["full"] = 0 /\ value[i]["empty"] = Capacity
  BY <1>4 DEF Names, Initially
<1>6. head[i] = 0 /\ tail[i] = 0 /\ Len(Input[i]) \in Nat
  BY <1>0, <1>1, LineIs DEF RingOK, Unforked, Roles
<1>7. Unforked(i)'
  BY <1>1, <1>2, <1>4, <1>6 DEF Unforked, Roles, setUpVars
<1>8. CountsOK(i)'
  <2>1. pc'[i]["producer"] # "unborn" => Has(i, "producer")' = 0 /\ Has(i, "consumer")' = 0
    BY <1>2 DEF Has
  <2> QED
    BY <1>1, <1>5, <1>6, <2>1, SharedRingAssumption DEF CountsOK
<1>9. TailOK(i)' /\ LinesOK(i)'
  BY <1>0, <1>1, <1>6 DEF RingOK, TailOK, LinesOK, Line
<1>10. RingOK(i)'
  BY <1>7, <1>8, <1>9 DEF RingOK
<1> QED
  BY <1>1, <1>2, <1>3, <1>10, StepFrame

\* What a process that runs can count on.
LEMMA Runs ==
  ASSUME Owned, NEW i \in Instances, NEW r \in Roles, pc[i][r] \notin {"unborn", "exited"}
  PROVE  /\ pc[i]["producer"] # "unborn" /\ step[i] = 9
         /\ \A name \in Names : sems[i][name] = i /\ value[i][name] \in Int
         /\ head[i] \in Nat /\ tail[i] \in Nat /\ Capacity \in Nat \ {0} /\ Len(Input[i]) \in Nat
         /\ value[i]["full"] = tail[i] - head[i] - Has(i, "consumer")
         /\ value[i]["empty"] = Capacity - (tail[i] - head[i]) - Has(i, "producer")
         /\ value[i]["full"] >= 0 /\ value[i]["empty"] >= 0
         /\ Has(i, "consumer") \in {0, 1} /\ Has(i, "producer") \in {0, 1}
<1>1. pc[i]["producer"] # "unborn" /\ step[i] = 9
  BY OwnSems DEF Owned, RingOK, Unforked, Roles
<1>2. \A name \in Names : value[i][name] \in Int
  BY DEF Owned, Types
<1>3. head[i] \in Nat /\ tail[i] \in Nat
  BY DEF Owned, Types
<1>4. Has(i, "consumer") \in {0, 1} /\ Has(i, "producer") \in {0, 1}
  BY DEF Has
<1>5. CountsOK(i)
  BY DEF Owned, RingOK
<1> QED
  BY <1>1, <1>2, <1>3, <1>4, <1>5, OwnSems, SharedRingAssumption, LineIs DEF CountsOK

LEMMA WaitNext ==
  ASSUME Owned, NEW i \in Instances, NEW r \in Roles, WaitSlot(i, r) \/ WaitMut(i, r)
  PROVE  Owned'
<1> USE DEF ringVars, setUpVars
<1>0. Types /\ RingOK(i)
  BY DEF Owned
<1> DEFINE name == IF pc[i][r] = "waitSlot" THEN Slot[r] ELSE "mut"
           place == IF pc[i][r] = "waitSlot" THEN "waitMut" ELSE "access"
<1>1. /\ \/ pc[i][r] = "waitSlot" /\ place = "waitMut" /\ name = Slot[r]
         \/ pc[i][r] = "waitMut" /\ place = "access" /\ name = "mut"
      /\ name \in Names /\ place \in Places
      /\ SemWait(i, name) /\ GoTo(i, r, place) /\ UNCHANGED <<setUpVars, ringVars>>
  BY DEF WaitSlot, WaitMut, Names, Roles, Slot, Places
<1> HIDE DEF name, place
<1>2. pc[i][r] \in {"waitSlot", "waitMut"} /\ sems[i][name] = i
  BY <1>1, Runs
<1>3. value[i][name] > 0 /\ value' = [value EXCEPT ![i][name] = value[i][name] - 1]
  BY <1>1, <1>2 DEF SemWait
<1>4. value[i][name] - 1 \in Int /\ value \in [Instances \cup {Left} -> [Names -> Int]]
      /\ pc \in [Instances -> [Roles -> Places]]
  BY <1>0, <1>1, <1>2, Runs DEF Types
<1>5. /\ value' \in [Instances \cup {Left} -> [Names -> Int]]
      /\ \A j \in Instances : j # i => value'[j] = value[j]
      /\ \A n \in Names : value'[i][n] = IF n = name THEN value[i][name] - 1 ELSE value[i][n]
  BY <1>1, <1>3, <1>4, ValueSet
<1>6. /\ pc' \in [Instances -> [Roles -> Places]]
      /\ \A j \in Instances : j # i => pc'[j] = pc[j]
      /\ \A q \in Roles : pc'[i][q] = IF q = r THEN place ELSE pc[i][q]
  BY <1>1, <1>4, PlaceSet
<1>7. Types'
  BY <1>0, <1>1, <1>5, <1>6 DEF Types
<1>8. Unforked(i)'
  BY <1>0, <1>1, <1>2, <1>6, Runs DEF RingOK, Unforked, Roles
<1>9. TailOK(i)' /\ LinesOK(i)'
  BY <1>0, <1>1, <1>6 DEF RingOK, TailOK, LinesOK, Line, Roles
<1>10. CountsOK(i)'
  <2>1. pc[i][r] \notin {"unborn", "exited"}
    BY <1>2
  <2>2. /\ Has(i, "consumer")' =
             IF r = "consumer" /\ pc[i][r] = "waitSlot" THEN 1 ELSE Has(i, "consumer")
        /\ Has(i, "producer")' =
             IF r = "producer" /\ pc[i][r] = "waitSlot" THEN 1 ELSE Has(i, "producer")
    BY <1>1, <1>2, <1>6 DEF Has, Roles
  <2>3. /\ r = "consumer" /\ pc[i][r] = "waitSlot" => name = "full" /\ Has(i, "consumer") = 0
        /\ r = "producer" /\ pc[i][r] = "waitSlot" => name = "empty" /\ Has(i, "producer") = 0
        /\ pc[i][r] # "waitSlot" => name = "mut"
    BY <1>1 DEF Has, Slot
  <2>4. r = "consumer" \/ r = "producer"
    BY DEF Roles
  <2>5. "full" \in Names /\ "empty" \in Names
    BY DEF Names
  <2>6. head' = head /\ tail' = tail
    BY <1>1
  <2> QED
    BY <1>3, <1>5, <2>1, <2>2, <2>3, <2>4, <2>5, <2>6, Runs DEF CountsOK
<1>11. RingOK(i)'
  BY <1>8, <1>9, <1>10 DEF RingOK
<1> QED
  BY <1>1, <1>5, <1>6, <1>7, <1>11, StepFrame

LEMMA PostNext ==
  ASSUME Owned, NEW i \in Instances, NEW r \in Roles, PostMut(i, r)
  PROVE  Owned'
<1> USE DEF ringVars, setUpVars
<1>0. Types /\ RingOK(i)
  BY DEF Owned
<1> DEFINE place == IF Finished(i, r) THEN "exited" ELSE "waitSlot"
<1>1. pc[i][r] = "postMut" /\ SemPost(i, "mut") /\ GoTo(i, r, place) /\ UNCHANGED <<setUpVars, ringVars>>
  BY DEF PostMut
<1>2. /\ place \in {"exited", "waitSlot"} /\ place \in Places
      /\ r = "producer" /\ place = "waitSlot" => tail[i] # Len(Input[i]) + 1
  BY DEF Places, Finished
<1> HIDE DEF place
<1>3. sems[i]["mut"] = i /\ "mut" \in Names
  BY <1>1, Runs DEF Names
<1>4. value' = [value EXCEPT ![i]["mut"] = value[i]["mut"] + 1]
  BY <1>1, <1>3 DEF SemPost
<1>5. value[i]["mut"] + 1 \in Int /\ value \in [Instances \cup {Left} -> [Names -> Int]]
      /\ pc \in [Instances -> [Roles -> Places]]
  BY <1>0, <1>1, <1>3, Runs DEF Types
<1>6. /\ value' \in [Instances \cup {Left} -> [Names -> Int]]
      /\ \A j \in Instances : j # i => value'[j] = value[j]
      /\ \A n \in Names : value'[i][n] = IF n = "mut" THEN value[i]["mut"] + 1 ELSE value[i][n]
  BY <1>3, <1>4, <1>5, ValueSet
<1>7. /\ pc' \in [Instances -> [Roles -> Places]]
      /\ \A j \in Instances : j # i => pc'[j] = pc[j]
      /\ \A q \in Roles : pc'[i][q] = IF q = r THEN place ELSE pc[i][q]
  BY <1>1, <1>2, <1>5, PlaceSet
<1>8. Types'
  BY <1>0, <1>1, <1>6, <1>7 DEF Types
<1>9. Unforked(i)'
  BY <1>0, <1>1, <1>2, <1>7, Runs DEF RingOK, Unforked, Roles
<1>10. LinesOK(i)'
  BY <1>0, <1>1 DEF RingOK, LinesOK, Line
<1>11. TailOK(i)'
  <2>1. tail[i] <= Len(Input[i]) + 1 /\ tail[i] \in Nat /\ Len(Input[i]) \in Nat
    BY <1>0, <1>1, Runs DEF RingOK, TailOK
  <2>2. r = "producer" /\ place = "waitSlot" => tail[i] <= Len(Input[i])
    BY <1>2, <2>1
  <2> QED
    BY <1>0, <1>1, <1>2, <1>7, <2>2 DEF RingOK, TailOK, Roles
<1>12. CountsOK(i)'
  <2>1. Has(i, "consumer")' = Has(i, "consumer") /\ Has(i, "producer")' = Has(i, "producer")
    BY <1>1, <1>2, <1>7 DEF Has, Roles
  <2>2. value'[i]["full"] = value[i]["full"] /\ value'[i]["empty"] = value[i]["empty"]
    BY <1>6 DEF Names
  <2> QED
    BY <1>1, <2>1, <2>2, Runs DEF CountsOK
<1>13. RingOK(i)'
  BY <1>9, <1>10, <1>11, <1>12 DEF RingOK
<1> QED
  BY <1>1, <1>6, <1>7, <1>8, <1>13, StepFrame

LEMMA InsertNext ==
  ASSUME Owned, NEW i \in Instances, insertIntoSharedRingBuf(i)
  PROVE  Owned'
<1> USE DEF ringVars, setUpVars
<1>0. Types /\ RingOK(i) /\ "producer" \in Roles /\ "consumer" \in Roles
  BY DEF Owned, Roles
<1> DEFINE H == head[i]
           T == tail[i]
           line == NextLine(i)
<1>1. /\ pc[i]["producer"] = "access" /\ buffer' = [buffer EXCEPT ![i][T % Capacity] = line]
      /\ tail' = [tail EXCEPT ![i] = T + 1]
      /\ SemPost(i, "full") /\ GoTo(i, "producer", "postMut") /\ UNCHANGED <<setUpVars, head, got>>
  BY DEF insertIntoSharedRingBuf, Posted
<1>2. /\ pc[i]["producer"] \notin {"unborn", "exited"} /\ step[i] = 9
      /\ sems[i]["full"] = i /\ "full" \in Names /\ "empty" \in Names /\ value[i]["full"] \in Int
  BY <1>0, <1>1, Runs DEF Names
<1>3. /\ H \in Nat /\ T \in Nat /\ Capacity \in Nat \ {0} /\ Len(Input[i]) \in Nat
      /\ Has(i, "producer") = 1 /\ T - H <= Capacity - 1 /\ H <= T /\ T <= Len(Input[i])
  <2>1. Has(i, "producer") = 1 /\ TailOK(i)
    BY <1>0, <1>1 DEF Has, RingOK
  <2>2. value[i]["empty"] = Capacity - (T - H) - 1 /\ value[i]["empty"] >= 0
    BY <1>0, <1>2, <2>1, Runs
  <2>3. H \in Nat /\ T \in Nat /\ Capacity \in Nat \ {0} /\ Len(Input[i]) \in Nat
    BY <1>0, <1>2, Runs
  <2> QED
    BY <1>1, <2>1, <2>2, <2>3 DEF TailOK
<1>4. line = Line(i, T + 1) /\ line \in Items /\ T % Capacity \in 0..(Capacity - 1)
  <2>1. line = Line(i, T + 1)
    BY <1>3 DEF NextLine, Line
  <2> QED
    BY <1>3, <2>1, LineIs, SlotIn
<1> HIDE DEF line
<1>5. /\ value' \in [Instances \cup {Left} -> [Names -> Int]]
      /\ \A j \in Instances : j # i => value'[j] = value[j]
      /\ \A n \in Names : value'[i][n] = IF n = "full" THEN value[i]["full"] + 1 ELSE value[i][n]
  <2>1. value' = [value EXCEPT ![i]["full"] = value[i]["full"] + 1]
    BY <1>1, <1>2 DEF SemPost
  <2>2. value[i]["full"] + 1 \in Int /\ value \in [Instances \cup {Left} -> [Names -> Int]]
    BY <1>0, <1>2 DEF Types
  <2> QED
    BY <1>2, <2>1, <2>2, ValueSet
<1>6. /\ pc' \in [Instances -> [Roles -> Places]]
      /\ \A j \in Instances : j # i => pc'[j] = pc[j]
      /\ \A q \in Roles : pc'[i][q] = IF q = "producer" THEN "postMut" ELSE pc[i][q]
  <2>1. pc \in [Instances -> [Roles -> Places]] /\ "postMut" \in Places
    BY <1>0 DEF Types, Places
  <2> QED
    BY <1>0, <1>1, <2>1, PlaceSet
<1>7. /\ tail' \in [Instances -> Nat] /\ tail'[i] = T + 1
      /\ \A j \in Instances : j # i => tail'[j] = tail[j]
  <2>1. tail \in [Instances -> Nat] /\ T + 1 \in Nat
    BY <1>0, <1>3 DEF Types
  <2> QED
    BY <1>1, <2>1
<1>8. /\ buffer' \in [Instances -> [0..(Capacity - 1) -> Items]]
      /\ \A j \in Instances : j # i => buffer'[j] = buffer[j]
      /\ \A k \in 0..(Capacity - 1) : buffer'[i][k] = IF k = T % Capacity THEN line ELSE buffer[i][k]
  <2> DEFINE w == [buffer[i] EXCEPT ![T % Capacity] = line]
  <2>1. buffer \in [Instances -> [0..(Capacity - 1) -> Items]] /\ buffer[i] \in [0..(Capacity - 1) -> Items]
    BY <1>0 DEF Types
  <2>2. /\ w \in [0..(Capacity - 1) -> Items]
        /\ \A k \in 0..(Capacity - 1) : w[k] = IF k = T % Capacity THEN line ELSE buffer[i][k]
    BY <1>4, <2>1
  <2>3. buffer' = [buffer EXCEPT ![i] = w]
    BY <1>1
  <2> HIDE DEF w
  <2> QED
    BY <2>1, <2>2, <2>3
<1>9. Types'
  BY <1>0, <1>1, <1>5, <1>6, <1>7, <1>8 DEF Types
<1>10. Unforked(i)'
  BY <1>0, <1>1, <1>2, <1>6 DEF RingOK, Unforked, Roles
<1>11. TailOK(i)'
  BY <1>0, <1>1, <1>3, <1>6, <1>7 DEF TailOK
<1>12. CountsOK(i)'
  <2>1. Has(i, "consumer")' = Has(i, "consumer") /\ Has(i, "producer")' = 0
    BY <1>0, <1>6 DEF Has
  <2>2. value'[i]["full"] = value[i]["full"] + 1 /\ value'[i]["empty"] = value[i]["empty"]
    BY <1>2, <1>5
  <2>3. head' = head
    BY <1>1
  <2>4. /\ value[i]["full"] = T - H - Has(i, "consumer")
        /\ value[i]["empty"] = Capacity - (T - H) - Has(i, "producer")
        /\ value[i]["full"] >= 0 /\ value[i]["empty"] >= 0 /\ Has(i, "consumer") \in {0, 1}
    BY <1>0, <1>2, Runs
  <2> QED
    BY <1>3, <1>7, <2>1, <2>2, <2>3, <2>4 DEF CountsOK
\* The slot written is none of those that hold a line to be taken.
<1>13. LinesOK(i)'
  <2>1. LinesOK(i)
    BY <1>0 DEF RingOK
  <2>2. ASSUME NEW n \in H..T PROVE buffer'[i][n % Capacity] = Line(i, n + 1)
    <3>1. n \in Nat /\ n % Capacity \in 0..(Capacity - 1)
      BY <1>3, SlotIn
    <3>2. CASE n = T
      BY <1>4, <1>8, <3>2
    <3>3. CASE n # T
      <4>1. n < T /\ T < n + Capacity /\ n \in H..(T - 1)
        BY <1>3, <3>3
      <4>2. n % Capacity # T % Capacity
        <5>1. n \in Int /\ T \in Int /\ Capacity \in Nat \ {0}
          BY <1>3, <3>1
        <5> HIDE DEF T
        <5> QED
          BY <4>1, <5>1, SlotsDiffer
      <4>3. buffer'[i][n % Capacity] = buffer[i][n % Capacity]
        BY <1>8, <3>1, <4>2
      <4> QED
        BY <2>1, <4>1, <4>3 DEF LinesOK
    <3> QED
      BY <3>2, <3>3
  <2>3. head'[i] = H /\ got'[i] = got[i] /\ head'[i]..(tail'[i] - 1) = H..T
    BY <1>1, <1>3, <1>7
  <2> QED
    BY <2>1, <2>2, <2>3 DEF LinesOK, Line
<1>14. RingOK(i)'
  BY <1>10, <1>11, <1>12, <1>13 DEF RingOK
<1> QED
  BY <1>1, <1>5, <1>6, <1>7, <1>8, <1>9, <1>14, StepFrame

LEMMA RemoveNext ==
  ASSUME Owned, NEW i \in Instances, removeFromSharedRingBuff(i)
  PROVE  Owned'
<1> USE DEF ringVars, setUpVars
<1>0. Types /\ RingOK(i) /\ "producer" \in Roles /\ "consumer" \in Roles
  BY DEF Owned, Roles
<1> DEFINE H == head[i]
           T == tail[i]
           line == buffer[i][H % Capacity]
<1>1. /\ pc[i]["consumer"] = "access" /\ got' = [got EXCEPT ![i] = Append(got[i], line)]
      /\ head' = [head EXCEPT ![i] = H + 1]
      /\ SemPost(i, "empty") /\ GoTo(i, "consumer", "postMut") /\ UNCHANGED <<setUpVars, tail, buffer>>
  BY DEF removeFromSharedRingBuff, Posted
<1>2. /\ pc[i]["consumer"] \notin {"unborn", "exited"} /\ step[i] = 9 /\ pc[i]["producer"] # "unborn"
      /\ sems[i]["empty"] = i /\ "full" \in Names /\ "empty" \in Names /\ value[i]["empty"] \in Int
  BY <1>0, <1>1, Runs DEF Names
<1>3. /\ H \in Nat /\ T \in Nat /\ Capacity \in Nat \ {0} /\ Len(Input[i]) \in Nat
      /\ Has(i, "consumer") = 1 /\ H + 1 <= T /\ T <= Len(Input[i]) + 1
  <2>1. Has(i, "consumer") = 1 /\ TailOK(i)
    BY <1>0, <1>1 DEF Has, RingOK
  <2>2. value[i]["full"] = (T - H) - 1 /\ value[i]["full"] >= 0
    BY <1>0, <1>2, <2>1, Runs
  <2>3. H \in Nat /\ T \in Nat /\ Capacity \in Nat \ {0} /\ Len(Input[i]) \in Nat
    BY <1>0, <1>2, Runs
  <2> QED
    BY <2>1, <2>2, <2>3 DEF TailOK
\* The slot holds the line that comes next in the input.
<1>4. line = Line(i, H + 1) /\ line \in Items
  <2>1. H \in H..(T - 1) /\ H + 1 \in 1..(Len(Input[i]) + 1)
    BY <1>3
  <2>2. line = Line(i, H + 1)
    BY <1>0, <2>1 DEF RingOK, LinesOK
  <2> QED
    BY <2>1, <2>2, LineIs
<1> HIDE DEF line
<1>5. /\ value' \in [Instances \cup {Left} -> [Names -> Int]]
      /\ \A j \in Instances : j # i => value'[j] = value[j]
      /\ \A n \in Names : value'[i][n] = IF n = "empty" THEN value[i]["empty"] + 1 ELSE value[i][n]
  <2>1. value' = [value EXCEPT ![i]["empty"] = value[i]["empty"] + 1]
    BY <1>1, <1>2 DEF SemPost
  <2>2. value[i]["empty"] + 1 \in Int /\ value \in [Instances \cup {Left} -> [Names -> Int]]
    BY <1>0, <1>2 DEF Types
  <2> QED
    BY <1>2, <2>1, <2>2, ValueSet
<1>6. /\ pc' \in [Instances -> [Roles -> Places]]
      /\ \A j \in Instances : j # i => pc'[j] = pc[j]
      /\ \A q \in Roles : pc'[i][q] = IF q = "consumer" THEN "postMut" ELSE pc[i][q]
  <2>1. pc \in [Instances -> [Roles -> Places]] /\ "postMut" \in Places
    BY <1>0 DEF Types, Places
  <2> QED
    BY <1>0, <1>1, <2>1, PlaceSet
<1>7. /\ head' \in [Instances -> Nat] /\ head'[i] = H + 1
      /\ \A j \in Instances : j # i => head'[j] = head[j]
  <2>1. head \in [Instances -> Nat] /\ H + 1 \in Nat
    BY <1>0, <1>3 DEF Types
  <2> QED
    BY <1>1, <2>1
<1>8. /\ got' \in [Instances -> Seq(Items)]
      /\ \A j \in Instances : j # i => got'[j] = got[j]
      /\ Len(got'[i]) = H + 1
      /\ \A k \in 1..(H + 1) : got'[i][k] = IF k = H + 1 THEN line ELSE got[i][k]
  <2>1. got \in [Instances -> Seq(Items)] /\ got[i] \in Seq(Items) /\ Len(got[i]) = H
    BY <1>0 DEF Types, RingOK, LinesOK
  <2>2. /\ Append(got[i], line) \in Seq(Items) /\ Len(Append(got[i], line)) = H + 1
        /\ \A k \in 1..H : Append(got[i], line)[k] = got[i][k]
        /\ Append(got[i], line)[H + 1] = line
    BY <1>4, <2>1, AppendProperties
  <2>3. got'[i] = Append(got[i], line) /\ got' \in [Instances -> Seq(Items)]
    BY <1>1, <2>1, <2>2
  <2>4. \A k \in 1..(H + 1) : k = H + 1 \/ k \in 1..H
    BY <1>3
  <2>5. \A j \in Instances : j # i => got'[j] = got[j]
    BY <1>1, <2>1
  <2> QED
    BY <1>3, <2>2, <2>3, <2>4, <2>5
<1>9. Types'
  BY <1>0, <1>1, <1>5, <1>6, <1>7, <1>8 DEF Types
<1>10. Unforked(i)'
  BY <1>0, <1>1, <1>2, <1>6 DEF RingOK, Unforked, Roles
<1>11. TailOK(i)'
  BY <1>0, <1>1, <1>3, <1>6, <1>7 DEF RingOK, TailOK
<1>12. CountsOK(i)'
  <2>1. Has(i, "consumer")' = 0 /\ Has(i, "producer")' = Has(i, "producer")
    BY <1>0, <1>6 DEF Has
  <2>2. value'[i]["empty"] = value[i]["empty"] + 1 /\ value'[i]["full"] = value[i]["full"]
    BY <1>2, <1>5
  <2>3. tail' = tail
    BY <1>1
  <2>4. /\ value[i]["full"] = T - H - Has(i, "consumer")
        /\ value[i]["empty"] = Capacity - (T - H) - Has(i, "producer")
        /\ value[i]["full"] >= 0 /\ value[i]["empty"] >= 0 /\ Has(i, "producer") \in {0, 1}
    BY <1>0, <1>2, Runs
  <2> QED
    BY <1>3, <1>7, <2>1, <2>2, <2>3, <2>4 DEF CountsOK
<1>13. LinesOK(i)'
  <2>1. LinesOK(i)
    BY <1>0 DEF RingOK
  <2>2. \A k \in 1..(H + 1) : got'[i][k] = Line(i, k)
    <3>1. \A k \in 1..(H + 1) : k = H + 1 \/ k \in 1..H
      BY <1>3
    <3> QED
      BY <1>4, <1>8, <2>1, <3>1 DEF LinesOK
  <2>3. tail'[i] = T /\ buffer'[i] = buffer[i] /\ \A n \in (H + 1)..(T - 1) : n \in H..(T - 1)
    BY <1>1, <1>3
  <2> QED
    BY <1>7, <1>8, <2>1, <2>2, <2>3 DEF LinesOK, Line
<1>14. RingOK(i)'
  BY <1>10, <1>11, <1>12, <1>13 DEF RingOK
<1> QED
  BY <1>1, <1>5, <1>6, <1>7, <1>8, <1>9, <1>14, StepFrame

LEMMA DiesNext ==
  ASSUME Owned, NEW i \in Instances, ConsumerDies(i)
  PROVE  Owned'
<1> USE DEF ringVars, setUpVars
<1>0. Types /\ RingOK(i) /\ "consumer" \in Roles /\ "producer" \in Roles
  BY DEF Owned, Roles
<1>1. /\ pc[i]["consumer"] = "waitSlot" /\ GoTo(i, "consumer", "dead")
      /\ UNCHANGED <<setUpVars, ringVars, value>>
  BY DEF ConsumerDies
<1>2. /\ pc' \in [Instances -> [Roles -> Places]]
      /\ \A j \in Instances : j # i => pc'[j] = pc[j]
      /\ \A q \in Roles : pc'[i][q] = IF q = "consumer" THEN "dead" ELSE pc[i][q]
  <2>1. pc \in [Instances -> [Roles -> Places]] /\ "dead" \in Places
    BY <1>0 DEF Types, Places
  <2> QED
    BY <1>0, <1>1, <2>1, PlaceSet
<1>3. Types'
  BY <1>0, <1>1, <1>2 DEF Types
<1>4. pc[i]["producer"] # "unborn" /\ step[i] = 9
  BY <1>0, <1>1, Runs
<1>5. Unforked(i)' /\ TailOK(i)' /\ LinesOK(i)'
  BY <1>0, <1>1, <1>2, <1>4 DEF RingOK, Unforked, TailOK, LinesOK, Line, Roles
<1>6. CountsOK(i)'
  <2>1. Has(i, "consumer")' = Has(i, "consumer") /\ Has(i, "producer")' = Has(i, "producer")
    BY <1>0, <1>1, <1>2 DEF Has
  <2> QED
    BY <1>0, <1>1, <1>4, <2>1 DEF RingOK, CountsOK
<1>7. RingOK(i)'
  BY <1>5, <1>6 DEF RingOK
<1> QED
  BY <1>1, <1>2, <1>3, <1>7, StepFrame

-----------------------------------------------------------------------------
(* The theorem *)

\* Unless the set-ups of two instances overlap, whatever an earlier run left, each
\* instance has semaphores of its own, and its consumer takes from the ring the lines of
\* its own input, in order and each once: for any number of instances, inputs, and
\* slots.
THEOREM SharedOwnLines == Spec => []OwnLines
<1>1. Init => SharedInv
  <2> SUFFICES ASSUME Init PROVE Owned
    BY DEF SharedInv
  <2>1. Types
    BY DEF Init, Types, Makers, Items, Places
  <2>2. NamesOwned /\ SemsOwned
    BY DEF Init, NamesOwned, SemsOwned, OpenAt, Names
  <2>3. ASSUME NEW i \in Instances PROVE RingOK(i)
    <3>1. \A name \in Names : CreateAt[name] \in 4..6
      BY DEF CreateAt, Names
    <3>2. /\ head[i] = 0 /\ tail[i] = 0 /\ step[i] = 0 /\ got[i] = <<>>
          /\ \A r \in Roles : pc[i][r] = "unborn"
      BY DEF Init
    <3>3. Unforked(i) /\ CountsOK(i)
      BY <3>1, <3>2 DEF Unforked, CountsOK, Roles
    <3>4. TailOK(i) /\ LinesOK(i)
      BY <3>2, LineIs DEF TailOK, LinesOK, Roles
    <3> QED
      BY <3>3, <3>4 DEF RingOK
  <2> QED
    BY <2>1, <2>2, <2>3 DEF Owned
<1>2. SharedInv /\ [Next]_vars => SharedInv'
  <2> SUFFICES ASSUME SharedInv, [Next]_vars, ~overlapped' PROVE Owned'
    BY DEF SharedInv
  <2>1. CASE Next
    <3> PICK i \in Instances :
          \/ \E name \in Names : Unlink(i, name) \/ Create(i, name) \/ Open(i, name)
          \/ SetUpFails(i) \/ Fork(i)
          \/ \E r \in Roles : Step(i, r)
          \/ insertIntoSharedRingBuf(i) \/ removeFromSharedRingBuff(i) \/ ConsumerDies(i)
      BY <2>1 DEF Next
    <3>1. ASSUME NEW name \in Names, Unlink(i, name) \/ Create(i, name) \/ Open(i, name)
          PROVE  Owned'
      <4>1. ~overlapped
        BY <3>1 DEF Unlink, Create, Open, Call
      <4> QED
        BY <3>1, <4>1, SetUpNext DEF SharedInv
    <3>2. CASE SetUpFails(i) \/ Fork(i)
      <4>1. ~overlapped
        BY <3>2 DEF SetUpFails, Fork, setUpVars
      <4> QED
        BY <3>2, <4>1, ForkNext DEF SharedInv
    <3>3. ASSUME NEW r \in Roles, Step(i, r) PROVE Owned'
      <4>1. ~overlapped
        BY <3>3 DEF Step, WaitSlot, WaitMut, PostMut, setUpVars
      <4> QED
        BY <3>3, <4>1, WaitNext, PostNext DEF SharedInv, Step
    <3>4. CASE insertIntoSharedRingBuf(i)
      BY <3>4, InsertNext DEF SharedInv, insertIntoSharedRingBuf, setUpVars
    <3>5. CASE removeFromSharedRingBuff(i)
      BY <3>5, RemoveNext DEF SharedInv, removeFromSharedRingBuff, setUpVars
    <3>6. CASE ConsumerDies(i)
      BY <3>6, DiesNext DEF SharedInv, ConsumerDies, setUpVars
    <3> QED
      BY <3>1, <3>2, <3>3, <3>4, <3>5, <3>6
  <2>2. CASE UNCHANGED vars
    <3>1. ~overlapped /\ Owned
      BY <2>2 DEF SharedInv, vars, setUpVars
    <3>2. Types' /\ NamesOwned' /\ SemsOwned'
      BY <2>2, <3>1 DEF Owned, Types, NamesOwned, SemsOwned, vars, setUpVars, ringVars
    <3>3. \A i \in Instances : RingOK(i)'
      BY <2>2, <3>1, RingFrame DEF Owned, vars, setUpVars, ringVars
    <3> QED
      BY <3>2, <3>3 DEF Owned
  <2> QED
    BY <2>1, <2>2
<1>3. SharedInv => OwnLines
  <2> SUFFICES ASSUME Owned
               PROVE  /\ \A i \in Instances : \A name \in Names : sems[i][name] \in {None, i}
                      /\ \A i \in Instances : \A k \in DOMAIN got[i] :
                           got[i][k] = Append(Input[i], EOF)[k]
    BY DEF SharedInv, OwnLines
  <2>1. \A i \in Instances : \A name \in Names : sems[i][name] \in {None, i}
    BY DEF Owned, SemsOwned
  <2>2. ASSUME NEW i \in Instances, NEW k \in DOMAIN got[i]
        PROVE  got[i][k] = Append(Input[i], EOF)[k]
    <3>1. /\ got[i] \in Seq(Items) /\ head[i] \in Nat /\ tail[i] \in Nat
          /\ Len(got[i]) = head[i] /\ head[i] <= tail[i] /\ tail[i] <= Len(Input[i]) + 1
      BY DEF Owned, Types, RingOK, TailOK, LinesOK
    <3>2. k \in 1..head[i] /\ k \in 1..(Len(Input[i]) + 1)
      BY <3>1, LenProperties, LineIs
    <3> QED
      BY <3>2, LineIs DEF Owned, RingOK, LinesOK
  <2> QED
    BY <2>1, <2>2
<1> QED
  BY <1>1, <1>2, <1>3, PTL DEF Spec

=============================================================================
