--------------------------- MODULE KeyboardProofs ---------------------------
(***************************************************************************)
(* The keyboard driver of hw7/usbkbd.c, for every set of LEDs, of scan     *)
(* codes and keys, and every length of a report.                           *)
(***************************************************************************)
EXTENDS Keyboard, FiniteSetTheorems, TLAPS

(* The inductive invariant *)

\* What is allocated in each phase.
Allocated ==
  /\ phase = "none" => held = {}
  /\ phase = "alloc" => {"kbd", "input"} \subseteq held
  /\ phase = "fail1" => held \subseteq {"kbd", "input"}
  /\ Registered \/ phase = "killLed" => held = Resources

\* Nothing goes on before the input device is registered, and reports only while
\* it is open or being closed.
Quiet ==
  /\ phase \in {"none", "alloc", "fail1", "fail2"} => urb["led"] = "idle"
  /\ phase \in {"none", "alloc", "fail1", "fail2", "killLed"} => ~users /\ ~closing
  /\ urb["irq"] # "idle" => users \/ closing

\* newleds shows the LEDs of the last event in the mode the event left, and the
\* keyboard shows leds unless the transfer was refused or failed.
LedsFollow ==
  /\ led_urb_submitted = (urb["led"] # "idle")
  /\ newleds = IF asp_mode = 2 /\ Wire(ledBits) \in {{1}, {1, 2}}
               THEN {1} \cup ({2} \ Wire(ledBits))
               ELSE Wire(ledBits)
  /\ asp_mode = 1 => Wire(ledBits) # {1}
  /\ sent /\ urb["led"] \in {"idle", "ok"} => lit = leds
  /\ sent /\ urb["led"] = "idle" => leds = newleds
  /\ urb["led"] \in {"error", "unlinked"} => ~sent

KbdInv == TypeOK /\ Allocated /\ Quiet /\ LedsFollow /\ KeysFollow

-----------------------------------------------------------------------------
(* The bytes and the modes *)

LEMMA WireType == \A bits : bits \subseteq LEDs => Wire(bits) \subseteq {1, 2, 4, 8}
<1>1. \A b \in LEDs : WireBit[b] \in {1, 2, 4, 8}
  BY KeyboardAssumption DEF WireBit
<1> QED
  BY <1>1 DEF Wire

\* Lines 170-183: the mode and the byte that an event leaves.
LEMMA NewLedsFollow ==
  ASSUME NEW mode \in {1, 2}, NEW byte \in SUBSET {1, 2, 4, 8}
  PROVE  /\ NewMode(mode, byte) \in {1, 2}
         /\ NewLeds(mode, byte) \subseteq {1, 2, 4, 8}
         /\ NewLeds(mode, byte) = IF NewMode(mode, byte) = 2 /\ byte \in {{1}, {1, 2}}
                                  THEN {1} \cup ({2} \ byte)
                                  ELSE byte
         /\ NewMode(mode, byte) = 1 => byte # {1}
<1>1. {1} # {1, 2} /\ {1} # {}
  <2>1. 2 \in {1, 2} /\ 2 \notin {1} /\ 1 \in {1} /\ 1 \notin {}
    OBVIOUS
  <2> QED
    BY <2>1
<1>2. {1} \cup ({2} \ {1}) = {1, 2} /\ {1} \cup ({2} \ {1, 2}) = {1}
  OBVIOUS
<1>3. NewMode(mode, byte) \in {1, 2} /\ (NewMode(mode, byte) = 1 => byte # {1})
  BY <1>1 DEF NewMode
<1>4. Mode2Leds(byte) = IF byte \in {{1}, {1, 2}} THEN {1} \cup ({2} \ byte) ELSE byte
  BY <1>1, <1>2 DEF Mode2Leds
<1>5. Mode2Leds(byte) \subseteq {1, 2, 4, 8}
  BY DEF Mode2Leds
<1> QED
  BY <1>3, <1>4, <1>5 DEF NewLeds

-----------------------------------------------------------------------------
(* The keys *)

\* A report is a set of modifiers and a scan code, or none, in each slot.
LEMMA ReportIs ==
  ASSUME NEW report \in Reports
  PROVE  /\ report.mods \subseteq Mods
         /\ \A i \in 1..Slots : report.slot[i] \in Codes \cup {0, 1}
         /\ \A c : In(c, report) => c \in Codes \cup {0, 1}
         /\ \A i \in 1..Slots : In(report.slot[i], report)
         /\ \A i \in 1..Slots : report.slot[i] > 3 => report.slot[i] \in Codes
         /\ \A i \in 1..Slots : report.slot[i] \in Codes => report.slot[i] > 3
<1>1. \A c \in Codes : c \in Nat /\ c > 3
  <2>1. \A c \in 4 .. 254 : c \in Nat /\ c > 3
    OBVIOUS
  <2> QED
    BY <2>1, KeyboardAssumption
<1>2. report.mods \subseteq Mods /\ \A i \in 1..Slots : report.slot[i] \in Codes \cup {0, 1}
  BY DEF Reports
<1>3. \A i \in 1..Slots : report.slot[i] > 3 <=> report.slot[i] \in Codes
  BY <1>1, <1>2
<1> QED
  BY <1>2, <1>3 DEF In

LEMMA ReleasedIs ==
  /\ Released \in Reports /\ Released.mods = {}
  /\ \A c \in Codes : ~In(c, Released)
<1>1. \A c \in Codes : c # 0
  BY KeyboardAssumption
<1> QED
  BY <1>1 DEF Released, Reports, In

\* Lines 114-132: the keys are those of the report that was handled.
LEMMA KeysDownFollow ==
  ASSUME old \in Reports, new \in Reports,
         down \cap Mods = old.mods,
         \A k \in Keys :
           LET sharers == {c \in Codes : KeyCode[c] = k}
               isHeld == \E c \in sharers : In(c, old)
           IN  /\ k \in down => isHeld
               /\ Cardinality(sharers) = 1 => (isHeld => k \in down)
  PROVE  /\ KeysDown \cap Mods = new.mods
         /\ \A k \in Keys :
              LET sharers == {c \in Codes : KeyCode[c] = k}
                  isHeld == \E c \in sharers : In(c, new)
              IN  /\ k \in KeysDown => isHeld
                  /\ Cardinality(sharers) = 1 => (isHeld => k \in KeysDown)
<1>1. Keys \cap Mods = {}
  BY KeyboardAssumption DEF Keys
<1>2. KeysDown \cap Mods = new.mods
  BY <1>1, ReportIs DEF KeysDown
<1> SUFFICES ASSUME NEW k \in Keys
             PROVE  LET sharers == {c \in Codes : KeyCode[c] = k}
                        isHeld == \E c \in sharers : In(c, new)
                    IN  /\ k \in KeysDown => isHeld
                        /\ Cardinality(sharers) = 1 => (isHeld => k \in KeysDown)
  BY <1>2
<1> DEFINE sharers == {c \in Codes : KeyCode[c] = k}
<1>3. \A i \in 1..Slots : Releases(i, k) <=> /\ old.slot[i] \in sharers
                                            /\ ~In(old.slot[i], new)
  BY ReportIs DEF Releases
<1>4. \A i \in 1..Slots : Presses(i, k) <=> /\ new.slot[i] \in sharers
                                           /\ ~In(new.slot[i], old)
  BY ReportIs DEF Presses
<1>5. ASSUME k \in KeysDown
      PROVE  \E c \in sharers : In(c, new)
  <2>1. CASE \E i \in 1..Slots : Presses(i, k)
    BY <1>4, <2>1, ReportIs
  <2>2. CASE k \in down /\ \A i \in 1..Slots : ~Releases(i, k)
    <3>1. PICK c \in sharers : In(c, old)
      BY <2>2
    <3>2. PICK i \in 1..Slots : old.slot[i] = c
      BY <3>1 DEF In
    <3> QED
      BY <1>3, <2>2, <3>1, <3>2
  <2>3. k \notin new.mods
    BY <1>1, ReportIs
  <2> QED
    BY <1>5, <2>1, <2>2, <2>3 DEF KeysDown
\* A key of one scan code is not released while it is held.
<1>6. ASSUME NEW c, sharers = {c}, In(c, new)
      PROVE  k \in KeysDown
  <2>1. \A i \in 1..Slots : ~Releases(i, k)
    BY <1>3, <1>6
  <2>2. CASE In(c, old)
    <3>1. Cardinality(sharers) = 1
      BY <1>6, FS_Singleton
    <3>2. k \in down
      BY <1>6, <2>2, <3>1
    <3> QED
      BY <2>1, <3>2 DEF KeysDown
  <2>3. CASE ~In(c, old)
    <3>1. PICK i \in 1..Slots : new.slot[i] = c
      BY <1>6 DEF In
    <3>2. Presses(i, k)
      BY <1>4, <1>6, <2>3, <3>1
    <3>3. \A j \in (i + 1)..Slots : j \in 1..Slots
      BY <3>1, KeyboardAssumption
    <3> QED
      BY <2>1, <3>1, <3>2, <3>3 DEF KeysDown
  <2> QED
    BY <2>2, <2>3
<1>7. ASSUME Cardinality(sharers) = 1
      PROVE  \E c : sharers = {c}
  <2>1. IsFiniteSet(sharers)
    BY FS_Subset, KeyboardAssumption
  <2> QED
    BY <1>7, <2>1, FS_Singleton
<1> QED
  BY <1>5, <1>6, <1>7

-----------------------------------------------------------------------------
(* The invariant is inductive *)

LEMMA MemoryNext ==
  ASSUME KbdInv, [Next]_vars
  PROVE  Allocated' /\ Quiet'
<1>0. TypeOK /\ Allocated /\ Quiet
  BY DEF KbdInv
<1> USE DEF TypeOK, Allocated, Quiet, Registered, Resources, Buffers, Killing, GivenBack, ledVars, keyVars, lifeVars
<1>1. CASE LedsArrive
  BY <1>0, <1>1 DEF LedsArrive
<1>2. CASE ReportArrives
  BY <1>0, <1>2 DEF ReportArrives
<1>3. CASE \E u \in {"irq", "led"} : TransferFails(u)
  BY <1>0, <1>3 DEF TransferFails
<1>4. CASE usb_kbd_event
  BY <1>0, <1>4 DEF usb_kbd_event, SendLeds, KeepLeds, Submit
<1>5. CASE usb_kbd_led
  BY <1>0, <1>5 DEF usb_kbd_led, LedsDone, SendLeds, Submit
<1>6. CASE usb_kbd_irq
  BY <1>0, <1>6 DEF usb_kbd_irq, Submit
<1>7. CASE usb_kbd_open
  BY <1>0, <1>7 DEF usb_kbd_open, Submit
<1>8. CASE usb_kbd_close
  BY <1>0, <1>8 DEF usb_kbd_close
<1>9. CASE CloseReturns
  BY <1>0, <1>9 DEF CloseReturns
<1>10. CASE ProbeBegins
  BY <1>0, <1>10 DEF ProbeBegins, StayUnbound
<1>11. CASE usb_kbd_alloc_mem
  BY <1>0, <1>11 DEF usb_kbd_alloc_mem, StayUnbound
<1>12. CASE ProbeEnds
  BY <1>0, <1>12 DEF ProbeEnds
<1>13. CASE RegisterFails
  BY <1>0, <1>13 DEF RegisterFails, StayUnbound
<1>14. CASE Fail2
  BY <1>0, <1>14 DEF Fail2, StayUnbound
<1>15. CASE Fail1
  BY <1>0, <1>15 DEF Fail1, StayUnbound
<1>16. CASE usb_kbd_disconnect
  BY <1>0, <1>16 DEF usb_kbd_disconnect, Disconnect
<1>17. CASE IrqKilled
  BY <1>0, <1>17 DEF IrqKilled, Disconnect
<1>18. CASE Unregister
  BY <1>0, <1>18 DEF Unregister, Disconnect
<1>19. CASE Unregistered
  BY <1>0, <1>19 DEF Unregistered, Disconnect
<1>20. CASE LedKilled
  BY <1>0, <1>20 DEF LedKilled, Disconnect
<1>21. CASE UNCHANGED vars
  BY <1>0, <1>21 DEF vars
<1> QED
  BY <1>1, <1>2, <1>3, <1>4, <1>5, <1>6, <1>7, <1>8, <1>9, <1>10, <1>11, <1>12, <1>13, <1>14, <1>15, <1>16, <1>17, <1>18, <1>19, <1>20, <1>21 DEF Next

\* A step of the LEDs: an event, or the handler of the LED request.
LEMMA LedsNext ==
  ASSUME KbdInv, [Next]_vars
  PROVE  LedsFollow'
<1>0. /\ LedsFollow /\ Quiet /\ asp_mode \in {1, 2}
      /\ urb \in [{"irq", "led"} -> {"idle", "flight", "ok", "error", "unlinked"}]
      /\ ledBits \subseteq LEDs
  BY DEF KbdInv, TypeOK
<1> USE DEF LedsFollow, Quiet, GivenBack, ledVars
<1>1. CASE LedsArrive
  BY <1>0, <1>1 DEF LedsArrive
<1>2. CASE ReportArrives
  BY <1>0, <1>2 DEF ReportArrives
<1>3. CASE \E u \in {"irq", "led"} : TransferFails(u)
  BY <1>0, <1>3 DEF TransferFails
<1>4. CASE usb_kbd_event
  <2>1. ledBits' \subseteq LEDs
    BY <1>0, <1>4 DEF usb_kbd_event
  <2>2. Wire(ledBits') \in SUBSET {1, 2, 4, 8}
    BY <2>1, WireType
  <2>3. /\ newleds' = NewLeds(asp_mode, Wire(ledBits')) /\ lit' = lit
        /\ asp_mode' = NewMode(asp_mode, Wire(ledBits'))
        /\ IF led_urb_submitted \/ leds = newleds' THEN KeepLeds ELSE SendLeds
    BY <1>4 DEF usb_kbd_event
  <2>4. /\ newleds' = IF asp_mode' = 2 /\ Wire(ledBits') \in {{1}, {1, 2}}
                      THEN {1} \cup ({2} \ Wire(ledBits'))
                      ELSE Wire(ledBits')
        /\ asp_mode' = 1 => Wire(ledBits') # {1}
    BY <1>0, <2>2, <2>3, NewLedsFollow
  <2>5. /\ led_urb_submitted' = (urb'["led"] # "idle")
        /\ sent' /\ urb'["led"] \in {"idle", "ok"} => lit' = leds'
        /\ sent' /\ urb'["led"] = "idle" => leds' = newleds'
        /\ urb'["led"] \in {"error", "unlinked"} => ~sent'
    BY <1>0, <2>3 DEF KeepLeds, SendLeds, Submit
  <2> QED
    BY <2>4, <2>5
<1>5. CASE usb_kbd_led
  BY <1>0, <1>5 DEF usb_kbd_led, LedsDone, SendLeds, Submit
<1>6. CASE usb_kbd_irq
  BY <1>0, <1>6 DEF usb_kbd_irq, Submit, keyVars
<1>7. CASE usb_kbd_open
  BY <1>0, <1>7 DEF usb_kbd_open, Submit
<1>8. CASE usb_kbd_close
  BY <1>0, <1>8 DEF usb_kbd_close
<1>9. CASE CloseReturns
  BY <1>0, <1>9 DEF CloseReturns
<1>10. CASE ProbeBegins
  BY <1>0, <1>10 DEF ProbeBegins, StayUnbound
<1>11. CASE usb_kbd_alloc_mem
  BY <1>0, <1>11 DEF usb_kbd_alloc_mem, StayUnbound
<1>12. CASE ProbeEnds
  <2>1. Wire(ledBits') = {}
    BY <1>12 DEF ProbeEnds, Wire
  <2>2. asp_mode' = 1 /\ newleds' = {} /\ ~sent' /\ led_urb_submitted' = FALSE /\ urb' = urb
    BY <1>12 DEF ProbeEnds
  <2>3. urb["led"] = "idle"
    BY <1>0, <1>12 DEF ProbeEnds, Quiet
  <2> QED
    BY <2>1, <2>2, <2>3
<1>13. CASE RegisterFails
  BY <1>0, <1>13 DEF RegisterFails, StayUnbound
<1>14. CASE Fail2
  BY <1>0, <1>14 DEF Fail2, StayUnbound
<1>15. CASE Fail1
  BY <1>0, <1>15 DEF Fail1, StayUnbound
<1>16. CASE usb_kbd_disconnect
  BY <1>0, <1>16 DEF usb_kbd_disconnect, Disconnect
<1>17. CASE IrqKilled
  BY <1>0, <1>17 DEF IrqKilled, Disconnect
<1>18. CASE Unregister
  BY <1>0, <1>18 DEF Unregister, Disconnect
<1>19. CASE Unregistered
  BY <1>0, <1>19 DEF Unregistered, Disconnect
<1>20. CASE LedKilled
  BY <1>0, <1>20 DEF LedKilled, Disconnect
<1>21. CASE UNCHANGED vars
  BY <1>0, <1>21 DEF vars
<1> QED
  BY <1>1, <1>2, <1>3, <1>4, <1>5, <1>6, <1>7, <1>8, <1>9, <1>10, <1>11, <1>12, <1>13, <1>14, <1>15, <1>16, <1>17, <1>18, <1>19, <1>20, <1>21 DEF Next

\* The first buffer that is missing (lines 250-263).
LEMMA AllocNext ==
  ~ Buffers \subseteq held =>
    \E i \in 1..5 : AllocOrder[i] \notin held /\ \A j \in 1..(i - 1) : AllocOrder[j] \in held
<1> SUFFICES ASSUME ~ Buffers \subseteq held
             PROVE  \E i \in 1..5 : /\ AllocOrder[i] \notin held
                                   /\ \A j \in 1..(i - 1) : AllocOrder[j] \in held
  OBVIOUS
<1>1. \E i \in {1, 2, 3, 4, 5} : AllocOrder[i] \notin held
  BY DEF Buffers, AllocOrder
<1>2. /\ (1..0) = {} /\ (1..1) = {1} /\ (1..2) = {1, 2} /\ (1..3) = {1, 2, 3}
      /\ (1..4) = {1, 2, 3, 4}
      /\ 1 - 1 = 0 /\ 2 - 1 = 1 /\ 3 - 1 = 2 /\ 4 - 1 = 3 /\ 5 - 1 = 4
  OBVIOUS
<1> QED
  BY <1>1, <1>2

\* What a submission leaves (lines 196-202 and 224-228).
LEMMA SendLedsTypes ==
  ASSUME TypeOK
  PROVE  /\ \A u : Submit(u) => urb' \in [{"irq", "led"} -> {"idle", "flight", "ok", "error", "unlinked"}]
         /\ SendLeds => /\ urb' \in [{"irq", "led"} -> {"idle", "flight", "ok", "error", "unlinked"}]
                        /\ led_urb_submitted' \in BOOLEAN /\ sent' \in BOOLEAN
                        /\ leds' = newleds'
<1>1. ASSUME NEW u, Submit(u)
      PROVE  urb' \in [{"irq", "led"} -> {"idle", "flight", "ok", "error", "unlinked"}]
  BY <1>1 DEF TypeOK, Submit
<1>2. (urb'["led"] = "flight") \in BOOLEAN
  OBVIOUS
<1> QED
  BY <1>1, <1>2 DEF SendLeds

LEMMA TypesNext ==
  ASSUME KbdInv, [Next]_vars
  PROVE  TypeOK'
<1>0. TypeOK
  BY DEF KbdInv
<1> USE DEF TypeOK, ledVars, keyVars, lifeVars, Killing, GivenBack, Resources, Buffers
<1>1. CASE LedsArrive
  BY <1>0, <1>1 DEF LedsArrive
<1>2. CASE ReportArrives
  BY <1>0, <1>2 DEF ReportArrives
<1>3. CASE \E u \in {"irq", "led"} : TransferFails(u)
  BY <1>0, <1>3 DEF TransferFails
<1>4. CASE usb_kbd_event
  <2>1. ledBits' \subseteq LEDs
    BY <1>0, <1>4 DEF usb_kbd_event
  <2>2. Wire(ledBits') \in SUBSET {1, 2, 4, 8}
    BY <2>1, WireType
  <2>3. newleds' \subseteq {1, 2, 4, 8} /\ asp_mode' \in {1, 2}
    BY <1>0, <2>2, <1>4, NewLedsFollow DEF usb_kbd_event
  <2>4. /\ urb' \in [{"irq", "led"} -> {"idle", "flight", "ok", "error", "unlinked"}]
        /\ led_urb_submitted' \in BOOLEAN /\ sent' \in BOOLEAN /\ leds' \in {leds, newleds'}
    BY <1>0, SendLedsTypes, <1>4 DEF usb_kbd_event, KeepLeds
  <2>5. UNCHANGED <<lit, users, closing, old, new, down, phase, held>>
    BY <1>4 DEF usb_kbd_event
  <2> QED
    BY <1>0, <2>1, <2>3, <2>4, <2>5
<1>5. CASE usb_kbd_led
  <2>1. /\ urb' \in [{"irq", "led"} -> {"idle", "flight", "ok", "error", "unlinked"}]
        /\ led_urb_submitted' \in BOOLEAN /\ sent' \in BOOLEAN /\ leds' \in {leds, newleds'}
    BY <1>0, SendLedsTypes, <1>5 DEF usb_kbd_led, LedsDone
  <2>2. UNCHANGED <<ledBits, newleds, asp_mode, lit, users, closing, old, new, down, phase, held>>
    BY <1>5 DEF usb_kbd_led
  <2> QED
    BY <1>0, <2>1, <2>2
<1>6. CASE usb_kbd_irq
  <2>1. down' \subseteq Mods \cup {KeyCode[c] : c \in Codes}
    BY <1>0, <1>6, ReportIs DEF usb_kbd_irq, KeysDown, Keys
  <2> QED
    BY <1>0, <2>1, <1>6 DEF usb_kbd_irq, Submit
<1>7. CASE usb_kbd_open
  BY <1>0, <1>7 DEF usb_kbd_open, Submit
<1>8. CASE usb_kbd_close
  BY <1>0, <1>8 DEF usb_kbd_close
<1>9. CASE CloseReturns
  BY <1>0, <1>9 DEF CloseReturns
<1>10. CASE ProbeBegins
  BY <1>0, <1>10 DEF ProbeBegins, StayUnbound
<1>11. CASE usb_kbd_alloc_mem
  <2>1. held' \subseteq Resources
    <3>1. \A i \in 1..5 : AllocOrder[i] \in Resources
      BY DEF AllocOrder, Resources, Buffers
    <3>2. \A i \in 1..5 : held \cup {AllocOrder[i]} \subseteq Resources
      BY <1>0, <3>1
    <3>3. ~ Buffers \subseteq held
      BY <1>11 DEF usb_kbd_alloc_mem
    <3>4. \E n \in 1..5 : held' = held \cup {AllocOrder[n]} \/ held' = held
      BY <3>3, AllocNext, <1>11 DEF usb_kbd_alloc_mem
    <3> QED
      BY <1>0, <3>2, <3>4
  <2> QED
    BY <1>0, <2>1, <1>11 DEF usb_kbd_alloc_mem, StayUnbound
<1>12. CASE ProbeEnds
  <2>1. Bytes \subseteq SUBSET {1, 2, 4, 8}
    BY WireType DEF Bytes
  <2> QED
    BY <1>0, <2>1, <1>12, ReleasedIs DEF ProbeEnds
<1>13. CASE RegisterFails
  BY <1>0, <1>13 DEF RegisterFails, StayUnbound
<1>14. CASE Fail2
  BY <1>0, <1>14 DEF Fail2, StayUnbound
<1>15. CASE Fail1
  BY <1>0, <1>15 DEF Fail1, StayUnbound
<1>16. CASE usb_kbd_disconnect
  BY <1>0, <1>16 DEF usb_kbd_disconnect, Disconnect
<1>17. CASE IrqKilled
  BY <1>0, <1>17 DEF IrqKilled, Disconnect
<1>18. CASE Unregister
  BY <1>0, <1>18 DEF Unregister, Disconnect
<1>19. CASE Unregistered
  BY <1>0, <1>19 DEF Unregistered, Disconnect
<1>20. CASE LedKilled
  BY <1>0, <1>20 DEF LedKilled, Disconnect
<1>21. CASE UNCHANGED vars
  BY <1>0, <1>21 DEF vars
<1> QED
  BY <1>1, <1>2, <1>3, <1>4, <1>5, <1>6, <1>7, <1>8, <1>9, <1>10, <1>11, <1>12, <1>13, <1>14, <1>15, <1>16, <1>17, <1>18, <1>19, <1>20, <1>21 DEF Next

LEMMA KeysNext ==
  ASSUME KbdInv, [Next]_vars
  PROVE  KeysFollow'
<1>0. KeysFollow /\ old \in Reports /\ new \in Reports
  BY DEF KbdInv, TypeOK
<1> USE DEF KeysFollow, ledVars, keyVars, lifeVars, In
<1>1. CASE LedsArrive
  BY <1>0, <1>1 DEF LedsArrive
<1>2. CASE ReportArrives
  BY <1>0, <1>2 DEF ReportArrives
<1>3. CASE \E u \in {"irq", "led"} : TransferFails(u)
  BY <1>0, <1>3 DEF TransferFails
<1>4. CASE usb_kbd_event
  BY <1>0, <1>4 DEF usb_kbd_event, SendLeds, KeepLeds, Submit
<1>5. CASE usb_kbd_led
  BY <1>0, <1>5 DEF usb_kbd_led, LedsDone, SendLeds, Submit
<1>6. CASE usb_kbd_irq
  <2>1. CASE urb["irq"] = "ok"
    <3>1. old' = new /\ down' = KeysDown /\ phase' = phase
      BY <2>1, <1>6 DEF usb_kbd_irq
    <3> QED
      BY <1>0, <3>1, KeysDownFollow DEF KeysFollow
  <2>2. CASE urb["irq"] # "ok"
    <3>1. old' = old /\ down' = down /\ phase' = phase
      BY <2>2, <1>6 DEF usb_kbd_irq
    <3> QED
      BY <1>0, <3>1 DEF KeysFollow
  <2> QED
    BY <2>1, <2>2
<1>7. CASE usb_kbd_open
  BY <1>0, <1>7 DEF usb_kbd_open, Submit
<1>8. CASE usb_kbd_close
  BY <1>0, <1>8 DEF usb_kbd_close
<1>9. CASE CloseReturns
  BY <1>0, <1>9 DEF CloseReturns
<1>10. CASE ProbeBegins
  BY <1>0, <1>10 DEF ProbeBegins, StayUnbound
<1>11. CASE usb_kbd_alloc_mem
  BY <1>0, <1>11 DEF usb_kbd_alloc_mem, StayUnbound
<1>12. CASE ProbeEnds
  <2>1. old' = Released /\ down' = {}
    BY <1>12 DEF ProbeEnds
  <2>2. \A k : \A c \in {x \in Codes : KeyCode[x] = k} : ~In(c, old')
    BY <2>1, ReleasedIs
  <2> QED
    BY <2>1, <2>2, ReleasedIs DEF KeysFollow
<1>13. CASE RegisterFails
  BY <1>0, <1>13 DEF RegisterFails, StayUnbound
<1>14. CASE Fail2
  BY <1>0, <1>14 DEF Fail2, StayUnbound
<1>15. CASE Fail1
  BY <1>0, <1>15 DEF Fail1, StayUnbound
<1>16. CASE usb_kbd_disconnect
  BY <1>0, <1>16 DEF usb_kbd_disconnect, Disconnect
<1>17. CASE IrqKilled
  BY <1>0, <1>17 DEF IrqKilled, Disconnect
<1>18. CASE Unregister
  BY <1>0, <1>18 DEF Unregister, Disconnect
<1>19. CASE Unregistered
  BY <1>0, <1>19 DEF Unregistered, Disconnect
<1>20. CASE LedKilled
  BY <1>0, <1>20 DEF LedKilled, Disconnect
<1>21. CASE UNCHANGED vars
  BY <1>0, <1>21 DEF vars
<1> QED
  BY <1>1, <1>2, <1>3, <1>4, <1>5, <1>6, <1>7, <1>8, <1>9, <1>10, <1>11, <1>12, <1>13, <1>14, <1>15, <1>16, <1>17, <1>18, <1>19, <1>20, <1>21 DEF Next

LEMMA KbdInvInit == Init => KbdInv
<1> SUFFICES ASSUME Init PROVE KbdInv
  OBVIOUS
<1>1. Bytes \subseteq SUBSET {1, 2, 4, 8} /\ Wire({}) = {}
  <2>1. Wire({}) = {}
    BY DEF Wire
  <2> QED
    BY <2>1, WireType DEF Bytes
<1>2. TypeOK
  BY <1>1, ReleasedIs DEF Init, TypeOK
<1>3. Allocated /\ Quiet /\ KeysFollow
  BY DEF Init, Allocated, Quiet, KeysFollow, Registered
<1>4. LedsFollow
  BY <1>1 DEF Init, LedsFollow
<1> QED
  BY <1>2, <1>3, <1>4 DEF KbdInv

LEMMA KbdInvariant == Spec => []KbdInv
<1>1. KbdInv /\ [Next]_vars => KbdInv'
  BY TypesNext, MemoryNext, LedsNext, KeysNext DEF KbdInv
<1> QED
  BY <1>1, KbdInvInit, PTL DEF Spec

-----------------------------------------------------------------------------
(* What the driver promises *)

\* The bytes have the bits that are wired, the reports their slots, and the keys
\* that the input core holds are modifiers or have a scan code.
THEOREM KbdTypes == Spec => []TypeOK
<1>1. KbdInv => TypeOK
  BY DEF KbdInv
<1> QED
  BY <1>1, KbdInvariant, PTL

\* Probe and disconnect (lines 250-384) neither leak memory nor free it while a
\* request that uses it is with the USB core or has its handler to run.
THEOREM KbdMemory == Spec => []MemoryHeld
<1>1. KbdInv => MemoryHeld
  <2> SUFFICES ASSUME KbdInv PROVE MemoryHeld
    OBVIOUS
  <2>1. \A u \in {"irq", "led"} : urb[u] # "idle" => Registered \/ phase = "killLed"
    BY DEF KbdInv, TypeOK, Quiet, Registered
  <2>2. \A u \in {"irq", "led"} : {u, "kbd", "cr", "leds", "new"} \subseteq Resources
    BY DEF Resources, Buffers
  <2> QED
    BY <2>1, <2>2 DEF KbdInv, Allocated, MemoryHeld
<1> QED
  BY <1>1, KbdInvariant, PTL

\* usb_kbd_event and usb_kbd_led (lines 149-232), which share led_urb_submitted, leave
\* no event unshown: at rest the keyboard shows the LEDs of the last one.
THEOREM KbdLeds == Spec => []LedsShown
<1>1. KbdInv => LedsShown
  BY DEF KbdInv, LedsFollow, LedsShown
<1> QED
  BY <1>1, KbdInvariant, PTL

\* usb_kbd_irq (lines 98-143): the keys that are down are those of the last report.
THEOREM KbdKeys == Spec => []KeysFollow
<1>1. KbdInv => KeysFollow
  BY DEF KbdInv
<1> QED
  BY <1>1, KbdInvariant, PTL
=============================================================================
