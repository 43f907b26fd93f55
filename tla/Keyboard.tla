------------------------------ MODULE Keyboard ------------------------------
(***************************************************************************)
(* The USB keyboard driver of hw7/usbkbd.c.  Two requests (URBs) go to the *)
(* keyboard: "irq" brings reports of the keys that are down, "led" sends   *)
(* the byte that lights the LEDs.  The handlers of both run when the USB   *)
(* core gives a request back; LED events, open and close come from the     *)
(* input core, probe and disconnect from the USB core.                     *)
(*                                                                         *)
(* leds_lock is held over the whole of an LED event and of usb_kbd_led, so *)
(* each is one step.  A byte is the set of its bits.  Submitting a request *)
(* may fail at any time, and fails while the request is being killed.      *)
(***************************************************************************)
EXTENDS Integers, FiniteSets

CONSTANTS LEDs,      \* the LEDs that are switched, of those in WireBit
          Codes,     \* the scan codes of keys; that of 255 is not set up (334)
          Mods,      \* the modifier keys
          KeyCode,   \* usb_kbd_keycode: the key of each scan code, or NoKey
          NoKey,
          Slots      \* the number of codes in a report

\* COMPOSE and KANA share a bit (line 157).
WireBit == [NUML |-> 1, CAPSL |-> 2, SCROLLL |-> 4, COMPOSE |-> 8, KANA |-> 8]

ASSUME KeyboardAssumption ==
  /\ LEDs \subseteq DOMAIN WireBit
  /\ DOMAIN KeyCode = Codes
  /\ IsFiniteSet(Codes) /\ Codes \subseteq 4 .. 254
  /\ {KeyCode[c] : c \in Codes} \cap Mods = {}
  /\ Slots \in Nat

VARIABLES
  ledBits,  \* dev->led, the input core's LEDs
  newleds, leds, led_urb_submitted, asp_mode,
  lit,      \* the byte the keyboard shows
  sent,     \* history: the byte in leds was submitted and no error came back
  old, new,
  down,     \* dev->key, the keys the input core takes to be down
  urb,      \* "idle", "flight", or given back: "ok", "error" or "unlinked"
  users,    \* whether the input device is open
  closing,  \* whether usb_kbd_close waits in usb_kill_urb
  phase,    \* where probe or disconnect is; "bound" between the two
  held      \* the memory the driver has allocated

ledVars == <<ledBits, newleds, leds, led_urb_submitted, asp_mode, lit, sent>>
keyVars == <<old, new, down>>
lifeVars == <<users, closing, phase, held>>
vars == <<ledVars, keyVars, urb, lifeVars>>

Wire(bits) == {WireBit[b] : b \in bits}
Bytes == {Wire(bits) : bits \in SUBSET LEDs}
Reports == [mods : SUBSET Mods, slot : [1..Slots -> Codes \cup {0, 1}]]
Released == [mods |-> {}, slot |-> [i \in 1..Slots |-> 0]]

Buffers == {"irq", "led", "new", "cr", "leds"}
Resources == {"kbd", "input"} \cup Buffers
Registered == phase \in {"bound", "killIrq", "unregister", "closeAll"}

Init ==
  /\ ledBits = {} /\ newleds = {} /\ leds = {} /\ lit \in Bytes
  /\ led_urb_submitted = FALSE /\ asp_mode = 1 /\ sent = FALSE
  /\ old = Released /\ new = Released /\ down = {}
  /\ urb = [u \in {"irq", "led"} |-> "idle"]
  /\ users = FALSE /\ closing = FALSE /\ phase = "none" /\ held = {}

-----------------------------------------------------------------------------
(* The USB core *)

\* usb_kill_urb unlinks a request and refuses it until its handler has returned.
Killing(u) == IF u = "irq" THEN closing \/ phase = "killIrq" ELSE phase = "killLed"

Submit(u) ==
  /\ urb' \in {[urb EXCEPT ![u] = s] : s \in {"flight", "idle"}}
  /\ Killing(u) => urb'[u] = "idle"

LedsArrive ==
  /\ urb["led"] = "flight"
  /\ urb' = [urb EXCEPT !["led"] = "ok"]
  /\ lit' = leds
  /\ UNCHANGED <<ledBits, newleds, leds, led_urb_submitted, asp_mode, sent, keyVars, lifeVars>>

ReportArrives ==
  /\ urb["irq"] = "flight"
  /\ urb' = [urb EXCEPT !["irq"] = "ok"]
  /\ new' \in Reports
  /\ UNCHANGED <<ledVars, old, down, lifeVars>>

\* The transfer fails, or is unlinked: the request is killed or the keyboard unplugged.
TransferFails(u) ==
  /\ urb[u] = "flight"
  /\ \E s \in {"error", "unlinked"} :
       (Killing(u) => s = "unlinked") /\ urb' = [urb EXCEPT ![u] = s]
  /\ sent' = (sent /\ u # "led")
  /\ UNCHANGED <<ledBits, newleds, leds, led_urb_submitted, asp_mode, lit, keyVars, lifeVars>>

-----------------------------------------------------------------------------
(* The LEDs *)

\* Lines 170-183: the byte to show and the mode, from the switched LEDs.
Mode2Leds(byte) == IF byte = {1} THEN {1, 2} ELSE IF byte = {1, 2} THEN {1} ELSE byte

\* A variant that leaves mode 2 for no mode.
NewModeNone(mode, byte) ==
  IF mode = 1 /\ byte = {1} THEN 2 ELSE IF mode = 2 /\ byte = {} THEN 0 ELSE mode

NewMode(mode, byte) ==
  IF mode = 1 /\ byte = {1} THEN 2 ELSE IF mode = 2 /\ byte = {} THEN 1 ELSE mode

\* A variant that leaves out the inversion in the event that enters mode 2.
NewLedsLate(mode, byte) == IF mode = 2 THEN Mode2Leds(byte) ELSE byte

NewLeds(mode, byte) ==
  IF NewMode(mode, byte) = 2 THEN Mode2Leds(byte) ELSE byte

\* Sending newleds, under the lock.
SendLeds ==
  /\ leds' = newleds'
  /\ Submit("led")
  /\ led_urb_submitted' = (urb'["led"] = "flight")
  /\ sent' = (urb'["led"] = "flight")

KeepLeds == UNCHANGED <<leds, urb, led_urb_submitted, sent>>

\* usb_kbd_event: the input core has switched one LED, or repeats an event
\* (as it does at a suspend and a resume).
usb_kbd_event ==
  /\ Registered
  /\ \/ ledBits' = ledBits
     \/ \E b \in LEDs : ledBits' = IF b \in ledBits THEN ledBits \ {b} ELSE ledBits \cup {b}
  /\ newleds' = NewLeds(asp_mode, Wire(ledBits'))
  /\ asp_mode' = NewMode(asp_mode, Wire(ledBits'))
  /\ IF led_urb_submitted \/ leds = newleds' THEN KeepLeds ELSE SendLeds
  /\ UNCHANGED <<lit, keyVars, lifeVars>>

GivenBack(u) == urb[u] \in {"ok", "error", "unlinked"}

LedsDone ==
  /\ urb' = [urb EXCEPT !["led"] = "idle"]
  /\ led_urb_submitted' = FALSE
  /\ UNCHANGED <<leds, sent>>

\* A variant that does not look for events that came meanwhile.
LedOnce ==
  /\ GivenBack("led")
  /\ LedsDone
  /\ UNCHANGED <<ledBits, newleds, asp_mode, lit, keyVars, lifeVars>>

usb_kbd_led ==
  /\ GivenBack("led")
  /\ UNCHANGED <<ledBits, newleds, asp_mode, lit, keyVars, lifeVars>>
  /\ IF leds = newleds THEN LedsDone ELSE SendLeds

-----------------------------------------------------------------------------
(* The keys *)

In(c, report) == \E i \in 1..Slots : report.slot[i] = c
Keys == {KeyCode[c] : c \in Codes} \ {NoKey}

\* A variant that compares a slot with the same slot of the new report.
ReleasesMoved(i, k) ==
  old.slot[i] > 3 /\ old.slot[i] # new.slot[i] /\ KeyCode[old.slot[i]] = k

\* Slot i of the reports says that key k is released, or pressed.
Releases(i, k) == old.slot[i] > 3 /\ ~In(old.slot[i], new) /\ KeyCode[old.slot[i]] = k
Presses(i, k) == new.slot[i] > 3 /\ ~In(new.slot[i], old) /\ KeyCode[new.slot[i]] = k

\* input_report_key for each slot in turn, its release before its press: the key is
\* down when no release follows the last press.
KeysDown ==
  new.mods \cup
    {k \in Keys : \/ k \in down /\ \A i \in 1..Slots : ~Releases(i, k)
                  \/ \E i \in 1..Slots : Presses(i, k) /\ \A j \in (i + 1)..Slots : ~Releases(j, k)}

usb_kbd_irq ==
  /\ GivenBack("irq")
  /\ IF urb["irq"] = "unlinked" THEN urb' = [urb EXCEPT !["irq"] = "idle"] ELSE Submit("irq")
  /\ IF urb["irq"] = "ok" THEN old' = new /\ down' = KeysDown ELSE UNCHANGED <<old, down>>
  /\ UNCHANGED <<ledVars, new, lifeVars>>

-----------------------------------------------------------------------------
(* Open and close *)

usb_kbd_open ==
  /\ phase \in {"bound", "killIrq", "unregister"}
  /\ ~users /\ ~closing
  /\ Submit("irq")
  /\ users' = (urb'["irq"] = "flight")
  /\ UNCHANGED <<ledVars, keyVars, closing, phase, held>>

\* The close of a user, or of input_unregister_device.
usb_kbd_close ==
  /\ users /\ ~closing
  /\ users' = FALSE /\ closing' = TRUE
  /\ UNCHANGED <<ledVars, keyVars, urb, phase, held>>

CloseReturns ==
  /\ closing /\ urb["irq"] = "idle"
  /\ closing' = FALSE
  /\ UNCHANGED <<ledVars, keyVars, urb, users, phase, held>>

-----------------------------------------------------------------------------
(* Probe and disconnect *)

StayUnbound == UNCHANGED <<ledVars, keyVars, urb, users, closing>>

\* Lines 294-297: both allocations are tried.
ProbeBegins ==
  /\ phase = "none"
  /\ held' \in SUBSET {"kbd", "input"}
  /\ phase' = IF held' = {"kbd", "input"} THEN "alloc" ELSE "fail1"
  /\ StayUnbound

\* The buffers come one after another; freeing those that are missing is harmless.
AllocOrder == <<"irq", "led", "new", "cr", "leds">>

usb_kbd_alloc_mem ==
  /\ phase = "alloc" /\ ~ Buffers \subseteq held
  /\ LET n == CHOOSE i \in 1..5 : AllocOrder[i] \notin held /\ \A j \in 1..(i - 1) : AllocOrder[j] \in held
     IN  \/ held' = held \cup {AllocOrder[n]} /\ UNCHANGED phase
         \/ phase' = "fail2" /\ UNCHANGED held
  /\ StayUnbound

\* Lines 302-364.  leds is not initialised, and the keyboard keeps its LEDs.
ProbeEnds ==
  /\ phase = "alloc" /\ Buffers \subseteq held
  /\ phase' = "bound"
  /\ ledBits' = {} /\ newleds' = {} /\ leds' \in Bytes
  /\ asp_mode' = 1 /\ led_urb_submitted' = FALSE /\ sent' = FALSE
  /\ old' = Released /\ new' = Released /\ down' = {}
  /\ UNCHANGED <<lit, urb, users, closing, held>>

RegisterFails ==
  /\ phase = "alloc" /\ Buffers \subseteq held
  /\ phase' = "fail2"
  /\ StayUnbound /\ UNCHANGED held

\* usb_kbd_free_mem, then input_free_device and kfree.
Fail2 == phase = "fail2" /\ phase' = "fail1" /\ held' = held \ Buffers /\ StayUnbound
Fail1 == phase = "fail1" /\ phase' = "none" /\ held' = held \ {"kbd", "input"} /\ StayUnbound

Disconnect(from, to) == phase = from /\ phase' = to /\ UNCHANGED <<ledVars, urb, users, closing>>

usb_kbd_disconnect == Disconnect("bound", "killIrq") /\ UNCHANGED <<keyVars, held>>
IrqKilled == urb["irq"] = "idle" /\ Disconnect("killIrq", "unregister") /\ UNCHANGED <<keyVars, held>>

\* input_unregister_device admits no more opens, releases the keys and closes.
Unregister == Disconnect("unregister", "closeAll") /\ down' = {} /\ UNCHANGED <<old, new, held>>
Unregistered == ~users /\ ~closing /\ Disconnect("closeAll", "killLed") /\ UNCHANGED <<keyVars, held>>
\* A variant that does not wait for the handler of the LED request.
LedUnlinked == Disconnect("killLed", "none") /\ held' = {} /\ UNCHANGED keyVars
LedKilled == urb["led"] = "idle" /\ Disconnect("killLed", "none") /\ held' = {} /\ UNCHANGED keyVars

-----------------------------------------------------------------------------
Next ==
  \/ LedsArrive \/ ReportArrives \/ \E u \in {"irq", "led"} : TransferFails(u)
  \/ usb_kbd_event \/ usb_kbd_led
  \/ usb_kbd_irq \/ usb_kbd_open \/ usb_kbd_close \/ CloseReturns
  \/ ProbeBegins \/ usb_kbd_alloc_mem \/ ProbeEnds \/ RegisterFails \/ Fail2 \/ Fail1
  \/ usb_kbd_disconnect \/ IrqKilled \/ Unregister \/ Unregistered \/ LedKilled

\* The USB core completes the LED transfers it accepts and runs the handlers of
\* what it gives back.  Users, events and unplugging owe nothing.
Fairness ==
  /\ WF_vars(LedsArrive \/ TransferFails("led"))
  /\ WF_vars(usb_kbd_led)

Spec == Init /\ [][Next]_vars /\ Fairness

-----------------------------------------------------------------------------
(* Properties *)

\* Every variable has its type.
TypeOK ==
  /\ ledBits \subseteq LEDs
  /\ {newleds, leds, lit} \subseteq SUBSET {1, 2, 4, 8}
  /\ {led_urb_submitted, sent, users, closing} \subseteq BOOLEAN
  /\ asp_mode \in {1, 2}
  /\ {old, new} \subseteq Reports
  /\ down \subseteq Mods \cup {KeyCode[c] : c \in Codes}
  /\ urb \in [{"irq", "led"} -> {"idle", "flight", "ok", "error", "unlinked"}]
  /\ phase \in {"none", "alloc", "fail1", "fail2", "bound", "killIrq", "unregister", "closeAll", "killLed"}
  /\ held \subseteq Resources

\* Nothing is left allocated when probe has failed or disconnect has ended, and
\* no request is with the USB core, nor has a handler to run, without its memory:
\* whatever events, opens and completions fall between the steps of disconnect.
MemoryHeld ==
  /\ phase = "none" => held = {}
  /\ Registered \/ phase = "killLed" => held = Resources
  /\ \A u \in {"irq", "led"} : urb[u] # "idle" => {u, "kbd", "cr", "leds", "new"} \subseteq held

\* led_urb_submitted says what usbkbd.c:72-74 says of it.  At rest, and unless the
\* last transfer was refused or failed, the keyboard shows the LEDs of the last
\* event: as switched in mode 1, and with the Caps Lock LED inverted in mode 2
\* when Num Lock is on and nothing else but Caps Lock.  Num Lock alone is mode 2.
LedsShown ==
  /\ led_urb_submitted = (urb["led"] # "idle")
  /\ sent =>
       /\ urb["led"] = "idle" => lit = newleds
       /\ newleds = IF asp_mode = 2 /\ Wire(ledBits) \in {{1}, {1, 2}}
                    THEN {1} \cup ({2} \ Wire(ledBits))
                    ELSE Wire(ledBits)
       /\ asp_mode = 1 => Wire(ledBits) # {1}

\* The keys that the input core takes to be down are those of the last report
\* that was handled, however many were lost to errors.  When several scan codes
\* have one key it is never down without one of them, but may be up with one.
KeysFollow ==
  phase \in {"bound", "killIrq", "unregister"} =>
    /\ down \cap Mods = old.mods
    /\ \A k \in Keys :
         LET sharers == {c \in Codes : KeyCode[c] = k}
             isHeld == \E c \in sharers : In(c, old)
         IN  /\ k \in down => isHeld
             /\ Cardinality(sharers) = 1 => (isHeld => k \in down)

\* Unless LED events never cease, the keyboard comes to show the LEDs of the last
\* one, or a transfer was refused or failed, or there is no event since the probe.
LedsSettle ==
  []<>(lit = newleds \/ ~sent) \/ []<><<usb_kbd_event>>_vars
=============================================================================
