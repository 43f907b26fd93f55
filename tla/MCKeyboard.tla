----------------------------- MODULE MCKeyboard -----------------------------
(* Two instances of the keyboard: one that only lights LEDs, and one that only *)
(* sends reports, of a modifier and four scan codes.  Two of these have one    *)
(* key, as scan codes 49 and 50 have (both 43, usbkbd.c:38), and 130 has none. *)
EXTENDS Keyboard
CONSTANTS shift, enter, backslash

MCLeds == {"NUML", "CAPSL", "SCROLLL"}
MCNone == {}
MCNoCode == <<>>
MCCodes == {40, 49, 50, 130}
MCMods == {shift}
MCKeyCode == [c \in MCCodes |-> IF c = 40 THEN enter ELSE IF c = 130 THEN NoKey ELSE backslash]
=============================================================================
