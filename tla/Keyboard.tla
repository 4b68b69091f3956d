------------------------------ MODULE Keyboard ------------------------------
(***************************************************************************)
(* The keyboard: the PS/2 controller's bytes (keyboard_drain), the reports *)
(* of a USB keyboard turned into the same bytes (drivers/usbkbd.c), the    *)
(* translation of the bytes (keyboard_handle_scancode) and the input ring  *)
(* that programs read (drivers/keyboard.c). A machine uses one of the two  *)
(* keyboards.                                                              *)
(*                                                                         *)
(* A byte is a scancode with its release bit, the prefix "e0", or a byte   *)
(* of the touchpad ("aux") that shares the controller. A character in the  *)
(* ring knows which of how many of its key's characters it is.             *)
(*                                                                         *)
(* source       the keyboard in use                                        *)
(* kb           the translator: e0_mode, the modifiers, and the ring (buf) *)
(* layout       current_layout                                             *)
(* controller   the bytes that wait in the PS/2 controller                 *)
(* held         the keys that are down on the PS/2 keyboard                *)
(* previous     the last report that usbkbd_report() took                  *)
(* typist       not in the code: the keys that the translator was told are *)
(*              down (told), whether it was ever told what it knew (odd),  *)
(*              the last report that named its keys (named), and the last  *)
(*              character that was read of a key that has more of them     *)
(***************************************************************************)
EXTENDS Integers, FiniteSets, SequencesExt

CONSTANTS
    Keys,        \* the keys in use, of those of Usages
    ReportKeys,  \* the keys, modifiers apart, that a report can name
    BufferSize,  \* KBD_BUFFER_SIZE
    DrainMax,    \* KBD_DRAIN_MAX
    PipeMax      \* the bytes that wait in the controller

VARIABLES source, kb, layout, controller, held, previous, typist

kbdVars == <<source, kb, layout, controller, held, previous, typist>>

Modifiers == {"ctrl", "shiftL", "shiftR", "altgr"}

(* The order of the bits of a report, and of its slots. *)
Usages == <<"ctrl", "shiftL", "shiftR", "altgr", "c", "pgup", "pause">>

InOrder(keys) == SelectSeq(Usages, LAMBDA u : u \in keys)

(* usage_to_set1: the keys behind a prefix, and the one that has no scancode. *)
usbkbd_scancode_for(usage) ==
    [none |-> usage = "pause",
     e0   |-> usage \in {"altgr", "pgup"},
     code |-> IF usage = "altgr" THEN "alt" ELSE usage]

Prefix == [code |-> "e0", up |-> FALSE]
Byte(code, up) == [code |-> code, up |-> up]

Stroke(usage, up) ==
    LET code == usbkbd_scancode_for(usage)
    IN IF code.none THEN <<>>
       ELSE (IF code.e0 THEN <<Prefix>> ELSE <<>>) \o <<Byte(code.code, up)>>

------------------------------------------------------------------------------
KbdInit ==
    /\ source \in {"ps2", "usb"}
    /\ layout \in {0, 1}
    /\ kb = [e0 |-> FALSE, shift |-> FALSE, ctrl |-> FALSE, altgr |-> FALSE,
             buf |-> <<>>]
    /\ controller = <<>>
    /\ held = {}
    /\ previous = {}
    /\ typist = [told |-> {}, odd |-> FALSE, named |-> {}, read |-> <<>>]

(* The characters of a key: Page Up is "ESC [ 5 ~", a letter is one. *)
Characters(key, n) == [i \in 1..n |-> [key |-> key, place |-> i, of |-> n]]

kbd_free_space(k) == BufferSize - 1 - Len(k.buf)

(* kbd_push_seq(): all of a sequence or none of it. *)
kbd_push_seq(k, seq) ==
    IF kbd_free_space(k) < Len(seq) THEN k ELSE [k EXCEPT !.buf = @ \o seq]

(* The letter C, in whatever case: no character at all with AltGr on the Turkish
   layout, and with Ctrl the interrupt character, which is a signal and no input. *)
Letter(k) ==
    IF (layout = 1 /\ k.altgr) \/ k.ctrl THEN k ELSE kbd_push_seq(k, Characters("c", 1))

(* After a prefix a shift is the one that the controller makes up. *)
IsMadeUp(k, byte) == k.e0 /\ byte.code = "shiftL"

(* keyboard_handle_scancode(): one byte. *)
keyboard_handle_scancode(k, byte) ==
    LET plain == [k EXCEPT !.e0 = FALSE]
    IN CASE byte.code = "e0" -> [k EXCEPT !.e0 = TRUE]
         [] k.e0 /\ byte.code = "alt" -> [plain EXCEPT !.altgr = ~byte.up]
         [] IsMadeUp(k, byte) -> plain
         [] ~IsMadeUp(k, byte) /\ byte.code \in {"shiftL", "shiftR"} ->
              [plain EXCEPT !.shift = ~byte.up]
         [] byte.code = "ctrl" -> [plain EXCEPT !.ctrl = ~byte.up]
         [] byte.code = "pgup" /\ ~byte.up ->
              IF k.shift THEN plain ELSE kbd_push_seq(plain, Characters("pgup", 4))
         [] byte.code = "c" /\ ~byte.up -> Letter(plain)
         [] OTHER -> plain

Handled(bytes) == FoldLeft(keyboard_handle_scancode, kb, bytes)

------------------------------------------------------------------------------
(* The PS/2 keyboard. With Shift down the controller puts a release of it before an
   extended key, and the press back after the key is let go. *)
MadeUp(key, up) ==
    IF usbkbd_scancode_for(key).e0 /\ key # "altgr" /\ "shiftL" \in held
    THEN <<Prefix, Byte("shiftL", ~up)>> ELSE <<>>

Feed(bytes) ==
    /\ Len(controller) + Len(bytes) <= PipeMax
    /\ controller' = controller \o bytes

Press ==
    /\ source = "ps2"
    /\ \E key \in Keys \ held :
         /\ Feed(MadeUp(key, FALSE) \o Stroke(key, FALSE))
         /\ held' = held \cup {key}
    /\ UNCHANGED <<source, kb, layout, previous, typist>>

Release ==
    /\ source = "ps2"
    /\ \E key \in held :
         /\ Feed(Stroke(key, TRUE) \o MadeUp(key, TRUE))
         /\ held' = held \ {key}
    /\ UNCHANGED <<source, kb, layout, previous, typist>>

Touchpad ==
    /\ source = "ps2"
    /\ Feed(<<Byte("aux", FALSE)>>)
    /\ UNCHANGED <<source, kb, layout, held, previous, typist>>

(* keyboard_drain(), from the keyboard's interrupt and from the timer's: at most
   DrainMax bytes, and the touchpad's are dropped. *)
keyboard_drain ==
    LET n == IF Len(controller) < DrainMax THEN Len(controller) ELSE DrainMax
    IN /\ n > 0
       /\ kb' = Handled(SelectSeq(SubSeq(controller, 1, n), LAMBDA b : b.code # "aux"))
       /\ controller' = SubSeq(controller, n + 1, Len(controller))
       /\ UNCHANGED <<source, layout, held, previous, typist>>

(* get_keyboard_char() for a program that reads. *)
get_keyboard_char ==
    /\ kb.buf # <<>>
    /\ kb' = [kb EXCEPT !.buf = Tail(@)]
    /\ typist' = [typist EXCEPT !.read =
                     IF Head(kb.buf).place = Head(kb.buf).of THEN <<>> ELSE <<Head(kb.buf)>>]
    /\ UNCHANGED <<source, layout, controller, held, previous>>

------------------------------------------------------------------------------
(* A report names the keys that are down, or says that they are too many. *)
KeyReports ==
    [rollover : {FALSE}, keys : {r \in SUBSET Keys : Cardinality(r \ Modifiers) <= ReportKeys}]
        \cup [rollover : {TRUE}, keys : SUBSET (Keys \cap Modifiers)]

(* Mutant: a rollover report counts as every key released. *)
RolloverCounts(report) ==
    [changed |-> (report.keys \ previous) \cup (previous \ report.keys), previous |-> report.keys]

(* What of a report is news: nothing of one that cannot name its keys. *)
Difference(report) ==
    IF report.rollover THEN [changed |-> {}, previous |-> previous]
    ELSE [changed  |-> (report.keys \ previous) \cup (previous \ report.keys),
          previous |-> report.keys]

(* usbkbd_report(): the modifiers by bit, then the releases, then the presses. *)
usbkbd_report(report) ==
    LET news  == Difference(report)
        mods  == InOrder(news.changed \cap Modifiers)
        ups   == InOrder((news.changed \cap previous) \ Modifiers)
        downs == InOrder((news.changed \ previous) \ Modifiers)
        bytes == [i \in 1..Len(mods) |-> Stroke(mods[i], mods[i] \in previous)]
                   \o [i \in 1..Len(ups) |-> Stroke(ups[i], TRUE)]
                   \o [i \in 1..Len(downs) |-> Stroke(downs[i], FALSE)]
        told  == (typist.told \ (news.changed \cap previous)) \cup (news.changed \ previous)
    IN /\ source = "usb"
       /\ kb' = Handled(FlattenSeq(bytes))
       /\ previous' = news.previous
       /\ typist' = [typist EXCEPT
                        !.told  = told,
                        !.odd   = @ \/ typist.told \cap (news.changed \ previous) # {},
                        !.named = IF report.rollover THEN @ ELSE report.keys]
       /\ UNCHANGED <<source, layout, controller, held>>

(* sys_set_layout(). *)
SetLayout ==
    /\ layout' = 1 - layout
    /\ UNCHANGED <<source, kb, controller, held, previous, typist>>

KbdNext ==
    \/ Press
    \/ Release
    \/ Touchpad
    \/ keyboard_drain
    \/ get_keyboard_char
    \/ \E report \in KeyReports : usbkbd_report(report)
    \/ SetLayout

KbdSpec == KbdInit /\ [][KbdNext]_kbdVars

------------------------------------------------------------------------------
Whole(s) ==
    \A i \in 1..Len(s) :
      IF s[i].place = s[i].of THEN i < Len(s) => s[i + 1].place = 1
      ELSE i < Len(s) /\ s[i + 1] = [s[i] EXCEPT !.place = @ + 1]

(* A program that reads the console never gets part of a key's characters: what is
   left of the key it is reading, and every key after it, is in the ring whole
   (kbd_push_seq, and a ring with less room than a key needs). *)
KeysAreWhole == Whole(typist.read \o kb.buf)

(* The modifiers that the translator believes in are the ones that are down: with no
   byte on its way Shift, Ctrl and AltGr are set just while such a key is held, across
   the shifts that the controller makes up, bytes of the touchpad between a prefix and
   its code, and drains that stop between them; and no prefix is left over. (With both
   Shift keys among Keys it fails: letting go of one of them clears the flag.) *)
ModifiersAreHeld ==
    LET down == IF source = "ps2" THEN held ELSE typist.named
    IN controller = <<>> =>
         /\ ~kb.e0
         /\ kb.shift <=> down \cap {"shiftL", "shiftR"} # {}
         /\ kb.ctrl <=> "ctrl" \in down
         /\ kb.altgr <=> "altgr" \in down

(* "the state this driver believes in is the last one the keyboard could actually
   describe": every key of a USB keyboard is pressed once and let go once, as the
   reports that name their keys say, and a report that cannot moves none. *)
ReportsAreFollowed == typist.told = typist.named /\ ~typist.odd

(* What a program reads is what was typed: keys whole, with the modifiers that were
   down, from either kind of keyboard (keyboard.c, usbkbd.c). *)
TypingIsFaithful == KeysAreWhole /\ ModifiersAreHeld /\ ReportsAreFollowed
=============================================================================
