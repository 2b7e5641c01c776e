------------------------------ MODULE Ps2Input ------------------------------
(***************************************************************************)
(* The PS/2 keyboard and mouse: drivers/drv_ps2.c with the 8042 controller *)
(* it shares between both.  The controller has one output buffer: it holds *)
(* one byte of one of the devices until somebody reads it, and a byte that *)
(* arrives raises the line of its device once.                             *)
(*                                                                         *)
(* ps2_controller_init polls with interrupts off and gives up waiting      *)
(* after a while; then the lines are opened, one device after the other,   *)
(* and handlers take the bytes.  Handlers run to their end: they are       *)
(* called with interrupts off on the only CPU.  Their end-of-interrupt is  *)
(* sent twice, which is harmless, as no other interrupt is in service.     *)
(*                                                                         *)
(* Devices, the user and the controller are external.  The driver relies   *)
(* on them in two ways it does not check, and `late' counts how often they *)
(* let it down: an answer comes after the driver stopped waiting for it,   *)
(* or a device speaks before its line is open.  The driver goes on, and    *)
(* the model with it: the byte may be taken for the scan code set, so that *)
(* every key is decoded wrongly, or stay in the buffer and block both      *)
(* devices for ever.  What the driver still keeps then is what the         *)
(* properties without `late' say.                                          *)
(***************************************************************************)
EXTENDS Integers, Sequences, FiniteSets

CONSTANTS
  Keys,         \* the keys of the keyboard that are used
  Beyond,       \* bytes that may lie behind the table us_set2_to_set1
  Moves,        \* the packets the mouse may send
  MaxEvents,    \* bound on keys pressed, repeated and released
  MaxMoves,     \* bound on packets
  MaxLate,      \* bound on late answers and on words spoken too early
  EMPTY         \* an empty output buffer

VARIABLES
  mouse, set,          \* the hardware: is there a mouse, the scan code set in use
  ps2_pc, step, reads, \* the driver: its phase, its command, the answers it still reads
  port,                \* what the data port last showed
  scancode_set, shift_pressed, ctrl_pressed, alt_pressed, capslock_on, release_next,
  mouse_cycle, mouse_packet,
  out,                 \* characters given to kputc
  open_lines, irr,     \* lines that are open, lines that have a request pending
  obf, queue,          \* the output buffer, the bytes a device has yet to send
  down, last, events, moves,    \* keys held, the one that repeats, what has happened
  ref,                 \* what the user has typed
  late, stray, wild,   \* history: how often a device was too late or too early; a handler
                       \* took a byte of the other device; a table was left
  merged               \* history: keys went down or up that one flag cannot follow

init == <<ps2_pc, step, reads, scancode_set>>
kbd == <<shift_pressed, ctrl_pressed, alt_pressed, capslock_on, release_next, out>>
mse == <<mouse_cycle, mouse_packet>>
user == <<down, last, events, moves, ref, merged>>
ps2Vars ==
  <<mouse, set, init, port, kbd, mse, open_lines, irr, obf, queue, user, late, stray, wild>>

KEYBOARD == 1
MOUSE == 12
Byte == 0 .. 255

(***************************************************************************)
(* Keys and their scan codes (external).  Code gives the code of a key in  *)
(* both sets, and whether it is preceded by E0.                            *)
(***************************************************************************)
Code == [lshift |-> [one |-> \h2A, two |-> \h12, ext |-> FALSE],
         rshift |-> [one |-> \h36, two |-> \h59, ext |-> FALSE],
         lctrl  |-> [one |-> \h1D, two |-> \h14, ext |-> FALSE],
         rctrl  |-> [one |-> \h1D, two |-> \h14, ext |-> TRUE],
         lalt   |-> [one |-> \h38, two |-> \h11, ext |-> FALSE],
         caps   |-> [one |-> \h3A, two |-> \h58, ext |-> FALSE],
         a      |-> [one |-> \h1E, two |-> \h1C, ext |-> FALSE],
         f7     |-> [one |-> \h41, two |-> \h83, ext |-> FALSE]]

ASSUME Ps2Assumption ==
  /\ Keys \subseteq DOMAIN Code /\ Beyond \subseteq Byte /\ Moves \subseteq Seq(Byte)
  /\ MaxLate \in Nat
  /\ EMPTY \notin [from : {KEYBOARD, MOUSE}, byte : Byte]

Prefix(k) == IF Code[k].ext THEN <<\hE0>> ELSE <<>>
MakeBytes(k) == Prefix(k) \o IF set = 1 THEN <<Code[k].one>> ELSE <<Code[k].two>>
BreakBytes(k) ==
  Prefix(k) \o IF set = 1 THEN <<Code[k].one + 128>> ELSE <<\hF0, Code[k].two>>

(***************************************************************************)
(* The handlers.                                                           *)
(***************************************************************************)
(* us_set2_to_set1, at the codes above, as either set has them, and at the *)
(* other bytes a keyboard sends (answers, prefixes), without their top bit *)
us_set2_to_set1(b) ==
  LET keys == {k \in DOMAIN Code : Code[k].two = b}
  IN CASE keys # {} -> Code[CHOOSE k \in keys : TRUE].one
       [] b = \h01 -> \h3B [] b = \h03 -> \h3F [] b = \h1D -> \h11 [] b = \h1E -> \h03
       [] b = \h2A -> \h2F [] b = \h36 -> \h07 [] b = \h3A -> \h32 [] b = \h41 -> \h33
       [] b = \h7A -> \h4D [] OTHER -> 0

(* us_layout has characters for these set 1 codes, in two columns.         *)
HasCharacter == (\h02 .. \h35 \cup {\h39}) \ {\h1D, \h2A}

(* What a byte is decoded to: a set 1 code and whether the key goes up.    *)
(* After a prefix the index is not masked: 83, the code of F7, is beyond   *)
(* the table of 128 codes.                                                 *)
Decoded(b) ==
  CASE scancode_set = 2 /\ release_next ->
         {[code |-> c, up |-> TRUE] : c \in IF b < 128 THEN {us_set2_to_set1(b)} ELSE Beyond}
    [] scancode_set = 2 /\ ~release_next ->
         {[code |-> us_set2_to_set1(b % 128), up |-> b >= 128]}
    [] scancode_set = 1 -> {[code |-> b % 128, up |-> b >= 128]}
    [] OTHER -> {[code |-> b, up |-> FALSE]}

(* Does the layout show a character for the code?  A code that was not     *)
(* masked may lie behind us_layout, where anything may be read.            *)
Displays(c) ==
  IF scancode_set \in {1, 2} \/ c < 128 THEN {c \in HasCharacter} ELSE BOOLEAN

IsShift(c) == c \in {\h2A, \h36}
IsCtrl(c) == c = \h1D
IsAlt(c) == c = \h38
IsCaps(c) == c = \h3A
IsModifier(e) == IsShift(e.code) \/ IsCtrl(e.code) \/ IsAlt(e.code) \/ (IsCaps(e.code) /\ ~e.up)

(* Slip: the prefix of a release is forgotten.                             *)
PrefixForgotten(b) == FALSE

IsPrefix(b) == scancode_set = 2 /\ b = \hF0

Column(shift, caps) == IF shift # caps THEN 1 ELSE 0

keyboard_handler(b) ==
  \/ /\ IsPrefix(b)
     /\ release_next' = TRUE
     /\ UNCHANGED <<shift_pressed, ctrl_pressed, alt_pressed, capslock_on, out, wild>>
  \/ /\ ~IsPrefix(b)
     /\ release_next' = FALSE
     /\ wild' = (wild \/ (scancode_set = 2 /\ release_next /\ b >= 128)
                      \/ (scancode_set \notin {1, 2} /\ b >= 128))
     /\ \E e \in Decoded(b) : \E visible \in Displays(e.code) :
          /\ shift_pressed' = IF IsShift(e.code) THEN ~e.up ELSE shift_pressed
          /\ ctrl_pressed' = IF IsCtrl(e.code) THEN ~e.up ELSE ctrl_pressed
          /\ alt_pressed' = IF IsAlt(e.code) THEN ~e.up ELSE alt_pressed
          /\ capslock_on' = IF IsCaps(e.code) /\ ~e.up THEN ~capslock_on ELSE capslock_on
          /\ out' = IF ~IsModifier(e) /\ ~e.up /\ visible
                      THEN Append(out, <<e.code, Column(shift_pressed, capslock_on)>>) ELSE out

(* A packet starts with a byte that has bit 3 set.                         *)
CycleAfter(cycle, b) ==
  IF cycle = 0 /\ (b \div 8) % 2 = 0 THEN 0 ELSE (cycle + 1) % 3

mouse_handler(b) ==
  /\ mouse_packet' = [mouse_packet EXCEPT ![mouse_cycle] = b]
  /\ mouse_cycle' = CycleAfter(mouse_cycle, b)

(* Slip: both handlers wait for a byte of the keyboard.                    *)
KeyboardByte(irq) == obf # EMPTY /\ obf.from = KEYBOARD

(* The status port says whether there is a byte; whose it is, is not       *)
(* looked at.                                                              *)
HasByte(irq) == obf # EMPTY

(* interrupt_dispatch, ps2_irq_handler and the handler of the line.        *)
Interrupt(irq) ==
  /\ ps2_pc = "run" /\ irq \in irr
  /\ irr' = irr \ {irq}
  /\ IF ~HasByte(irq)
       THEN UNCHANGED <<kbd, mse, obf, port, stray, wild>>
       ELSE /\ obf' = EMPTY /\ port' = obf.byte
            /\ stray' = (stray \/ obf.from # irq)
            /\ \/ irq = KEYBOARD /\ keyboard_handler(obf.byte) /\ UNCHANGED mse
               \/ irq = MOUSE /\ mouse_handler(obf.byte) /\ UNCHANGED <<kbd, wild>>
  /\ UNCHANGED <<mouse, set, init, open_lines, queue, user, late>>

(***************************************************************************)
(* ps2_controller_init and ps2_init.                                       *)
(***************************************************************************)
(* Reset and start the mouse, then detect_scancode_set: the commands and   *)
(* how many bytes are read after each.                                     *)
Commands ==
  <<[to |-> MOUSE, byte |-> \hFF, reads |-> 3], [to |-> MOUSE, byte |-> \hF4, reads |-> 1],
    [to |-> KEYBOARD, byte |-> \hF0, reads |-> 1], [to |-> KEYBOARD, byte |-> 0, reads |-> 2]>>

(* The answers of the devices (external).                                  *)
Answers(c) ==
  CASE c.byte = \hFF -> IF mouse THEN <<\hFA, \hAA, \h00>> ELSE <<>>
    [] c.byte = \hF4 -> IF mouse THEN <<\hFA>> ELSE <<>>
    [] c.byte = \hF0 -> <<\hFA>>
    [] OTHER -> <<\hFA, set>>

SendCommand ==
  /\ ps2_pc = "init" /\ reads = 0 /\ step <= Len(Commands)
  /\ LET c == Commands[step]
     IN /\ queue' = [queue EXCEPT ![c.to] = @ \o Answers(c)]
        /\ reads' = c.reads
  /\ UNCHANGED <<mouse, set, ps2_pc, step, port, scancode_set, kbd, mse, open_lines, irr, obf, user,
                 late, stray, wild>>

TooLate(missed) ==
  IF missed THEN late < MaxLate /\ late' = late + 1 ELSE UNCHANGED late

(* ps2_wait_read and inb: the byte there is, or after the time-out what    *)
(* the port still shows.  The last byte is taken for the scan code set.    *)
ReadAnswer ==
  /\ ps2_pc = "init" /\ reads > 0
  /\ port' = IF obf # EMPTY THEN obf.byte ELSE port
  /\ obf' = EMPTY
  /\ TooLate(obf = EMPTY /\ \E d \in DOMAIN queue : queue[d] # <<>>)
  /\ reads' = reads - 1
  /\ step' = IF reads = 1 THEN step + 1 ELSE step
  /\ scancode_set' = IF step = Len(Commands) /\ reads = 1 THEN port' ELSE scancode_set
  /\ UNCHANGED <<mouse, set, ps2_pc, kbd, mse, open_lines, irr, queue, user, stray, wild>>

(* Slip: the lines are opened before the controller is set up.             *)
OpenBefore == {KEYBOARD, MOUSE}

(* ps2_init sets the controller up first; no line is open meanwhile.       *)
OpenAtFirst == {}

Ps2Lines == IF ps2_pc = "init" THEN {KEYBOARD} ELSE {MOUSE}

(* ps2_init of the keyboard, after the controller, and of the mouse.       *)
OpenLine ==
  /\ \/ ps2_pc = "init" /\ step > Len(Commands) /\ ps2_pc' = IF mouse THEN "mouse" ELSE "run"
     \/ ps2_pc = "mouse" /\ ps2_pc' = "run"
  /\ open_lines' = open_lines \cup Ps2Lines
  /\ UNCHANGED <<mouse, set, step, reads, port, scancode_set, kbd, mse, irr, obf, queue, user,
                 late, stray, wild>>

(***************************************************************************)
(* The controller and the user (external).                                 *)
(***************************************************************************)
(* A byte enters the empty buffer and raises its line; a line that is      *)
(* masked forgets.                                                         *)
Deliver(d) ==
  /\ obf = EMPTY /\ queue[d] # <<>>
  /\ obf' = [from |-> d, byte |-> Head(queue[d])]
  /\ queue' = [queue EXCEPT ![d] = Tail(@)]
  /\ irr' = irr \cup ({d} \cap open_lines)
  /\ UNCHANGED <<mouse, set, init, port, kbd, mse, open_lines, user, late, stray, wild>>

Spoken(d, bytes) ==
  /\ queue' = [queue EXCEPT ![d] = @ \o bytes]
  /\ TooLate(d \notin open_lines)
  /\ UNCHANGED <<mouse, set, init, port, kbd, mse, open_lines, irr, obf, stray, wild>>

(* What a key means to who types, told by the keys that are held and not   *)
(* by codes: shift is on while a shift key is held, caps lock changes when *)
(* its key goes down, not when it repeats.                                 *)
ShiftKeys == {"lshift", "rshift"}
CtrlKeys == {"lctrl", "rctrl"}
Shifted == down \cap ShiftKeys # {}
Typed(k, press) ==
  [caps |-> IF k = "caps" /\ press /\ k \notin down THEN ~ref.caps ELSE ref.caps,
   out |-> IF press /\ k = "a"
             THEN Append(ref.out, <<Code[k].one, IF Shifted # ref.caps THEN 1 ELSE 0>>)
             ELSE ref.out]

(* Where the driver knows less: it has one flag for two keys, which the    *)
(* release of either clears, and takes each repeat of caps lock for a      *)
(* press.                                                                  *)
Merges(k, press) ==
  \/ press /\ k = "caps" /\ k \in down
  \/ ~press /\ \E twins \in {ShiftKeys, CtrlKeys} : k \in twins /\ twins \subseteq down

(* A key goes down, or the one that went down last repeats.                *)
Press(k) ==
  /\ step > 1 /\ events < MaxEvents
  /\ k \notin down \/ k = last
  /\ down' = down \cup {k} /\ last' = k /\ events' = events + 1
  /\ ref' = Typed(k, TRUE) /\ merged' = (merged \/ Merges(k, TRUE))
  /\ Spoken(KEYBOARD, MakeBytes(k)) /\ UNCHANGED moves

Release(k) ==
  /\ k \in down /\ events < MaxEvents
  /\ down' = down \ {k} /\ events' = events + 1
  /\ last' = IF last = k THEN EMPTY ELSE last
  /\ ref' = Typed(k, FALSE) /\ merged' = (merged \/ Merges(k, FALSE))
  /\ Spoken(KEYBOARD, BreakBytes(k)) /\ UNCHANGED moves

Move(p) ==
  /\ mouse /\ step > 3 /\ moves < MaxMoves
  /\ moves' = moves + 1
  /\ Spoken(MOUSE, p) /\ UNCHANGED <<down, last, events, ref, merged>>

(***************************************************************************)
(* The specification.                                                      *)
(***************************************************************************)
Ps2Init ==
  /\ mouse \in BOOLEAN /\ set \in {1, 2}
  /\ ps2_pc = "init" /\ step = 1 /\ reads = 0 /\ port = 0 /\ scancode_set = 0
  /\ shift_pressed = FALSE /\ ctrl_pressed = FALSE /\ alt_pressed = FALSE
  /\ capslock_on = FALSE /\ release_next = FALSE /\ out = <<>>
  /\ mouse_cycle = 0 /\ mouse_packet = [k \in 0 .. 2 |-> 0]
  /\ open_lines = OpenAtFirst /\ irr = {} /\ obf = EMPTY
  /\ queue = [d \in {KEYBOARD, MOUSE} |-> <<>>]
  /\ down = {} /\ last = EMPTY /\ events = 0 /\ moves = 0
  /\ ref = [caps |-> FALSE, out |-> <<>>]
  /\ late = 0 /\ stray = FALSE /\ wild = FALSE /\ merged = FALSE

Ps2Driver == SendCommand \/ ReadAnswer \/ OpenLine
User == (\E k \in Keys : Press(k) \/ Release(k)) \/ \E p \in Moves : Move(p)
Ps2Next ==
  \/ Ps2Driver
  \/ \E d \in {KEYBOARD, MOUSE} : Interrupt(d) \/ Deliver(d)
  \/ User

Ps2Spec == Ps2Init /\ [][Ps2Next]_ps2Vars

(* The driver goes on, the controller delivers, and pending interrupts are *)
(* taken: user programs run with interrupts enabled.                       *)
Ps2FairSpec ==
  /\ Ps2Spec /\ WF_ps2Vars(Ps2Driver)
  /\ \A d \in {KEYBOARD, MOUSE} : WF_ps2Vars(Interrupt(d)) /\ WF_ps2Vars(Deliver(d))

(***************************************************************************)
(* Properties.                                                             *)
(***************************************************************************)
Flag ==
  {shift_pressed, ctrl_pressed, alt_pressed, capslock_on, release_next, stray, wild, merged}

(* The bytes of the driver stay bytes, mouse_handler stays inside its      *)
(* packet, and only an open line has a request pending.                    *)
Ps2TypeOK ==
  /\ ps2_pc \in {"init", "mouse", "run"} /\ step \in 1 .. Len(Commands) + 1 /\ reads \in 0 .. 3
  /\ port \in Byte /\ scancode_set \in Byte
  /\ Flag \subseteq BOOLEAN /\ late \in 0 .. MaxLate
  /\ mouse_cycle \in 0 .. 2 /\ mouse_packet \in [0 .. 2 -> Byte]
  /\ open_lines \subseteq {KEYBOARD, MOUSE} /\ irr \subseteq open_lines
  /\ obf = EMPTY \/ (obf.from \in {KEYBOARD, MOUSE} /\ obf.byte \in Byte)
  /\ down \subseteq Keys

Quiet == ps2_pc = "run" /\ obf = EMPTY /\ \A d \in DOMAIN queue : queue[d] = <<>>

(* When the devices answer in time, the set the driver has detected is the *)
(* set the keyboard uses, with a mouse and without one.                    *)
SetDetected == ps2_pc # "init" /\ late = 0 => scancode_set = set

(* Once every byte has been taken, the characters are those typed and a    *)
(* modifier is on exactly while one of its keys is held, whatever the      *)
(* order in which keys go down, repeat and go up, and however the bytes of *)
(* the mouse come in between.  Excepted are the keys keyboard_handler      *)
(* cannot tell apart (merged): with both shift keys down the release of    *)
(* one ends the shift, and caps lock toggles while it repeats.             *)
TypedArrives ==
  Quiet /\ late = 0 /\ ~wild /\ ~merged =>
    /\ out = ref.out
    /\ shift_pressed = Shifted /\ ctrl_pressed = (down \cap CtrlKeys # {})
    /\ alt_pressed = ("lalt" \in down) /\ capslock_on = ref.caps

(* No modifier stays on when its keys are up, not even after two keys were *)
(* merged or after the release of F7 in set 2, which is decoded with a     *)
(* byte from behind the table.                                             *)
NoStuckModifier ==
  Quiet /\ late = 0 =>
    /\ shift_pressed => down \cap ShiftKeys # {}
    /\ ctrl_pressed => down \cap CtrlKeys # {}
    /\ alt_pressed => "lalt" \in down

(* The driver reads its devices right: the scan code set it has detected,  *)
(* the characters it has emitted and the modifiers it remembers are those  *)
(* of the keyboard (detect_scancode_set, keyboard_handler).                *)
InputCorrect == Ps2TypeOK /\ SetDetected /\ TypedArrives /\ NoStuckModifier

(* No handler takes a byte of the other device, though neither looks whose *)
(* byte it is; not even when an answer comes after ps2_wait_read has given *)
(* up, or a device speaks before its line is open.                         *)
OwnBytes == ~stray

(* Everything that is typed or moved is taken in the end: the two devices  *)
(* do not block each other in the one buffer they share.  A device that    *)
(* speaks before its line is open may leave a byte there for ever.         *)
InputDrains == <>[](late > 0 \/ Quiet)
=============================================================================
