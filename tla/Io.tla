---------------------------------- MODULE Io ----------------------------------
(***************************************************************************)
(* The two ports of lib/io.cpp that meet the outside of the machine: P1,   *)
(* through which the program reads the buttons, and the serial port, which *)
(* prints on the console and is watched by cpu_step.                       *)
(*                                                                         *)
(* The player and the operating system put key events into a queue at any  *)
(* moment; ui_handle_events of lib/ui.cpp empties it before a step of the  *)
(* CPU.  The second call of it, once in a frame, is left out.              *)
(***************************************************************************)
EXTENDS Integers, SequencesExt

CONSTANTS
  Keys,         \* the keys the player presses
  MaxEvents,    \* the bound on the events that wait in the queue
  Chars,        \* the bytes the program writes to SB
  Controls,     \* the bytes it writes to SC
  Passed,       \* the message cpu_step looks for, a sequence of Chars
  BufferSize    \* 10: the characters cpu_step remembers

Buttons == 0 .. 7   \* right, left, up, down, A, B, select, start

ASSUME BoundAssumption == MaxEvents \in Nat \ {0} /\ BufferSize \in Nat \ {0}
ASSUME SerialAssumption == Controls \subseteq 0 .. 255 /\ Passed \in Seq(Chars)

(* key_to_btn, which is -1 for a key that is not mapped *)
Mapped == [RIGHT |-> 0, LEFT |-> 1, UP |-> 2, DOWN |-> 3,
           z |-> 4, x |-> 5, BACKSPACE |-> 6, RETURN |-> 7]
key_to_btn(k) == IF k \in DOMAIN Mapped THEN Mapped[k] ELSE -1

(* The buttons of a group that P1 can select *)
Half(g) == IF g = "actions" THEN 4 .. 7 ELSE 0 .. 3

VARIABLES
  events,         \* SDL's queue
  handling,       \* ui_handle_events is running
  die,
  joypad_state,   \* the buttons that are held
  joypad,         \* bits 4 and 5 of P1, those that are 1
  requested,      \* bit 4 of IF
  sb, sc,         \* io.serial_data
  serial_buffer,  \* of cpu_step
  announced       \* cpu_step printed its own message

(* History: the keys the player holds; the tail of the console; the buttons *)
(* the program last read; the groups it has read since the last event of    *)
(* one of their buttons.                                                    *)
VARIABLES down, console, pad, polled

padVars    == <<joypad, pad, polled>>
serialVars == <<sb, sc, console>>
queueVars  == <<events, handling, die, down>>
cpuVars    == <<serial_buffer, announced>>
vars == <<queueVars, joypad_state, requested, padVars, serialVars, cpuVars>>

Init ==
  /\ events = <<>>
  /\ handling = TRUE
  /\ die = FALSE
  /\ joypad_state = {}
  /\ joypad = {}          \* 0xCF
  /\ requested = FALSE    \* 0xE1
  /\ sb = "NUL"
  /\ sc = 126
  /\ serial_buffer = <<>>
  /\ announced = FALSE
  /\ down = {}
  /\ console = <<>>
  /\ pad = {}
  /\ polled = {}
-----------------------------------------------------------------------------
(* The player.  A key that stays down sends its event again. *)
Send(type, k) ==
  /\ Len(events) < MaxEvents
  /\ events' = Append(events, [type |-> type, key |-> k])

Player ==
  /\ \/ \E k \in Keys : Send("down", k) /\ down' = down \cup {k}
     \/ \E k \in down : Send("up", k) /\ down' = down \ {k}
     \/ Send("quit", "") /\ UNCHANGED down
  /\ UNCHANGED <<handling, die, joypad_state, requested, padVars, serialVars, cpuVars>>
-----------------------------------------------------------------------------
(* Mutant: the press of one button drops the others. *)
joypad_press_alone(b) ==
  /\ joypad_state' = {b}
  /\ requested' = TRUE

joypad_press(b) ==
  /\ joypad_state' = joypad_state \cup {b}
  /\ requested' = TRUE

joypad_release(b) ==
  /\ joypad_state' = joypad_state \ {b}
  /\ UNCHANGED requested

(* One event of the loop of ui_handle_events. *)
HandleEvent ==
  /\ handling /\ ~die
  /\ events # <<>>
  /\ events' = Tail(events)
  /\ LET e == Head(events)
         b == key_to_btn(e.key)
     IN  /\ die' = (e.type = "quit")
         /\ handling' = (e.type # "quit")
         /\ CASE e.type = "down" /\ b >= 0 -> joypad_press(b)
              [] e.type = "up"   /\ b >= 0 -> joypad_release(b)
              [] OTHER -> UNCHANGED <<joypad_state, requested>>
         /\ polled' = {g \in polled : b \notin Half(g)}
  /\ UNCHANGED <<down, joypad, pad, serialVars, cpuVars>>

(* The queue is empty: the loop of main goes on to cpu_step. *)
NoEventLeft ==
  /\ handling /\ ~die
  /\ events = <<>>
  /\ handling' = FALSE
  /\ UNCHANGED <<events, die, down, joypad_state, requested, padVars, serialVars, cpuVars>>
-----------------------------------------------------------------------------
(* The bits 0 to 3 of a group, those whose button is not held. *)
Group(g) == IF g = "actions" THEN {b \in 0 .. 3 : b + 4 \notin joypad_state}
            ELSE {b \in 0 .. 3 : b \notin joypad_state}

(* Mutant: the two groups are tested in the other order. *)
ReadP1DpadLast ==
  IF 4 \notin joypad THEN joypad \cup Group("d-pad")
  ELSE IF 5 \notin joypad THEN joypad \cup Group("actions")
  ELSE 0 .. 3

(* Bits 0 to 5 of io_read(0xFF00), those that are 1.  Only the actions show *)
(* when both groups are selected, and with none all of bits 4 and 5 are 0.  *)
ReadP1 ==
  IF 5 \notin joypad THEN joypad \cup Group("actions")
  ELSE IF 4 \notin joypad THEN joypad \cup Group("d-pad")
  ELSE 0 .. 3

(* io_write(0xFF00): only bits 4 and 5 can be written. *)
WriteP1(S) ==
  /\ joypad' = S
  /\ UNCHANGED <<pad, polled, joypad_state, requested, serialVars>>

(* The program reads a group and keeps what it saw.  It may read the        *)
(* actions with both groups selected; the d-pad it must select alone.       *)
PollGroup(g) ==
  /\ IF g = "actions" THEN 5 \notin joypad ELSE joypad = {5}
  /\ LET first == IF g = "actions" THEN 4 ELSE 0 IN
       pad' = (pad \ Half(g)) \cup {b + first : b \in {n \in 0 .. 3 : n \notin ReadP1}}
  /\ polled' = polled \cup {g}
  /\ UNCHANGED <<joypad, joypad_state, requested, serialVars>>

(* A write to IF, or the delivery of the interrupt. *)
Acknowledge ==
  /\ requested' = FALSE
  /\ UNCHANGED <<joypad_state, padVars, serialVars>>

WriteSB(c) ==
  /\ sb' = c
  /\ UNCHANGED <<sc, console, joypad_state, requested, padVars>>

(* The last n elements of s *)
LastOf(s, n) == IF Len(s) <= n THEN s ELSE SubSeq(s, Len(s) - n + 1, Len(s))

(* io_write(0xFF02): 0x81 prints the byte, and the transfer is complete in  *)
(* the same instruction.                                                    *)
WriteSC(v) ==
  /\ IF v = 129
     THEN /\ console' = LastOf(Append(console, sb), Len(Passed))
          /\ sc' = 0
     ELSE sc' = v /\ UNCHANGED console
  /\ UNCHANGED <<sb, joypad_state, requested, padVars>>

Instruction ==
  \/ \E S \in SUBSET {4, 5} : WriteP1(S)
  \/ \E g \in {"d-pad", "actions"} : PollGroup(g)
  \/ Acknowledge
  \/ \E c \in Chars : WriteSB(c)
  \/ \E v \in Controls : WriteSC(v)

(* The head of cpu_step, before the instruction: while bit 7 of SC is set,  *)
(* each step adds the byte in SB to the characters it remembers.            *)
WatchSerial ==
  IF sc >= 128
  THEN LET buffer == LastOf(Append(serial_buffer, sb), BufferSize) IN
         /\ serial_buffer' = buffer
         /\ announced' = (announced \/ Passed \in SubSeqs(buffer))
  ELSE UNCHANGED cpuVars

CpuStep ==
  /\ ~handling
  /\ WatchSerial
  /\ Instruction
  /\ handling' = TRUE
  /\ UNCHANGED <<events, die, down>>

(* The test of the loop of main comes after the step. *)
Exited == handling /\ die /\ UNCHANGED vars

Next == Player \/ HandleEvent \/ NoEventLeft \/ CpuStep \/ Exited

Spec == Init /\ [][Next]_vars
-----------------------------------------------------------------------------
(* A button is held exactly when the player holds its key, for every key    *)
(* that has no event left in the queue, however keys were repeated, mixed   *)
(* or not mapped; that includes the events a quit leaves unread, which do   *)
(* not touch the buttons of other keys.                                     *)
KeysFollowed ==
  /\ joypad_state \subseteq Buttons
  /\ \A k \in DOMAIN Mapped :
       (\A i \in DOMAIN events : events[i].key # k) =>
         (Mapped[k] \in joypad_state <=> k \in down)

(* What the program read of a group is what is held of it, until an event   *)
(* of one of its own buttons is handled: no button of the other group shows *)
(* in it, with both groups selected neither, and none sticks; and the       *)
(* events of one group leave what was read of the other valid.              *)
PadAgrees ==
  \A g \in polled : \A b \in Half(g) : b \in pad <=> b \in joypad_state

(* The message of a test program is noticed by the step after the one that  *)
(* printed its last character.                                              *)
PassedIsNoticed ==
  [][CpuStep /\ Len(Passed) > 0 /\ console = Passed => announced']_vars
=============================================================================
