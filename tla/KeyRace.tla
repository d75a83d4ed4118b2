------------------------------ MODULE KeyRace ------------------------------
(***************************************************************************)
(* keyboard_poll (kernel/keyboard.c) in the two contexts that call it, the *)
(* boot loop and the shell task, one access to shared memory or to a port  *)
(* a step: the build does not optimise, so input_pos++ is a load and a     *)
(* store, and until the first user program the timer may switch contexts   *)
(* between any two of them.                                                *)
(*                                                                         *)
(* The controller (external) keeps the codes not read yet; a read of port  *)
(* 0x60 with none waiting returns the last one again.  A store past the    *)
(* last byte of input falls on the low byte of input_pos, which the linker *)
(* places next, or on something not modelled here, as does one before it.  *)
(* The screen is left out: whether col > 0 is then either way.             *)
(***************************************************************************)
EXTENDS Integers, Sequences

CONSTANTS
  MAX_LINE,        \* 63
  Chars,           \* keys with a character
  QUEUE,           \* codes the controller holds
  Spaced           \* the user waits for the echo and the prompt at each key

ASSUME KeyRaceAssumption ==
  /\ MAX_LINE \in Nat \ {0} /\ QUEUE \in Nat \ {0} /\ Spaced \in BOOLEAN
  /\ Chars \cap {"", "backspace", "enter"} = {}

Contexts == 0..1
Keys     == Chars \cup {"backspace", "enter"}
NUL      == ""
Codes    == [key : Keys, make : BOOLEAN]

VARIABLES
  held, queue,     \* external: the user's fingers, the codes waiting
  last,            \* external: the code read last
  key_down, input, input_pos,
  pc, scancode,    \* of each context: where it is, and its two locals
  pos,             \* the value of input_pos it has in a register
  seen             \* history: contexts that acted on the last press

user   == <<held, queue, last>>
buffer == <<input, input_pos>>
vars   == <<user, key_down, buffer, pc, scancode, pos, seen>>

At(s, label)   == pc[s] = label
Goto(s, label) == pc' = [pc EXCEPT ![s] = label]
Quiet          == queue = <<>> /\ \A s \in Contexts : At(s, "poll")

Init ==
  /\ held = {} /\ queue = <<>> /\ last = [key |-> "enter", make |-> FALSE]
  /\ key_down = {} /\ input = [i \in 0..MAX_LINE |-> NUL] /\ input_pos = 0
  /\ pc = [s \in Contexts |-> "poll"]
  /\ scancode = [s \in Contexts |-> last] /\ pos = [s \in Contexts |-> 0]
  /\ seen = 1

-----------------------------------------------------------------------------
Press(k) ==
  /\ k \notin held /\ Len(queue) < QUEUE /\ (Spaced => Quiet)
  /\ held' = held \cup {k}
  /\ queue' = Append(queue, [key |-> k, make |-> TRUE])
  /\ seen' = 0
  /\ UNCHANGED <<last, key_down, buffer, pc, scancode, pos>>

Release(k) ==
  /\ k \in held /\ Len(queue) < QUEUE /\ (Spaced => Quiet)
  /\ held' = held \ {k}
  /\ queue' = Append(queue, [key |-> k, make |-> FALSE])
  /\ UNCHANGED <<last, key_down, buffer, pc, scancode, pos, seen>>

-----------------------------------------------------------------------------
(* keyboard_poll up to the key.                                            *)
Poll(s) ==
  /\ At(s, "poll") /\ queue # <<>>
  /\ Goto(s, "take")
  /\ UNCHANGED <<user, key_down, buffer, scancode, pos, seen>>

Read == IF queue = <<>> THEN last ELSE Head(queue)

Take(s) ==
  /\ At(s, "take")
  /\ scancode' = [scancode EXCEPT ![s] = Read]
  /\ last' = Read
  /\ queue' = IF queue = <<>> THEN queue ELSE Tail(queue)
  /\ Goto(s, IF Read.make THEN "test" ELSE "up")
  /\ UNCHANGED <<held, key_down, buffer, pos, seen>>

(* Mutant: the mark of a released key stays.                               *)
Up_StaysDown(s) ==
  /\ At(s, "up") /\ Goto(s, "poll")
  /\ UNCHANGED <<user, key_down, buffer, scancode, pos, seen>>

Up(s) ==
  /\ At(s, "up")
  /\ key_down' = key_down \ {scancode[s].key}
  /\ Goto(s, "poll")
  /\ UNCHANGED <<user, buffer, scancode, pos, seen>>

(* Mutant: a key already down is waited for.                               *)
Test_Waits(s) ==
  /\ At(s, "test")
  /\ Goto(s, IF scancode[s].key \in key_down THEN "test" ELSE "mark")
  /\ UNCHANGED <<user, key_down, buffer, scancode, pos, seen>>

Test(s) ==
  /\ At(s, "test")
  /\ Goto(s, IF scancode[s].key \in key_down THEN "poll" ELSE "mark")
  /\ UNCHANGED <<user, key_down, buffer, scancode, pos, seen>>

Mark(s) ==
  /\ At(s, "mark")
  /\ key_down' = key_down \cup {scancode[s].key}
  /\ Goto(s, CASE scancode[s].key = "backspace" -> "any"
               [] scancode[s].key = "enter"     -> "length"
               [] OTHER                         -> "room")
  /\ seen' = seen + 1
  /\ UNCHANGED <<user, buffer, scancode, pos>>

-----------------------------------------------------------------------------
(* A character: input[input_pos++] = c.                                    *)

(* Mutant: a full line is not refused.                                     *)
Room_Always(s) ==
  /\ At(s, "room") /\ Goto(s, "load")
  /\ UNCHANGED <<user, key_down, buffer, scancode, pos, seen>>

Room(s) ==
  /\ At(s, "room")
  /\ Goto(s, IF input_pos < MAX_LINE THEN "load" ELSE "poll")
  /\ UNCHANGED <<user, key_down, buffer, scancode, pos, seen>>

(* A backspace on an empty line, or in the first column, does nothing.     *)
Any(s) ==
  /\ At(s, "any")
  /\ \/ input_pos > 0 /\ Goto(s, "load")
     \/ Goto(s, "poll")
  /\ UNCHANGED <<user, key_down, buffer, scancode, pos, seen>>

Load(s) ==
  /\ At(s, "load")
  /\ pos' = [pos EXCEPT ![s] = input_pos]
  /\ Goto(s, IF scancode[s].key = "backspace" THEN "retreat" ELSE "advance")
  /\ UNCHANGED <<user, key_down, buffer, scancode, seen>>

Advance(s) ==
  /\ At(s, "advance")
  /\ input_pos' = pos[s] + 1
  /\ Goto(s, "put")
  /\ UNCHANGED <<user, key_down, input, scancode, pos, seen>>

Retreat(s) ==
  /\ At(s, "retreat")
  /\ input_pos' = pos[s] - 1
  /\ Goto(s, "length")
  /\ UNCHANGED <<user, key_down, input, scancode, pos, seen>>

(* The low byte of a position becomes 0.                                   *)
LowByteCleared(p) == IF p >= 0 THEN 0 ELSE p - 255

Store(i, c) ==
  IF i \in 0..MAX_LINE
  THEN input' = [input EXCEPT ![i] = c] /\ UNCHANGED input_pos
  ELSE /\ UNCHANGED input
       /\ \/ UNCHANGED input_pos
          \/ i = MAX_LINE + 1 /\ c = NUL /\ input_pos' = LowByteCleared(input_pos)

Put(s) ==
  /\ At(s, "put")
  /\ Store(pos[s], scancode[s].key)
  /\ Goto(s, "length")
  /\ UNCHANGED <<user, key_down, scancode, pos, seen>>

(* input[input_pos] = 0, which ends all three branches' edits.             *)
Length(s) ==
  /\ At(s, "length")
  /\ pos' = [pos EXCEPT ![s] = input_pos]
  /\ Goto(s, "end")
  /\ UNCHANGED <<user, key_down, buffer, scancode, seen>>

End(s) ==
  /\ At(s, "end")
  /\ Store(pos[s], NUL)
  /\ Goto(s, IF scancode[s].key = "enter" THEN "execute" ELSE "poll")
  /\ UNCHANGED <<user, key_down, scancode, pos, seen>>

(* execute_command: it reads the line, and at its end empties it.          *)
Execute(s) ==
  /\ At(s, "execute")
  /\ Goto(s, "reset")
  /\ UNCHANGED <<user, key_down, buffer, scancode, pos, seen>>

Reset(s) ==
  /\ At(s, "reset")
  /\ input_pos' = 0
  /\ Goto(s, "clear")
  /\ UNCHANGED <<user, key_down, input, scancode, pos, seen>>

Clear(s) ==
  /\ At(s, "clear")
  /\ Store(0, NUL)
  /\ Goto(s, "poll")
  /\ UNCHANGED <<user, key_down, scancode, pos, seen>>

KeyStep(s) ==
  \/ Poll(s) \/ Take(s) \/ Up(s) \/ Test(s) \/ Mark(s)
  \/ Room(s) \/ Any(s) \/ Load(s) \/ Advance(s) \/ Retreat(s) \/ Put(s)
  \/ Length(s) \/ End(s) \/ Execute(s) \/ Reset(s) \/ Clear(s)

Next == (\E k \in Keys : Press(k) \/ Release(k)) \/ \E s \in Contexts : KeyStep(s)

Spec == Init /\ [][Next]_vars

(* The scheduler gives both contexts time; nobody has to type.             *)
FairSpec == Spec /\ \A s \in Contexts : WF_vars(KeyStep(s))

-----------------------------------------------------------------------------
Labels == {"poll", "take", "up", "test", "mark", "room", "any", "load", "advance",
           "retreat", "put", "length", "end", "execute", "reset", "clear"}

(* Types, and input_pos: it passes either end of the buffer by one at most.*)
TypeOK ==
  /\ held \subseteq Keys /\ key_down \subseteq Keys
  /\ queue \in Seq(Codes) /\ last \in Codes
  /\ input \in [0..MAX_LINE -> Chars \cup {NUL}] /\ input_pos \in -1..(MAX_LINE + 1)
  /\ pc \in [Contexts -> Labels] /\ scancode \in [Contexts -> Codes]
  /\ pos \in [Contexts -> -1..(MAX_LINE + 1)] /\ seen \in 0..2

(* When two contexts act on one key, what they store past the last byte of *)
(* the buffer is one NUL, never a character.                               *)
OverrunByOne == \A s \in Contexts : At(s, "put") => pos[s] <= MAX_LINE

(* Two contexts in the buffer at once leave it by one byte at most.        *)
InBounds == TypeOK /\ OverrunByOne

(* A key pressed on its own is never lost: one context or both act on it,  *)
(* although either may have read the code before or after the other.       *)
KeySeen == Quiet => seen >= 1

(* Both contexts come back to polling: the prompt returns after each key.  *)
PromptReturns == ~Quiet ~> Quiet
=============================================================================
