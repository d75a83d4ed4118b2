------------------------------ MODULE Console ------------------------------
(***************************************************************************)
(* The keyboard and the screen (kernel/keyboard.c) as one polling context  *)
(* drives them: keys go down and up, their codes wait in the controller,   *)
(* keyboard_poll takes one code at a time, edits the line buffer and       *)
(* echoes; Enter executes the line, prints and prompts again.              *)
(*                                                                         *)
(* A poll is one step: the controller keeps what arrives meanwhile.  That  *)
(* is the machine after its first user program, when interrupts are off    *)
(* and one context polls; two pollers are the subject of KeyRace.          *)
(***************************************************************************)
EXTENDS Integers, Sequences, SequencesExt

CONSTANTS
  ROWS, COLS,      \* 25 and 80
  MAX_LINE,        \* 63
  PROMPT,          \* what is printed after a command
  Chars,           \* keys with a character
  Outputs,         \* what commands print
  QUEUE            \* codes the keyboard controller holds

NUL == ""
NL  == "nl"
Blank == " "
Keys == Chars \cup {"backspace", "enter"}

ASSUME ConsoleAssumption ==
  /\ ROWS \in Nat \ {0} /\ COLS \in Nat \ {0} /\ QUEUE \in Nat \ {0}
  /\ MAX_LINE \in Nat \ {0} /\ Len(PROMPT) + MAX_LINE < COLS
  /\ PROMPT \in Seq(STRING) /\ \A n \in DOMAIN PROMPT : PROMPT[n] # NL
  /\ Chars \cap {NUL, NL, Blank, "backspace", "enter"} = {}
  /\ Outputs \subseteq Seq(Chars \cup {NL, Blank})
  /\ \A o \in Outputs : o # <<>> => Last(o) = NL

VARIABLES
  held,            \* the keys the user holds down
  queue,           \* make and break codes on their way
  key_down,        \* the keys keyboard_poll believes held
  input, input_pos,
  screen,          \* row, col and the video memory
  typed,           \* history: the line the user has typed so far
  submitted        \* history: lines whose Enter has been pressed, not executed

vars == <<held, queue, key_down, input, input_pos, screen, typed, submitted>>

Make(k)  == [key |-> k, make |-> TRUE]
Break(k) == [key |-> k, make |-> FALSE]

Cells == (0..(ROWS - 1)) \X (0..(COLS - 1))

-----------------------------------------------------------------------------
(* The screen.                                                             *)

(* move_cursor_next_line: below the last row the screen scrolls.           *)
NextLine(s) ==
  IF s.row + 1 < ROWS
  THEN [s EXCEPT !.row = @ + 1, !.col = 0]
  ELSE [row |-> ROWS - 1, col |-> 0,
        video |-> [p \in Cells |-> IF p[1] = ROWS - 1 THEN Blank
                                                      ELSE s.video[<<p[1] + 1, p[2]>>]]]

putchar(s, c) ==
  IF c = NL THEN NextLine(s)
  ELSE LET w == IF s.col >= COLS THEN NextLine(s) ELSE s
       IN [w EXCEPT !.video = [p \in Cells |-> IF p = <<w.row, w.col>> THEN c ELSE w.video[p]],
                    !.col = @ + 1]

print(s, str) ==
  LET after[n \in 0..Len(str)] == IF n = 0 THEN s ELSE putchar(after[n - 1], str[n])
  IN after[Len(str)]

ClearScreen == [row |-> 0, col |-> 0, video |-> [p \in Cells |-> Blank]]

-----------------------------------------------------------------------------
(* keyboard_init, after the prompt of kernel_main.                         *)
Init ==
  /\ held = {} /\ queue = <<>> /\ key_down = {}
  /\ input = [i \in 0..MAX_LINE |-> NUL] /\ input_pos = 0
  /\ screen = print(ClearScreen, PROMPT)
  /\ typed = <<>> /\ submitted = <<>>

(* What the user means by a key: a line of at most MAX_LINE characters.    *)
Typed(k) ==
  IF k \in Chars THEN IF Len(typed) < MAX_LINE THEN Append(typed, k) ELSE typed
  ELSE IF k = "backspace" /\ typed # <<>> THEN Front(typed) ELSE <<>>

Press(k) ==
  /\ k \notin held /\ Len(queue) < QUEUE
  /\ held' = held \cup {k}
  /\ queue' = Append(queue, Make(k))
  /\ typed' = Typed(k)
  /\ submitted' = IF k = "enter" THEN Append(submitted, typed) ELSE submitted
  /\ UNCHANGED <<key_down, input, input_pos, screen>>

(* A key that is held repeats its make code.                               *)
Repeat(k) ==
  /\ k \in held /\ Len(queue) < QUEUE
  /\ queue' = Append(queue, Make(k))
  /\ UNCHANGED <<held, key_down, input, input_pos, screen, typed, submitted>>

Release(k) ==
  /\ k \in held /\ Len(queue) < QUEUE
  /\ held' = held \ {k}
  /\ queue' = Append(queue, Break(k))
  /\ UNCHANGED <<key_down, input, input_pos, screen, typed, submitted>>

-----------------------------------------------------------------------------
(* keyboard_poll.                                                          *)
Up(k) ==
  /\ key_down' = key_down \ {k}
  /\ UNCHANGED <<input, input_pos, screen, submitted>>

StillDown(k) ==
  /\ k \in key_down
  /\ UNCHANGED <<key_down, input, input_pos, screen, submitted>>

(* Mutant: a repeated code counts as a press.                              *)
FirstDown_Any(k) == key_down' = key_down \cup {k}

FirstDown(k) == k \notin key_down /\ key_down' = key_down \cup {k}

(* Mutant: the cursor does not step back.                                  *)
Erased_CursorStays(s) == [s EXCEPT !.video = [@ EXCEPT ![<<s.row, s.col - 1>>] = Blank]]

Erased(s) == [s EXCEPT !.col = @ - 1, !.video = [@ EXCEPT ![<<s.row, s.col - 1>>] = Blank]]

(* Mutant: the character stays in the buffer.                              *)
Shortened_StillThere == input

Shortened == [input EXCEPT ![input_pos - 1] = NUL]

Backspace(k) ==
  /\ k = "backspace" /\ FirstDown(k)
  /\ IF input_pos > 0 /\ screen.col > 0
     THEN /\ input_pos' = input_pos - 1
          /\ screen' = Erased(screen)
          /\ input' = Shortened
     ELSE UNCHANGED <<input, input_pos, screen>>
  /\ UNCHANGED submitted

(* execute_command: a new line, the output or a cleared screen, the prompt.*)
Enter(k) ==
  /\ k = "enter" /\ FirstDown(k)
  /\ \/ \E o \in Outputs : screen' = print(screen, <<NL>> \o o \o PROMPT)
     \/ screen' = print(ClearScreen, PROMPT)
  /\ input_pos' = 0
  /\ input' = [input EXCEPT ![input_pos] = NUL, ![0] = NUL]
  /\ submitted' = SubSeq(submitted, 2, Len(submitted))

Character(k) ==
  /\ k \in Chars /\ FirstDown(k)
  /\ IF input_pos < MAX_LINE
     THEN /\ input_pos' = input_pos + 1
          /\ input' = [i \in DOMAIN input |-> IF i = input_pos THEN k
                                              ELSE IF i = input_pos + 1 THEN NUL ELSE input[i]]
          /\ screen' = putchar(screen, k)
     ELSE UNCHANGED <<input, input_pos, screen>>
  /\ UNCHANGED submitted

keyboard_poll ==
  /\ queue # <<>>
  /\ queue' = Tail(queue)
  /\ LET k == Head(queue).key
     IN IF Head(queue).make
        THEN StillDown(k) \/ Backspace(k) \/ Enter(k) \/ Character(k)
        ELSE Up(k)
  /\ UNCHANGED <<held, typed>>

Next == keyboard_poll \/ \E k \in Keys : Press(k) \/ Repeat(k) \/ Release(k)

Spec == Init /\ [][Next]_vars

-----------------------------------------------------------------------------
Line == [i \in 1..input_pos |-> input[i - 1]]

(* Types, and the bounds of the buffer and of the screen.                  *)
TypeOK ==
  /\ held \subseteq Keys /\ key_down \subseteq Keys
  /\ queue \in Seq([key : Keys, make : BOOLEAN])
  /\ input \in [0..MAX_LINE -> Chars \cup {NUL}]
  /\ input_pos \in 0..MAX_LINE
  /\ screen.row \in 0..(ROWS - 1) /\ screen.col \in 0..COLS
  /\ screen.video \in [Cells -> Chars \cup {Blank} \cup {PROMPT[n] : n \in DOMAIN PROMPT}]

(* Once the codes are handled the line buffer is what the user typed: keys *)
(* that repeat or overlap enter one character each, and keys pressed while *)
(* a command ran are in the next line.                                     *)
LineIsTyped == queue = <<>> => Line = typed /\ key_down = held

(* The buffer is a C string of that length at every moment.                *)
Terminated == input[input_pos] = NUL /\ \A i \in 0..(input_pos - 1) : input[i] # NUL

(* What keyboard_poll and execute_command rely on at each call: no index   *)
(* leaves the buffer or the screen, and the line ends where input_pos says.*)
BufferOK == TypeOK /\ Terminated

(* The row of the cursor shows the prompt and the line, nothing after it:  *)
(* what is executed is what the user sees, through backspaces, wrapped     *)
(* output and scrolling.                                                   *)
ScreenShowsLine ==
  LET shown == PROMPT \o Line
  IN /\ screen.col = Len(shown)
     /\ \A c \in 0..(COLS - 1) :
          screen.video[<<screen.row, c>>] = IF c < Len(shown) THEN shown[c + 1] ELSE Blank

(* A press of Enter executes once, however long it is held, and executes  *)
(* the line that was complete when it was pressed, not what the buffer     *)
(* holds of keys typed after it.                                           *)
Executes == queue # <<>> /\ Head(queue) = Make("enter") /\ screen' # screen

ExecutesTheLine ==
  [][Executes /\ queue' = Tail(queue)
       => submitted # <<>> /\ Line = Head(submitted) /\ submitted' = Tail(submitted)]_vars
=============================================================================
