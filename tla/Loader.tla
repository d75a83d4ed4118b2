------------------------------- MODULE Loader -------------------------------
(***************************************************************************)
(* The program loader (kernel/kernel.c) as the commands run and selftest   *)
(* of kernel/shell.c use it: a hex text is read from the file system,      *)
(* decoded into the one code page, the arguments are laid out in the one   *)
(* stack page, and the processor enters user mode.                         *)
(*                                                                         *)
(* The text buffer and both pages are shared by the two contexts that      *)
(* execute commands; a step is one iteration of a loop over them.  The     *)
(* process table is Sched's: here it is full or not.                       *)
(***************************************************************************)
EXTENDS Integers, Sequences, TLC

CONSTANTS
  PAGE,              \* 4096, USER_STACK_SIZE and the size of the code page
  WORD,              \* 4, the bytes of a stack word
  TEXT,              \* 256, sizeof(hex_data)
  MAX_COMMAND_ARGS, MAX_COMMAND_ARG_LEN,
  Files,             \* text of each program file, by program name
  hello,             \* the program selftest loads
  TypeAhead          \* whether Enter is acted on while a command runs (see Sched)

ASSUME LoaderAssumption ==
  /\ PAGE \in Nat /\ WORD \in Nat \ {0} /\ TEXT \in Nat \ {0}
  /\ MAX_COMMAND_ARGS \in Nat /\ MAX_COMMAND_ARG_LEN \in Nat \ {0}
  /\ \A name \in DOMAIN Files : Files[name] \in Seq(STRING)
  /\ hello \in Seq(STRING)
  /\ TypeAhead \in BOOLEAN

Contexts == 0..1
NUL      == ""
None     == -1
Addresses == 0..(PAGE - 1)

VARIABLES
  hex_data, user_code_page, user_stack_page,
  only,              \* the context left alone once interrupts are off
  frame              \* of each context: where it is, what was asked, its locals

shared == <<hex_data, user_code_page, user_stack_page>>
vars   == <<shared, only, frame>>

(* A byte of the stack page: a character, or part of a stored word.        *)
Char(c) == [char |-> c, word |-> 0]
Zero    == Char(NUL)
Word(n) == [char |-> "word", word |-> n]
Part    == [char |-> "part", word |-> 0]

(* A context that polls the keyboard.                                      *)
Polling ==
  [pc |-> "poll", args |-> <<>>, program |-> <<>>, length |-> 0, i |-> 0,
   string_pos |-> PAGE, string_addresses |-> <<>>, user_esp |-> 0]

At(s, label)   == frame[s].pc = label
Goto(s, label) == frame' = [frame EXCEPT ![s].pc = label]
Return(s)      == frame' = [frame EXCEPT ![s] = Polling]

Init ==
  /\ hex_data = [k \in 0..(TEXT - 1) |-> NUL]
  /\ user_code_page = [a \in Addresses |-> <<0, 0>>]
  /\ user_stack_page = [a \in Addresses |-> Zero]
  /\ only = None
  /\ frame = [s \in Contexts |-> Polling]

-----------------------------------------------------------------------------
(* Enter is pressed and context s takes it.  A program is named without    *)
(* its .bin; names longer than a file name can be, which run cuts, are     *)
(* left out: no file has them.                                             *)
Command(s, name, list) ==
  /\ At(s, "poll") /\ only \in {None, s}
  /\ TypeAhead \/ \A t \in Contexts : At(t, "poll")
  /\ frame' = [frame EXCEPT ![s].pc = "read", ![s].program = name, ![s].args = list]
  /\ UNCHANGED <<shared, only>>

(* The arguments of run begin with the program's name.                     *)
Run(s)      == \E list \in Seq(Seq(STRING)) \ {<<>>} : Command(s, list[1], list)
Selftest(s) == Command(s, hello, <<>>)

IsSelftest(s) == frame[s].args = <<>>

-----------------------------------------------------------------------------
(* load_user_program.                                                      *)

(* vfs_read_file: a missing file reads as an empty one, without a store.   *)
TextOf(name) == IF name \in DOMAIN Files THEN Files[name] ELSE <<>>

Read(s) ==
  LET name == frame[s].program
      text == TextOf(name)
      n    == IF Len(text) < TEXT THEN Len(text) ELSE TEXT - 1
  IN /\ At(s, "read")
     /\ hex_data' = IF name \notin DOMAIN Files THEN hex_data
                    ELSE [k \in DOMAIN hex_data |->
                            IF k < n THEN text[k + 1] ELSE IF k = n THEN NUL ELSE hex_data[k]]
     /\ IF n > 0 /\ n % 2 = 0 /\ n \div 2 <= PAGE
        THEN frame' = [frame EXCEPT ![s].pc = "clear", ![s].length = n]
        ELSE Return(s)
     /\ UNCHANGED <<user_code_page, user_stack_page, only>>

(* Mutant: the page keeps the end of the last program.                     *)
Clear_Not(s) ==
  /\ At(s, "clear")
  /\ Goto(s, "decode")
  /\ UNCHANGED <<shared, only>>

Clear(s) ==
  /\ At(s, "clear")
  /\ user_code_page' = [a \in Addresses |-> <<0, 0>>]
  /\ Goto(s, "decode")
  /\ UNCHANGED <<hex_data, user_stack_page, only>>

Digits == <<"0", "1", "2", "3", "4", "5", "6", "7", "8", "9">>
Upper  == <<"A", "B", "C", "D", "E", "F">>
Lower  == <<"a", "b", "c", "d", "e", "f">>

Among(c, chars)  == \E n \in DOMAIN chars : chars[n] = c
Offset(c, chars) == (CHOOSE n \in DOMAIN chars : chars[n] = c) - 1

hex_value(c) ==
  IF Among(c, Digits) THEN Offset(c, Digits)
  ELSE IF Among(c, Upper) THEN Offset(c, Upper) + 10
  ELSE IF Among(c, Lower) THEN Offset(c, Lower) + 10
  ELSE -1

NotHex(high, low) == high < 0 \/ low < 0

(* A byte is the pair of its digits.                                       *)
Decode(s) ==
  LET i    == frame[s].i
      high == hex_value(hex_data[2 * i])
      low  == hex_value(hex_data[2 * i + 1])
  IN /\ At(s, "decode") /\ i < frame[s].length \div 2
     /\ IF NotHex(high, low)
        THEN Return(s) /\ UNCHANGED user_code_page
        ELSE /\ user_code_page' = [user_code_page EXCEPT ![i] = <<high, low>>]
             /\ frame' = [frame EXCEPT ![s].i = i + 1]
     /\ UNCHANGED <<hex_data, user_stack_page, only>>

Decoded(s) ==
  /\ At(s, "decode") /\ frame[s].i >= frame[s].length \div 2
  /\ IF IsSelftest(s) THEN Return(s) ELSE Goto(s, "arguments")
  /\ UNCHANGED <<shared, only>>

-----------------------------------------------------------------------------
(* prepare_user_arguments.                                                 *)
Argc(s) == Len(frame[s].args)

(* An argument as it is copied: at most the size of its buffer.            *)
Arg(s, n) ==
  LET a == frame[s].args[n]
  IN SubSeq(a, 1, IF Len(a) < MAX_COMMAND_ARG_LEN THEN Len(a) ELSE MAX_COMMAND_ARG_LEN - 1)

Arguments(s) ==
  /\ At(s, "arguments")
  /\ IF Argc(s) \in 1..MAX_COMMAND_ARGS
     THEN /\ user_stack_page' = [a \in Addresses |-> Zero]
          /\ frame' = [frame EXCEPT ![s].pc = "string", ![s].i = Argc(s)]
     ELSE Return(s) /\ UNCHANGED user_stack_page
  /\ UNCHANGED <<hex_data, user_code_page, only>>

RoomForString(s) == frame[s].string_pos >= Len(Arg(s, frame[s].i)) + 1

String(s) ==
  LET a == Arg(s, frame[s].i)
      p == frame[s].string_pos - (Len(a) + 1)
  IN /\ At(s, "string") /\ frame[s].i > 0
     /\ IF RoomForString(s)
        THEN /\ frame' = [frame EXCEPT ![s].string_pos = p, ![s].i = @ - 1,
                                       ![s].string_addresses = <<p>> \o @]
             /\ user_stack_page' = [b \in Addresses |->
                  IF b \in p..(p + Len(a) - 1) THEN Char(a[b - p + 1])
                  ELSE IF b = p + Len(a) THEN Zero ELSE user_stack_page[b]]
        ELSE Return(s) /\ UNCHANGED user_stack_page
     /\ UNCHANGED <<hex_data, user_code_page, only>>

Aligned(p) == p - (p % WORD)

VectorSize(s) == (Argc(s) + 2) * WORD

(* Mutant: room for the arguments but not for argc and the final NULL.     *)
RoomForVector_ArgsOnly(s) == Aligned(frame[s].string_pos) >= Argc(s) * WORD

RoomForVector(s) == Aligned(frame[s].string_pos) >= VectorSize(s)

(* Mutant: the NULL that ends the vector is not counted.                   *)
VectorBase_NoNull(s) == Aligned(frame[s].string_pos) - VectorSize(s) + WORD

VectorBase(s) == Aligned(frame[s].string_pos) - VectorSize(s)

(* argc, the addresses, NULL.                                              *)
Vector(s) == <<Argc(s)>> \o frame[s].string_addresses \o <<0>>

PutVector(s) ==
  /\ At(s, "string") /\ frame[s].i <= 0
  /\ IF RoomForVector(s)
     THEN /\ frame' = [frame EXCEPT ![s].pc = "start", ![s].user_esp = VectorBase(s)]
          /\ user_stack_page' = [b \in Addresses |->
               LET k == b - VectorBase(s)
               IN IF k \notin 0..(VectorSize(s) - 1) THEN user_stack_page[b]
                  ELSE IF k % WORD = 0 THEN Word(Vector(s)[k \div WORD + 1]) ELSE Part]
     ELSE Return(s) /\ UNCHANGED user_stack_page
  /\ UNCHANGED <<hex_data, user_code_page, only>>

-----------------------------------------------------------------------------
(* user_process_start finds an entry, or the table is full.                *)
Start(s) ==
  /\ At(s, "start")
  /\ Goto(s, "enter") \/ Return(s)
  /\ UNCHANGED <<shared, only>>

(* enter_user_mode: interrupts stay off from now on.                       *)
Enter(s) ==
  /\ At(s, "enter")
  /\ only' = s
  /\ Goto(s, "user")
  /\ UNCHANGED <<shared>>

(* The program may fill its stack page with anything before it exits.      *)
Exit(s) ==
  /\ At(s, "user")
  /\ user_stack_page' \in {user_stack_page, [a \in Addresses |-> Part]}
  /\ Return(s)
  /\ UNCHANGED <<hex_data, user_code_page, only>>

(* With interrupts off only one context takes steps.                       *)
LoaderStep(s) ==
  /\ only \in {None, s}
  /\ \/ Read(s) \/ Clear(s) \/ Decode(s) \/ Decoded(s) \/ Arguments(s)
     \/ String(s) \/ PutVector(s) \/ Start(s) \/ Enter(s) \/ Exit(s)

Next == \E s \in Contexts : Run(s) \/ Selftest(s) \/ LoaderStep(s)

Spec == Init /\ [][Next]_vars

-----------------------------------------------------------------------------
Labels == {"poll", "read", "clear", "decode", "arguments", "string", "start", "enter", "user"}

Frames == [pc : Labels, args : Seq(Seq(STRING)), program : Seq(STRING),
           length : 0..(TEXT - 1), i : Nat, string_pos : Int,
           string_addresses : Seq(Int), user_esp : Int]

Bytes == [char : STRING \cup {NUL, "word", "part"}, word : Int]

(* Types.                                                                  *)
TypeOK ==
  /\ hex_data \in [0..(TEXT - 1) -> STRING \cup {NUL}]
  /\ user_code_page \in [Addresses -> (0..15) \X (0..15)]
  /\ user_stack_page \in [Addresses -> Bytes]
  /\ only \in Contexts \cup {None}
  /\ frame \in [Contexts -> Frames]

(* The positions never wrap below the page, and the vector ends below the  *)
(* strings: each string and the whole vector are stored inside the page.   *)
StackInPage ==
  \A s \in Contexts :
    LET f == frame[s]
    IN /\ f.string_pos \in 0..PAGE
       /\ \A n \in 1..Len(f.string_addresses) :
            f.string_addresses[n] \in f.string_pos..(PAGE - 1)
       /\ f.pc \in {"start", "enter"} =>
            f.user_esp >= 0 /\ f.user_esp + VectorSize(s) <= f.string_pos

(* What the file that was asked for decodes to, followed by zeros.         *)
IsImage(page, text) ==
  /\ text # <<>> /\ Len(text) % 2 = 0
  /\ \A k \in 1..Len(text) : hex_value(text[k]) >= 0
  /\ \A a \in Addresses : page[a] =
       IF 2 * a + 2 <= Len(text)
       THEN <<hex_value(text[2 * a + 1]), hex_value(text[2 * a + 2])>>
       ELSE <<0, 0>>

(* A program that is entered is the whole of the file that was named: not  *)
(* what a failed load or a selftest left in the page, nor the end of a     *)
(* longer program that ran before.                                         *)
RunsWhatWasAsked ==
  \A s \in Contexts : At(s, "enter") => IsImage(user_code_page, TextOf(frame[s].program))

(* The string a program finds at an address of its stack page.             *)
StringAt(p, str) ==
  /\ p + Len(str) < PAGE
  /\ \A k \in 1..Len(str) : user_stack_page[p + k - 1] = Char(str[k])
  /\ user_stack_page[p + Len(str)] = Zero

(* At the stack pointer of a program that is entered are the number of the *)
(* arguments `list', the arguments in order and a NULL, and the rest of    *)
(* the page holds nothing of the program that used it before.              *)
ArgumentsAt(s, list) ==
  LET esp     == frame[s].user_esp
      word(k) == user_stack_page[esp + k * WORD]
      argc    == Len(list)
  IN /\ word(0) = Word(argc) /\ word(argc + 1) = Word(0)
     /\ \A n \in 1..argc : \E p \in Addresses : word(n) = Word(p) /\ StringAt(p, list[n])
     /\ \A a \in Addresses :
          a < esp \/ a \in (esp + VectorSize(s))..(frame[s].string_pos - 1)
            => user_stack_page[a] = Zero
=============================================================================
