----------------------------- MODULE RunCommand -----------------------------
(***************************************************************************)
(* The commands run and selftest from the line the user types to the       *)
(* program's first instruction: parse_command_line (CommandLine) makes the *)
(* arguments, the loader (Loader) finds the file, decodes it and puts the  *)
(* arguments where the program looks for them.                             *)
(*                                                                         *)
(* One command at a time: the user waits for the prompt, and an Enter is   *)
(* acted on by one context, which KeyRace shows the code does not ensure.  *)
(* Bounds: an arbitrary line is the first one after the boot, and so is    *)
(* one with more spaces and quotes than it takes, as the parser keeps      *)
(* nothing from one line to the next.                                      *)
(***************************************************************************)
EXTENDS Loader

CONSTANTS
  Letters, COMMAND_LEN, LineLength, Meanings,  \* see CommandLine
  run, selftest                                \* the commands, as typed

VARIABLES
  executing,                     \* the context that parses input, if any
  input, meant,                  \* the line and what the user means by it
  stage, pos, command, args, quote  \* the parser, once it has ended: reset

parser  == <<stage, pos, command, args, quote>>
allvars == <<vars, executing, input, meant, parser>>

P == INSTANCE CommandLine
       WITH max_args <- MAX_COMMAND_ARGS, line <- input, pc <- stage, i <- pos

ASSUME RunCommandAssumption ==
  /\ ~TypeAhead
  /\ COMMAND_LEN \in Nat \ {0} /\ LineLength \in Nat
  /\ P!Chars \subseteq STRING
  /\ Letters \cap (P!Quotes \cup {P!Blank, P!NUL}) = {}
  /\ \A m \in Meanings : /\ Len(m.command) \in 1..(COMMAND_LEN - 1)
                         /\ m.command \in Seq(Letters)
                         /\ m.args \in Seq(Seq(P!Chars))

RunInit ==
  /\ Init /\ P!Init
  /\ executing \in Contexts

(* The user writes a line that says m and presses Enter; context s, which  *)
(* polls the keyboard, takes it.                                           *)
Type(s) ==
  /\ executing = None /\ only \in {None, s}
  /\ \A t \in Contexts : At(t, "poll")
  /\ executing' = s
  /\ \E m \in Meanings :
       /\ input' \in P!PlainLinesFor(m)
       /\ meant' = [command |-> m.command, args |-> m.args, known |-> TRUE]
  /\ stage' = "start"
  /\ UNCHANGED <<vars, pos, command, args, quote>>

Parse ==
  /\ executing # None
  /\ P!Next
  /\ UNCHANGED <<vars, executing>>

(* What execute_command does with the line.  run looks at the command that *)
(* was parsed, selftest at the whole line.                                 *)
IsSelf == input = selftest
IsRun  == command = run /\ args # <<>>

Executes(s) ==
  \/ IsSelf /\ Selftest(s)
  \/ ~IsSelf /\ IsRun /\ Command(s, args[1], args)
  \/ ~IsSelf /\ ~IsRun /\ UNCHANGED vars

Execute(s) ==
  /\ executing = s /\ stage = "done"
  /\ Executes(s)
  /\ executing' = None
  /\ input' = <<>> /\ pos' = 1 /\ command' = <<>> /\ args' = <<>> /\ quote' = P!NUL
  /\ UNCHANGED <<meant, stage>>

Load(s) == LoaderStep(s) /\ UNCHANGED <<executing, input, meant, parser>>

KernelStep == Parse \/ \E s \in Contexts : Execute(s) \/ Load(s)

RunNext == KernelStep \/ \E s \in Contexts : Type(s)

(* The instruction stream; the user need not type and a program need not   *)
(* exit.                                                                   *)
RunSpec == RunInit /\ [][RunNext]_allvars /\ WF_allvars(Parse)
             /\ \A s \in Contexts : /\ WF_allvars(Execute(s))
                                    /\ WF_allvars(~At(s, "user") /\ Load(s))

-----------------------------------------------------------------------------
(* Types, and the sizes of the parser's and the loader's buffers.          *)
TypesOK == TypeOK /\ P!TypeOK /\ executing \in Contexts \cup {None}

(* The arguments as the buffers allow.                                     *)
ArgsMeant ==
  [n \in 1..(IF Len(meant.args) < MAX_COMMAND_ARGS THEN Len(meant.args) ELSE MAX_COMMAND_ARGS)
     |-> P!Cut(meant.args[n])]

(* From the keyboard to the stack page: a line is parsed into the command  *)
(* and the arguments it was written to say, and a program that is entered  *)
(* is the one the user named and finds the arguments the user meant.       *)
ArgumentsArrive ==
  /\ executing # None => P!SaysWhatWasMeant
  /\ \A s \in Contexts :
       At(s, "enter") /\ meant.known =>
         /\ meant.command = run
         /\ frame[s].program = ArgsMeant[1]
         /\ ArgumentsAt(s, ArgsMeant)

(* Every line comes to an end, an unclosed quote included, and the prompt  *)
(* comes back unless a program was entered.                                *)
CommandEnds ==
  executing # None ~> executing = None /\ \E s \in Contexts :
                        At(s, "user") \/ \A t \in Contexts : At(t, "poll")
=============================================================================
