---------------------------- MODULE CommandLine ----------------------------
(***************************************************************************)
(* parse_command_line (kernel/shell.c): a line is cut into a command and   *)
(* arguments at spaces, and an argument may be quoted.  One step handles   *)
(* one character.  The line parsed is either any short line, or one that   *)
(* was written to say a given command with given arguments (`meant').      *)
(* RunCommand has the two contexts that execute what was parsed.           *)
(***************************************************************************)
EXTENDS Integers, Sequences, SequencesExt

CONSTANTS
  Letters,              \* characters that are not special here
  COMMAND_LEN,          \* 32, the buffer of the command
  MAX_COMMAND_ARG_LEN,  \* 64, the buffer of an argument
  max_args,             \* MAX_COMMAND_ARGS
  LineLength,           \* bound: of the arbitrary lines
  Meanings              \* commands with arguments

NUL   == "nul"
Blank == " "
Quotes == {"'", "\""}
Chars == Letters \cup Quotes \cup {Blank}

VARIABLES line, meant,  \* the input, and what the user means by it
          pc, i, command, args, quote

vars == <<line, meant, pc, i, command, args, quote>>

-----------------------------------------------------------------------------
(* Writing a line.  An argument is quoted when it has to be, with a quote  *)
(* it does not contain.                                                    *)
NeedsQuote(a) == a = <<>> \/ Blank \in ToSet(a) \/ a[1] \in Quotes

Quoted(a) == {<<q>> \o a \o <<q>> : q \in Quotes \ ToSet(a)}

(* A plain line has no more spaces and quotes than it takes.               *)
Ways(a, style) == IF NeedsQuote(a) THEN Quoted(a)
                  ELSE IF style = "plain" THEN {a} ELSE {a} \cup Quoted(a)

Spaces(n)   == [k \in 1..n |-> Blank]
Gaps(style) == {Spaces(n) : n \in IF style = "plain" THEN {1} ELSE {1, 2}}

(* The lines that say m, each argument after a gap and in one of its ways. *)
Lines(m, style) ==
  LET upto[n \in 0..Len(m.args)] ==
        IF n = 0 THEN {m.command}
        ELSE {l \o gap \o w : l \in upto[n - 1], gap \in Gaps(style),
                             w \in Ways(m.args[n], style)}
  IN upto[Len(m.args)]

Indents          == {Spaces(n) : n \in 0..2}
LinesFor(m)      == {s \o l : s \in Indents, l \in Lines(m, "free")}
PlainLinesFor(m) == Lines(m, "plain")

AnyMeaning == [command |-> <<>>, args |-> <<>>, known |-> FALSE]

Init ==
  /\ \/ /\ line \in UNION {[1..n -> Chars] : n \in 0..LineLength}
        /\ meant = AnyMeaning
     \/ \E m \in Meanings :
          /\ line \in LinesFor(m)
          /\ meant = [command |-> m.command, args |-> m.args, known |-> TRUE]
  /\ pc = "start" /\ i = 1
  /\ command = <<>> /\ args = <<>> /\ quote = NUL

-----------------------------------------------------------------------------
(* The character the loop looks at.                                        *)
c == IF i <= Len(line) THEN line[i] ELSE NUL

Skip == i' = i + 1

(* while (line[i] == ' ') i++ ; an empty line has no command.              *)
Start ==
  /\ pc = "start"
  /\ IF c = Blank THEN Skip /\ UNCHANGED pc
     ELSE UNCHANGED i /\ pc' = IF c = NUL THEN "done" ELSE "command"
  /\ UNCHANGED <<line, meant, command, args, quote>>

Command ==
  /\ pc = "command"
  /\ IF c \notin {Blank, NUL} /\ Len(command) < COMMAND_LEN - 1
     THEN command' = Append(command, c) /\ Skip /\ UNCHANGED pc
     ELSE pc' = "gap" /\ UNCHANGED <<command, i>>
  /\ UNCHANGED <<line, meant, args, quote>>

(* Between two arguments.  A quote counts at the start of an argument only.*)
Gap ==
  /\ pc = "gap"
  /\ \/ /\ c = NUL \/ Len(args) >= max_args
        /\ pc' = "done" /\ UNCHANGED <<i, args, quote>>
     \/ /\ c = Blank /\ Len(args) < max_args
        /\ Skip /\ UNCHANGED <<pc, args, quote>>
     \/ /\ c \notin {NUL, Blank} /\ Len(args) < max_args
        /\ pc' = "argument" /\ args' = Append(args, <<>>)
        /\ IF c \in Quotes THEN quote' = c /\ Skip ELSE quote' = NUL /\ UNCHANGED i
  /\ UNCHANGED <<line, meant, command>>

Ends == IF quote # NUL THEN c = quote ELSE c = Blank

(* Mutant: the end of the string is stored past the buffer.                *)
Fits_OneMore == Len(Last(args)) < MAX_COMMAND_ARG_LEN

Fits == Len(Last(args)) < MAX_COMMAND_ARG_LEN - 1

AfterEnd == IF quote # NUL THEN i + 1 ELSE i

(* Mutant: a character that does not fit is not passed over.               *)
AfterCharacter_IfFits == IF Fits THEN i + 1 ELSE i

AfterCharacter == i + 1

Argument ==
  /\ pc = "argument"
  /\ \/ /\ c = NUL
        /\ pc' = "gap" /\ UNCHANGED <<i, args>>
     \/ /\ c # NUL /\ Ends
        /\ pc' = "gap" /\ i' = AfterEnd /\ UNCHANGED args
     \/ /\ c # NUL /\ ~Ends
        /\ args' = IF Fits THEN Append(Front(args), Append(Last(args), c)) ELSE args
        /\ i' = AfterCharacter /\ UNCHANGED pc
  /\ UNCHANGED <<line, meant, command, quote>>

Next == Start \/ Command \/ Gap \/ Argument

-----------------------------------------------------------------------------
(* Types, the sizes of the buffers and the end of the line.                *)
TypeOK ==
  /\ pc \in {"start", "command", "gap", "argument", "done"}
  /\ i \in 1..(Len(line) + 1)
  /\ command \in Seq(Chars) /\ Len(command) < COMMAND_LEN
  /\ args \in Seq(Seq(Chars)) /\ Len(args) <= max_args
  /\ \A n \in 1..Len(args) : Len(args[n]) < MAX_COMMAND_ARG_LEN
  /\ quote \in Quotes \cup {NUL}

Cut(a) == SubSeq(a, 1, IF Len(a) < MAX_COMMAND_ARG_LEN THEN Len(a) ELSE MAX_COMMAND_ARG_LEN - 1)

(* A line says what it was written to say: the command and, up to their    *)
(* number and size, the arguments, with the spaces and the other quotes    *)
(* inside them and the empty ones, however they were quoted and spaced.    *)
SaysWhatWasMeant ==
  pc = "done" /\ meant.known =>
    /\ command = meant.command
    /\ Len(args) = IF Len(meant.args) < max_args THEN Len(meant.args) ELSE max_args
    /\ \A n \in 1..Len(args) : args[n] = Cut(meant.args[n])
=============================================================================
