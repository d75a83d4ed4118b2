---------------------------- MODULE LoaderProofs ----------------------------
(***************************************************************************)
(* The argument stack never leaves its page: for every page, word and      *)
(* buffer size, every file and command line, and two contexts that load    *)
(* at once.  With one context, the program that runs is the one asked for. *)
(* Then the commands' composition (RunCommand): what the parser makes of a *)
(* line, however it was typed, is what the program finds on its stack.     *)
(***************************************************************************)
EXTENDS RunCommand, WellFoundedInduction, TLAPS

(* What the proof needs of a frame's type.                                 *)
ArgLists  == Seq(Seq(STRING))
Names     == Seq(STRING)
Positions == Seq(Int)

StackFrames == [pc : Labels, args : ArgLists, program : Names, length : Int, i : Int,
                string_pos : Int, string_addresses : Positions, user_esp : Int]

(* The strings are in the page, above string_pos.                          *)
StringsInPage(f) ==
  /\ f.string_pos \in 0..PAGE
  /\ \A n \in 1..Len(f.string_addresses) : f.string_addresses[n] \in f.string_pos..(PAGE - 1)

VectorBelow(f) ==
  f.pc \in {"start", "enter"} =>
    f.user_esp >= 0 /\ f.user_esp + (Len(f.args) + 2) * WORD <= f.string_pos

(* The loop over the arguments has one to copy.                            *)
LoopIndex(f) == f.pc = "string" => f.i \in 0..Len(f.args)

Good(f) == f \in StackFrames /\ StringsInPage(f) /\ VectorBelow(f) /\ LoopIndex(f)

(* The inductive invariant.  StackInPage alone says nothing of the argument*)
(* a context copies next: its length is a number only while i is an index. *)
IInv == frame \in [Contexts -> StackFrames] /\ \A s \in Contexts : Good(frame[s])

LEMMA EmptySequences ==
  <<>> \in Positions /\ <<>> \in Names /\ <<>> \in ArgLists /\ Len(<<>>) = 0
<1>1. <<>> \in Positions
  BY DEF Positions
<1>2. <<>> \in Names
  BY DEF Names
<1>3. <<>> \in ArgLists
  BY DEF ArgLists
<1> QED BY <1>1, <1>2, <1>3

LEMMA ModBound ==
  ASSUME NEW p \in Nat, NEW w \in Nat \ {0}
  PROVE  p % w \in Nat /\ p - (p % w) <= p
OBVIOUS

LEMMA PollingGood == Good(Polling)
<1>1. Polling \in StackFrames
  <2>1. PAGE \in Int /\ 0 \in Int
    BY LoaderAssumption
  <2>2. "poll" \in Labels
    BY DEF Labels
  <2> QED BY <2>1, <2>2, EmptySequences DEF Polling, StackFrames
<1>2. StringsInPage(Polling)
  BY LoaderAssumption, EmptySequences DEF Polling, StringsInPage
<1> QED BY <1>1, <1>2 DEF Good, Polling, VectorBelow, LoopIndex

(* A step of s that leaves the other context's frame alone.                *)
LEMMA OneFrame ==
  ASSUME IInv, NEW s \in Contexts, NEW f, Good(f), frame' = [frame EXCEPT ![s] = f]
  PROVE  IInv'
<1>1. \A t \in Contexts : frame'[t] = IF t = s THEN f ELSE frame[t]
  BY DEF IInv
<1>2. frame' \in [Contexts -> StackFrames]
  BY DEF IInv, Good
<1> QED BY <1>1, <1>2 DEF IInv, Good, StringsInPage, VectorBelow, LoopIndex

(* A step that moves s elsewhere and leaves its positions alone.           *)
LEMMA Moves ==
  ASSUME IInv, NEW s \in Contexts, NEW f \in StackFrames,
         f.string_pos = frame[s].string_pos, f.string_addresses = frame[s].string_addresses,
         \/ f.pc \notin {"start", "enter", "string"}
         \/ /\ frame[s].pc \in {"start", "enter"} /\ f.pc \in {"start", "enter"}
            /\ f.args = frame[s].args /\ f.user_esp = frame[s].user_esp,
         frame' = [frame EXCEPT ![s] = f]
  PROVE  IInv'
<1>1. Good(frame[s])
  BY DEF IInv
<1>2. Good(f)
  BY <1>1 DEF Good, StringsInPage, VectorBelow, LoopIndex
<1> QED BY <1>2, OneFrame

LEMMA Returns ==
  ASSUME IInv, NEW s \in Contexts, Return(s)
  PROVE  IInv'
BY PollingGood, OneFrame DEF Return

-----------------------------------------------------------------------------
LEMMA StringStep ==
  ASSUME IInv, NEW s \in Contexts, String(s)
  PROVE  IInv'
<1> DEFINE a == Arg(s, frame[s].i)
           p == frame[s].string_pos - (Len(a) + 1)
           i == frame[s].i - 1
           addresses == <<p>> \o frame[s].string_addresses
           f == [frame[s] EXCEPT !.string_pos = p, !.i = i, !.string_addresses = addresses]
<1>1. CASE ~RoomForString(s)
  BY <1>1, Returns DEF String
<1>2. CASE RoomForString(s)
  <2>1. frame' = [frame EXCEPT ![s] = f] /\ frame[s].pc = "string"
    BY <1>2 DEF String, At, IInv
  <2>2. /\ frame[s] \in StackFrames /\ StringsInPage(frame[s])
        /\ frame[s].i \in 1..Len(frame[s].args)
    BY DEF IInv, Good, LoopIndex, String, At
  <2>3. Len(a) \in Nat
    <3> DEFINE b == frame[s].args[frame[s].i]
               n == IF Len(b) < MAX_COMMAND_ARG_LEN THEN Len(b) ELSE MAX_COMMAND_ARG_LEN - 1
    <3>1. b \in Seq(STRING)
      BY <2>2 DEF StackFrames, ArgLists
    <3>2. n \in 0..Len(b)
      BY <3>1, LoaderAssumption
    <3>3. a = SubSeq(b, 1, n)
      BY DEF Arg
    <3> HIDE DEF b, n
    <3> QED BY <3>1, <3>2, <3>3
  <2>4. p \in 0..(PAGE - 1) /\ p < frame[s].string_pos
    BY <1>2, <2>2, <2>3, LoaderAssumption DEF RoomForString, StackFrames, StringsInPage
  <2>5. /\ frame[s].string_addresses \in Seq(Int)
        /\ addresses \in Positions
        /\ i \in Int /\ i \in 0..Len(frame[s].args) /\ p \in Int
    <3>1. frame[s].string_addresses \in Seq(Int) /\ frame[s].args \in Seq(Seq(STRING))
      BY <2>2 DEF StackFrames, Positions, ArgLists
    <3>2. p \in Int
      BY <2>4
    <3> HIDE DEF p
    <3>3. addresses \in Positions
      BY <3>1, <3>2 DEF Positions
    <3> QED BY <3>1, <3>2, <3>3, <2>2
  <2>10. addresses = <<p>> \o frame[s].string_addresses
    OBVIOUS
  <2> HIDE DEF p, i, addresses
  <2>6. f \in StackFrames
    BY <2>2, <2>5 DEF StackFrames
  <2>7. /\ f.pc = "string" /\ f.args = frame[s].args /\ f.i = i
        /\ f.string_pos = p /\ f.string_addresses = <<p>> \o frame[s].string_addresses
    BY <2>1, <2>2, <2>10 DEF StackFrames
  <2>8. StringsInPage(f)
    <3>1. ASSUME NEW n \in 1..Len(f.string_addresses)
          PROVE  f.string_addresses[n] \in p..(PAGE - 1)
      <4>1. CASE n = 1
        BY <4>1, <2>5, <2>4, <2>7
      <4>2. CASE n # 1
        <5>1. /\ n - 1 \in 1..Len(frame[s].string_addresses)
              /\ f.string_addresses[n] = frame[s].string_addresses[n - 1]
          BY <4>2, <2>5, <2>4, <2>7
        <5>2. f.string_addresses[n] \in frame[s].string_pos..(PAGE - 1)
          BY <5>1, <2>2 DEF StringsInPage
        <5>3. frame[s].string_pos \in Nat /\ PAGE \in Nat
          BY <2>2, LoaderAssumption DEF StringsInPage
        <5> QED BY <5>2, <5>3, <2>4
      <4> QED BY <4>1, <4>2
    <3> QED BY <3>1, <2>4, <2>7, LoaderAssumption DEF StringsInPage
  <2>9. Good(f)
    BY <2>2, <2>5, <2>6, <2>7, <2>8 DEF Good, VectorBelow, LoopIndex
  <2> HIDE DEF f
  <2> QED BY <2>1, <2>9, OneFrame
<1> QED BY <1>1, <1>2

(* The vector is placed below the strings, on a word boundary.             *)
LEMMA VectorStep ==
  ASSUME IInv, NEW s \in Contexts, PutVector(s)
  PROVE  IInv'
<1> DEFINE top == frame[s].string_pos
           base == VectorBase(s)
           f == [frame[s] EXCEPT !.pc = "start", !.user_esp = base]
<1>1. CASE ~RoomForVector(s)
  BY <1>1, Returns DEF PutVector
<1>2. CASE RoomForVector(s)
  <2>1. frame' = [frame EXCEPT ![s] = f]
    BY <1>2 DEF PutVector, IInv
  <2>2. frame[s] \in StackFrames /\ StringsInPage(frame[s]) /\ top \in Nat
    BY LoaderAssumption DEF IInv, Good, StringsInPage
  <2>3. Aligned(top) \in Int /\ Aligned(top) <= top
    BY <2>2, ModBound, LoaderAssumption DEF Aligned
  <2>4. VectorSize(s) \in Int /\ VectorSize(s) = (Len(frame[s].args) + 2) * WORD
    <3>1. Len(frame[s].args) \in Nat /\ WORD \in Nat
      BY <2>2, LoaderAssumption DEF StackFrames, ArgLists
    <3> QED BY <3>1 DEF VectorSize, Argc
  <2>5. base = Aligned(top) - VectorSize(s) /\ Aligned(top) >= VectorSize(s)
    BY <1>2 DEF VectorBase, RoomForVector
  <2> HIDE DEF top, base
  <2>6. base \in Int /\ base >= 0 /\ base + VectorSize(s) <= top
    BY <2>2, <2>3, <2>4, <2>5
  <2>7. f \in StackFrames
    <3>1. "start" \in Labels
      BY DEF Labels
    <3> QED BY <2>2, <2>6, <3>1 DEF StackFrames
  <2>8. /\ f.pc = "start" /\ f.user_esp = base /\ f.args = frame[s].args
        /\ f.string_pos = top /\ f.string_addresses = frame[s].string_addresses
    BY <2>2 DEF StackFrames, top
  <2>9. Good(f)
    BY <2>2, <2>4, <2>6, <2>7, <2>8 DEF Good, StringsInPage, VectorBelow, LoopIndex, top
  <2> HIDE DEF f
  <2> QED BY <2>1, <2>9, OneFrame
<1> QED BY <1>1, <1>2

-----------------------------------------------------------------------------
(* Goto(s, label) changes the label only.                                  *)
LEMMA GotoStep ==
  ASSUME IInv, NEW s \in Contexts, NEW label \in Labels, Goto(s, label),
         \/ label \notin {"start", "enter", "string"}
         \/ frame[s].pc \in {"start", "enter"} /\ label \in {"start", "enter"}
  PROVE  IInv'
<1> DEFINE f == [frame[s] EXCEPT !.pc = label]
<1>1. frame[s] \in StackFrames /\ frame' = [frame EXCEPT ![s] = f]
  BY DEF Goto, IInv
<1>2. f \in StackFrames
  BY <1>1 DEF StackFrames
<1>3. /\ f.pc = label /\ f.args = frame[s].args /\ f.user_esp = frame[s].user_esp
      /\ f.string_pos = frame[s].string_pos
      /\ f.string_addresses = frame[s].string_addresses
  BY <1>1 DEF StackFrames
<1> HIDE DEF f
<1> QED BY <1>1, <1>2, <1>3, Moves

LEMMA CommandStep ==
  ASSUME IInv, NEW s \in Contexts, NEW name \in Names, NEW list \in ArgLists,
         Command(s, name, list)
  PROVE  IInv'
<1> DEFINE f == [frame[s] EXCEPT !.pc = "read", !.program = name, !.args = list]
<1>1. frame[s] \in StackFrames /\ frame' = [frame EXCEPT ![s] = f]
  BY DEF Command, IInv
<1>2. "read" \in Labels
  BY DEF Labels
<1>3. f \in StackFrames
  BY <1>1, <1>2 DEF StackFrames
<1>4. /\ f.pc = "read" /\ f.string_pos = frame[s].string_pos
      /\ f.string_addresses = frame[s].string_addresses
  BY <1>1 DEF StackFrames
<1> HIDE DEF f
<1> QED BY <1>1, <1>3, <1>4, Moves

LEMMA ReadStep ==
  ASSUME IInv, NEW s \in Contexts, Read(s)
  PROVE  IInv'
<1> DEFINE text == TextOf(frame[s].program)
           n == IF Len(text) < TEXT THEN Len(text) ELSE TEXT - 1
           f == [frame[s] EXCEPT !.pc = "clear", !.length = n]
<1>1. CASE Return(s)
  BY <1>1, Returns
<1>2. CASE ~Return(s)
  <2>1. frame[s] \in StackFrames /\ frame' = [frame EXCEPT ![s] = f]
    BY <1>2 DEF Read, IInv
  <2>2. text \in Seq(STRING)
    BY EmptySequences, LoaderAssumption DEF TextOf, Names
  <2>3. n \in Int /\ "clear" \in Labels
    BY <2>2, LoaderAssumption DEF Labels
  <2> HIDE DEF n
  <2>4. f \in StackFrames
    BY <2>1, <2>3 DEF StackFrames
  <2>5. /\ f.pc = "clear" /\ f.string_pos = frame[s].string_pos
        /\ f.string_addresses = frame[s].string_addresses
    BY <2>1 DEF StackFrames
  <2> HIDE DEF f
  <2> QED BY <2>1, <2>4, <2>5, Moves
<1> QED BY <1>1, <1>2

LEMMA DecodeStep ==
  ASSUME IInv, NEW s \in Contexts, Decode(s)
  PROVE  IInv'
<1> DEFINE n == frame[s].i + 1
           f == [frame[s] EXCEPT !.i = n]
<1>1. CASE Return(s)
  BY <1>1, Returns
<1>2. CASE ~Return(s)
  <2>1. /\ frame[s] \in StackFrames /\ frame' = [frame EXCEPT ![s] = f]
        /\ frame[s].pc = "decode"
    BY <1>2 DEF Decode, IInv, At
  <2>2. n \in Int
    BY <2>1 DEF StackFrames
  <2> HIDE DEF n
  <2>3. f \in StackFrames
    BY <2>1, <2>2 DEF StackFrames
  <2>4. /\ f.pc = "decode" /\ f.string_pos = frame[s].string_pos
        /\ f.string_addresses = frame[s].string_addresses
    BY <2>1 DEF StackFrames
  <2> HIDE DEF f
  <2> QED BY <2>1, <2>3, <2>4, Moves
<1> QED BY <1>1, <1>2

LEMMA ArgumentsStep ==
  ASSUME IInv, NEW s \in Contexts, Arguments(s)
  PROVE  IInv'
<1> DEFINE n == Argc(s)
           f == [frame[s] EXCEPT !.pc = "string", !.i = n]
<1>1. CASE Return(s)
  BY <1>1, Returns
<1>2. CASE ~Return(s)
  <2>1. /\ frame[s] \in StackFrames /\ frame' = [frame EXCEPT ![s] = f]
        /\ StringsInPage(frame[s])
    BY <1>2 DEF Arguments, IInv, Good
  <2>2. n = Len(frame[s].args) /\ n \in Nat /\ n \in Int /\ "string" \in Labels
    BY <2>1 DEF Argc, StackFrames, ArgLists, Labels
  <2> HIDE DEF n
  <2>3. f \in StackFrames
    BY <2>1, <2>2 DEF StackFrames
  <2>4. /\ f.pc = "string" /\ f.i = n /\ f.args = frame[s].args
        /\ f.string_pos = frame[s].string_pos /\ f.string_addresses = frame[s].string_addresses
    BY <2>1 DEF StackFrames
  <2>5. Good(f)
    BY <2>1, <2>2, <2>3, <2>4 DEF Good, StringsInPage, VectorBelow, LoopIndex
  <2> HIDE DEF f
  <2> QED BY <2>1, <2>5, OneFrame
<1> QED BY <1>1, <1>2

LEMMA LoaderStepInv == IInv /\ [Next]_vars => IInv'
<1> SUFFICES ASSUME IInv, [Next]_vars PROVE IInv'
  OBVIOUS
<1> USE DEF At
<1>1. {"poll", "read", "clear", "decode", "arguments", "string", "start", "enter", "user"} = Labels
  BY DEF Labels
<1>2. ASSUME NEW s \in Contexts, Run(s) PROVE IInv'
  <2>1. PICK list \in Seq(Seq(STRING)) \ {<<>>} : Command(s, list[1], list)
    BY <1>2 DEF Run
  <2>2. list \in ArgLists /\ list[1] \in Names
    BY DEF ArgLists, Names
  <2> QED BY <2>1, <2>2, CommandStep
<1>3. ASSUME NEW s \in Contexts, Selftest(s) PROVE IInv'
  BY <1>3, CommandStep, EmptySequences, LoaderAssumption DEF Selftest, Names
<1>4. ASSUME NEW s \in Contexts, Read(s) PROVE IInv'
  BY <1>4, ReadStep
<1>5. ASSUME NEW s \in Contexts, Clear(s) PROVE IInv'
  BY <1>1, <1>5, GotoStep DEF Clear
<1>6. ASSUME NEW s \in Contexts, Decode(s) PROVE IInv'
  BY <1>6, DecodeStep
<1>7. ASSUME NEW s \in Contexts, Decoded(s) PROVE IInv'
  BY <1>1, <1>7, GotoStep, Returns DEF Decoded
<1>8. ASSUME NEW s \in Contexts, Arguments(s) PROVE IInv'
  BY <1>8, ArgumentsStep
<1>9. ASSUME NEW s \in Contexts, String(s) PROVE IInv'
  BY <1>9, StringStep
<1>10. ASSUME NEW s \in Contexts, PutVector(s) PROVE IInv'
  BY <1>10, VectorStep
<1>11. ASSUME NEW s \in Contexts, Start(s) PROVE IInv'
  BY <1>1, <1>11, GotoStep, Returns DEF Start
<1>12. ASSUME NEW s \in Contexts, Enter(s) PROVE IInv'
  BY <1>1, <1>12, GotoStep DEF Enter
<1>13. ASSUME NEW s \in Contexts, Exit(s) PROVE IInv'
  BY <1>13, Returns DEF Exit
<1>14. ASSUME UNCHANGED vars PROVE IInv'
  BY <1>14 DEF vars, IInv, Good, StringsInPage, VectorBelow, LoopIndex
<1> QED BY <1>2, <1>3, <1>4, <1>5, <1>6, <1>7, <1>8, <1>9, <1>10, <1>11, <1>12, <1>13, <1>14
        DEF Next, LoaderStep

LEMMA LoaderInit == Init => IInv
<1> SUFFICES ASSUME Init PROVE IInv
  OBVIOUS
<1>1. \A s \in Contexts : frame[s] = Polling
  BY DEF Init
<1>2. Polling \in StackFrames
  BY PollingGood DEF Good
<1> QED BY <1>1, <1>2, PollingGood DEF IInv, Init

(* The positions never wrap below the page and the vector ends below the   *)
(* strings: prepare_user_arguments stays in user_stack_page whatever the   *)
(* arguments, even with both contexts inside the loader.                   *)
THEOREM LoaderStackInPage == Spec => []StackInPage
<1>1. IInv => StackInPage
  <2> SUFFICES ASSUME IInv, NEW s \in Contexts
               PROVE  LET f == frame[s]
                      IN /\ f.string_pos \in 0..PAGE
                         /\ \A n \in 1..Len(f.string_addresses) :
                              f.string_addresses[n] \in f.string_pos..(PAGE - 1)
                         /\ f.pc \in {"start", "enter"} =>
                              f.user_esp >= 0 /\ f.user_esp + VectorSize(s) <= f.string_pos
    BY DEF StackInPage
  <2>1. Good(frame[s])
    BY DEF IInv
  <2> QED BY <2>1 DEF Good, StringsInPage, VectorBelow, VectorSize, Argc
<1> QED BY <1>1, LoaderInit, LoaderStepInv, PTL DEF Spec

-----------------------------------------------------------------------------
(* What a program that is entered runs.                                    *)

LEMMA OffsetRange ==
  ASSUME NEW chars, NEW n \in Nat, DOMAIN chars = 1..n, NEW c, Among(c, chars)
  PROVE  Offset(c, chars) \in Int /\ 0 <= Offset(c, chars) /\ Offset(c, chars) < n
BY DEF Among, Offset

LEMMA HexValueRange == \A c : hex_value(c) \in -1..15
<1> SUFFICES ASSUME NEW c PROVE hex_value(c) \in -1..15
  OBVIOUS
<1>1. DOMAIN Digits = 1..10
  BY DEF Digits
<1>2. DOMAIN Upper = 1..6
  BY DEF Upper
<1>3. DOMAIN Lower = 1..6
  BY DEF Lower
<1>4. CASE Among(c, Digits)
  <2>1. Offset(c, Digits) \in Int /\ 0 <= Offset(c, Digits) /\ Offset(c, Digits) < 10
    BY <1>1, <1>4, OffsetRange
  <2> QED BY <1>4, <2>1 DEF hex_value
<1>5. CASE ~Among(c, Digits) /\ Among(c, Upper)
  <2>1. Offset(c, Upper) \in Int /\ 0 <= Offset(c, Upper) /\ Offset(c, Upper) < 6
    BY <1>2, <1>5, OffsetRange
  <2> QED BY <1>5, <2>1 DEF hex_value
<1>6. CASE ~Among(c, Digits) /\ ~Among(c, Upper) /\ Among(c, Lower)
  <2>1. Offset(c, Lower) \in Int /\ 0 <= Offset(c, Lower) /\ Offset(c, Lower) < 6
    BY <1>3, <1>6, OffsetRange
  <2> QED BY <1>6, <2>1 DEF hex_value
<1>7. CASE ~Among(c, Digits) /\ ~Among(c, Upper) /\ ~Among(c, Lower)
  BY <1>7 DEF hex_value
<1> QED BY <1>4, <1>5, <1>6, <1>7

LoadedLabels == {"arguments", "string", "start", "enter"}

Text(f) == TextOf(f.program)

(* The whole text is in the buffer: an even number of its bytes is.        *)
WholeText(f) ==
  /\ f.length = Len(Text(f)) /\ Len(Text(f)) \in 1..(TEXT - 1)
  /\ Len(Text(f)) % 2 = 0 /\ Len(Text(f)) \div 2 <= PAGE

Buffered(f, data) == \A k \in 0..(Len(Text(f)) - 1) : data[k] = Text(f)[k + 1]

(* The bytes below i are decoded, the others cleared.                      *)
DecodedTo(f, page) ==
  /\ f.i \in 0..(Len(Text(f)) \div 2)
  /\ \A a \in Addresses :
       \/ /\ a < f.i
          /\ hex_value(Text(f)[2 * a + 1]) >= 0 /\ hex_value(Text(f)[2 * a + 2]) >= 0
          /\ page[a] = <<hex_value(Text(f)[2 * a + 1]), hex_value(Text(f)[2 * a + 2])>>
       \/ a >= f.i /\ page[a] = <<0, 0>>

Progress(f, data, page) ==
  /\ f.pc \in {"poll", "read", "clear"} => f.i = 0
  /\ f.pc \in {"clear", "decode"} => WholeText(f) /\ Buffered(f, data)
  /\ f.pc = "decode" => DecodedTo(f, page)
  /\ f.pc \in LoadedLabels => IsImage(page, Text(f))

(* One context at a time runs a command (without TypeAhead).               *)
OneLoads == \A s, t \in Contexts : s = t \/ At(s, "poll") \/ At(t, "poll")

(* The inductive invariant: how far the load has come in the text buffer   *)
(* and in the code page, which belong to the one context that loads.       *)
LoadInv ==
  /\ IInv
  /\ DOMAIN hex_data = 0..(TEXT - 1)
  /\ user_code_page \in [Addresses -> (0..15) \X (0..15)]
  /\ OneLoads
  /\ \A s \in Contexts : Progress(frame[s], hex_data, user_code_page)

LEMMA PollingProgress ==
  \A f, data, page : f.pc = "poll" /\ f.i = 0 => Progress(f, data, page)
BY DEF Progress, LoadedLabels

(* A step of the context that loads.                                       *)
LEMMA LoadStep ==
  ASSUME LoadInv, IInv', NEW s \in Contexts, NEW f,
         frame' = [frame EXCEPT ![s] = f],
         frame[s].pc # "poll" \/ \A t \in Contexts : At(t, "poll"),
         DOMAIN hex_data' = 0..(TEXT - 1),
         user_code_page' \in [Addresses -> (0..15) \X (0..15)],
         Progress(f, hex_data', user_code_page')
  PROVE  LoadInv'
<1>1. \A t \in Contexts : frame'[t] = IF t = s THEN f ELSE frame[t]
  BY DEF LoadInv, IInv
<1>2. \A t \in Contexts \ {s} : frame[t].pc = "poll"
  BY DEF LoadInv, OneLoads, At
<1>3. \A t \in Contexts \ {s} : Progress(frame[t], hex_data', user_code_page')
  BY <1>2, PollingProgress DEF LoadInv, Progress
<1>4. OneLoads'
  BY <1>1, <1>2 DEF OneLoads, At
<1> QED BY <1>1, <1>3, <1>4 DEF LoadInv

LEMMA LoadReturns ==
  ASSUME LoadInv, IInv', NEW s \in Contexts, Return(s), frame[s].pc # "poll",
         hex_data' = hex_data \/ DOMAIN hex_data' = 0..(TEXT - 1),
         user_code_page' = user_code_page
  PROVE  LoadInv'
<1>1. Polling.pc = "poll" /\ Polling.i = 0
  BY DEF Polling
<1>2. frame' = [frame EXCEPT ![s] = Polling]
  BY DEF Return
<1> HIDE DEF Polling
<1>3. Progress(Polling, hex_data', user_code_page')
  BY <1>1, PollingProgress
<1> QED BY <1>2, <1>3, LoadStep DEF LoadInv

(* A step after the load changes neither program nor page.                 *)
LEMMA LoadedMoves ==
  ASSUME LoadInv, IInv', NEW s \in Contexts, NEW f, frame' = [frame EXCEPT ![s] = f],
         frame[s].pc \in LoadedLabels, f.pc \in LoadedLabels \cup {"user"},
         f.program = frame[s].program,
         UNCHANGED <<hex_data, user_code_page>>
  PROVE  LoadInv'
<1>1. Progress(frame[s], hex_data, user_code_page)
  BY DEF LoadInv
<1>2. Progress(f, hex_data', user_code_page')
  BY <1>1 DEF Progress, LoadedLabels, Text
<1>3. frame[s].pc # "poll"
  BY DEF LoadedLabels
<1> QED BY <1>2, <1>3, LoadStep DEF LoadInv

LEMMA FrameFields ==
  ASSUME NEW f \in StackFrames
  PROVE  /\ \A label : [f EXCEPT !.pc = label].pc = label
         /\ \A label : [f EXCEPT !.pc = label].program = f.program
         /\ \A label : [f EXCEPT !.pc = label].i = f.i
         /\ \A label : [f EXCEPT !.pc = label].length = f.length
BY DEF StackFrames

LEMMA LoadCommand ==
  ASSUME TypeAhead = FALSE, LoadInv, IInv', NEW s \in Contexts, NEW name, NEW list,
         Command(s, name, list)
  PROVE  LoadInv'
<1> DEFINE f == [frame[s] EXCEPT !.pc = "read", !.program = name, !.args = list]
<1>1. frame[s] \in StackFrames /\ frame' = [frame EXCEPT ![s] = f] /\ frame[s].pc = "poll"
  BY DEF Command, LoadInv, IInv, At
<1>2. \A t \in Contexts : At(t, "poll")
  BY DEF Command
<1>3. f.pc = "read" /\ f.i = frame[s].i
  BY <1>1 DEF StackFrames
<1> HIDE DEF f
<1>4. Progress(f, hex_data', user_code_page')
  BY <1>1, <1>3 DEF LoadInv, Progress, LoadedLabels
<1>5. UNCHANGED <<hex_data, user_code_page>>
  BY DEF Command, shared
<1> QED BY <1>1, <1>2, <1>4, <1>5, LoadStep DEF LoadInv

(* The buffer has an even size: a text that is cut to fit it is odd.       *)
LEMMA LoadRead ==
  ASSUME TEXT % 2 = 0, LoadInv, IInv', NEW s \in Contexts, Read(s)
  PROVE  LoadInv'
<1> DEFINE text == TextOf(frame[s].program)
           n == IF Len(text) < TEXT THEN Len(text) ELSE TEXT - 1
           f == [frame[s] EXCEPT !.pc = "clear", !.length = n]
<1>1. /\ DOMAIN hex_data' = 0..(TEXT - 1) /\ user_code_page' = user_code_page
      /\ frame[s].pc = "read" /\ frame[s].i = 0 /\ frame[s] \in StackFrames
  BY DEF Read, LoadInv, IInv, At, Progress
<1>2. CASE Return(s)
  BY <1>1, <1>2, LoadReturns
<1>3. CASE ~Return(s)
  <2>1. /\ n > 0 /\ n % 2 = 0 /\ n \div 2 <= PAGE
        /\ frame' = [frame EXCEPT ![s] = f]
    BY <1>3, <1>1 DEF Read, LoadInv, IInv
  <2>2. text \in Seq(STRING)
    BY EmptySequences, LoaderAssumption DEF TextOf, Names
  <2>3. Len(text) \in Nat /\ n = Len(text) /\ n \in 1..(TEXT - 1)
    BY <2>1, <2>2, LoaderAssumption
  <2>4. frame[s].program \in DOMAIN Files
    <3>1. Len(<<>>) = 0
      BY EmptySequences
    <3> QED BY <2>1, <2>3, <3>1 DEF TextOf
  <2>5. \A k \in 0..(Len(text) - 1) : hex_data'[k] = text[k + 1]
    <3>1. hex_data' = [k \in DOMAIN hex_data |->
                         IF k < n THEN text[k + 1] ELSE IF k = n THEN NUL ELSE hex_data[k]]
      BY <2>4 DEF Read
    <3> HIDE DEF text, n
    <3>2. \A k \in 0..(Len(text) - 1) : k \in DOMAIN hex_data /\ k < n
      BY <2>3, LoaderAssumption DEF LoadInv
    <3> QED BY <3>1, <3>2
  <2> HIDE DEF n
  <2>6. /\ f.pc = "clear" /\ f.i = 0 /\ f.length = n /\ Text(f) = text
    BY <1>1 DEF StackFrames, Text
  <2> HIDE DEF f, text
  <2>7. WholeText(f) /\ Buffered(f, hex_data')
    BY <2>1, <2>3, <2>5, <2>6 DEF WholeText, Buffered
  <2>8. Progress(f, hex_data', user_code_page')
    BY <2>6, <2>7 DEF Progress, LoadedLabels
  <2> QED BY <1>1, <2>1, <2>8, LoadStep DEF LoadInv
<1> QED BY <1>2, <1>3

LEMMA LoadClear ==
  ASSUME LoadInv, IInv', NEW s \in Contexts, Clear(s)
  PROVE  LoadInv'
<1> DEFINE f == [frame[s] EXCEPT !.pc = "decode"]
<1>1. /\ frame[s] \in StackFrames /\ frame' = [frame EXCEPT ![s] = f] /\ frame[s].pc = "clear"
      /\ hex_data' = hex_data
      /\ user_code_page' = [a \in Addresses |-> <<0, 0>>]
  BY DEF Clear, LoadInv, IInv, At, Goto
<1>2. /\ f.pc = "decode" /\ f.i = frame[s].i /\ f.length = frame[s].length
      /\ Text(f) = Text(frame[s])
  BY <1>1, FrameFields DEF Text
<1>3. WholeText(frame[s]) /\ Buffered(frame[s], hex_data) /\ frame[s].i = 0
  BY <1>1 DEF LoadInv, Progress
<1> HIDE DEF f
<1>4. WholeText(f) /\ Buffered(f, hex_data')
  BY <1>1, <1>2, <1>3 DEF WholeText, Buffered
<1>5. DecodedTo(f, user_code_page')
  <2>1. f.i = 0 /\ f.i \in 0..(Len(Text(f)) \div 2)
    BY <1>2, <1>3, <1>4 DEF WholeText
  <2>2. \A a \in Addresses : a >= f.i /\ user_code_page'[a] = <<0, 0>>
    BY <1>1, <2>1, LoaderAssumption DEF Addresses
  <2> QED BY <2>1, <2>2 DEF DecodedTo
<1>6. Progress(f, hex_data', user_code_page')
  BY <1>2, <1>4, <1>5 DEF Progress, LoadedLabels
<1>7. user_code_page' \in [Addresses -> (0..15) \X (0..15)]
  BY <1>1
<1> QED BY <1>1, <1>6, <1>7, LoadStep DEF LoadInv

LEMMA LoadDecode ==
  ASSUME LoadInv, IInv', NEW s \in Contexts, Decode(s)
  PROVE  LoadInv'
<1> DEFINE i == frame[s].i
           high == hex_value(hex_data[2 * i])
           low == hex_value(hex_data[2 * i + 1])
           f == [frame[s] EXCEPT !.i = i + 1]
<1>1. /\ frame[s] \in StackFrames /\ frame[s].pc = "decode" /\ hex_data' = hex_data
      /\ i < frame[s].length \div 2
  BY DEF Decode, LoadInv, IInv, At
<1>2. CASE NotHex(high, low)
  <2>1. Return(s) /\ user_code_page' = user_code_page
    BY <1>2 DEF Decode
  <2> QED BY <1>1, <2>1, LoadReturns
<1>3. CASE ~NotHex(high, low)
  <2>1. /\ frame' = [frame EXCEPT ![s] = f]
        /\ user_code_page' = [user_code_page EXCEPT ![i] = <<high, low>>]
    BY <1>3 DEF Decode, LoadInv, IInv
  <2>2. high \in 0..15 /\ low \in 0..15
    <3>1. high \in -1..15 /\ low \in -1..15
      BY HexValueRange
    <3> HIDE DEF high, low
    <3> QED BY <1>3, <3>1 DEF NotHex
  <2>3. WholeText(frame[s]) /\ Buffered(frame[s], hex_data) /\ DecodedTo(frame[s], user_code_page)
    BY <1>1 DEF LoadInv, Progress
  <2>4. i \in Nat /\ i + 1 <= Len(Text(frame[s])) \div 2 /\ Len(Text(frame[s])) \in Nat
    BY <1>1, <2>3 DEF WholeText, DecodedTo
  <2>5. /\ i \in Addresses /\ 2 * i \in 0..(Len(Text(frame[s])) - 1)
        /\ 2 * i + 1 \in 0..(Len(Text(frame[s])) - 1)
    <3>1. Len(Text(frame[s])) \div 2 <= PAGE /\ 2 * (i + 1) <= Len(Text(frame[s]))
      BY <2>3, <2>4 DEF WholeText
    <3>2. i \in Addresses
      BY <2>3, <2>4, <3>1, LoaderAssumption DEF Addresses
    <3> QED BY <2>4, <3>1, <3>2
  <2>6. /\ high = hex_value(Text(frame[s])[2 * i + 1])
        /\ low = hex_value(Text(frame[s])[2 * i + 2])
    <3>1. /\ hex_data[2 * i] = Text(frame[s])[2 * i + 1]
          /\ hex_data[2 * i + 1] = Text(frame[s])[(2 * i + 1) + 1]
      BY <2>3, <2>5 DEF Buffered
    <3>2. (2 * i + 1) + 1 = 2 * i + 2
      BY <2>4
    <3> QED BY <3>1, <3>2
  <2>7. user_code_page' \in [Addresses -> (0..15) \X (0..15)]
    BY <2>1, <2>2 DEF LoadInv
  <2>8. /\ f.pc = "decode" /\ f.i = i + 1 /\ f.length = frame[s].length
        /\ Text(f) = Text(frame[s])
    BY <1>1 DEF StackFrames, Text
  <2> HIDE DEF f, high, low
  <2>9. WholeText(f) /\ Buffered(f, hex_data')
    BY <1>1, <2>3, <2>8 DEF WholeText, Buffered
  <2>10. DecodedTo(f, user_code_page')
    <3>1. f.i \in 0..(Len(Text(f)) \div 2)
      BY <2>4, <2>8
    <3>2. ASSUME NEW a \in Addresses
          PROVE  \/ /\ a < f.i
                    /\ hex_value(Text(f)[2 * a + 1]) >= 0 /\ hex_value(Text(f)[2 * a + 2]) >= 0
                    /\ user_code_page'[a] = <<hex_value(Text(f)[2 * a + 1]),
                                              hex_value(Text(f)[2 * a + 2])>>
                 \/ a >= f.i /\ user_code_page'[a] = <<0, 0>>
      <4>1. CASE a = i
        <5>1. user_code_page'[a] = <<high, low>> /\ a < f.i
          BY <2>1, <2>4, <2>8, <4>1 DEF LoadInv
        <5> QED BY <2>2, <2>6, <2>8, <4>1, <5>1
      <4>2. CASE a # i
        <5>1. user_code_page'[a] = user_code_page[a] /\ a \in Int
          BY <2>1, <4>2, LoaderAssumption DEF LoadInv, Addresses
        <5>2. (a < i \/ a >= i) /\ (a < i => a < f.i) /\ (a >= i => a >= f.i)
          BY <2>4, <2>8, <4>2, <5>1
        <5>3. \/ /\ a < i
                 /\ hex_value(Text(f)[2 * a + 1]) >= 0 /\ hex_value(Text(f)[2 * a + 2]) >= 0
                 /\ user_code_page[a] = <<hex_value(Text(f)[2 * a + 1]),
                                          hex_value(Text(f)[2 * a + 2])>>
              \/ a >= i /\ user_code_page[a] = <<0, 0>>
          BY <2>3, <2>8 DEF DecodedTo
        <5> QED BY <5>1, <5>2, <5>3
      <4> QED BY <4>1, <4>2
    <3> QED BY <3>1, <3>2 DEF DecodedTo
  <2>11. Progress(f, hex_data', user_code_page')
    BY <2>8, <2>9, <2>10 DEF Progress, LoadedLabels
  <2>12. DOMAIN hex_data' = 0..(TEXT - 1)
    BY <1>1 DEF LoadInv
  <2>13. frame[s].pc # "poll"
    BY <1>1
  <2> QED BY <2>1, <2>7, <2>11, <2>12, <2>13, LoadStep
<1> QED BY <1>2, <1>3

(* Every byte of the page is decoded or clear once the index is past the   *)
(* text.                                                                   *)
LEMMA ImageDecoded ==
  ASSUME NEW f, NEW page, WholeText(f), DecodedTo(f, page), f.i >= f.length \div 2
  PROVE  IsImage(page, Text(f))
<1> DEFINE n == Len(Text(f)) \div 2
<1>1. /\ f.i = n /\ n \in Nat /\ n <= PAGE /\ Len(Text(f)) = 2 * n /\ Len(Text(f)) \in Nat \ {0}
  BY DEF WholeText, DecodedTo
<1>2. Len(Text(f)) % 2 = 0
  BY DEF WholeText
<1> HIDE DEF n
<1>3. Text(f) # <<>>
  BY <1>1, EmptySequences
<1>4. ASSUME NEW k \in 1..Len(Text(f)) PROVE hex_value(Text(f)[k]) >= 0
  <2>1. PICK a \in 0..(n - 1) : k = 2 * a + 1 \/ k = 2 * a + 2
    <3>1. (k - 1) \div 2 \in 0..(n - 1)
      BY <1>1
    <3>2. k = 2 * ((k - 1) \div 2) + 1 \/ k = 2 * ((k - 1) \div 2) + 2
      BY <1>1
    <3> QED BY <3>1, <3>2
  <2>2. a \in Addresses /\ ~(a >= f.i)
    BY <1>1, <2>1, LoaderAssumption DEF Addresses
  <2>3. hex_value(Text(f)[2 * a + 1]) >= 0 /\ hex_value(Text(f)[2 * a + 2]) >= 0
    BY <2>2 DEF DecodedTo
  <2> QED BY <2>1, <2>3
<1>5. ASSUME NEW a \in Addresses
      PROVE  page[a] = IF 2 * a + 2 <= Len(Text(f))
                       THEN <<hex_value(Text(f)[2 * a + 1]), hex_value(Text(f)[2 * a + 2])>>
                       ELSE <<0, 0>>
  <2>1. a \in Nat /\ (2 * a + 2 <= Len(Text(f)) <=> a < f.i) /\ (a >= f.i <=> ~(a < f.i))
    BY <1>1, LoaderAssumption DEF Addresses
  <2> QED BY <2>1 DEF DecodedTo
<1> QED BY <1>2, <1>3, <1>4, <1>5 DEF IsImage

LEMMA LoadDecoded ==
  ASSUME LoadInv, IInv', NEW s \in Contexts, Decoded(s)
  PROVE  LoadInv'
<1> DEFINE f == [frame[s] EXCEPT !.pc = "arguments"]
<1>1. /\ frame[s] \in StackFrames /\ frame[s].pc = "decode" /\ hex_data' = hex_data
      /\ user_code_page' = user_code_page /\ frame[s].i >= frame[s].length \div 2
  BY DEF Decoded, LoadInv, IInv, At, shared
<1>2. CASE Return(s)
  BY <1>1, <1>2, LoadReturns
<1>3. CASE Goto(s, "arguments")
  <2>1. IsImage(user_code_page, Text(frame[s]))
    BY <1>1, ImageDecoded DEF LoadInv, Progress
  <2>2. f.pc = "arguments" /\ Text(f) = Text(frame[s])
    BY <1>1, FrameFields DEF Text
  <2>3. frame' = [frame EXCEPT ![s] = f]
    BY <1>3 DEF Goto, LoadInv, IInv
  <2> HIDE DEF f
  <2>4. Progress(f, hex_data', user_code_page')
    BY <1>1, <2>1, <2>2 DEF Progress
  <2> QED BY <1>1, <2>3, <2>4, LoadStep DEF LoadInv
<1> QED BY <1>2, <1>3 DEF Decoded

(* A step of a context whose load has ended.                               *)
LEMMA LoadAfter ==
  ASSUME LoadInv, IInv', NEW s \in Contexts,
         Arguments(s) \/ String(s) \/ PutVector(s) \/ Start(s) \/ Enter(s)
  PROVE  LoadInv'
<1>1. /\ frame[s] \in StackFrames /\ UNCHANGED <<hex_data, user_code_page>>
      /\ frame[s].pc \in LoadedLabels
  BY DEF Arguments, String, PutVector, Start, Enter, LoadInv, IInv, At, shared, LoadedLabels
<1>2. CASE Return(s)
  BY <1>1, <1>2, LoadReturns DEF LoadedLabels
<1>3. CASE ~Return(s)
  <2>1. CASE Arguments(s)
    <3> DEFINE n == Argc(s)
               f == [frame[s] EXCEPT !.pc = "string", !.i = n]
    <3>1. frame' = [frame EXCEPT ![s] = f]
      BY <1>3, <2>1 DEF Arguments, LoadInv, IInv
    <3> HIDE DEF n
    <3>2. f.pc = "string" /\ f.program = frame[s].program
      BY <1>1 DEF StackFrames
    <3> HIDE DEF f
    <3> QED BY <1>1, <3>1, <3>2, LoadedMoves DEF LoadedLabels
  <2>2. CASE String(s)
    <3> DEFINE p == frame[s].string_pos - (Len(Arg(s, frame[s].i)) + 1)
               i == frame[s].i - 1
               addresses == <<p>> \o frame[s].string_addresses
               f == [frame[s] EXCEPT !.string_pos = p, !.i = i, !.string_addresses = addresses]
    <3>1. frame' = [frame EXCEPT ![s] = f] /\ frame[s].pc = "string"
      BY <1>3, <2>2 DEF String, LoadInv, IInv, At
    <3> HIDE DEF p, i, addresses
    <3>2. f.pc = "string" /\ f.program = frame[s].program
      BY <1>1, <3>1 DEF StackFrames
    <3> HIDE DEF f
    <3> QED BY <1>1, <3>1, <3>2, LoadedMoves DEF LoadedLabels
  <2>3. CASE PutVector(s)
    <3> DEFINE base == VectorBase(s)
               f == [frame[s] EXCEPT !.pc = "start", !.user_esp = base]
    <3>1. frame' = [frame EXCEPT ![s] = f]
      BY <1>3, <2>3 DEF PutVector, LoadInv, IInv
    <3> HIDE DEF base
    <3>2. f.pc = "start" /\ f.program = frame[s].program
      BY <1>1 DEF StackFrames
    <3> HIDE DEF f
    <3> QED BY <1>1, <3>1, <3>2, LoadedMoves DEF LoadedLabels
  <2>4. ASSUME NEW label \in {"enter", "user"}, Goto(s, label)
        PROVE  LoadInv'
    <3> DEFINE f == [frame[s] EXCEPT !.pc = label]
    <3>1. frame' = [frame EXCEPT ![s] = f]
      BY <2>4 DEF Goto, LoadInv, IInv
    <3>2. f.pc = label /\ f.program = frame[s].program
      BY <1>1, FrameFields
    <3> HIDE DEF f
    <3> QED BY <1>1, <3>1, <3>2, LoadedMoves DEF LoadedLabels
  <2> QED BY <1>3, <2>1, <2>2, <2>3, <2>4 DEF Start, Enter
<1> QED BY <1>2, <1>3

LEMMA LoadInvStep ==
  ASSUME TypeAhead = FALSE, TEXT % 2 = 0
  PROVE  LoadInv /\ [Next]_vars => LoadInv'
<1> SUFFICES ASSUME LoadInv, [Next]_vars PROVE LoadInv'
  OBVIOUS
<1>1. IInv'
  BY LoaderStepInv DEF LoadInv
<1>2. ASSUME NEW s \in Contexts, Run(s) \/ Selftest(s) PROVE LoadInv'
  BY <1>1, <1>2, LoadCommand DEF Run, Selftest
<1>3. ASSUME NEW s \in Contexts, LoaderStep(s) PROVE LoadInv'
  <2>1. CASE Read(s)
    BY <1>1, <2>1, LoadRead
  <2>2. CASE Clear(s)
    BY <1>1, <2>2, LoadClear
  <2>3. CASE Decode(s)
    BY <1>1, <2>3, LoadDecode
  <2>4. CASE Decoded(s)
    BY <1>1, <2>4, LoadDecoded
  <2>5. CASE Arguments(s) \/ String(s) \/ PutVector(s) \/ Start(s) \/ Enter(s)
    BY <1>1, <2>5, LoadAfter
  <2>6. CASE Exit(s)
    BY <1>1, <2>6, LoadReturns DEF Exit, At
  <2> QED BY <1>3, <2>1, <2>2, <2>3, <2>4, <2>5, <2>6 DEF LoaderStep
<1>4. CASE UNCHANGED vars
  BY <1>1, <1>4 DEF vars, shared, LoadInv, OneLoads, At
<1> QED BY <1>2, <1>3, <1>4 DEF Next

LEMMA LoadInvInit == Init => LoadInv
<1> SUFFICES ASSUME Init PROVE LoadInv
  OBVIOUS
<1>1. Polling.pc = "poll" /\ Polling.i = 0
  BY DEF Polling
<1>2. IInv /\ \A s \in Contexts : frame[s] = Polling
  BY LoaderInit DEF Init
<1> HIDE DEF Polling
<1>3. user_code_page \in [Addresses -> (0..15) \X (0..15)]
  BY DEF Init
<1>4. OneLoads /\ DOMAIN hex_data = 0..(TEXT - 1)
  BY <1>1, <1>2 DEF OneLoads, At, Init
<1> QED BY <1>1, <1>2, <1>3, <1>4, PollingProgress DEF LoadInv

(* With one command at a time and a text buffer of an even size,           *)
(* a program that is entered is the whole of the file that was named,      *)
(* decoded, with zeros behind it: load_user_program leaves nothing of a    *)
(* failed load, a selftest or a longer program in the page.                *)
THEOREM LoaderRunsWhatWasAsked ==
  ASSUME TypeAhead = FALSE, TEXT % 2 = 0
  PROVE  Spec => []RunsWhatWasAsked
<1>1. LoadInv => RunsWhatWasAsked
  BY DEF LoadInv, Progress, LoadedLabels, RunsWhatWasAsked, At, Text
<1> QED BY <1>1, LoadInvInit, LoadInvStep, PTL DEF Spec

-----------------------------------------------------------------------------
(* The parser: characters, sizes and types.                                *)

LEMMA CharacterFacts ==
  /\ P!NUL \notin P!Chars /\ P!Blank \in P!Chars /\ P!Quotes \subseteq P!Chars
  /\ P!Blank \notin P!Quotes /\ P!NUL \notin P!Quotes /\ P!NUL # P!Blank
  /\ Letters \subseteq P!Chars /\ P!Blank \notin Letters
BY RunCommandAssumption DEF P!NUL, P!Chars, P!Blank, P!Quotes

LEMMA ParserSizes ==
  /\ COMMAND_LEN \in Nat \ {0} /\ MAX_COMMAND_ARGS \in Nat /\ MAX_COMMAND_ARG_LEN \in Nat \ {0}
BY RunCommandAssumption, LoaderAssumption

(* The character the parser looks at is NUL at the end of the line only.   *)
LEMMA Looking ==
  ASSUME input \in Seq(P!Chars), pos \in 1..(Len(input) + 1)
  PROVE  /\ Len(input) \in Nat
         /\ P!c = P!NUL <=> pos = Len(input) + 1
         /\ P!c # P!NUL => P!c = input[pos] /\ P!c \in P!Chars /\ pos + 1 \in 1..(Len(input) + 1)
<1>1. Len(input) \in Nat /\ \A k \in 1..Len(input) : input[k] \in P!Chars
  OBVIOUS
<1>2. pos <= Len(input) => pos \in 1..Len(input)
  BY <1>1
<1>3. ~(pos <= Len(input)) <=> pos = Len(input) + 1
  BY <1>1
<1> QED BY <1>1, <1>2, <1>3, CharacterFacts DEF P!c

LEMMA AppendOne ==
  ASSUME NEW S, NEW s \in Seq(S), NEW x \in S
  PROVE  /\ Append(s, x) \in Seq(S) /\ Len(Append(s, x)) = Len(s) + 1 /\ Len(s) \in Nat
         /\ Append(s, x)[Len(s) + 1] = x
         /\ \A k \in 1..Len(s) : Append(s, x)[k] = s[k]
OBVIOUS

LEMMA ReplaceLast ==
  ASSUME NEW S, NEW s \in Seq(S), s # <<>>, NEW x \in S
  PROVE  /\ Append(P!Front(s), x) \in Seq(S) /\ Len(Append(P!Front(s), x)) = Len(s)
         /\ Len(s) \in Nat \ {0} /\ P!Last(s) = s[Len(s)] /\ P!Last(s) \in S
         /\ Append(P!Front(s), x)[Len(s)] = x
         /\ \A k \in 1..(Len(s) - 1) : Append(P!Front(s), x)[k] = s[k]
<1>1. Len(s) \in Nat \ {0}
  OBVIOUS
<1>2. /\ P!Front(s) \in Seq(S) /\ Len(P!Front(s)) = Len(s) - 1
      /\ \A k \in 1..(Len(s) - 1) : P!Front(s)[k] = s[k]
  <2> DEFINE n == Len(s) - 1
  <2>1. n \in Nat /\ n <= Len(s) /\ P!Front(s) = SubSeq(s, 1, n)
    BY <1>1 DEF P!Front
  <2> HIDE DEF n
  <2>2. Len(SubSeq(s, 1, n)) = n /\ \A k \in 1..n : SubSeq(s, 1, n)[k] = s[k]
    BY <2>1
  <2>3. SubSeq(s, 1, n) \in Seq(S)
    BY <2>1
  <2> QED BY <2>1, <2>2, <2>3 DEF n
<1>3. P!Last(s) = s[Len(s)] /\ P!Last(s) \in S
  BY <1>1 DEF P!Last
<1> HIDE DEF P!Front
<1>4. Len(P!Front(s)) + 1 = Len(s)
  BY <1>1, <1>2
<1> QED BY <1>1, <1>2, <1>3, <1>4, AppendOne

(* Types of the parser; in an argument there is one to append to.          *)
ParserTypes ==
  P!TypeOK /\ input \in Seq(P!Chars) /\ (stage = "argument" => args # <<>>)

LEMMA StartTypes ==
  ASSUME ParserTypes, P!Start PROVE ParserTypes'
<1>1. pos \in 1..(Len(input) + 1) /\ input \in Seq(P!Chars)
  BY DEF ParserTypes, P!TypeOK
<1>2. pos' \in 1..(Len(input) + 1)
  BY <1>1, Looking, CharacterFacts DEF P!Start, P!Skip
<1>3. stage' \in {"start", "command", "done"}
  BY DEF P!Start
<1> QED BY <1>2, <1>3 DEF ParserTypes, P!TypeOK, P!Start

LEMMA CommandTypes ==
  ASSUME ParserTypes, P!Command PROVE ParserTypes'
<1>1. /\ pos \in 1..(Len(input) + 1) /\ input \in Seq(P!Chars)
      /\ command \in Seq(P!Chars) /\ Len(command) < COMMAND_LEN
  BY DEF ParserTypes, P!TypeOK
<1>2. /\ stage' \in {"command", "gap"}
      /\ UNCHANGED <<input, args, quote>>
  BY DEF P!Command
<1>3. CASE P!c \notin {P!Blank, P!NUL} /\ Len(command) < COMMAND_LEN - 1
  <2>1. P!c \in P!Chars /\ pos' \in 1..(Len(input) + 1) /\ command' = Append(command, P!c)
    BY <1>1, <1>3, Looking DEF P!Command, P!Skip
  <2>2. /\ command' \in Seq(P!Chars) /\ Len(command') = Len(command) + 1 /\ Len(command) \in Nat
    BY <1>1, <2>1, AppendOne
  <2>3. Len(command') < COMMAND_LEN
    BY <1>3, <2>2, ParserSizes
  <2> QED BY <1>2, <2>1, <2>2, <2>3 DEF ParserTypes, P!TypeOK
<1>4. CASE ~(P!c \notin {P!Blank, P!NUL} /\ Len(command) < COMMAND_LEN - 1)
  <2>1. UNCHANGED <<command, pos>>
    BY <1>4 DEF P!Command
  <2> QED BY <1>1, <1>2, <2>1 DEF ParserTypes, P!TypeOK
<1> QED BY <1>3, <1>4

LEMMA EmptyArgument == <<>> \in Seq(P!Chars) /\ Len(<<>>) = 0 /\ <<>> \in Seq(Seq(P!Chars))
OBVIOUS

LEMMA GapTypes ==
  ASSUME ParserTypes, P!Gap PROVE ParserTypes'
<1>1. /\ pos \in 1..(Len(input) + 1) /\ input \in Seq(P!Chars)
      /\ args \in Seq(Seq(P!Chars)) /\ Len(args) <= MAX_COMMAND_ARGS
      /\ \A n \in 1..Len(args) : Len(args[n]) < MAX_COMMAND_ARG_LEN
      /\ quote \in P!Quotes \cup {P!NUL}
  BY DEF ParserTypes, P!TypeOK
<1>2. UNCHANGED <<input, command>>
  BY DEF P!Gap
<1>3. CASE args' = args
  <2>1. args' # Append(args, <<>>)
    <3>1. Len(Append(args, <<>>)) = Len(args) + 1 /\ Len(args) \in Nat
      BY <1>1, EmptyArgument
    <3> QED BY <1>3, <3>1
  <2>2. stage' \in {"gap", "done"} /\ quote' = quote /\ (pos' = pos \/ (P!c = P!Blank /\ P!Skip))
    BY <2>1 DEF P!Gap
  <2>3. pos' \in 1..(Len(input) + 1)
    BY <1>1, <2>2, Looking, CharacterFacts DEF P!Skip
  <2> QED BY <1>1, <1>2, <1>3, <2>2, <2>3 DEF ParserTypes, P!TypeOK
<1>4. CASE args' # args
  <2>1. /\ P!c \notin {P!NUL, P!Blank} /\ Len(args) < MAX_COMMAND_ARGS
        /\ stage' = "argument" /\ args' = Append(args, <<>>)
        /\ IF P!c \in P!Quotes THEN quote' = P!c /\ P!Skip ELSE quote' = P!NUL /\ UNCHANGED pos
    BY <1>4 DEF P!Gap
  <2>2. quote' \in P!Quotes \cup {P!NUL} /\ pos' \in 1..(Len(input) + 1)
    BY <1>1, <2>1, Looking DEF P!Skip
  <2>3. /\ args' \in Seq(Seq(P!Chars)) /\ Len(args') = Len(args) + 1 /\ Len(args) \in Nat
        /\ args'[Len(args) + 1] = <<>> /\ \A n \in 1..Len(args) : args'[n] = args[n]
    BY <1>1, <2>1, EmptyArgument, AppendOne
  <2>4. \A n \in 1..Len(args') : Len(args'[n]) < MAX_COMMAND_ARG_LEN
    <3>1. \A n \in 1..Len(args') : n = Len(args) + 1 \/ n \in 1..Len(args)
      BY <2>3
    <3>2. Len(<<>>) < MAX_COMMAND_ARG_LEN
      BY EmptyArgument, ParserSizes
    <3> QED BY <1>1, <2>3, <3>1, <3>2
  <2>5. Len(args') <= MAX_COMMAND_ARGS /\ args' # <<>>
    BY <2>1, <2>3, EmptyArgument, ParserSizes
  <2> QED BY <1>1, <1>2, <2>1, <2>2, <2>3, <2>4, <2>5 DEF ParserTypes, P!TypeOK
<1> QED BY <1>3, <1>4

LEMMA ArgumentTypes ==
  ASSUME ParserTypes, P!Argument PROVE ParserTypes'
<1>1. /\ pos \in 1..(Len(input) + 1) /\ input \in Seq(P!Chars)
      /\ args \in Seq(Seq(P!Chars)) /\ Len(args) <= MAX_COMMAND_ARGS /\ args # <<>>
      /\ \A n \in 1..Len(args) : Len(args[n]) < MAX_COMMAND_ARG_LEN
  BY DEF ParserTypes, P!TypeOK, P!Argument
<1>2. UNCHANGED <<input, command, quote>> /\ stage' \in {"argument", "gap"}
  BY DEF P!Argument
<1>3. pos' \in 1..(Len(input) + 1)
  BY <1>1, Looking DEF P!Argument, P!AfterEnd, P!AfterCharacter
<1>4. CASE args' = args
  BY <1>1, <1>2, <1>3, <1>4 DEF ParserTypes, P!TypeOK
<1>5. CASE args' # args
  <2>1. P!c # P!NUL /\ P!Fits /\ args' = Append(P!Front(args), Append(P!Last(args), P!c))
    BY <1>5 DEF P!Argument
  <2>2. P!c \in P!Chars
    BY <1>1, <2>1, Looking
  <2>3. P!Last(args) \in Seq(P!Chars) /\ P!Last(args) = args[Len(args)] /\ Len(args) \in Nat \ {0}
    BY <1>1, EmptyArgument, ReplaceLast
  <2> DEFINE a == Append(P!Last(args), P!c)
  <2>4. a \in Seq(P!Chars) /\ Len(a) = Len(P!Last(args)) + 1 /\ Len(P!Last(args)) \in Nat
    BY <2>2, <2>3, AppendOne
  <2>5. Len(a) < MAX_COMMAND_ARG_LEN
    BY <2>1, <2>4, ParserSizes DEF P!Fits
  <2>6. args' = Append(P!Front(args), a)
    BY <2>1
  <2> HIDE DEF a
  <2>7. /\ args' \in Seq(Seq(P!Chars)) /\ Len(args') = Len(args) /\ args'[Len(args)] = a
        /\ \A k \in 1..(Len(args) - 1) : args'[k] = args[k]
    <3> DEFINE list == Append(P!Front(args), a)
    <3>1. /\ list \in Seq(Seq(P!Chars)) /\ Len(list) = Len(args) /\ list[Len(args)] = a
          /\ \A k \in 1..(Len(args) - 1) : list[k] = args[k]
      <4> DEFINE S == Seq(P!Chars)
      <4>1. args \in Seq(S) /\ a \in S /\ args # <<>>
        BY <1>1, <2>4
      <4> HIDE DEF S
      <4>2. /\ list \in Seq(S) /\ Len(list) = Len(args) /\ list[Len(args)] = a
            /\ \A k \in 1..(Len(args) - 1) : list[k] = args[k]
        BY <4>1, ReplaceLast
      <4> QED BY <4>2 DEF S
    <3>2. args' = list
      BY <2>6
    <3> QED BY <3>1, <3>2
  <2>8. \A n \in 1..Len(args') : Len(args'[n]) < MAX_COMMAND_ARG_LEN
    <3>1. \A n \in 1..Len(args') : n = Len(args) \/ n \in 1..(Len(args) - 1)
      BY <2>3, <2>7
    <3>2. \A n \in 1..(Len(args) - 1) : n \in 1..Len(args)
      BY <2>3
    <3> QED BY <1>1, <2>5, <2>7, <3>1, <3>2
  <2>9. args' # <<>> /\ Len(args') <= MAX_COMMAND_ARGS
    BY <1>1, <2>3, <2>7, EmptyArgument
  <2> QED BY <1>1, <1>2, <1>3, <2>7, <2>8, <2>9 DEF ParserTypes, P!TypeOK
<1> QED BY <1>4, <1>5

LEMMA ParserStep == ParserTypes /\ P!Next => ParserTypes'
BY StartTypes, CommandTypes, GapTypes, ArgumentTypes DEF P!Next

-----------------------------------------------------------------------------
(* Lines: the words of a line and what they say.                           *)

LEMMA Joined ==
  ASSUME NEW S, NEW s \in Seq(S), NEW t \in Seq(S)
  PROVE  /\ s \o t \in Seq(S) /\ Len(s) \in Nat /\ Len(t) \in Nat
         /\ Len(s \o t) = Len(s) + Len(t)
         /\ \A k \in 1..Len(s) : (s \o t)[k] = s[k]
         /\ \A k \in 1..Len(t) : (s \o t)[Len(s) + k] = t[k]
OBVIOUS

(* Word w says the argument a; q is its quote, or NUL.                     *)
Says(w, a, q) ==
  \/ q = P!NUL /\ ~P!NeedsQuote(a) /\ w = a
  \/ q \in P!Quotes \ P!ToSet(a) /\ w = <<q>> \o a \o <<q>>

(* ... and stands in the line l between the positions b and e.             *)
WordAt(l, b, e, a, q) ==
  \/ /\ q = P!NUL /\ ~P!NeedsQuote(a) /\ e = b + Len(a)
     /\ \A j \in 1..Len(a) : l[b + j] = a[j]
  \/ /\ q \in P!Quotes \ P!ToSet(a) /\ e = b + Len(a) + 2
     /\ l[b + 1] = q /\ l[e] = q
     /\ \A j \in 1..Len(a) : l[b + j + 1] = a[j]

(* Where a line has the command and the first n arguments of m: the        *)
(* command ends at E[0], argument k begins after B[k] and ends at E[k] and *)
(* is written with the quote Q[k].                                         *)
LaidOut(l, m, n, z, B, E, Q) ==
  /\ E[0] = z + Len(m.command)
  /\ \A p \in 1..z : l[p] = P!Blank
  /\ \A p \in 1..Len(m.command) : l[z + p] = m.command[p]
  /\ \A k \in 0..n : E[k] \in 0..Len(l)
  /\ E[n] = Len(l)
  /\ \A k \in 1..n :
       /\ B[k] \in Nat /\ E[k - 1] < B[k]
       /\ \A p \in (E[k - 1] + 1)..B[k] : l[p] = P!Blank
       /\ WordAt(l, B[k], E[k], m.args[k], Q[k])

Meaning(m) ==
  m.command \in Seq(Letters) /\ Len(m.command) > 0 /\ m.args \in Seq(Seq(P!Chars))

LEMMA QuotedWord ==
  ASSUME NEW a \in Seq(P!Chars), NEW q \in P!Quotes
  PROVE  LET w == <<q>> \o a \o <<q>>
         IN  /\ w \in Seq(P!Chars) /\ Len(w) = Len(a) + 2 /\ Len(a) \in Nat
             /\ w[1] = q /\ w[Len(w)] = q /\ \A j \in 1..Len(a) : w[j + 1] = a[j]
<1> DEFINE v == <<q>> \o a
           w == v \o <<q>>
<1>1. <<q>> \in Seq(P!Chars) /\ Len(<<q>>) = 1 /\ <<q>>[1] = q /\ Len(a) \in Nat
  BY CharacterFacts
<1>2. /\ v \in Seq(P!Chars) /\ Len(v) = Len(a) + 1 /\ v[1] = q
      /\ \A j \in 1..Len(a) : v[1 + j] = a[j]
  BY <1>1, Joined
<1> HIDE DEF v
<1>3. /\ w \in Seq(P!Chars) /\ Len(w) = Len(v) + 1 /\ w[Len(v) + 1] = q
      /\ \A j \in 1..Len(v) : w[j] = v[j]
  BY <1>1, <1>2, Joined
<1>4. \A j \in 1..Len(a) : j + 1 \in 1..Len(v) /\ 1 + j = j + 1
  BY <1>1, <1>2
<1>5. 1 \in 1..Len(v) /\ Len(w) = Len(a) + 2 /\ Len(v) + 1 = Len(w)
  BY <1>1, <1>2, <1>3
<1> HIDE DEF w
<1>6. /\ w \in Seq(P!Chars) /\ Len(w) = Len(a) + 2 /\ Len(a) \in Nat
      /\ w[1] = q /\ w[Len(w)] = q /\ \A j \in 1..Len(a) : w[j + 1] = a[j]
  BY <1>1, <1>2, <1>3, <1>4, <1>5
<1> QED BY <1>6 DEF w, v

(* A word stands where it stood when the line grows behind it.             *)
LEMMA WordStays ==
  ASSUME NEW l, NEW r, NEW n \in Nat, \A p \in 1..n : r[p] = l[p],
         NEW b \in Nat, NEW e \in 0..n, NEW a \in Seq(P!Chars), NEW q, WordAt(l, b, e, a, q)
  PROVE  WordAt(r, b, e, a, q)
<1>1. Len(a) \in Nat
  OBVIOUS
<1>2. CASE q = P!NUL /\ ~P!NeedsQuote(a) /\ e = b + Len(a) /\ \A j \in 1..Len(a) : l[b + j] = a[j]
  <2>1. \A j \in 1..Len(a) : b + j \in 1..n
    BY <1>1, <1>2
  <2> QED BY <1>2, <2>1 DEF WordAt
<1>3. CASE /\ q \in P!Quotes \ P!ToSet(a) /\ e = b + Len(a) + 2
           /\ l[b + 1] = q /\ l[e] = q
           /\ \A j \in 1..Len(a) : l[b + j + 1] = a[j]
  <2>1. b + 1 \in 1..n /\ e \in 1..n /\ \A j \in 1..Len(a) : b + j + 1 \in 1..n
    BY <1>1, <1>3
  <2> QED BY <1>3, <2>1 DEF WordAt
<1> QED BY <1>2, <1>3 DEF WordAt

LEMMA WordForward ==
  ASSUME NEW l, NEW b \in Nat, NEW e, NEW a \in Seq(P!Chars), NEW q, WordAt(l, b, e, a, q)
  PROVE  b <= e
<1>1. Len(a) \in Nat
  OBVIOUS
<1>2. e = b + Len(a) \/ e = b + Len(a) + 2
  BY DEF WordAt
<1> QED BY <1>1, <1>2

LEMMA WordAppended ==
  ASSUME NEW r, NEW b \in Nat, NEW w \in Seq(P!Chars), \A p \in 1..Len(w) : r[b + p] = w[p],
         NEW a \in Seq(P!Chars), NEW q, Says(w, a, q)
  PROVE  WordAt(r, b, b + Len(w), a, q)
<1>1. Len(a) \in Nat /\ Len(w) \in Nat
  OBVIOUS
<1>2. CASE q = P!NUL /\ ~P!NeedsQuote(a) /\ w = a
  BY <1>2 DEF WordAt
<1>3. CASE q \in P!Quotes \ P!ToSet(a) /\ w = <<q>> \o a \o <<q>>
  <2>1. /\ Len(w) = Len(a) + 2 /\ w[1] = q /\ w[Len(w)] = q /\ \A j \in 1..Len(a) : w[j + 1] = a[j]
    BY <1>3, QuotedWord
  <2>2. /\ 1 \in 1..Len(w) /\ Len(w) \in 1..Len(w) /\ \A j \in 1..Len(a) : j + 1 \in 1..Len(w)
        /\ b + Len(w) = b + Len(a) + 2 /\ \A j \in 1..Len(a) : b + (j + 1) = b + j + 1
    BY <1>1, <2>1
  <2>3. /\ r[b + 1] = q /\ r[b + Len(w)] = q
        /\ \A j \in 1..Len(a) : r[b + j + 1] = a[j]
    BY <2>1, <2>2
  <2> QED BY <1>3, <2>2, <2>3 DEF WordAt
<1> QED BY <1>2, <1>3 DEF Says

LEMMA OneMoreArgument ==
  ASSUME NEW m, Meaning(m), NEW n \in Nat, n < Len(m.args), NEW l \in Seq(P!Chars),
         NEW z \in Nat, NEW B, NEW E, NEW Q, LaidOut(l, m, n, z, B, E, Q),
         NEW g \in Seq(P!Chars), Len(g) > 0, \A p \in 1..Len(g) : g[p] = P!Blank,
         NEW w \in Seq(P!Chars), NEW q, Says(w, m.args[n + 1], q)
  PROVE  \E C, F, R : LaidOut(l \o g \o w, m, n + 1, z, C, F, R)
<1> DEFINE h == l \o g
           r == h \o w
           C == [k \in 1..(n + 1) |-> IF k = n + 1 THEN Len(l) + Len(g) ELSE B[k]]
           F == [k \in 0..(n + 1) |-> IF k = n + 1 THEN Len(r) ELSE E[k]]
           R == [k \in 1..(n + 1) |-> IF k = n + 1 THEN q ELSE Q[k]]
<1>1. /\ h \in Seq(P!Chars) /\ Len(h) = Len(l) + Len(g) /\ Len(l) \in Nat /\ Len(g) \in Nat
      /\ \A p \in 1..Len(l) : h[p] = l[p]
      /\ \A p \in 1..Len(g) : h[Len(l) + p] = P!Blank
  BY Joined
<1> HIDE DEF h
<1>2. /\ Len(r) = Len(h) + Len(w) /\ Len(w) \in Nat
      /\ \A p \in 1..Len(h) : r[p] = h[p]
      /\ \A p \in 1..Len(w) : r[Len(h) + p] = w[p]
  <2>1. h \in Seq(P!Chars)
    BY <1>1
  <2> QED BY <2>1, Joined
<1>3. /\ Len(r) \in Nat /\ Len(r) >= Len(l)
      /\ \A p \in 1..Len(l) : p \in 1..Len(h)
      /\ \A p \in 1..Len(g) : Len(l) + p \in 1..Len(h)
  BY <1>1, <1>2
<1>4. /\ \A p \in 1..Len(l) : r[p] = l[p]
      /\ \A p \in 1..Len(g) : r[Len(l) + p] = P!Blank
  BY <1>1, <1>2, <1>3
<1>5. /\ \A k \in 0..n : k # n + 1 /\ k \in 0..(n + 1)
      /\ \A k \in 1..n : k # n + 1 /\ k \in 1..(n + 1) /\ k - 1 \in 0..n
      /\ \A k \in 1..(n + 1) : k \in 1..n \/ k = n + 1
      /\ \A k \in 0..(n + 1) : k \in 0..n \/ k = n + 1
      /\ n + 1 \in 1..(n + 1) /\ n + 1 \in 0..(n + 1) /\ (n + 1) - 1 = n /\ n \in 0..n
      /\ n + 1 \in 1..Len(m.args) /\ \A k \in 1..n : k \in 1..Len(m.args)
  BY DEF Meaning
<1>6. /\ \A k \in 0..n : F[k] = E[k]
      /\ \A k \in 1..n : C[k] = B[k] /\ R[k] = Q[k] /\ F[k - 1] = E[k - 1] /\ F[k] = E[k]
      /\ C[n + 1] = Len(h) /\ F[n + 1] = Len(r) /\ R[n + 1] = q
  BY <1>1, <1>5
<1> HIDE DEF r, C, F, R
<1>7. /\ m.command \in Seq(Letters) /\ Len(m.command) \in Nat
      /\ \A k \in 1..Len(m.args) : m.args[k] \in Seq(P!Chars)
  BY DEF Meaning
<1>8. F[0] = z + Len(m.command) /\ E[0] \in 0..Len(l) /\ 0 \in 0..n
  BY <1>6 DEF LaidOut
<1>9. /\ \A p \in 1..z : r[p] = P!Blank
      /\ \A p \in 1..Len(m.command) : r[z + p] = m.command[p]
  <2>1. z + Len(m.command) <= Len(l)
    BY <1>8, <1>1 DEF LaidOut
  <2>2. PICK s, t : s = Len(m.command) /\ t = Len(l)
    OBVIOUS
  <2>3. s \in Nat /\ t \in Nat /\ z \in Nat /\ z + s <= t
    BY <1>1, <1>7, <2>1, <2>2
  <2>4. /\ \A p \in 1..z : p \in 1..t
        /\ \A p \in 1..s : z + p \in 1..t
    BY ONLY <2>3
  <2> QED BY <1>4, <2>2, <2>4 DEF LaidOut
<1>10. \A k \in 0..(n + 1) : F[k] \in 0..Len(r)
  <2>1. \A k \in 0..n : F[k] \in 0..Len(r)
    <3> SUFFICES ASSUME NEW k \in 0..n PROVE F[k] \in 0..Len(r)
      OBVIOUS
    <3>1. F[k] \in 0..Len(l)
      BY <1>6 DEF LaidOut
    <3> QED BY <1>1, <1>3, <3>1
  <2> QED BY <1>3, <1>5, <1>6, <2>1
<1>11. ASSUME NEW k \in 1..n
       PROVE  /\ C[k] \in Nat /\ F[k - 1] < C[k]
              /\ \A p \in (F[k - 1] + 1)..C[k] : r[p] = P!Blank
              /\ WordAt(r, C[k], F[k], m.args[k], R[k])
  <2>1. /\ B[k] \in Nat /\ E[k - 1] < B[k] /\ E[k] \in 0..Len(l) /\ E[k - 1] \in 0..Len(l)
        /\ \A p \in (E[k - 1] + 1)..B[k] : l[p] = P!Blank
        /\ WordAt(l, B[k], E[k], m.args[k], Q[k])
    BY <1>5 DEF LaidOut
  <2>2. m.args[k] \in Seq(P!Chars) /\ Len(m.args[k]) \in Nat
    BY <1>5, <1>7
  <2>3. WordAt(r, B[k], E[k], m.args[k], Q[k])
    BY <1>1, <1>4, <2>1, <2>2, WordStays
  <2>4. B[k] <= E[k]
    BY <2>1, <2>2, WordForward
  <2>5. \A p \in (E[k - 1] + 1)..B[k] : p \in 1..Len(l)
    <3>1. PICK d, b, e, t : d = E[k - 1] /\ b = B[k] /\ e = E[k] /\ t = Len(l)
      OBVIOUS
    <3>2. d \in 0..t /\ b \in Nat /\ e \in 0..t /\ t \in Nat /\ b <= e
      BY <1>1, <2>1, <2>4, <3>1
    <3>3. \A p \in (d + 1)..b : p \in 1..t
      BY ONLY <3>2
    <3> QED BY ONLY <3>1, <3>3
  <2> QED BY <1>4, <1>6, <2>1, <2>3, <2>5
<1>12. /\ C[n + 1] \in Nat /\ F[n] < C[n + 1]
       /\ \A p \in (F[n] + 1)..C[n + 1] : r[p] = P!Blank
       /\ WordAt(r, C[n + 1], F[n + 1], m.args[n + 1], R[n + 1])
  <2>1. F[n] = Len(l)
    BY <1>5, <1>6 DEF LaidOut
  <2>2. ASSUME NEW p \in (Len(l) + 1)..Len(h) PROVE r[p] = P!Blank
    <3>1. p - Len(l) \in 1..Len(g) /\ Len(l) + (p - Len(l)) = p
      BY <1>1
    <3> QED BY <1>4, <3>1
  <2>3. WordAt(r, Len(h), Len(h) + Len(w), m.args[n + 1], q)
    <3>1. Len(h) \in Nat /\ m.args[n + 1] \in Seq(P!Chars)
      BY <1>1, <1>5, <1>7
    <3> QED BY <1>2, <3>1, WordAppended
  <2> QED BY <1>1, <1>2, <1>6, <2>1, <2>2, <2>3
<1>13. LaidOut(r, m, n + 1, z, C, F, R)
  <2>1. \A k \in 1..(n + 1) :
          /\ C[k] \in Nat /\ F[k - 1] < C[k]
          /\ \A p \in (F[k - 1] + 1)..C[k] : r[p] = P!Blank
          /\ WordAt(r, C[k], F[k], m.args[k], R[k])
    BY <1>5, <1>11, <1>12
  <2> QED BY <1>6, <1>8, <1>9, <1>10, <2>1 DEF LaidOut
<1> QED BY <1>13 DEF r, h

-----------------------------------------------------------------------------
(* Every line that is written for a meaning is laid out: blanks, the       *)
(* command, and each argument behind a gap.                                *)

(* The lines after each argument.                                          *)
MoreLines(L, m, n, style) ==
  {l \o gap \o w : l \in L, gap \in P!Gaps(style), w \in P!Ways(m.args[n], style)}

LinesUpto(f, N, m, style) ==
  f = [n \in 0..N |-> IF n = 0 THEN {m.command} ELSE MoreLines(f[n - 1], m, n, style)]

LEMMA LeastNumber ==
  ASSUME NEW T, T \subseteq Nat, T # {}
  PROVE  \E x \in T : \A y \in T : x <= y
<1> DEFINE R == OpToRel(<, Nat)
<1>1. IsWellFoundedOn(R, Nat)
  BY NatLessThanWellFounded
<1>2. \A x, y \in Nat : x < y => <<x, y>> \in R
  BY DEF OpToRel
<1> HIDE DEF R
<1>3. PICK x \in T : \A y \in T : ~(<<y, x>> \in R)
  BY <1>1, WFMin
<1>4. \A y \in T : x \in Nat /\ y \in Nat /\ ~(y < x)
  BY <1>2, <1>3
<1> QED BY <1>3, <1>4

LEMMA LinesSome ==
  ASSUME NEW m, NEW style, NEW N \in Nat
  PROVE  \E f : LinesUpto(f, N, m, style)
<1> DEFINE T == {k \in Nat : ~\E f : LinesUpto(f, k, m, style)}
<1>1. \E f : LinesUpto(f, 0, m, style)
  <2>1. 0..0 = {0}
    OBVIOUS
  <2> DEFINE f == [n \in 0..0 |-> {m.command}]
  <2>2. LinesUpto(f, 0, m, style)
    BY <2>1 DEF LinesUpto
  <2> QED BY <2>2
<1>2. ASSUME NEW k \in Nat, NEW g, LinesUpto(g, k, m, style)
      PROVE  \E f : LinesUpto(f, k + 1, m, style)
  <2> DEFINE f == [n \in 0..(k + 1) |-> IF n = k + 1 THEN MoreLines(g[k], m, n, style) ELSE g[n]]
  <2>1. \A n \in 0..k : f[n] = g[n]
    OBVIOUS
  <2>2. \A n \in 0..k : g[n] = IF n = 0 THEN {m.command} ELSE MoreLines(g[n - 1], m, n, style)
    BY <1>2 DEF LinesUpto
  <2>3. f[k + 1] = MoreLines(f[k], m, k + 1, style)
    BY <2>1
  <2>4. ASSUME NEW n \in 0..(k + 1)
        PROVE  f[n] = IF n = 0 THEN {m.command} ELSE MoreLines(f[n - 1], m, n, style)
    <3>1. CASE n = k + 1
      BY <2>3, <3>1
    <3>2. CASE n \in 0..k
      <4>1. n # 0 => n - 1 \in 0..k
        BY <3>2
      <4> HIDE DEF f
      <4> QED BY <2>1, <2>2, <3>2, <4>1
    <3> QED BY <3>1, <3>2
  <2>5. f = [n \in 0..(k + 1) |-> f[n]]
    OBVIOUS
  <2> HIDE DEF f
  <2>6. LinesUpto(f, k + 1, m, style)
    BY <2>4, <2>5 DEF LinesUpto
  <2> QED BY <2>6
<1>3. T = {}
  <2> SUFFICES ASSUME T # {} PROVE FALSE
    OBVIOUS
  <2>0. T \subseteq Nat
    OBVIOUS
  <2>1. PICK k \in T : \A j \in T : k <= j
    <3> HIDE DEF T
    <3> QED BY <2>0, LeastNumber
  <2>2. k \in Nat /\ k # 0
    BY <1>1, <2>1
  <2>3. k - 1 \in Nat /\ k - 1 \notin T
    BY <2>1, <2>2
  <2>4. PICK g : LinesUpto(g, k - 1, m, style)
    BY <2>3
  <2>5. (k - 1) + 1 = k
    BY <2>2
  <2> QED BY <1>2, <2>1, <2>3, <2>4, <2>5
<1> QED BY <1>3

LEMMA LinesLast ==
  ASSUME NEW m, NEW style, Len(m.args) \in Nat
  PROVE  \E f : LinesUpto(f, Len(m.args), m, style) /\ P!Lines(m, style) = f[Len(m.args)]
<1> DEFINE f == CHOOSE g : LinesUpto(g, Len(m.args), m, style)
<1>1. LinesUpto(f, Len(m.args), m, style)
  BY LinesSome
<1>2. P!Lines(m, style) = f[Len(m.args)]
  BY DEF P!Lines, LinesUpto, MoreLines
<1> QED BY <1>1, <1>2

LEMMA SpacesAreBlank ==
  ASSUME NEW n \in Nat
  PROVE  /\ P!Spaces(n) \in Seq(P!Chars) /\ Len(P!Spaces(n)) = n
         /\ \A p \in 1..n : P!Spaces(n)[p] = P!Blank
BY CharacterFacts DEF P!Spaces

LEMMA GapsAreBlank ==
  ASSUME NEW style, NEW g \in P!Gaps(style)
  PROVE  g \in Seq(P!Chars) /\ Len(g) > 0 /\ \A p \in 1..Len(g) : g[p] = P!Blank
<1>1. PICK n \in IF style = "plain" THEN {1} ELSE {1, 2} : g = P!Spaces(n)
  BY DEF P!Gaps
<1>2. n \in Nat /\ n > 0
  BY <1>1
<1> QED BY <1>1, <1>2, SpacesAreBlank

LEMMA WaysSay ==
  ASSUME NEW a \in Seq(P!Chars), NEW style, NEW w \in P!Ways(a, style)
  PROVE  w \in Seq(P!Chars) /\ \E q : Says(w, a, q)
<1>1. CASE w \in P!Quoted(a)
  <2>1. PICK q \in P!Quotes \ P!ToSet(a) : w = <<q>> \o a \o <<q>>
    BY <1>1 DEF P!Quoted
  <2> QED BY <2>1, QuotedWord DEF Says
<1>2. CASE w = a /\ ~P!NeedsQuote(a)
  BY <1>2 DEF Says
<1> QED BY <1>1, <1>2 DEF P!Ways

(* Line x goes on from line y with argument n.                             *)
GoesOn(x, y, m, n, style) ==
  \E g \in P!Gaps(style), w \in P!Ways(m.args[n], style) : x = y \o g \o w

LEMMA AMoreLine ==
  ASSUME NEW L, NEW m, NEW n, NEW style, NEW x \in MoreLines(L, m, n, style)
  PROVE  \E y \in L : GoesOn(x, y, m, n, style)
BY DEF MoreLines, GoesOn

LEMMA ALineFor ==
  ASSUME NEW m, NEW l \in P!LinesFor(m)
  PROVE  \E s \in P!Indents, x \in P!Lines(m, "free") : l = s \o x
BY DEF P!LinesFor

LEMMA LinesLaidOut ==
  ASSUME NEW m, Meaning(m), NEW style, NEW l \in P!Lines(m, style)
  PROVE  l \in Seq(P!Chars) /\ \E B, E, Q : LaidOut(l, m, Len(m.args), 0, B, E, Q)
<1> DEFINE Fine(n, x) == x \in Seq(P!Chars) /\ \E B, E, Q : LaidOut(x, m, n, 0, B, E, Q)
<1>1. /\ m.command \in Seq(Letters) /\ Len(m.command) \in Nat
      /\ m.args \in Seq(Seq(P!Chars)) /\ Len(m.args) \in Nat
  BY DEF Meaning
<1>2. PICK f : LinesUpto(f, Len(m.args), m, style) /\ P!Lines(m, style) = f[Len(m.args)]
  BY <1>1, LinesLast
<1>3. \A n \in 0..Len(m.args) :
        f[n] = IF n = 0 THEN {m.command} ELSE MoreLines(f[n - 1], m, n, style)
  BY <1>2 DEF LinesUpto
<1> DEFINE T == {n \in 0..Len(m.args) : \E x \in f[n] : ~Fine(n, x)}
<1>4. Fine(0, m.command)
  <2> DEFINE E == [k \in {0} |-> Len(m.command)]
  <2>1. m.command \in Seq(P!Chars)
    BY <1>1, CharacterFacts
  <2>2. E[0] = Len(m.command) /\ 0..0 = {0} /\ 1..0 = {}
    BY <1>1
  <2> HIDE DEF E
  <2>3. \A p \in 1..Len(m.command) : 0 + p = p
    BY <1>1
  <2>4. 0 + Len(m.command) = Len(m.command) /\ Len(m.command) \in 0..Len(m.command)
    BY <1>1
  <2>5. LaidOut(m.command, m, 0, 0, <<>>, E, <<>>)
    BY <2>2, <2>3, <2>4 DEF LaidOut
  <2> QED BY <2>1, <2>5
<1>5. ASSUME NEW n \in 1..Len(m.args), \A x \in f[n - 1] : Fine(n - 1, x), NEW x \in f[n]
      PROVE  Fine(n, x)
  <2>1. x \in MoreLines(f[n - 1], m, n, style)
    BY <1>1, <1>3
  <2>0. PICK y \in f[n - 1] : GoesOn(x, y, m, n, style)
    BY ONLY <2>1, AMoreLine
  <2>2. PICK g \in P!Gaps(style), w \in P!Ways(m.args[n], style) : x = y \o g \o w
    BY ONLY <2>0 DEF GoesOn
  <2>3. g \in Seq(P!Chars) /\ Len(g) > 0 /\ \A p \in 1..Len(g) : g[p] = P!Blank
    BY GapsAreBlank
  <2>4. m.args[n] \in Seq(P!Chars)
    BY <1>1
  <2>5. PICK q : Says(w, m.args[n], q)
    BY <2>4, WaysSay
  <2>6. w \in Seq(P!Chars)
    BY <2>4, WaysSay
  <2>7. y \in Seq(P!Chars) /\ \E B, E, Q : LaidOut(y, m, n - 1, 0, B, E, Q)
    BY <1>5
  <2>8. PICK B, E, Q : LaidOut(y, m, n - 1, 0, B, E, Q)
    BY <2>7
  <2>9. n - 1 \in Nat /\ n - 1 < Len(m.args) /\ (n - 1) + 1 = n
    BY <1>1
  <2> DEFINE k == n - 1
  <2>10. k \in Nat /\ k < Len(m.args) /\ k + 1 = n /\ LaidOut(y, m, k, 0, B, E, Q)
         /\ Says(w, m.args[k + 1], q)
    BY <2>5, <2>8, <2>9
  <2> HIDE DEF k
  <2>11. \E C, F, R : LaidOut(y \o g \o w, m, k + 1, 0, C, F, R)
    BY <2>3, <2>6, <2>7, <2>10, OneMoreArgument
  <2>12. x \in Seq(P!Chars)
    <3>1. y \o g \in Seq(P!Chars)
      BY <2>3, <2>7, Joined
    <3> QED BY <2>2, <2>6, <3>1, Joined
  <2> QED BY <2>2, <2>10, <2>11, <2>12
<1> HIDE DEF Fine
<1>6. T = {}
  <2> SUFFICES ASSUME T # {} PROVE FALSE
    OBVIOUS
  <2>0. T \subseteq Nat
    OBVIOUS
  <2>1. PICK k \in T : \A j \in T : k <= j
    <3> HIDE DEF T
    <3> QED BY <2>0, LeastNumber
  <2>2. k \in 1..Len(m.args) /\ k - 1 \in 0..Len(m.args)
    <3>1. f[0] = {m.command}
      BY <1>1, <1>3
    <3>2. 0 \notin T
      BY <1>4, <3>1
    <3> QED BY <1>1, <2>1, <3>2
  <2>3. k - 1 \notin T
    BY <2>1, <2>2
  <2>4. \A x \in f[k - 1] : Fine(k - 1, x)
    BY <2>2, <2>3
  <2> QED BY <1>5, <2>1, <2>2, <2>4
<1>7. Len(m.args) \in 0..Len(m.args) /\ l \in f[Len(m.args)]
  BY <1>1, <1>2
<1>8. Fine(Len(m.args), l)
  BY <1>6, <1>7
<1> QED BY <1>8 DEF Fine

(* Blanks in front of a line move everything.                              *)
LEMMA WordMoves ==
  ASSUME NEW l, NEW r, NEW n \in Nat, NEW d \in Nat, \A p \in 1..n : r[d + p] = l[p],
         NEW b \in Nat, NEW e \in 0..n, NEW a \in Seq(P!Chars), NEW q, WordAt(l, b, e, a, q)
  PROVE  WordAt(r, d + b, d + e, a, q)
<1>1. Len(a) \in Nat
  OBVIOUS
<1>2. CASE q = P!NUL /\ ~P!NeedsQuote(a) /\ e = b + Len(a) /\ \A j \in 1..Len(a) : l[b + j] = a[j]
  <2>1. \A j \in 1..Len(a) : b + j \in 1..n /\ d + (b + j) = (d + b) + j
    BY <1>1, <1>2
  <2>2. d + e = (d + b) + Len(a) /\ \A j \in 1..Len(a) : r[(d + b) + j] = a[j]
    BY <1>1, <1>2, <2>1
  <2> QED BY <1>2, <2>2 DEF WordAt
<1>3. CASE /\ q \in P!Quotes \ P!ToSet(a) /\ e = b + Len(a) + 2
           /\ l[b + 1] = q /\ l[e] = q
           /\ \A j \in 1..Len(a) : l[b + j + 1] = a[j]
  <2>1. /\ b + 1 \in 1..n /\ e \in 1..n /\ d + (b + 1) = (d + b) + 1
        /\ \A j \in 1..Len(a) : b + j + 1 \in 1..n /\ d + (b + j + 1) = (d + b) + j + 1
    BY <1>1, <1>3
  <2>2. r[(d + b) + 1] = q /\ r[d + e] = q /\ \A j \in 1..Len(a) : r[(d + b) + j + 1] = a[j]
    BY <1>3, <2>1
  <2>3. d + e = (d + b) + Len(a) + 2
    BY <1>1, <1>3
  <2> QED BY <1>3, <2>2, <2>3 DEF WordAt
<1> QED BY <1>2, <1>3 DEF WordAt

(* The line says m.                                                        *)
Written(l, m) == \E z \in Nat : \E B, E, Q : LaidOut(l, m, Len(m.args), z, B, E, Q)

LEMMA BlanksInFront ==
  ASSUME NEW l \in Seq(P!Chars), NEW d \in Nat
  PROVE  LET r == P!Spaces(d) \o l
         IN  /\ r \in Seq(P!Chars) /\ Len(l) \in Nat /\ Len(r) = d + Len(l)
             /\ \A p \in 1..d : r[p] = P!Blank
             /\ \A p \in 1..Len(l) : r[d + p] = l[p]
<1> DEFINE g == P!Spaces(d)
<1>0. g \in Seq(P!Chars)
  BY SpacesAreBlank
<1>1. Len(g) = d /\ \A p \in 1..d : g[p] = P!Blank
  BY SpacesAreBlank
<1> HIDE DEF g
<1>2. /\ g \o l \in Seq(P!Chars) /\ Len(l) \in Nat /\ Len(g \o l) = Len(g) + Len(l)
      /\ \A p \in 1..Len(g) : (g \o l)[p] = g[p]
      /\ \A p \in 1..Len(l) : (g \o l)[Len(g) + p] = l[p]
  BY <1>0, Joined
<1>3. /\ g \o l \in Seq(P!Chars) /\ Len(l) \in Nat /\ Len(g \o l) = d + Len(l)
      /\ \A p \in 1..d : (g \o l)[p] = P!Blank
      /\ \A p \in 1..Len(l) : (g \o l)[d + p] = l[p]
  BY <1>1, <1>2
<1> QED BY <1>3 DEF g

LEMMA LaidOutBehindBlanks ==
  ASSUME NEW m, Meaning(m), NEW l \in Seq(P!Chars), NEW B, NEW E, NEW Q,
         LaidOut(l, m, Len(m.args), 0, B, E, Q), NEW d \in Nat
  PROVE  P!Spaces(d) \o l \in Seq(P!Chars) /\ Written(P!Spaces(d) \o l, m)
<1> DEFINE r == P!Spaces(d) \o l
           N == Len(m.args)
           C == [k \in 1..N |-> d + B[k]]
           F == [k \in 0..N |-> d + E[k]]
<1>1. /\ r \in Seq(P!Chars) /\ Len(l) \in Nat /\ Len(r) = d + Len(l)
      /\ \A p \in 1..d : r[p] = P!Blank
      /\ \A p \in 1..Len(l) : r[d + p] = l[p]
  BY BlanksInFront
<1>2. /\ m.command \in Seq(Letters) /\ Len(m.command) \in Nat /\ N \in Nat
      /\ \A k \in 1..N : m.args[k] \in Seq(P!Chars)
  BY DEF Meaning
<1> HIDE DEF r, N
<1>3. LaidOut(l, m, N, 0, B, E, Q)
  BY DEF N
<1>4. /\ \A k \in 1..N : C[k] = d + B[k] /\ F[k - 1] = d + E[k - 1] /\ F[k] = d + E[k]
      /\ \A k \in 0..N : F[k] = d + E[k]
      /\ 0 \in 0..N /\ N \in 0..N
  BY <1>2
<1> HIDE DEF C, F
<1>5. F[0] = d + Len(m.command) /\ F[N] = Len(r)
  BY <1>1, <1>2, <1>3, <1>4 DEF LaidOut
<1>6. \A p \in 1..Len(m.command) : r[d + p] = m.command[p]
  <2>1. 0 + Len(m.command) <= Len(l) /\ \A p \in 1..Len(m.command) : l[0 + p] = m.command[p]
    BY <1>3, <1>4, <1>1 DEF LaidOut
  <2>2. \A p \in 1..Len(m.command) : p \in 1..Len(l) /\ 0 + p = p
    BY <1>1, <1>2, <2>1
  <2> QED BY <1>1, <2>1, <2>2
<1>7. \A k \in 0..N : F[k] \in 0..Len(r)
  <2> SUFFICES ASSUME NEW k \in 0..N PROVE F[k] \in 0..Len(r)
    OBVIOUS
  <2>1. E[k] \in 0..Len(l) /\ F[k] = d + E[k]
    BY <1>3, <1>4 DEF LaidOut
  <2> QED BY <1>1, <2>1
<1>8. ASSUME NEW k \in 1..N
      PROVE  /\ C[k] \in Nat /\ F[k - 1] < C[k]
             /\ \A p \in (F[k - 1] + 1)..C[k] : r[p] = P!Blank
             /\ WordAt(r, C[k], F[k], m.args[k], Q[k])
  <2>1. k - 1 \in 0..N /\ k \in 0..N
    BY <1>2
  <2>2. /\ B[k] \in Nat /\ E[k - 1] < B[k] /\ E[k] \in 0..Len(l) /\ E[k - 1] \in 0..Len(l)
        /\ \A p \in (E[k - 1] + 1)..B[k] : l[p] = P!Blank
        /\ WordAt(l, B[k], E[k], m.args[k], Q[k])
    BY <1>3, <2>1 DEF LaidOut
  <2>3. /\ C[k] = d + B[k] /\ F[k - 1] = d + E[k - 1] /\ F[k] = d + E[k]
        /\ m.args[k] \in Seq(P!Chars)
    BY <1>2, <1>4
  <2>4. WordAt(r, d + B[k], d + E[k], m.args[k], Q[k])
    BY <1>1, <2>2, <2>3, WordMoves
  <2>5. B[k] <= E[k]
    BY <2>2, <2>3, WordForward
  <2>6. ASSUME NEW p \in (F[k - 1] + 1)..C[k] PROVE r[p] = P!Blank
    <3> DEFINE x == E[k - 1]
               y == B[k]
    <3>1. x \in Nat /\ y \in Nat /\ y <= Len(l) /\ p \in (d + x + 1)..(d + y)
      BY <1>1, <2>2, <2>3, <2>5
    <3>2. p - d \in (x + 1)..y /\ p - d \in 1..Len(l) /\ d + (p - d) = p
      <4> HIDE DEF x, y
      <4> QED BY <1>1, <3>1
    <3> QED BY <1>1, <2>2, <3>2
  <2>7. C[k] \in Nat /\ F[k - 1] < C[k]
    BY <2>2, <2>3
  <2> QED BY <2>3, <2>4, <2>6, <2>7
<1>9. LaidOut(r, m, N, d, C, F, Q)
  BY <1>1, <1>5, <1>6, <1>7, <1>8 DEF LaidOut
<1> QED BY <1>1, <1>9 DEF Written, r, N

LEMMA LinesAreWritten ==
  ASSUME NEW m, Meaning(m), NEW l \in P!LinesFor(m) \cup P!PlainLinesFor(m)
  PROVE  l \in Seq(P!Chars) /\ Written(l, m)
<1>1. CASE l \in P!PlainLinesFor(m)
  <2>1. l \in P!Lines(m, "plain")
    BY <1>1 DEF P!PlainLinesFor
  <2>2. l \in Seq(P!Chars) /\ \E B, E, Q : LaidOut(l, m, Len(m.args), 0, B, E, Q)
    BY <2>1, LinesLaidOut
  <2> QED BY <2>2 DEF Written
<1>2. CASE l \in P!LinesFor(m)
  <2>1. PICK s \in P!Indents, x \in P!Lines(m, "free") : l = s \o x
    BY <1>2, ALineFor
  <2>3. PICK d \in 0..2 : s = P!Spaces(d)
    BY DEF P!Indents
  <2>2. x \in Seq(P!Chars) /\ \E B, E, Q : LaidOut(x, m, Len(m.args), 0, B, E, Q)
    BY LinesLaidOut
  <2>4. PICK B, E, Q : LaidOut(x, m, Len(m.args), 0, B, E, Q)
    BY <2>2
  <2>5. d \in Nat
    OBVIOUS
  <2>6. P!Spaces(d) \o x \in Seq(P!Chars) /\ Written(P!Spaces(d) \o x, m)
    BY <2>2, <2>4, <2>5, LaidOutBehindBlanks
  <2> QED BY <2>1, <2>3, <2>6
<1> QED BY <1>1, <1>2

-----------------------------------------------------------------------------
(* How far the parser has come in a line that is laid out, and which       *)
(* character it looks at there.                                            *)

(* What the parser keeps of the first j characters of a.                   *)
Copied(x, a, j) ==
  /\ Len(x) = IF j < MAX_COMMAND_ARG_LEN THEN j ELSE MAX_COMMAND_ARG_LEN - 1
  /\ \A k \in 1..Len(x) : x[k] = a[k]

CopiedUpto(n) == \A k \in 1..n : Copied(args[k], meant.args[k], Len(meant.args[k]))

Opening(q) == IF q = P!NUL THEN 0 ELSE 1

(* How far the parser has come in a line that is laid out like this.       *)
Reads(z, B, E, Q) ==
  LET n == Len(args)
      N == Len(meant.args)
  IN /\ stage = "start" => pos \in 1..(z + 1) /\ command = <<>> /\ args = <<>>
     /\ stage = "command" =>
          /\ args = <<>> /\ Len(command) <= Len(meant.command) /\ pos = z + Len(command) + 1
          /\ \A k \in 1..Len(command) : command[k] = meant.command[k]
     /\ stage \in {"gap", "argument", "done"} => command = meant.command
     /\ stage = "gap" =>
          /\ n <= N /\ CopiedUpto(n)
          /\ pos > E[n] /\ pos <= IF n < N THEN B[n + 1] + 1 ELSE E[n] + 1
     /\ stage = "argument" =>
          /\ n \in 1..N /\ CopiedUpto(n - 1) /\ quote = Q[n]
          /\ \E j \in 0..Len(meant.args[n]) :
               pos = B[n] + Opening(quote) + j + 1 /\ Copied(args[n], meant.args[n], j)
     /\ stage = "done" =>
          n = (IF N < MAX_COMMAND_ARGS THEN N ELSE MAX_COMMAND_ARGS) /\ CopiedUpto(n)

(* The line the parser works on, as it was written.                        *)
InLine(z, B, E, Q) ==
  /\ ParserTypes /\ Meaning(meant) /\ Len(meant.command) < COMMAND_LEN
  /\ z \in Nat /\ LaidOut(input, meant, Len(meant.args), z, B, E, Q)

LEMMA LookAhead ==
  ASSUME ParserTypes, pos <= Len(input)
  PROVE  P!c = input[pos] /\ P!c # P!NUL /\ P!c \in P!Chars
BY Looking DEF ParserTypes, P!TypeOK, P!c

LEMMA LineSizes ==
  ASSUME NEW z, NEW B, NEW E, NEW Q, InLine(z, B, E, Q)
  PROVE  /\ Len(input) \in Nat /\ pos \in Nat /\ pos > 0
         /\ Len(meant.args) \in Nat /\ Len(meant.command) \in Nat \ {0}
         /\ \A k \in 1..Len(meant.args) :
              meant.args[k] \in Seq(P!Chars) /\ Len(meant.args[k]) \in Nat
<1>1. Meaning(meant) /\ input \in Seq(P!Chars) /\ pos \in 1..(Len(input) + 1)
  BY DEF InLine, ParserTypes, P!TypeOK
<1>2. Len(input) \in Nat /\ pos \in Nat /\ pos > 0
  BY <1>1
<1>3. Len(meant.args) \in Nat /\ Len(meant.command) \in Nat \ {0}
  BY <1>1 DEF Meaning
<1>4. \A k \in 1..Len(meant.args) :
        meant.args[k] \in Seq(P!Chars) /\ Len(meant.args[k]) \in Nat
  BY <1>1 DEF Meaning
<1> QED BY ONLY <1>2, <1>3, <1>4

(* Where its words end.                                                    *)
LEMMA WordsEnd ==
  ASSUME NEW z, NEW B, NEW E, NEW Q, InLine(z, B, E, Q)
  PROVE  /\ E[0] = z + Len(meant.command) /\ z \in Nat
         /\ E[Len(meant.args)] = Len(input)
         /\ \A k \in 0..Len(meant.args) : E[k] \in 0..Len(input)
BY DEF InLine, LaidOut

(* The character at each of the places.                                    *)
LEMMA BeforeCommand ==
  ASSUME NEW z, NEW B, NEW E, NEW Q, InLine(z, B, E, Q), pos <= z
  PROVE  P!c = P!Blank
<1>1. E[0] = z + Len(meant.command) /\ E[0] \in 0..Len(input) /\ z \in Nat
  <2>1. 0 \in 0..Len(meant.args)
    BY LineSizes
  <2> QED BY <2>1, WordsEnd
<1>2. \A p \in 1..z : input[p] = P!Blank
  BY DEF InLine, LaidOut
<1>3. pos \in 1..z /\ pos <= Len(input)
  BY <1>1, LineSizes
<1>4. ParserTypes
  BY DEF InLine
<1> QED BY <1>2, <1>3, <1>4, LookAhead

LEMMA InCommand ==
  ASSUME NEW z, NEW B, NEW E, NEW Q, InLine(z, B, E, Q),
         NEW k \in 1..Len(meant.command), pos = z + k
  PROVE  P!c = meant.command[k] /\ P!c \notin {P!Blank, P!NUL}
<1>1. E[0] = z + Len(meant.command) /\ E[0] \in 0..Len(input) /\ z \in Nat
  <2>1. 0 \in 0..Len(meant.args)
    BY LineSizes
  <2> QED BY <2>1, WordsEnd
<1>2. input[z + k] = meant.command[k]
  BY DEF InLine, LaidOut
<1>3. pos <= Len(input)
  BY <1>1, LineSizes
<1>4. meant.command[k] \in Letters
  BY DEF InLine, Meaning
<1>5. ParserTypes
  BY DEF InLine
<1>6. P!c = meant.command[k] /\ P!c # P!NUL
  BY <1>2, <1>3, <1>5, LookAhead
<1> QED BY <1>4, <1>6, CharacterFacts

LEMMA InGap ==
  ASSUME NEW z, NEW B, NEW E, NEW Q, InLine(z, B, E, Q),
         NEW n \in Nat, n < Len(meant.args), pos > E[n], pos <= B[n + 1]
  PROVE  P!c = P!Blank
<1> DEFINE k == n + 1
<1>1. k \in 1..Len(meant.args) /\ k - 1 = n
  BY LineSizes
<1>2. /\ B[k] \in Nat /\ E[k - 1] \in 0..Len(input) /\ E[k] \in 0..Len(input)
      /\ \A p \in (E[k - 1] + 1)..B[k] : input[p] = P!Blank
      /\ WordAt(input, B[k], E[k], meant.args[k], Q[k])
  BY <1>1, LineSizes DEF InLine, LaidOut
<1> HIDE DEF k
<1>3. B[k] <= E[k]
  BY <1>1, <1>2, LineSizes, WordForward
<1>4. pos \in (E[k - 1] + 1)..B[k] /\ pos <= Len(input)
  BY <1>1, <1>2, <1>3, LineSizes DEF k
<1> QED BY <1>2, <1>4, LookAhead DEF InLine

LEMMA AtEndOfLine ==
  ASSUME NEW z, NEW B, NEW E, NEW Q, InLine(z, B, E, Q), pos = E[Len(meant.args)] + 1
  PROVE  P!c = P!NUL
<1>1. pos = Len(input) + 1 /\ Len(input) \in Nat
  BY WordsEnd, LineSizes
<1> QED BY <1>1 DEF P!c

LEMMA WordFacts ==
  ASSUME NEW z, NEW B, NEW E, NEW Q, InLine(z, B, E, Q), NEW n \in 1..Len(meant.args)
  PROVE  /\ B[n] \in Nat /\ E[n] \in 0..Len(input) /\ E[n - 1] \in Nat /\ E[n - 1] < B[n]
         /\ WordAt(input, B[n], E[n], meant.args[n], Q[n])
<1>1. n \in Nat /\ n - 1 \in 0..Len(meant.args) /\ n \in 0..Len(meant.args)
  BY LineSizes
<1>2. E[n] \in 0..Len(input) /\ E[n - 1] \in Nat
  BY <1>1, WordsEnd, LineSizes
<1>3. B[n] \in Nat /\ E[n - 1] < B[n] /\ WordAt(input, B[n], E[n], meant.args[n], Q[n])
  BY DEF InLine, LaidOut
<1> QED BY <1>2, <1>3

LEMMA Members ==
  ASSUME NEW a \in Seq(P!Chars)
  PROVE  /\ \A k \in 1..Len(a) : a[k] \in P!ToSet(a) /\ a[k] # P!NUL
         /\ a # <<>> => Len(a) > 0
         /\ Len(a) \in Nat
BY CharacterFacts DEF P!ToSet

LEMMA WordBegins ==
  ASSUME NEW z, NEW B, NEW E, NEW Q, InLine(z, B, E, Q), NEW n \in 1..Len(meant.args),
         pos = B[n] + 1
  PROVE  /\ P!c \notin {P!NUL, P!Blank}
         /\ P!c \in P!Quotes <=> Q[n] # P!NUL
         /\ Q[n] # P!NUL => P!c = Q[n]
<1> DEFINE a == meant.args[n]
           b == B[n]
           e == E[n]
           q == Q[n]
<1>1. b \in Nat /\ e \in 0..Len(input) /\ WordAt(input, b, e, a, q) /\ pos = b + 1
  BY WordFacts
<1>2. a \in Seq(P!Chars) /\ Len(a) \in Nat /\ Len(input) \in Nat /\ ParserTypes
  BY LineSizes DEF InLine
<1> HIDE DEF a, b, e, q
<1>3. CASE /\ q = P!NUL /\ ~P!NeedsQuote(a) /\ e = b + Len(a)
           /\ \A j \in 1..Len(a) : input[b + j] = a[j]
  <2>1. a # <<>> /\ P!Blank \notin P!ToSet(a) /\ a[1] \notin P!Quotes
    BY <1>3 DEF P!NeedsQuote
  <2>2. 1 \in 1..Len(a) /\ pos <= Len(input)
    BY <1>1, <1>2, <1>3, <2>1, Members
  <2>3. P!c = a[1] /\ P!c # P!NUL
    BY <1>1, <1>2, <1>3, <2>2, LookAhead
  <2> QED BY <1>2, <1>3, <2>1, <2>2, <2>3, Members DEF q
<1>4. CASE q \in P!Quotes /\ e = b + Len(a) + 2 /\ input[b + 1] = q
  <2>1. pos <= Len(input)
    BY <1>1, <1>2, <1>4
  <2> QED BY <1>1, <1>2, <1>4, <2>1, LookAhead, CharacterFacts DEF q
<1> QED BY <1>1, <1>3, <1>4 DEF WordAt

LEMMA InWord ==
  ASSUME NEW z, NEW B, NEW E, NEW Q, InLine(z, B, E, Q), NEW n \in 1..Len(meant.args),
         NEW j \in Nat, j < Len(meant.args[n]), pos = B[n] + Opening(Q[n]) + j + 1
  PROVE  /\ P!c = meant.args[n][j + 1] /\ P!c # P!NUL
         /\ IF Q[n] # P!NUL THEN P!c # Q[n] ELSE P!c # P!Blank
<1> DEFINE a == meant.args[n]
           b == B[n]
           e == E[n]
           q == Q[n]
<1>1. b \in Nat /\ e \in 0..Len(input) /\ WordAt(input, b, e, a, q)
  BY WordFacts
<1>2. a \in Seq(P!Chars) /\ Len(a) \in Nat /\ Len(input) \in Nat /\ ParserTypes
  BY LineSizes DEF InLine
<1>3. pos = b + Opening(q) + j + 1 /\ j + 1 \in 1..Len(a)
  BY <1>2
<1> HIDE DEF a, b, e, q
<1>4. CASE /\ q = P!NUL /\ ~P!NeedsQuote(a) /\ e = b + Len(a)
           /\ \A k \in 1..Len(a) : input[b + k] = a[k]
  <2>1. P!Blank \notin P!ToSet(a)
    BY <1>4 DEF P!NeedsQuote
  <2>2. pos = b + (j + 1) /\ pos <= Len(input)
    BY <1>1, <1>2, <1>3, <1>4 DEF Opening
  <2>3. P!c = a[j + 1] /\ P!c # P!NUL
    BY <1>2, <1>3, <1>4, <2>2, LookAhead
  <2>4. P!c # P!Blank
    BY <1>2, <1>3, <2>1, <2>3, Members
  <2> QED BY <1>4, <2>3, <2>4 DEF a, q
<1>5. CASE /\ q \in P!Quotes \ P!ToSet(a) /\ e = b + Len(a) + 2
           /\ \A k \in 1..Len(a) : input[b + k + 1] = a[k]
  <2>0. q # P!NUL
    BY <1>5, CharacterFacts
  <2>1. pos = b + (j + 1) + 1 /\ pos <= Len(input)
    BY <1>1, <1>2, <1>3, <1>5, <2>0 DEF Opening
  <2>2. P!c = a[j + 1] /\ P!c # P!NUL
    BY <1>2, <1>3, <1>5, <2>1, LookAhead
  <2>3. P!c # q
    BY <1>2, <1>3, <1>5, <2>2, Members
  <2> QED BY <2>0, <2>2, <2>3 DEF a, q
<1> QED BY <1>1, <1>4, <1>5 DEF WordAt

LEMMA WordEnds ==
  ASSUME NEW z, NEW B, NEW E, NEW Q, InLine(z, B, E, Q), NEW n \in 1..Len(meant.args),
         pos = B[n] + Opening(Q[n]) + Len(meant.args[n]) + 1
  PROVE  IF Q[n] # P!NUL THEN P!c = Q[n] /\ pos = E[n] ELSE pos = E[n] + 1
<1> DEFINE a == meant.args[n]
           b == B[n]
           e == E[n]
           q == Q[n]
<1>1. b \in Nat /\ e \in 0..Len(input) /\ WordAt(input, b, e, a, q)
  BY WordFacts
<1>2. a \in Seq(P!Chars) /\ Len(a) \in Nat /\ Len(input) \in Nat /\ ParserTypes
  BY LineSizes DEF InLine
<1>3. pos = b + Opening(q) + Len(a) + 1
  OBVIOUS
<1> HIDE DEF a, b, e, q
<1>4. CASE q = P!NUL /\ e = b + Len(a)
  BY <1>1, <1>2, <1>3, <1>4 DEF Opening, q, e
<1>5. CASE q \in P!Quotes /\ e = b + Len(a) + 2 /\ input[e] = q
  <2>0. q # P!NUL
    BY <1>5, CharacterFacts
  <2>1. pos = e /\ pos <= Len(input)
    BY <1>1, <1>2, <1>3, <1>5, <2>0 DEF Opening
  <2>2. P!c = q
    BY <1>2, <1>5, <2>1, LookAhead
  <2> QED BY <2>0, <2>1, <2>2 DEF q, e
<1> QED BY <1>1, <1>4, <1>5 DEF WordAt

-----------------------------------------------------------------------------
(* Each step of the parser.                                                *)

LEMMA EmptyIsCopied == \A a : Copied(<<>>, a, 0)
BY ParserSizes, EmptyArgument DEF Copied

LEMMA ReadStart ==
  ASSUME NEW z, NEW B, NEW E, NEW Q, InLine(z, B, E, Q), Reads(z, B, E, Q), P!Start
  PROVE  Reads(z, B, E, Q)'
<1>1. /\ pos \in 1..(z + 1) /\ command = <<>> /\ args = <<>> /\ stage = "start" /\ z \in Nat
      /\ UNCHANGED <<meant, command, args>>
  BY DEF Reads, P!Start, InLine
<1>2. CASE pos <= z
  <2>1. pos' = pos + 1 /\ stage' = "start"
    BY <1>1, <1>2, BeforeCommand DEF P!Start, P!Skip
  <2> QED BY <1>1, <1>2, <2>1 DEF Reads
<1>3. CASE pos = z + 1
  <2>1. 1 \in 1..Len(meant.command)
    BY LineSizes
  <2>2. P!c \notin {P!Blank, P!NUL}
    BY <1>3, <2>1, InCommand
  <2>3. pos' = pos /\ stage' = "command"
    BY <2>2 DEF P!Start
  <2>4. Len(command') = 0 /\ pos' = z + Len(command') + 1
    BY <1>1, <1>3, <2>3, EmptyArgument
  <2>5. Len(command') <= Len(meant.command)
    BY <2>4, LineSizes
  <2> QED BY <1>1, <2>3, <2>4, <2>5 DEF Reads
<1> QED BY <1>1, <1>2, <1>3

LEMMA SequenceIs ==
  ASSUME NEW S, NEW s \in Seq(S), NEW t \in Seq(S), Len(s) = Len(t),
         \A k \in 1..Len(s) : s[k] = t[k]
  PROVE  s = t
OBVIOUS

LEMMA ReadCommand ==
  ASSUME NEW z, NEW B, NEW E, NEW Q, InLine(z, B, E, Q), Reads(z, B, E, Q), P!Command
  PROVE  Reads(z, B, E, Q)'
<1> DEFINE n == Len(command)
<1>1. /\ stage = "command" /\ args = <<>> /\ n <= Len(meant.command) /\ pos = z + n + 1
      /\ \A k \in 1..n : command[k] = meant.command[k]
      /\ UNCHANGED <<meant, args>>
  BY DEF Reads, P!Command
<1>2. /\ command \in Seq(P!Chars) /\ n \in Nat /\ Len(meant.command) \in Nat
      /\ Len(meant.command) < COMMAND_LEN /\ z \in Nat /\ COMMAND_LEN \in Nat
      /\ meant.command \in Seq(P!Chars)
  BY LineSizes, ParserSizes, CharacterFacts DEF InLine, ParserTypes, P!TypeOK, Meaning
<1> HIDE DEF n
<1>3. CASE n < Len(meant.command)
  <2>1. n + 1 \in 1..Len(meant.command) /\ pos = z + (n + 1) /\ n < COMMAND_LEN - 1
    BY <1>1, <1>2, <1>3
  <2>2. P!c = meant.command[n + 1] /\ P!c \notin {P!Blank, P!NUL}
    BY <2>1, InCommand
  <2>3. command' = Append(command, P!c) /\ pos' = pos + 1 /\ stage' = "command"
    BY <2>1, <2>2 DEF P!Command, P!Skip, n
  <2>4. P!c \in P!Chars
    <3>1. P!c # P!NUL /\ ParserTypes
      BY <2>2 DEF InLine
    <3> QED BY <3>1, Looking DEF ParserTypes, P!TypeOK
  <2>5. /\ Len(command') = n + 1 /\ command'[n + 1] = P!c
        /\ \A k \in 1..n : command'[k] = command[k]
    BY <1>2, <2>3, <2>4, AppendOne DEF n
  <2>6. \A k \in 1..(n + 1) : k \in 1..n \/ k = n + 1
    BY <1>2
  <2>7. \A k \in 1..Len(command') : command'[k] = meant'.command[k]
    BY <1>1, <2>2, <2>5, <2>6
  <2>8. Len(command') <= Len(meant'.command) /\ pos' = z + Len(command') + 1
    BY <1>1, <1>2, <2>1, <2>3, <2>5
  <2> QED BY <1>1, <2>3, <2>7, <2>8 DEF Reads
<1>4. CASE n = Len(meant.command)
  <2>1. command = meant.command
    BY <1>1, <1>2, <1>4, SequenceIs DEF n
  <2>2. E[0] = z + n
    BY <1>4 DEF InLine, LaidOut
  <2>3. P!c \in {P!Blank, P!NUL}
    <3>1. CASE Len(meant.args) = 0
      <4>1. pos = E[Len(meant.args)] + 1
        BY <1>1, <1>2, <2>2, <3>1
      <4> QED BY <4>1, AtEndOfLine
    <3>2. CASE Len(meant.args) # 0
      <4>1. 1 \in 1..Len(meant.args) /\ 0 < Len(meant.args) /\ 1 - 1 = 0 /\ 0 + 1 = 1
        BY <3>2, LineSizes
      <4>2. B[1] \in Nat /\ E[0] < B[1]
        BY <4>1, WordFacts
      <4>3. pos > E[0] /\ pos <= B[0 + 1]
        BY <1>1, <1>2, <2>2, <4>1, <4>2
      <4> QED BY <4>1, <4>3, InGap
    <3> QED BY <3>1, <3>2
  <2>4. stage' = "gap" /\ pos' = pos /\ command' = command
    BY <2>3 DEF P!Command
  <2>5. Len(args') = 0 /\ 0 <= Len(meant.args) /\ 1..0 = {} /\ 0 + 1 = 1
    BY <1>1, EmptyArgument, LineSizes
  <2>6. CopiedUpto(0)'
    BY <2>5 DEF CopiedUpto
  <2>7. pos > E[0] /\ pos <= IF 0 < Len(meant.args) THEN B[1] + 1 ELSE E[0] + 1
    <3>1. pos = E[0] + 1 /\ E[0] \in Nat
      BY <1>1, <1>2, <2>2
    <3>2. 0 < Len(meant.args) => B[1] \in Nat /\ E[0] < B[1]
      <4> SUFFICES ASSUME 0 < Len(meant.args) PROVE B[1] \in Nat /\ E[0] < B[1]
        OBVIOUS
      <4>1. 1 \in 1..Len(meant.args) /\ 1 - 1 = 0
        BY LineSizes
      <4> QED BY <4>1, WordFacts
    <3> QED BY <3>1, <3>2
  <2> QED BY <1>1, <2>1, <2>4, <2>5, <2>6, <2>7 DEF Reads
<1> QED BY <1>1, <1>2, <1>3, <1>4

LEMMA ReadGap ==
  ASSUME NEW z, NEW B, NEW E, NEW Q, InLine(z, B, E, Q), Reads(z, B, E, Q), P!Gap
  PROVE  Reads(z, B, E, Q)'
<1>0. PICK n, N : n = Len(args) /\ N = Len(meant.args)
  OBVIOUS
<1>1. /\ stage = "gap" /\ n <= N /\ CopiedUpto(n) /\ command = meant.command
      /\ pos > E[n] /\ pos <= IF n < N THEN B[n + 1] + 1 ELSE E[n] + 1
      /\ UNCHANGED <<meant, command>>
  BY <1>0 DEF Reads, P!Gap
<1>2. /\ args \in Seq(Seq(P!Chars)) /\ n \in Nat /\ N \in Nat /\ n <= MAX_COMMAND_ARGS
      /\ MAX_COMMAND_ARGS \in Nat /\ n = Len(args) /\ N = Len(meant.args)
  BY <1>0, LineSizes, ParserSizes DEF InLine, ParserTypes, P!TypeOK
<1>3. CASE P!c = P!NUL \/ n >= MAX_COMMAND_ARGS
  <2>1. stage' = "done" /\ UNCHANGED args
    <3>1. CASE P!c = P!NUL
      BY <1>2, <3>1, CharacterFacts DEF P!Gap
    <3>2. CASE n >= MAX_COMMAND_ARGS
      BY <1>2, <3>2 DEF P!Gap
    <3> QED BY <1>3, <3>1, <3>2
  <2>2. n < MAX_COMMAND_ARGS => n = N
    <3> SUFFICES ASSUME n < MAX_COMMAND_ARGS, n < N PROVE FALSE
      BY <1>1, <1>2
    <3>1. n + 1 \in 1..N /\ (n + 1) - 1 = n
      BY <1>2
    <3>2. B[n + 1] \in Nat /\ E[n] \in Nat
      BY <1>2, <3>1, WordFacts
    <3>3. CASE pos = B[n + 1] + 1
      BY <1>2, <1>3, <3>1, <3>3, WordBegins
    <3>4. CASE pos <= B[n + 1]
      BY <1>2, <1>1, <1>3, <3>4, InGap, CharacterFacts
    <3>5. pos <= B[n + 1] + 1 /\ pos \in Nat
      BY <1>1, LineSizes
    <3> QED BY <3>2, <3>3, <3>4, <3>5
  <2>3. n = (IF N < MAX_COMMAND_ARGS THEN N ELSE MAX_COMMAND_ARGS)
    BY <1>1, <1>2, <2>2
  <2>4. CopiedUpto(n)'
    BY <1>1, <2>1 DEF CopiedUpto
  <2> QED BY <1>1, <1>2, <2>1, <2>3, <2>4 DEF Reads
<1>4. CASE P!c # P!NUL /\ n < MAX_COMMAND_ARGS
  <2>1. n < N
    <3> SUFFICES ASSUME n = N PROVE FALSE
      BY <1>1, <1>2
    <3>1. E[n] \in Nat /\ pos = E[N] + 1
      <4>1. n \in 0..N
        BY <1>1, <1>2
      <4>3. (\A k \in 0..N : E[k] \in 0..Len(input)) /\ Len(input) \in Nat
        BY <1>2, WordsEnd, LineSizes
      <4>2. E[n] \in Nat
        BY ONLY <4>1, <4>3
      <4> QED BY <1>1, <1>2, <4>2, LineSizes
    <3> QED BY <1>2, <1>4, <3>1, AtEndOfLine
  <2>2. n + 1 \in 1..N /\ (n + 1) - 1 = n
    BY <1>2, <2>1
  <2>3. B[n + 1] \in Nat /\ E[n] \in Nat /\ E[n] < B[n + 1] /\ pos \in Nat /\ pos <= B[n + 1] + 1
    BY <1>2, <1>1, <2>1, <2>2, WordFacts, LineSizes
  <2>4. CASE pos <= B[n + 1]
    <3>1. P!c = P!Blank
      BY <1>2, <1>1, <2>1, <2>4, InGap
    <3>2. stage' = "gap" /\ pos' = pos + 1 /\ UNCHANGED args
      BY <1>1, <1>2, <1>4, <3>1, CharacterFacts DEF P!Gap, P!Skip
    <3>3. pos' > E[n] /\ pos' <= B[n + 1] + 1
      BY <1>1, <2>3, <2>4, <3>2
    <3>4. CopiedUpto(n)'
      BY <1>1, <3>2 DEF CopiedUpto
    <3> QED BY <1>1, <1>2, <2>1, <3>2, <3>3, <3>4 DEF Reads
  <2>5. CASE pos = B[n + 1] + 1
    <3>1. /\ P!c \notin {P!NUL, P!Blank}
          /\ P!c \in P!Quotes <=> Q[n + 1] # P!NUL
          /\ Q[n + 1] # P!NUL => P!c = Q[n + 1]
      BY <1>2, <2>2, <2>5, WordBegins
    <3>2. /\ stage' = "argument" /\ args' = Append(args, <<>>)
          /\ IF P!c \in P!Quotes THEN quote' = P!c /\ P!Skip ELSE quote' = P!NUL /\ UNCHANGED pos
      BY <1>1, <1>2, <1>4, <3>1 DEF P!Gap
    <3>3. quote' = Q[n + 1] /\ pos' = B[n + 1] + Opening(Q[n + 1]) + 0 + 1
      BY <2>3, <2>5, <3>1, <3>2 DEF Opening, P!Skip
    <3>4. /\ Len(args') = n + 1 /\ args'[n + 1] = <<>> /\ \A k \in 1..n : args'[k] = args[k]
      BY <1>2, <3>2, AppendOne, EmptyArgument
    <3>5. CopiedUpto((n + 1) - 1)'
      BY <1>1, <2>2, <3>4 DEF CopiedUpto
    <3>6. 0 \in 0..Len(meant.args[n + 1]) /\ Copied(args'[n + 1], meant.args[n + 1], 0)
      BY <1>2, <2>2, <3>4, LineSizes, EmptyIsCopied
    <3> QED BY <1>1, <1>2, <2>2, <3>2, <3>3, <3>4, <3>5, <3>6 DEF Reads
  <2> QED BY <2>3, <2>4, <2>5
<1> QED BY <1>2, <1>3, <1>4

LEMMA CopiesOneMore ==
  ASSUME NEW a \in Seq(P!Chars), NEW j \in Nat, j < Len(a), NEW x \in Seq(P!Chars), Copied(x, a, j),
         NEW y, y = IF Len(x) < MAX_COMMAND_ARG_LEN - 1 THEN Append(x, a[j + 1]) ELSE x
  PROVE  Copied(y, a, j + 1)
<1>1. MAX_COMMAND_ARG_LEN \in Nat \ {0} /\ Len(x) \in Nat /\ a[j + 1] \in P!Chars
  <2>1. j + 1 \in 1..Len(a)
    OBVIOUS
  <2> QED BY <2>1, ParserSizes
<1>2. CASE Len(x) < MAX_COMMAND_ARG_LEN - 1
  <2>1. Len(x) = j /\ j + 1 < MAX_COMMAND_ARG_LEN
    BY <1>1, <1>2 DEF Copied
  <2>2. /\ Len(y) = j + 1 /\ y[j + 1] = a[j + 1] /\ \A k \in 1..j : y[k] = x[k]
    BY <1>1, <1>2, <2>1, AppendOne
  <2>3. \A k \in 1..(j + 1) : k \in 1..j \/ k = j + 1
    OBVIOUS
  <2> QED BY <2>1, <2>2, <2>3 DEF Copied
<1>3. CASE ~(Len(x) < MAX_COMMAND_ARG_LEN - 1)
  BY <1>1, <1>3 DEF Copied
<1> QED BY <1>2, <1>3

LEMMA ReadArgument ==
  ASSUME NEW z, NEW B, NEW E, NEW Q, InLine(z, B, E, Q), Reads(z, B, E, Q), P!Argument
  PROVE  Reads(z, B, E, Q)'
<1>0. PICK n, N, a : n = Len(args) /\ N = Len(meant.args) /\ a = meant.args[n]
  OBVIOUS
<1>1. /\ stage = "argument" /\ n \in 1..N /\ CopiedUpto(n - 1) /\ quote = Q[n]
      /\ command = meant.command
      /\ UNCHANGED <<meant, command, quote>>
  BY <1>0 DEF Reads, P!Argument
<1>2. PICK j \in 0..Len(a) : pos = B[n] + Opening(quote) + j + 1 /\ Copied(args[n], a, j)
  BY <1>0, <1>1 DEF Reads
<1>3. /\ args \in Seq(Seq(P!Chars)) /\ args # <<>> /\ N \in Nat
      /\ a \in Seq(P!Chars) /\ Len(a) \in Nat
  BY <1>0, <1>1, LineSizes DEF InLine, ParserTypes, P!TypeOK
<1>4. CASE j < Len(a)
  <2>1. /\ P!c = a[j + 1] /\ P!c # P!NUL
        /\ IF quote # P!NUL THEN P!c # quote ELSE P!c # P!Blank
    BY <1>0, <1>1, <1>2, <1>3, <1>4, InWord
  <2>2. /\ stage' = "argument" /\ pos' = pos + 1
        /\ args' = IF P!Fits THEN Append(P!Front(args), Append(P!Last(args), P!c)) ELSE args
    BY <1>0, <1>1, <2>1 DEF P!Argument, P!Ends, P!AfterCharacter
  <2> DEFINE y == IF P!Fits THEN Append(args[n], a[j + 1]) ELSE args[n]
  <2>3. args[n] \in Seq(P!Chars) /\ a[j + 1] \in P!Chars /\ P!Last(args) = args[n]
    <3>1. j + 1 \in 1..Len(a)
      BY <1>0, <1>3, <1>4
    <3>2. args[n] \in Seq(P!Chars)
      BY <1>0, <1>1, <1>3
    <3> QED BY <1>0, <1>3, <3>1, <3>2 DEF P!Last
  <2>4. P!Fits <=> Len(args[n]) < MAX_COMMAND_ARG_LEN - 1
    BY <1>0, <2>3 DEF P!Fits
  <2>5. y \in Seq(P!Chars)
    BY <1>0, <2>3, AppendOne
  <2>6. Len(args') = n /\ args'[n] = y /\ \A k \in 1..(n - 1) : args'[k] = args[k]
    <3>1. CASE ~P!Fits
      BY <1>0, <2>2, <3>1
    <3>2. CASE P!Fits
      <4> DEFINE S == Seq(P!Chars)
      <4>1. args \in Seq(S) /\ y \in S
        BY <1>0, <1>3, <2>5
      <4>2. args' = Append(P!Front(args), y)
        BY <1>0, <2>1, <2>2, <2>3, <3>2
      <4>3. args # <<>>
        BY <1>3
      <4> HIDE DEF S, y
      <4>4. /\ Len(Append(P!Front(args), y)) = Len(args) /\ Append(P!Front(args), y)[Len(args)] = y
            /\ \A k \in 1..(Len(args) - 1) : Append(P!Front(args), y)[k] = args[k]
        BY <4>1, <4>3, ReplaceLast
      <4> QED BY <1>0, <4>2, <4>4
    <3> QED BY <1>0, <3>1, <3>2
  <2> HIDE DEF y
  <2>7. Copied(y, a, j + 1)
    <3>1. a \in Seq(P!Chars) /\ j \in Nat /\ j < Len(a)
      BY <1>2, <1>3, <1>4
    <3>2. args[n] \in Seq(P!Chars) /\ Copied(args[n], a, j)
      BY <1>2, <2>3
    <3>3. y = IF Len(args[n]) < MAX_COMMAND_ARG_LEN - 1 THEN Append(args[n], a[j + 1]) ELSE args[n]
      BY <2>4 DEF y
    <3> QED BY ONLY <3>1, <3>2, <3>3, CopiesOneMore
  <2>8. CopiedUpto(n - 1)'
    BY <1>0, <1>1, <2>6 DEF CopiedUpto
  <2>9. pos' = B[n] + Opening(quote) + (j + 1) + 1 /\ j + 1 \in 0..Len(a)
    <3>1. B[n] \in Nat /\ Opening(quote) \in Nat
      BY <1>0, <1>1, WordFacts DEF Opening
    <3>2. pos = B[n] + Opening(quote) + j + 1 /\ pos' = pos + 1 /\ j \in Nat
      BY <1>2, <2>2
    <3>3. pos' = B[n] + Opening(quote) + (j + 1) + 1
      <4>1. PICK b, o : b = B[n] /\ o = Opening(quote)
        OBVIOUS
      <4>2. b \in Nat /\ o \in Nat /\ j \in Nat /\ pos' = (b + o + j + 1) + 1
        BY <3>1, <3>2, <4>1
      <4>3. pos' = b + o + (j + 1) + 1
        BY ONLY <4>2
      <4> QED BY ONLY <4>1, <4>3
    <3> QED BY <1>3, <1>4, <3>2, <3>3
  <2>10. \E i \in 0..Len(meant'.args[n]) :
           pos' = B[n] + Opening(quote') + i + 1 /\ Copied(args'[n], meant'.args[n], i)
    BY <1>0, <1>1, <2>6, <2>7, <2>9
  <2> QED BY <1>0, <1>1, <2>2, <2>6, <2>8, <2>10 DEF Reads
<1>5. CASE j = Len(a)
  <2>1. IF quote # P!NUL THEN P!c = quote /\ pos = E[n] ELSE pos = E[n] + 1
    BY <1>0, <1>1, <1>2, <1>5, WordEnds
  <2>2. /\ B[n] \in Nat /\ E[n] \in 0..Len(input)
    BY <1>0, <1>1, WordFacts
  <2>3. quote = P!NUL => P!c \in {P!Blank, P!NUL}
    <3> SUFFICES ASSUME quote = P!NUL PROVE P!c \in {P!Blank, P!NUL}
      OBVIOUS
    <3>1. CASE n = N
      BY <1>0, <2>1, <3>1, AtEndOfLine
    <3>2. CASE n < N
      <4>1. n + 1 \in 1..N /\ (n + 1) - 1 = n /\ n \in Nat
        BY <1>0, <1>1, <1>3, <3>2
      <4>2. B[n + 1] \in Nat /\ E[n] < B[n + 1]
        BY <1>0, <4>1, WordFacts
      <4>3. pos > E[n] /\ pos <= B[n + 1]
        BY <1>0, <2>1, <2>2, <4>2, LineSizes
      <4> QED BY <1>0, <3>2, <4>1, <4>3, InGap
    <3> QED BY <1>0, <1>1, <1>3, <3>1, <3>2
  <2>4. quote # P!NUL => P!c # P!NUL
    BY <1>0, <2>1, <2>2, LookAhead, LineSizes DEF InLine
  <2>5. stage' = "gap" /\ args' = args /\ pos' = E[n] + 1
    <3>1. CASE quote = P!NUL
      BY <1>0, <1>1, <2>1, <2>3, <3>1 DEF P!Argument, P!Ends, P!AfterEnd
    <3>2. CASE quote # P!NUL
      BY <1>0, <1>1, <2>1, <2>4, <3>2 DEF P!Argument, P!Ends, P!AfterEnd
    <3> QED BY <1>0, <3>1, <3>2
  <2>6. CopiedUpto(n)'
    <3>1. \A k \in 1..n : k \in 1..(n - 1) \/ k = n
      BY <1>0, <1>1, <1>3
    <3> QED BY <1>0, <1>1, <1>2, <1>5, <2>5, <3>1 DEF CopiedUpto
  <2>7. n < N => B[n + 1] \in Nat /\ E[n] < B[n + 1]
    <3> SUFFICES ASSUME n < N PROVE B[n + 1] \in Nat /\ E[n] < B[n + 1]
      OBVIOUS
    <3>1. n + 1 \in 1..N /\ (n + 1) - 1 = n
      BY <1>0, <1>1, <1>3
    <3> QED BY <1>0, <3>1, WordFacts
  <2>8. pos' > E[n] /\ pos' <= IF n < N THEN B[n + 1] + 1 ELSE E[n] + 1
    BY <1>0, <2>2, <2>5, <2>7, LineSizes
  <2>9. n <= N
    BY <1>0, <1>1, <1>3
  <2> QED BY <1>0, <1>1, <2>5, <2>6, <2>8, <2>9 DEF Reads
<1> QED BY <1>0, <1>2, <1>3, <1>4, <1>5

LEMMA LineReadStep ==
  ASSUME NEW z, NEW B, NEW E, NEW Q, InLine(z, B, E, Q), Reads(z, B, E, Q), P!Next
  PROVE  Reads(z, B, E, Q)'
<1>1. CASE P!Start
  BY <1>1, ReadStart
<1>2. CASE P!Command
  BY <1>2, ReadCommand
<1>3. CASE P!Gap
  BY <1>3, ReadGap
<1>4. CASE P!Argument
  BY <1>4, ReadArgument
<1> QED BY <1>1, <1>2, <1>3, <1>4 DEF P!Next

LEMMA InLineStep ==
  ASSUME NEW z, NEW B, NEW E, NEW Q, InLine(z, B, E, Q), P!Next
  PROVE  InLine(z, B, E, Q)'
<1>1. ParserTypes' /\ UNCHANGED <<input, meant>>
  <2>1. ParserTypes
    BY DEF InLine
  <2>2. UNCHANGED <<input, meant>>
    BY DEF P!Next, P!Start, P!Command, P!Gap, P!Argument
  <2> QED BY <2>1, <2>2, ParserStep
<1> QED BY <1>1 DEF InLine

-----------------------------------------------------------------------------
(* The arguments in the stack page.                                        *)
EarlyLabels  == {"poll", "read", "clear", "decode", "arguments"}
VectorLabels == {"start", "enter"}

(* A frame holds the address of each argument that was copied.             *)
Counted(f) ==
  /\ f.pc \in EarlyLabels => f.string_pos = PAGE /\ f.string_addresses = <<>>
  /\ f.pc \in {"string"} \cup VectorLabels => Len(f.args) > 0
  /\ f.pc = "string" => Len(f.string_addresses) + f.i = Len(f.args)
  /\ f.pc \in VectorLabels => Len(f.string_addresses) = Len(f.args)

Stored(page, p, str) ==
  /\ p + Len(str) < PAGE
  /\ \A k \in 1..Len(str) : page[p + k - 1] = Char(str[k])
  /\ page[p + Len(str)] = Zero

(* The last arguments are copied first.                                    *)
StringsStored(f, page) ==
  \A k \in 1..Len(f.string_addresses) :
    Stored(page, f.string_addresses[k],
           P!Cut(f.args[(Len(f.args) - Len(f.string_addresses)) + k]))

VectorOf(f) == <<Len(f.args)>> \o f.string_addresses \o <<0>>

VectorStored(f, page) ==
  /\ \A k \in 0..(Len(f.args) + 1) : page[f.user_esp + k * WORD] = Word(VectorOf(f)[k + 1])
  /\ \A a \in Addresses :
       a < f.user_esp \/ a \in (f.user_esp + (Len(f.args) + 2) * WORD)..(f.string_pos - 1)
         => page[a] = Zero

StackHolds(f, page) ==
  /\ f.pc \in {"string"} \cup VectorLabels => StringsStored(f, page)
  /\ f.pc = "string" => \A a \in 0..(f.string_pos - 1) : page[a] = Zero
  /\ f.pc \in VectorLabels => VectorStored(f, page)

(* The inductive invariant.                                                *)
KeptInv ==
  /\ IInv /\ TypeOK /\ OneLoads
  /\ \A s \in Contexts : Counted(frame[s]) /\ StackHolds(frame[s], user_stack_page)

SharedTypes ==
  /\ hex_data \in [0..(TEXT - 1) -> STRING \cup {NUL}]
  /\ user_code_page \in [Addresses -> (0..15) \X (0..15)]
  /\ user_stack_page \in [Addresses -> Bytes]
  /\ only \in Contexts \cup {None}

(* A step of the context that loads.                                       *)
LEMMA KeptStep ==
  ASSUME KeptInv, IInv', NEW s \in Contexts, NEW f \in Frames,
         frame' = [frame EXCEPT ![s] = f],
         frame[s].pc # "poll" \/ \A t \in Contexts : At(t, "poll"),
         SharedTypes', Counted(f), StackHolds(f, user_stack_page')
  PROVE  KeptInv'
<1>1. \A t \in Contexts : frame'[t] = IF t = s THEN f ELSE frame[t]
  BY DEF KeptInv, IInv
<1>2. \A t \in Contexts \ {s} : frame[t].pc = "poll"
  BY DEF KeptInv, OneLoads, At
<1>3. \A t \in Contexts \ {s} : StackHolds(frame[t], user_stack_page')
  BY <1>2 DEF StackHolds, VectorLabels
<1>4. \A t \in Contexts \ {s} : Counted(frame[t])
  BY DEF KeptInv
<1>5. OneLoads'
  BY <1>1, <1>2 DEF OneLoads, At
<1>6. frame' \in [Contexts -> Frames]
  BY DEF KeptInv, TypeOK
<1>7. TypeOK'
  BY <1>6 DEF TypeOK, SharedTypes
<1>8. \A t \in Contexts : Counted(frame'[t]) /\ StackHolds(frame'[t], user_stack_page')
  BY <1>1, <1>3, <1>4
<1> QED BY <1>5, <1>7, <1>8 DEF KeptInv

LEMMA PollingKept ==
  Polling \in Frames /\ Polling.pc = "poll" /\ Polling.string_pos = PAGE
    /\ Polling.string_addresses = <<>>
<1>1. "poll" \in Labels /\ 0 \in Nat /\ 0 \in 0..(TEXT - 1) /\ 0 \in Int /\ PAGE \in Int
  BY LoaderAssumption DEF Labels
<1>2. <<>> \in Seq(Seq(STRING)) /\ <<>> \in Seq(STRING) /\ <<>> \in Seq(Int)
  BY EmptySequences DEF Names, ArgLists, Positions
<1>3. Polling \in Frames
  BY <1>1, <1>2 DEF Polling, Frames
<1> QED BY <1>3 DEF Polling

(* Until the arguments are copied the frame keeps no address.              *)
LEMMA KeptEarly ==
  ASSUME KeptInv, IInv', NEW s \in Contexts, NEW f \in Frames,
         frame' = [frame EXCEPT ![s] = f],
         frame[s].pc # "poll" \/ \A t \in Contexts : At(t, "poll"),
         f.pc \in EarlyLabels, f.string_pos = PAGE, f.string_addresses = <<>>,
         SharedTypes'
  PROVE  KeptInv'
<1>1. Counted(f)
  BY DEF Counted, EarlyLabels, VectorLabels
<1>2. StackHolds(f, user_stack_page')
  BY DEF StackHolds, EarlyLabels, VectorLabels
<1> QED BY <1>1, <1>2, KeptStep

LEMMA KeptReturns ==
  ASSUME KeptInv, IInv', NEW s \in Contexts, Return(s), frame[s].pc # "poll", SharedTypes'
  PROVE  KeptInv'
<1>1. frame' = [frame EXCEPT ![s] = Polling]
  BY DEF Return
<1>2. Polling.pc \in EarlyLabels
  BY PollingKept DEF EarlyLabels
<1> QED BY <1>1, <1>2, PollingKept, KeptEarly

LEMMA KeptTypes == KeptInv => SharedTypes /\ frame \in [Contexts -> Frames]
BY DEF KeptInv, TypeOK, SharedTypes

LEMMA EarlyFrame ==
  ASSUME KeptInv, NEW s \in Contexts, frame[s].pc \in EarlyLabels
  PROVE  frame[s].string_pos = PAGE /\ frame[s].string_addresses = <<>>
BY DEF KeptInv, Counted

LEMMA KeptCommand ==
  ASSUME TypeAhead = FALSE, KeptInv, IInv', NEW s \in Contexts, NEW name \in Names,
         NEW list \in ArgLists, Command(s, name, list)
  PROVE  KeptInv'
<1> DEFINE f == [frame[s] EXCEPT !.pc = "read", !.program = name, !.args = list]
<1>1. /\ frame[s] \in Frames /\ frame' = [frame EXCEPT ![s] = f] /\ frame[s].pc = "poll"
      /\ \A t \in Contexts : At(t, "poll")
  BY KeptTypes DEF Command, At
<1>2. UNCHANGED <<shared, only>>
  BY DEF Command
<1>3. "read" \in Labels /\ "read" \in EarlyLabels /\ "poll" \in EarlyLabels
  BY DEF Labels, EarlyLabels
<1>4. f \in Frames
  BY <1>1, <1>3 DEF Frames, Names, ArgLists
<1>5. /\ f.pc = "read" /\ f.string_pos = frame[s].string_pos
      /\ f.string_addresses = frame[s].string_addresses
  BY <1>1 DEF Frames
<1>6. SharedTypes'
  BY <1>2, KeptTypes DEF SharedTypes, shared
<1> HIDE DEF f
<1> QED BY <1>1, <1>3, <1>4, <1>5, <1>6, EarlyFrame, KeptEarly

LEMMA KeptRead ==
  ASSUME KeptInv, IInv', NEW s \in Contexts, Read(s)
  PROVE  KeptInv'
<1> DEFINE text == TextOf(frame[s].program)
           n == IF Len(text) < TEXT THEN Len(text) ELSE TEXT - 1
           f == [frame[s] EXCEPT !.pc = "clear", !.length = n]
<1>1. /\ frame[s] \in Frames /\ frame[s].pc = "read" /\ "read" \in EarlyLabels
      /\ UNCHANGED <<user_code_page, user_stack_page, only>>
  BY KeptTypes DEF Read, At, EarlyLabels
<1>2. text \in Seq(STRING)
  BY EmptySequences, LoaderAssumption DEF TextOf, Names
<1>3. n \in 0..(TEXT - 1) /\ \A k \in 0..(TEXT - 1) : k < n => k + 1 \in 1..Len(text)
  BY <1>2, LoaderAssumption
<1>4. SharedTypes'
  <2>1. hex_data \in [0..(TEXT - 1) -> STRING \cup {NUL}]
    BY KeptTypes DEF SharedTypes
  <2>2. CASE frame[s].program \notin DOMAIN Files
    <3>1. hex_data' = hex_data
      BY <2>2 DEF Read
    <3> QED BY <1>1, <3>1, KeptTypes DEF SharedTypes
  <2>3. CASE frame[s].program \in DOMAIN Files
    <3>1. hex_data' = [k \in DOMAIN hex_data |->
                         IF k < n THEN text[k + 1] ELSE IF k = n THEN NUL ELSE hex_data[k]]
      BY <2>3 DEF Read
    <3> HIDE DEF n, text
    <3>2. \A k \in 0..(TEXT - 1) : k < n => text[k + 1] \in STRING
      BY <1>2, <1>3
    <3>3. \A k \in 0..(TEXT - 1) : hex_data[k] \in STRING \cup {NUL}
      BY <2>1
    <3>4. DOMAIN hex_data = 0..(TEXT - 1)
      BY <2>1
    <3> HIDE DEF NUL
    <3>5. hex_data' \in [0..(TEXT - 1) -> STRING \cup {NUL}]
      BY <3>1, <3>2, <3>3, <3>4
    <3> QED BY <1>1, <3>5, KeptTypes DEF SharedTypes
  <2> QED BY <2>2, <2>3
<1>5. CASE Return(s)
  BY <1>1, <1>4, <1>5, KeptReturns
<1>6. CASE ~Return(s)
  <2>1. frame' = [frame EXCEPT ![s] = f]
    BY <1>1, <1>6, KeptTypes DEF Read
  <2>2. "clear" \in Labels /\ "clear" \in EarlyLabels
    BY DEF Labels, EarlyLabels
  <2> HIDE DEF n
  <2>3. f \in Frames
    BY <1>1, <1>3, <2>2 DEF Frames
  <2>4. f.pc = "clear" /\ f.string_pos = frame[s].string_pos
        /\ f.string_addresses = frame[s].string_addresses
    BY <1>1 DEF Frames
  <2>5. frame[s].pc # "poll"
    BY <1>1
  <2> HIDE DEF f
  <2> QED BY <1>1, <1>4, <2>1, <2>2, <2>3, <2>4, <2>5, EarlyFrame, KeptEarly
<1> QED BY <1>5, <1>6

(* From one label to another before the arguments are copied.              *)
LEMMA KeptGoto ==
  ASSUME KeptInv, IInv', NEW s \in Contexts, NEW label \in EarlyLabels, Goto(s, label),
         frame[s].pc \in EarlyLabels, frame[s].pc # "poll", SharedTypes'
  PROVE  KeptInv'
<1> DEFINE f == [frame[s] EXCEPT !.pc = label]
<1>1. frame[s] \in Frames /\ frame' = [frame EXCEPT ![s] = f] /\ label \in Labels
  BY KeptTypes DEF Goto, EarlyLabels, Labels
<1>2. f \in Frames
  BY <1>1 DEF Frames
<1>3. f.pc = label /\ f.string_pos = frame[s].string_pos
      /\ f.string_addresses = frame[s].string_addresses
  BY <1>1 DEF Frames
<1> HIDE DEF f
<1> QED BY <1>1, <1>2, <1>3, EarlyFrame, KeptEarly

LEMMA KeptClear ==
  ASSUME KeptInv, IInv', NEW s \in Contexts, Clear(s)
  PROVE  KeptInv'
<1>1. user_code_page' \in [Addresses -> (0..15) \X (0..15)]
  <2>1. user_code_page' = [a \in Addresses |-> <<0, 0>>]
    BY DEF Clear
  <2> QED BY <2>1
<1>2. SharedTypes'
  BY <1>1, KeptTypes DEF Clear, SharedTypes
<1>3. "decode" \in EarlyLabels /\ frame[s].pc \in EarlyLabels /\ frame[s].pc # "poll"
  BY DEF EarlyLabels, Clear, At
<1> QED BY <1>2, <1>3, KeptGoto DEF Clear

LEMMA KeptDecode ==
  ASSUME KeptInv, IInv', NEW s \in Contexts, Decode(s)
  PROVE  KeptInv'
<1> DEFINE i == frame[s].i
           high == hex_value(hex_data[2 * i])
           low == hex_value(hex_data[2 * i + 1])
           f == [frame[s] EXCEPT !.i = i + 1]
<1>1. /\ frame[s] \in Frames /\ frame[s].pc = "decode" /\ "decode" \in EarlyLabels
      /\ UNCHANGED <<hex_data, user_stack_page, only>>
  BY KeptTypes DEF Decode, At, EarlyLabels
<1>2. CASE NotHex(high, low)
  <2>1. Return(s) /\ user_code_page' = user_code_page
    BY <1>2 DEF Decode
  <2>2. SharedTypes'
    BY <1>1, <2>1, KeptTypes DEF SharedTypes
  <2> QED BY <1>1, <2>1, <2>2, KeptReturns
<1>3. CASE ~NotHex(high, low)
  <2>1. /\ frame' = [frame EXCEPT ![s] = f]
        /\ user_code_page' = [user_code_page EXCEPT ![i] = <<high, low>>]
    BY <1>1, <1>3, KeptTypes DEF Decode
  <2>2. high \in 0..15 /\ low \in 0..15
    <3>1. high \in -1..15 /\ low \in -1..15
      BY HexValueRange
    <3> HIDE DEF high, low
    <3> QED BY <1>3, <3>1 DEF NotHex
  <2> DEFINE j == i + 1
             g == [frame[s] EXCEPT !.i = j]
  <2>3. j \in Nat
    BY <1>1 DEF Frames
  <2> HIDE DEF j
  <2>8. g \in Frames
    BY <1>1, <2>3 DEF Frames
  <2>4. f \in Frames
    BY <2>8 DEF j
  <2>5. f.pc = "decode" /\ f.string_pos = frame[s].string_pos
        /\ f.string_addresses = frame[s].string_addresses
    BY <1>1 DEF Frames
  <2> HIDE DEF f, high, low
  <2>6. SharedTypes'
    <3>1. user_code_page \in [Addresses -> (0..15) \X (0..15)]
      BY KeptTypes DEF SharedTypes
    <3>2. user_code_page' \in [Addresses -> (0..15) \X (0..15)]
      BY <2>1, <2>2, <3>1
    <3> QED BY <1>1, <3>2, KeptTypes DEF SharedTypes
  <2>7. frame[s].pc # "poll"
    BY <1>1
  <2> QED BY <1>1, <2>1, <2>4, <2>5, <2>6, <2>7, EarlyFrame, KeptEarly
<1> QED BY <1>2, <1>3

LEMMA KeptDecoded ==
  ASSUME KeptInv, IInv', NEW s \in Contexts, Decoded(s)
  PROVE  KeptInv'
<1>1. SharedTypes'
  BY KeptTypes DEF Decoded, SharedTypes, shared
<1>2. /\ "arguments" \in EarlyLabels /\ frame[s].pc \in EarlyLabels /\ frame[s].pc # "poll"
  BY DEF EarlyLabels, Decoded, At
<1> QED BY <1>1, <1>2, KeptGoto, KeptReturns DEF Decoded

LEMMA CharacterBytes ==
  /\ \A c \in STRING : Char(c) \in Bytes
  /\ \A n \in Int : Word(n) \in Bytes
  /\ Zero \in Bytes /\ Part \in Bytes
<1>1. \A c \in STRING \cup {NUL, "word", "part"}, n \in Int : [char |-> c, word |-> n] \in Bytes
  BY DEF Bytes
<1>2. 0 \in Int
  OBVIOUS
<1> QED BY <1>1, <1>2 DEF Char, Word, Zero, Part

LEMMA KeptArguments ==
  ASSUME KeptInv, IInv', NEW s \in Contexts, Arguments(s)
  PROVE  KeptInv'
<1> DEFINE n == Argc(s)
           f == [frame[s] EXCEPT !.pc = "string", !.i = n]
<1>1. /\ frame[s] \in Frames /\ frame[s].pc = "arguments" /\ "arguments" \in EarlyLabels
      /\ UNCHANGED <<hex_data, user_code_page, only>>
  BY KeptTypes DEF Arguments, At, EarlyLabels
<1>2. CASE ~(Argc(s) \in 1..MAX_COMMAND_ARGS)
  <2>1. Return(s) /\ user_stack_page' = user_stack_page
    BY <1>2 DEF Arguments
  <2>2. SharedTypes'
    BY <1>1, <2>1, KeptTypes DEF SharedTypes
  <2> QED BY <1>1, <2>1, <2>2, KeptReturns
<1>3. CASE Argc(s) \in 1..MAX_COMMAND_ARGS
  <2>1. /\ frame' = [frame EXCEPT ![s] = f]
        /\ user_stack_page' = [a \in Addresses |-> Zero]
    BY <1>1, <1>3, KeptTypes DEF Arguments
  <2>2. n \in Nat /\ n = Len(frame[s].args) /\ n > 0 /\ "string" \in Labels
    BY <1>1, <1>3 DEF Frames, Argc, Labels
  <2>3. frame[s].string_pos = PAGE /\ frame[s].string_addresses = <<>>
    BY <1>1, EarlyFrame
  <2> HIDE DEF n
  <2>4. f \in Frames
    BY <1>1, <2>2 DEF Frames
  <2>5. f.pc = "string" /\ f.i = n /\ f.args = frame[s].args
        /\ f.string_pos = PAGE /\ Len(f.string_addresses) = 0
    BY <1>1, <2>3, EmptySequences DEF Frames
  <2> HIDE DEF f
  <2>6. SharedTypes'
    <3>1. user_stack_page' \in [Addresses -> Bytes]
      BY <2>1, CharacterBytes
    <3> QED BY <1>1, <3>1, KeptTypes DEF SharedTypes
  <2>7. Counted(f)
    BY <2>2, <2>5 DEF Counted, EarlyLabels, VectorLabels
  <2>8. StackHolds(f, user_stack_page')
    <3>1. \A a \in 0..(PAGE - 1) : user_stack_page'[a] = Zero
      BY <2>1 DEF Addresses
    <3> QED BY <2>5, <3>1 DEF StackHolds, StringsStored, VectorLabels
  <2>9. frame[s].pc # "poll"
    BY <1>1
  <2> QED BY <2>1, <2>4, <2>6, <2>7, <2>8, <2>9, KeptStep
<1> QED BY <1>2, <1>3

-----------------------------------------------------------------------------
(* What prepare_user_arguments stores of an argument.                      *)
LEMMA CutIs ==
  ASSUME NEW S, NEW a \in Seq(S)
  PROVE  /\ P!Cut(a) \in Seq(S) /\ Len(P!Cut(a)) \in Nat
         /\ Len(P!Cut(a)) = IF Len(a) < MAX_COMMAND_ARG_LEN THEN Len(a)
                            ELSE MAX_COMMAND_ARG_LEN - 1
         /\ \A k \in 1..Len(P!Cut(a)) : P!Cut(a)[k] = a[k]
<1> DEFINE n == IF Len(a) < MAX_COMMAND_ARG_LEN THEN Len(a) ELSE MAX_COMMAND_ARG_LEN - 1
<1>1. n \in 0..Len(a) /\ P!Cut(a) = SubSeq(a, 1, n)
  BY ParserSizes DEF P!Cut
<1> HIDE DEF n
<1>2. /\ SubSeq(a, 1, n) \in Seq(S) /\ Len(SubSeq(a, 1, n)) = n
      /\ \A k \in 1..n : SubSeq(a, 1, n)[k] = a[k]
  BY <1>1
<1> QED BY <1>1, <1>2 DEF n

(* The page with a string put into it.                                     *)
WithString(page, p, a) ==
  [b \in Addresses |-> IF b \in p..(p + Len(a) - 1) THEN Char(a[b - p + 1])
                       ELSE IF b = p + Len(a) THEN Zero ELSE page[b]]

LEMMA WriteString ==
  ASSUME NEW page, NEW a \in Seq(STRING), NEW p \in Nat, p + Len(a) < PAGE,
         page \in [Addresses -> Bytes]
  PROVE  /\ Stored(WithString(page, p, a), p, a)
         /\ \A b \in Addresses : b < p \/ b > p + Len(a) => WithString(page, p, a)[b] = page[b]
         /\ WithString(page, p, a) \in [Addresses -> Bytes]
<1> DEFINE n == Len(a)
           after == WithString(page, p, a)
<1>1. n \in Nat /\ PAGE \in Nat
  BY LoaderAssumption
<1>2. \A k \in 1..n : a[k] \in STRING
  OBVIOUS
<1>3. /\ p + n < PAGE
      /\ \A b \in Addresses :
           after[b] = IF b \in p..(p + n - 1) THEN Char(a[b - p + 1])
                      ELSE IF b = p + n THEN Zero ELSE page[b]
      /\ after = [b \in Addresses |-> after[b]]
  BY DEF WithString
<1> HIDE DEF n, after
<1>4. \A b \in Addresses : b \in Int
  BY <1>1 DEF Addresses
<1>5. ASSUME NEW k \in 1..n PROVE after[p + k - 1] = Char(a[k])
  <2>1. p + k - 1 \in Addresses /\ p + k - 1 \in p..(p + n - 1) /\ (p + k - 1) - p + 1 = k
    BY <1>1, <1>3 DEF Addresses
  <2> QED BY <1>3, <2>1
<1>6. after[p + n] = Zero
  <2>1. p + n \in Addresses /\ p + n \notin p..(p + n - 1)
    BY <1>1, <1>3 DEF Addresses
  <2> QED BY <1>3, <2>1
<1>7. Stored(after, p, a)
  BY <1>3, <1>5, <1>6 DEF Stored, n
<1>8. ASSUME NEW b \in Addresses, b < p \/ b > p + n PROVE after[b] = page[b]
  <2>1. b \notin p..(p + n - 1) /\ b # p + n
    BY <1>1, <1>4, <1>8
  <2> QED BY <1>3, <2>1
<1>9. after \in [Addresses -> Bytes]
  <2>1. ASSUME NEW b \in Addresses
        PROVE  (IF b \in p..(p + n - 1) THEN Char(a[b - p + 1])
                ELSE IF b = p + n THEN Zero ELSE page[b]) \in Bytes
    <3>1. CASE b \in p..(p + n - 1)
      <4>1. b - p + 1 \in 1..n
        BY <1>1, <1>4, <3>1
      <4> QED BY <1>2, <3>1, <4>1, CharacterBytes
    <3>2. CASE b \notin p..(p + n - 1)
      BY <3>2, CharacterBytes
    <3> QED BY <3>1, <3>2
  <2> QED BY <1>3, <2>1
<1> QED BY <1>7, <1>8, <1>9 DEF n, after

LEMMA StaysStored ==
  ASSUME NEW page, NEW after, NEW str, Len(str) \in Nat, NEW low \in Nat, NEW p \in Nat, p >= low,
         Stored(page, p, str), \A b \in Addresses : b >= low => after[b] = page[b]
  PROVE  Stored(after, p, str)
<1>1. PAGE \in Nat /\ p + Len(str) < PAGE
  BY LoaderAssumption DEF Stored
<1>2. p + Len(str) \in Addresses /\ p + Len(str) >= low
  BY <1>1 DEF Addresses
<1>3. \A k \in 1..Len(str) : p + k - 1 \in Addresses /\ p + k - 1 >= low
  BY <1>1 DEF Addresses
<1> QED BY <1>2, <1>3 DEF Stored

LEMMA ArgIsCut == \A s, n : Arg(s, n) = P!Cut(frame[s].args[n])
BY DEF Arg, P!Cut

LEMMA KeptString ==
  ASSUME KeptInv, IInv', NEW s \in Contexts, String(s)
  PROVE  KeptInv'
<1>1. /\ frame[s] \in Frames /\ frame[s].pc = "string" /\ frame[s].i > 0
      /\ UNCHANGED <<hex_data, user_code_page, only>> /\ frame[s].pc # "poll"
      /\ Counted(frame[s]) /\ StackHolds(frame[s], user_stack_page)
      /\ user_stack_page \in [Addresses -> Bytes] /\ StringsInPage(frame[s])
  BY KeptTypes DEF String, At, KeptInv, SharedTypes, IInv, Good
<1>2. CASE ~RoomForString(s)
  <2>1. Return(s) /\ user_stack_page' = user_stack_page
    BY <1>2 DEF String
  <2>2. SharedTypes'
    BY <1>1, <2>1, KeptTypes DEF SharedTypes
  <2> QED BY <1>1, <2>1, <2>2, KeptReturns
<1>3. CASE RoomForString(s)
  <2>1. PICK old, list, m, n, top, i, page, after :
          /\ old = frame[s].string_addresses /\ list = frame[s].args
          /\ m = Len(old) /\ n = Len(list)
          /\ top = frame[s].string_pos /\ i = frame[s].i
          /\ page = user_stack_page /\ after = user_stack_page'
    OBVIOUS
  <2>2. PICK a, p, addresses, next :
          /\ a = P!Cut(list[i]) /\ p = top - (Len(a) + 1)
          /\ addresses = <<p>> \o old /\ next = i - 1
    OBVIOUS
  <2> DEFINE f == [frame[s] EXCEPT !.string_pos = p, !.i = next, !.string_addresses = addresses]
  <2>3. /\ frame' = [frame EXCEPT ![s] = f]
        /\ after = [b \in Addresses |->
                      IF b \in p..(p + Len(a) - 1) THEN Char(a[b - p + 1])
                      ELSE IF b = p + Len(a) THEN Zero ELSE page[b]]
        /\ top >= Len(a) + 1
    <3>1. a = Arg(s, frame[s].i)
      BY <2>1, <2>2, ArgIsCut
    <3> QED BY <1>1, <1>3, <2>1, <2>2, <3>1, KeptTypes DEF String, RoomForString
  <2>4. old \in Seq(Int) /\ list \in Seq(Seq(STRING)) /\ i \in Nat /\ top \in Int
    BY <1>1, <2>1 DEF Frames
  <2>5. m + i = n /\ i > 0 /\ top \in 0..PAGE /\ \A k \in 1..m : old[k] \in top..(PAGE - 1)
    BY <1>1, <2>1 DEF Counted, StringsInPage
  <2>6. m \in Nat /\ n \in Nat /\ PAGE \in Nat /\ i \in 1..n
        /\ next \in Nat /\ (m + 1) + next = n /\ \A k \in 1..n : list[k] \in Seq(STRING)
    <3>1. m \in Nat /\ n \in Nat
      BY <2>1, <2>4
    <3>2. \A k \in 1..n : list[k] \in Seq(STRING)
      BY <2>1, <2>4
    <3> QED BY <2>2, <2>4, <2>5, <3>1, <3>2, LoaderAssumption
  <2>7. a \in Seq(STRING) /\ Len(a) \in Nat
    <3>1. list[i] \in Seq(STRING)
      BY <2>1, <2>4, <2>6
    <3> QED BY <2>2, <3>1, CutIs
  <2>8. p \in Nat /\ p + Len(a) + 1 = top /\ p + Len(a) < PAGE
    BY <2>2, <2>3, <2>5, <2>6, <2>7
  <2>9. addresses \in Seq(Int) /\ Len(addresses) = m + 1 /\ addresses[1] = p
        /\ \A k \in 1..m : addresses[k + 1] = old[k]
    <3>1. <<p>> \in Seq(Int) /\ Len(<<p>>) = 1 /\ <<p>>[1] = p
      BY <2>8
    <3>2. /\ <<p>> \o old \in Seq(Int) /\ Len(<<p>> \o old) = 1 + Len(old)
          /\ (<<p>> \o old)[1] = p /\ \A k \in 1..Len(old) : (<<p>> \o old)[1 + k] = old[k]
      BY <2>4, <3>1, Joined
    <3>3. \A k \in 1..m : k + 1 = 1 + k
      OBVIOUS
    <3> QED BY <2>1, <2>2, <2>6, <3>2, <3>3
  <2>10. f \in Frames
    <3>1. addresses \in Seq(Int)
      BY <2>9
    <3>2. p \in Int /\ next \in Nat /\ frame[s] \in Frames
      BY <1>1, <2>6, <2>8
    <3> QED BY ONLY <3>1, <3>2 DEF Frames
  <2>11. /\ f.pc = "string" /\ f.args = list /\ f.i = next
         /\ f.string_pos = p /\ f.string_addresses = addresses
    BY <1>1, <2>1 DEF Frames
  <2> HIDE DEF f
  <2>12. /\ Stored(after, p, a)
         /\ \A b \in Addresses : b < p \/ b > p + Len(a) => after[b] = page[b]
         /\ after \in [Addresses -> Bytes]
    <3>1. page \in [Addresses -> Bytes]
      BY <1>1, <2>1
    <3>2. a \in Seq(STRING)
      BY <2>7
    <3>3. p \in Nat /\ p + Len(a) < PAGE
      BY <2>8
    <3>4. after = WithString(page, p, a)
      BY <2>3 DEF WithString
    <3> QED BY <3>1, <3>2, <3>3, <3>4, WriteString
  <2>13. Counted(f)
    <3>1. Len(list) > 0
      BY <1>1, <2>1 DEF Counted
    <3> QED BY <2>1, <2>5, <2>6, <2>9, <2>11, <3>1 DEF Counted, EarlyLabels, VectorLabels
  <2>14. \A b \in Addresses : b >= top => after[b] = page[b]
    <3>1. \A b \in Addresses : b >= top => b > p + Len(a)
      BY <2>5, <2>6, <2>7, <2>8 DEF Addresses
    <3> QED BY <2>12, <3>1
  <2>15. StringsStored(f, after)
    <3>1. ASSUME NEW k \in 1..(m + 1)
          PROVE  Stored(after, addresses[k], P!Cut(list[(n - (m + 1)) + k]))
      <4>1. CASE k = 1
        <5>1. (n - (m + 1)) + k = i
          BY <2>5, <2>6, <4>1
        <5> QED BY <2>2, <2>9, <2>12, <4>1, <5>1
      <4>2. CASE k # 1
        <5>1. PICK j \in 1..m : k = j + 1
          BY <2>6, <4>2
        <5>2. (n - (m + 1)) + k = (n - m) + j /\ (n - m) + j \in 1..n
          BY <2>5, <2>6, <5>1
        <5>3. Stored(page, old[j], P!Cut(list[(n - m) + j]))
          BY <1>1, <2>1 DEF StackHolds, StringsStored
        <5>4. Len(P!Cut(list[(n - m) + j])) \in Nat
          <6>1. list[(n - m) + j] \in Seq(STRING)
            BY <2>6, <5>2
          <6> QED BY <6>1, CutIs
        <5>5. old[j] \in Nat /\ old[j] >= top /\ top \in Nat
          BY <2>5, <2>6
        <5>6. Stored(after, old[j], P!Cut(list[(n - m) + j]))
          BY <2>14, <5>3, <5>4, <5>5, StaysStored
        <5> QED BY <2>9, <5>1, <5>2, <5>6
      <4> QED BY <4>1, <4>2
    <3> QED BY <2>1, <2>9, <2>11, <3>1 DEF StringsStored
  <2>16. \A b \in 0..(p - 1) : after[b] = Zero
    <3>1. \A b \in 0..(p - 1) : b \in 0..(top - 1) /\ b \in Addresses /\ b < p
      BY <2>5, <2>6, <2>7, <2>8 DEF Addresses
    <3>2. \A b \in 0..(top - 1) : page[b] = Zero
      BY <1>1, <2>1 DEF StackHolds
    <3> QED BY <2>12, <3>1, <3>2
  <2>17. StackHolds(f, user_stack_page')
    BY <2>1, <2>11, <2>15, <2>16 DEF StackHolds, VectorLabels
  <2>18. SharedTypes'
    BY <1>1, <2>1, <2>12, KeptTypes DEF SharedTypes
  <2> QED BY <1>1, <2>3, <2>10, <2>13, <2>17, <2>18, KeptStep
<1> QED BY <1>2, <1>3

-----------------------------------------------------------------------------
LEMMA Multiples ==
  ASSUME NEW k \in Nat, NEW w \in Nat \ {0}
  PROVE  k * w \in Nat /\ (k * w) % w = 0 /\ (k * w) \div w = k
OBVIOUS

LEMMA MultiplesOrdered ==
  ASSUME NEW k \in Nat, NEW n \in Nat, NEW w \in Nat \ {0}, k < n
  PROVE  k * w + w <= n * w
OBVIOUS

LEMMA Quotients ==
  ASSUME NEW k \in Nat, NEW n \in Nat, NEW w \in Nat \ {0}, k < n * w
  PROVE  k \div w \in 0..(n - 1)
OBVIOUS

(* The page with the words of the vector v put at base.                    *)
WithVector(page, base, n, v) ==
  [b \in Addresses |->
     LET k == b - base
     IN IF k \notin 0..(n * WORD - 1) THEN page[b]
        ELSE IF k % WORD = 0 THEN Word(v[k \div WORD + 1]) ELSE Part]

LEMMA WriteVector ==
  ASSUME NEW page \in [Addresses -> Bytes], NEW base \in Nat, NEW n \in Nat,
         base + n * WORD <= PAGE, NEW v, \A k \in 1..n : v[k] \in Int
  PROVE  LET after == WithVector(page, base, n, v)
         IN  /\ \A k \in 0..(n - 1) : after[base + k * WORD] = Word(v[k + 1])
             /\ \A b \in Addresses : b < base \/ b >= base + n * WORD => after[b] = page[b]
             /\ after \in [Addresses -> Bytes]
<1> DEFINE after == WithVector(page, base, n, v)
           size == n * WORD
<1>1. WORD \in Nat \ {0} /\ PAGE \in Nat /\ size \in Nat /\ base + size <= PAGE
  BY LoaderAssumption, Multiples
<1>2. /\ \A b \in Addresses :
           after[b] = IF b - base \notin 0..(size - 1) THEN page[b]
                      ELSE IF (b - base) % WORD = 0 THEN Word(v[(b - base) \div WORD + 1])
                      ELSE Part
      /\ after = [b \in Addresses |-> after[b]]
  BY DEF WithVector
<1>3. ASSUME NEW k \in 0..(n - 1)
      PROVE  /\ base + k * WORD \in Addresses /\ (base + k * WORD) - base = k * WORD
             /\ k * WORD \in 0..(size - 1)
  <2>1. k \in Nat /\ k < n
    OBVIOUS
  <2>2. k * WORD \in Nat /\ k * WORD + WORD <= size
    BY <1>1, <2>1, Multiples, MultiplesOrdered
  <2> DEFINE d == k * WORD
  <2> HIDE DEF d, size
  <2>3. d \in Nat /\ d + WORD <= size
    BY <2>2 DEF d
  <2>4. base + d \in Addresses /\ (base + d) - base = d /\ d \in 0..(size - 1)
    BY <1>1, <2>3 DEF Addresses
  <2> QED BY <2>4 DEF d
<1>4. \A b \in Addresses : b \in Nat
  BY <1>1 DEF Addresses
<1> HIDE DEF after, size
<1>5. ASSUME NEW k \in 0..(n - 1) PROVE after[base + k * WORD] = Word(v[k + 1])
  <2>1. (k * WORD) % WORD = 0 /\ (k * WORD) \div WORD = k
    BY <1>1, Multiples
  <2>2. PICK b \in Addresses : b = base + k * WORD /\ b - base = k * WORD
    BY <1>3
  <2>3. b - base \in 0..(size - 1) /\ (b - base) % WORD = 0 /\ (b - base) \div WORD = k
    BY <1>3, <2>1, <2>2
  <2> QED BY <1>2, <2>2, <2>3
<1>6. ASSUME NEW b \in Addresses, b < base \/ b >= base + size PROVE after[b] = page[b]
  <2>1. b - base \notin 0..(size - 1)
    BY <1>1, <1>4, <1>6
  <2> QED BY <1>2, <2>1
<1>7. after \in [Addresses -> Bytes]
  <2>1. ASSUME NEW b \in Addresses PROVE after[b] \in Bytes
    <3>1. CASE b - base \notin 0..(size - 1)
      BY <1>2, <3>1
    <3>2. CASE b - base \in 0..(size - 1) /\ (b - base) % WORD = 0
      <4>0. b - base \in Nat /\ b - base < size
        BY <1>1, <3>2
      <4>1. PICK d \in Nat : d = b - base /\ d < size
        BY <4>0
      <4>2. d \div WORD \in 0..(n - 1)
        BY <1>1, <4>1, Quotients DEF size
      <4>3. d \div WORD + 1 \in 1..n
        BY <4>2
      <4>4. Word(v[d \div WORD + 1]) \in Bytes
        BY <4>3, CharacterBytes
      <4> QED BY <1>2, <3>2, <4>1, <4>4
    <3>3. CASE b - base \in 0..(size - 1) /\ (b - base) % WORD # 0
      BY <1>2, <3>3, CharacterBytes
    <3> QED BY <3>1, <3>2, <3>3
  <2> QED BY <1>2, <2>1
<1> QED BY <1>5, <1>6, <1>7 DEF after, size

LEMMA VectorWords ==
  ASSUME NEW n \in Int, NEW s \in Seq(Int)
  PROVE  LET v == <<n>> \o s \o <<0>>
         IN  /\ Len(v) = Len(s) + 2 /\ \A k \in 1..(Len(s) + 2) : v[k] \in Int
             /\ v[1] = n /\ v[Len(s) + 2] = 0 /\ \A k \in 1..Len(s) : v[k + 1] = s[k]
<1>1. /\ <<n>> \in Seq(Int) /\ Len(<<n>>) = 1 /\ <<n>>[1] = n
      /\ <<0>> \in Seq(Int) /\ Len(<<0>>) = 1 /\ <<0>>[1] = 0
  OBVIOUS
<1> DEFINE w == <<n>> \o s
           v == w \o <<0>>
<1>2. w \in Seq(Int) /\ Len(w) = Len(s) + 1 /\ w[1] = n /\ Len(s) \in Nat
  BY <1>1, Joined
<1>3. \A k \in 1..Len(s) : w[1 + k] = s[k]
  BY <1>1, Joined
<1> HIDE DEF w
<1>4. v \in Seq(Int) /\ Len(v) = Len(s) + 2 /\ v[Len(s) + 2] = 0
  <2>1. v \in Seq(Int) /\ Len(v) = Len(w) + 1 /\ v[Len(w) + 1] = 0
    BY <1>1, <1>2, Joined
  <2>2. Len(w) + 1 = Len(s) + 2
    BY <1>2
  <2> QED BY <2>1, <2>2
<1>5. \A k \in 1..Len(w) : v[k] = w[k]
  BY <1>1, <1>2, Joined
<1> HIDE DEF v
<1>6. \A k \in 1..(Len(s) + 2) : v[k] \in Int
  BY <1>4
<1>7. v[1] = n
  BY <1>2, <1>5
<1>8. \A k \in 1..Len(s) : v[k + 1] = s[k]
  <2>1. \A k \in 1..Len(s) : k + 1 = 1 + k /\ k + 1 \in 1..Len(w)
    BY <1>2
  <2> QED BY <1>3, <1>5, <2>1
<1> QED BY <1>4, <1>6, <1>7, <1>8 DEF v, w

LEMMA KeptVector ==
  ASSUME KeptInv, IInv', NEW s \in Contexts, PutVector(s)
  PROVE  KeptInv'
<1>1. /\ frame[s] \in Frames /\ frame[s].pc = "string" /\ frame[s].i <= 0
      /\ UNCHANGED <<hex_data, user_code_page, only>> /\ frame[s].pc # "poll"
      /\ Counted(frame[s]) /\ StackHolds(frame[s], user_stack_page)
      /\ user_stack_page \in [Addresses -> Bytes] /\ StringsInPage(frame[s])
  BY KeptTypes DEF PutVector, At, KeptInv, SharedTypes, IInv, Good
<1>2. CASE ~RoomForVector(s)
  <2>1. Return(s) /\ user_stack_page' = user_stack_page
    BY <1>2 DEF PutVector
  <2>2. SharedTypes'
    BY <1>1, <2>1, KeptTypes DEF SharedTypes
  <2> QED BY <1>1, <2>1, <2>2, KeptReturns
<1>3. CASE RoomForVector(s)
  <2>1. PICK addresses, list, n, top, page, after, base, v :
          /\ addresses = frame[s].string_addresses /\ list = frame[s].args
          /\ n = Len(list) /\ top = frame[s].string_pos
          /\ page = user_stack_page /\ after = user_stack_page'
          /\ base = VectorBase(s) /\ v = Vector(s)
    OBVIOUS
  <2> DEFINE f == [frame[s] EXCEPT !.pc = "start", !.user_esp = base]
  <2>2. /\ frame' = [frame EXCEPT ![s] = f]
        /\ after = WithVector(page, base, n + 2, v)
    BY <1>1, <1>3, <2>1, KeptTypes DEF PutVector, WithVector, VectorSize, Argc
  <2>3. addresses \in Seq(Int) /\ list \in Seq(Seq(STRING)) /\ frame[s].i \in Nat
    BY <1>1, <2>1 DEF Frames
  <2>4. frame[s].i = 0 /\ top \in 0..PAGE /\ PAGE \in Nat /\ WORD \in Nat \ {0}
    BY <1>1, <2>1, <2>3, LoaderAssumption DEF StringsInPage
  <2>5. n \in Nat /\ Len(addresses) \in Nat /\ Len(addresses) = n
    BY <1>1, <2>1, <2>3, <2>4 DEF Counted
  <2>6. \A k \in 1..n : addresses[k] \in top..(PAGE - 1)
    BY <1>1, <2>1, <2>5 DEF StringsInPage
  <2>7. (n + 2) * WORD \in Nat /\ base \in Nat /\ base + (n + 2) * WORD <= top
    <3>1. PICK size : size = (n + 2) * WORD
      OBVIOUS
    <3>2. size \in Nat
      BY <2>4, <2>5, <3>1, Multiples
    <3>3. Aligned(top) \in Int /\ Aligned(top) <= top
      BY <2>4, ModBound DEF Aligned
    <3>4. base = Aligned(top) - size /\ Aligned(top) >= size
      BY <1>3, <2>1, <3>1 DEF VectorBase, RoomForVector, VectorSize, Argc
    <3> QED BY <2>4, <3>1, <3>2, <3>3, <3>4
  <2>8. /\ v = <<n>> \o addresses \o <<0>>
        /\ \A k \in 1..(n + 2) : v[k] \in Int
    <3>1. v = <<n>> \o addresses \o <<0>>
      BY <2>1 DEF Vector, Argc
    <3>2. n \in Int
      BY <2>5
    <3> QED BY <2>3, <2>5, <3>1, <3>2, VectorWords
  <2>9. f \in Frames
    <3>1. "start" \in Labels /\ base \in Int /\ frame[s] \in Frames
      BY <1>1, <2>7 DEF Labels
    <3> QED BY <3>1 DEF Frames
  <2>10. /\ f.pc = "start" /\ f.args = list /\ f.user_esp = base
         /\ f.string_pos = top /\ f.string_addresses = addresses
    BY <1>1, <2>1 DEF Frames
  <2> HIDE DEF f
  <2>11. /\ \A k \in 0..((n + 2) - 1) : after[base + k * WORD] = Word(v[k + 1])
         /\ \A b \in Addresses : b < base \/ b >= base + (n + 2) * WORD => after[b] = page[b]
         /\ after \in [Addresses -> Bytes]
    <3>1. PICK m \in Nat : m = n + 2
      BY <2>5
    <3>2. page \in [Addresses -> Bytes] /\ base \in Nat
      BY <1>1, <2>1, <2>7
    <3>3. base + m * WORD <= PAGE
      <4>1. PICK size \in Nat : size = m * WORD
        BY <2>7, <3>1
      <4> QED BY <2>4, <2>7, <3>1, <4>1
    <3>4. \A k \in 1..m : v[k] \in Int
      BY <2>8, <3>1
    <3>5. /\ \A k \in 0..(m - 1) : WithVector(page, base, m, v)[base + k * WORD] = Word(v[k + 1])
          /\ \A b \in Addresses : b < base \/ b >= base + m * WORD
               => WithVector(page, base, m, v)[b] = page[b]
          /\ WithVector(page, base, m, v) \in [Addresses -> Bytes]
      BY ONLY <3>2, <3>3, <3>4, WriteVector
    <3> QED BY <2>2, <3>1, <3>5
  <2>12. Counted(f)
    <3>1. Len(list) > 0
      BY <1>1, <2>1 DEF Counted
    <3> QED BY <2>1, <2>5, <2>10, <3>1 DEF Counted, EarlyLabels, VectorLabels
  <2>13. \A b \in Addresses : b >= top => after[b] = page[b]
    <3>1. \A b \in Addresses : b >= top => b >= base + (n + 2) * WORD
      BY <2>4, <2>7 DEF Addresses
    <3> QED BY <2>11, <3>1
  <2>14. StringsStored(f, after)
    <3>1. ASSUME NEW k \in 1..n
          PROVE  Stored(after, addresses[k], P!Cut(list[(n - n) + k]))
      <4>1. Stored(page, addresses[k], P!Cut(list[(n - n) + k]))
        BY <1>1, <2>1, <2>5 DEF StackHolds, StringsStored
      <4>2. Len(P!Cut(list[(n - n) + k])) \in Nat
        <5>1. (n - n) + k = k /\ list[k] \in Seq(STRING)
          BY <2>1, <2>3, <2>5
        <5> QED BY <5>1, CutIs
      <4>3. addresses[k] \in Nat /\ addresses[k] >= top /\ top \in Nat
        BY <2>4, <2>6
      <4> QED BY <2>13, <4>1, <4>2, <4>3, StaysStored
    <3> QED BY <2>1, <2>5, <2>10, <3>1 DEF StringsStored
  <2>15. VectorStored(f, after)
    <3>1. \A k \in 0..(n + 1) : after[base + k * WORD] = Word(v[k + 1])
      <4>1. (n + 2) - 1 = n + 1
        BY <2>5
      <4> QED BY <2>11, <4>1
    <3>2. ASSUME NEW a \in Addresses, a < base \/ a \in (base + (n + 2) * WORD)..(top - 1)
          PROVE  after[a] = Zero
      <4>1. PICK size \in Nat : size = (n + 2) * WORD
        BY <2>7
      <4>2. a \in 0..(top - 1) /\ (a < base \/ a >= base + size)
        BY <2>4, <2>7, <3>2, <4>1 DEF Addresses
      <4>3. page[a] = Zero
        BY <1>1, <2>1, <4>2 DEF StackHolds
      <4> QED BY <2>11, <4>1, <4>2, <4>3
    <3>3. VectorOf(f) = v /\ Len(f.args) = n
      BY <2>1, <2>8, <2>10 DEF VectorOf
    <3> QED BY <2>10, <3>1, <3>2, <3>3 DEF VectorStored
  <2>16. StackHolds(f, user_stack_page')
    BY <2>1, <2>10, <2>14, <2>15 DEF StackHolds, VectorLabels
  <2>17. SharedTypes'
    BY <1>1, <2>1, <2>11, KeptTypes DEF SharedTypes
  <2> QED BY <1>1, <2>2, <2>9, <2>12, <2>16, <2>17, KeptStep
<1> QED BY <1>2, <1>3

LEMMA KeptStart ==
  ASSUME KeptInv, IInv', NEW s \in Contexts, Start(s)
  PROVE  KeptInv'
<1> DEFINE f == [frame[s] EXCEPT !.pc = "enter"]
<1>1. /\ frame[s] \in Frames /\ frame[s].pc = "start" /\ frame[s].pc # "poll"
      /\ UNCHANGED <<hex_data, user_code_page, user_stack_page, only>>
      /\ Counted(frame[s]) /\ StackHolds(frame[s], user_stack_page)
  BY KeptTypes DEF Start, At, KeptInv, shared
<1>2. SharedTypes'
  BY <1>1, KeptTypes DEF SharedTypes
<1>3. CASE Return(s)
  BY <1>1, <1>2, <1>3, KeptReturns
<1>4. CASE Goto(s, "enter")
  <2>1. frame' = [frame EXCEPT ![s] = f] /\ "enter" \in Labels
    BY <1>4, KeptTypes DEF Goto, Labels
  <2>2. f \in Frames
    BY <1>1, <2>1 DEF Frames
  <2>3. /\ f.pc = "enter" /\ f.args = frame[s].args /\ f.user_esp = frame[s].user_esp
        /\ f.string_pos = frame[s].string_pos
        /\ f.string_addresses = frame[s].string_addresses
    BY <1>1 DEF Frames
  <2> HIDE DEF f
  <2>4. Counted(f)
    BY <1>1, <2>3 DEF Counted, EarlyLabels, VectorLabels
  <2>5. StringsStored(frame[s], user_stack_page) /\ VectorStored(frame[s], user_stack_page)
    BY <1>1 DEF StackHolds, VectorLabels
  <2>6. StringsStored(f, user_stack_page')
    BY <1>1, <2>3, <2>5 DEF StringsStored
  <2>7. VectorStored(f, user_stack_page')
    BY <1>1, <2>3, <2>5 DEF VectorStored, VectorOf
  <2>8. StackHolds(f, user_stack_page')
    BY <2>3, <2>6, <2>7 DEF StackHolds, VectorLabels
  <2> QED BY <1>1, <1>2, <2>1, <2>2, <2>4, <2>8, KeptStep
<1> QED BY <1>3, <1>4 DEF Start

LEMMA KeptEnter ==
  ASSUME KeptInv, IInv', NEW s \in Contexts, Enter(s)
  PROVE  KeptInv'
<1> DEFINE f == [frame[s] EXCEPT !.pc = "user"]
<1>1. /\ frame[s] \in Frames /\ frame[s].pc # "poll"
      /\ UNCHANGED <<hex_data, user_code_page, user_stack_page>> /\ only' = s
      /\ frame' = [frame EXCEPT ![s] = f] /\ "user" \in Labels
  BY KeptTypes DEF Enter, At, shared, Goto, Labels
<1>2. SharedTypes'
  BY <1>1, KeptTypes DEF SharedTypes
<1>3. f \in Frames /\ f.pc = "user"
  BY <1>1 DEF Frames
<1> HIDE DEF f
<1>4. Counted(f) /\ StackHolds(f, user_stack_page')
  BY <1>3 DEF Counted, StackHolds, EarlyLabels, VectorLabels
<1> QED BY <1>1, <1>2, <1>3, <1>4, KeptStep

LEMMA KeptExit ==
  ASSUME KeptInv, IInv', NEW s \in Contexts, Exit(s)
  PROVE  KeptInv'
<1>1. user_stack_page' \in [Addresses -> Bytes]
  <2>1. [a \in Addresses |-> Part] \in [Addresses -> Bytes]
    BY CharacterBytes
  <2> QED BY <2>1, KeptTypes DEF Exit, SharedTypes
<1>2. SharedTypes' /\ frame[s].pc # "poll" /\ Return(s)
  BY <1>1, KeptTypes DEF Exit, SharedTypes, At
<1> QED BY <1>2, KeptReturns

LEMMA KeptInvStep ==
  ASSUME TypeAhead = FALSE
  PROVE  KeptInv /\ [Next]_vars => KeptInv'
<1> SUFFICES ASSUME KeptInv, [Next]_vars PROVE KeptInv'
  OBVIOUS
<1>1. IInv'
  BY LoaderStepInv DEF KeptInv
<1>2. ASSUME NEW s \in Contexts, Run(s) \/ Selftest(s) PROVE KeptInv'
  <2>1. CASE Selftest(s)
    <3>1. hello \in Names /\ <<>> \in ArgLists
      BY LoaderAssumption, EmptySequences DEF Names
    <3> QED BY <1>1, <2>1, <3>1, KeptCommand DEF Selftest
  <2>2. CASE Run(s)
    <3>1. PICK list \in Seq(Seq(STRING)) \ {<<>>} : Command(s, list[1], list)
      BY <2>2 DEF Run
    <3>2. list \in ArgLists /\ list[1] \in Names
      BY <3>1 DEF ArgLists, Names
    <3> QED BY <1>1, <3>1, <3>2, KeptCommand
  <2> QED BY <1>2, <2>1, <2>2
<1>3. ASSUME NEW s \in Contexts, LoaderStep(s) PROVE KeptInv'
  <2>1. CASE Read(s)
    BY <1>1, <2>1, KeptRead
  <2>2. CASE Clear(s)
    BY <1>1, <2>2, KeptClear
  <2>3. CASE Decode(s)
    BY <1>1, <2>3, KeptDecode
  <2>4. CASE Decoded(s)
    BY <1>1, <2>4, KeptDecoded
  <2>5. CASE Arguments(s)
    BY <1>1, <2>5, KeptArguments
  <2>6. CASE String(s)
    BY <1>1, <2>6, KeptString
  <2>7. CASE PutVector(s)
    BY <1>1, <2>7, KeptVector
  <2>8. CASE Start(s)
    BY <1>1, <2>8, KeptStart
  <2>9. CASE Enter(s)
    BY <1>1, <2>9, KeptEnter
  <2>10. CASE Exit(s)
    BY <1>1, <2>10, KeptExit
  <2> QED BY <1>3, <2>1, <2>2, <2>3, <2>4, <2>5, <2>6, <2>7, <2>8, <2>9, <2>10 DEF LoaderStep
<1>4. CASE UNCHANGED vars
  BY <1>1, <1>4 DEF vars, shared, KeptInv, OneLoads, At, TypeOK
<1> QED BY <1>2, <1>3, <1>4 DEF Next

LEMMA KeptInvInit == Init => KeptInv
<1> SUFFICES ASSUME Init PROVE KeptInv
  OBVIOUS
<1>1. IInv /\ \A s \in Contexts : frame[s] = Polling
  BY LoaderInit DEF Init
<1>2. frame \in [Contexts -> Frames]
  BY PollingKept DEF Init
<1>3. user_stack_page \in [Addresses -> Bytes]
  BY CharacterBytes DEF Init
<1>4. hex_data \in [0..(TEXT - 1) -> STRING \cup {NUL}]
  BY DEF Init
<1>5. user_code_page \in [Addresses -> (0..15) \X (0..15)] /\ only \in Contexts \cup {None}
  BY DEF Init
<1>6. TypeOK
  BY <1>2, <1>3, <1>4, <1>5 DEF TypeOK
<1>7. OneLoads /\ \A s \in Contexts : frame[s].pc = "poll"
  BY <1>1, PollingKept DEF OneLoads, At
<1>8. \A s \in Contexts : Counted(frame[s]) /\ StackHolds(frame[s], user_stack_page)
  BY <1>1, PollingKept DEF Counted, StackHolds, EarlyLabels, VectorLabels
<1> QED BY <1>1, <1>6, <1>7, <1>8 DEF KeptInv

(* At the entry the stack holds the arguments of the frame, cut.           *)
LEMMA EnteredArguments ==
  ASSUME KeptInv, NEW s \in Contexts, At(s, "enter"), NEW list \in Seq(Seq(STRING)),
         Len(list) = Len(frame[s].args),
         \A n \in 1..Len(list) : list[n] = P!Cut(frame[s].args[n])
  PROVE  ArgumentsAt(s, list)
<1>1. PICK esp, n, addresses, page, top, v :
        /\ esp = frame[s].user_esp /\ n = Len(list) /\ addresses = frame[s].string_addresses
        /\ page = user_stack_page /\ top = frame[s].string_pos /\ v = VectorOf(frame[s])
  OBVIOUS
<1>2. /\ frame[s].pc = "enter" /\ frame[s] \in Frames
      /\ StringsStored(frame[s], page) /\ VectorStored(frame[s], page)
      /\ Len(addresses) = n /\ Len(frame[s].args) = n /\ n \in Nat
      /\ addresses \in Seq(Int) /\ top \in 0..PAGE
      /\ \A k \in 1..n : addresses[k] \in top..(PAGE - 1)
  <2>1. frame[s].pc = "enter" /\ frame[s] \in Frames /\ Good(frame[s]) /\ Counted(frame[s])
        /\ StackHolds(frame[s], page)
    BY <1>1, KeptTypes DEF KeptInv, IInv, At
  <2>2. Len(addresses) = Len(frame[s].args) /\ n \in Nat
    BY <1>1, <2>1 DEF Counted, VectorLabels
  <2>3. /\ addresses \in Seq(Int) /\ top \in 0..PAGE
        /\ \A k \in 1..Len(addresses) : addresses[k] \in top..(PAGE - 1)
    BY <1>1, <2>1 DEF Good, StringsInPage, Frames
  <2>4. StringsStored(frame[s], page) /\ VectorStored(frame[s], page)
    BY <2>1 DEF StackHolds, VectorLabels
  <2> QED BY <1>1, <2>1, <2>2, <2>3, <2>4
<1>3. /\ v[1] = n /\ v[n + 2] = 0 /\ \A k \in 1..n : v[k + 1] = addresses[k]
  <2>1. v = <<n>> \o addresses \o <<0>> /\ n \in Int
    BY <1>1, <1>2 DEF VectorOf
  <2> QED BY <1>2, <2>1, VectorWords
<1>4. \A k \in 0..(n + 1) : page[esp + k * WORD] = Word(v[k + 1])
  BY <1>1, <1>2 DEF VectorStored
<1>5. page[esp + 0 * WORD] = Word(n) /\ page[esp + (n + 1) * WORD] = Word(0)
  <2>1. 0 \in 0..(n + 1) /\ n + 1 \in 0..(n + 1) /\ 0 + 1 = 1 /\ (n + 1) + 1 = n + 2
    BY <1>2
  <2> QED BY <1>3, <1>4, <2>1
<1>6. ASSUME NEW k \in 1..n
      PROVE  \E p \in Addresses : page[esp + k * WORD] = Word(p) /\ StringAt(p, list[k])
  <2>1. k \in 0..(n + 1) /\ PAGE \in Nat /\ k \in Nat
    BY <1>2, LoaderAssumption
  <2>2. page[esp + k * WORD] = Word(addresses[k])
    BY <1>3, <1>4, <2>1
  <2>3. addresses[k] \in Addresses
    BY <1>2, <2>1 DEF Addresses
  <2>4. Stored(page, addresses[k], list[k])
    <3>1. (n - n) + k = k
      BY <1>2, <2>1
    <3> QED BY <1>1, <1>2, <3>1 DEF StringsStored
  <2> QED BY <1>1, <2>2, <2>3, <2>4 DEF Stored, StringAt
<1>7. ASSUME NEW a \in Addresses, a < esp \/ a \in (esp + VectorSize(s))..(top - 1)
      PROVE  page[a] = Zero
  <2>1. VectorSize(s) = (n + 2) * WORD
    BY <1>2 DEF VectorSize, Argc
  <2> QED BY <1>1, <1>2, <1>7, <2>1 DEF VectorStored
<1> QED BY <1>1, <1>5, <1>6, <1>7 DEF ArgumentsAt

-----------------------------------------------------------------------------
(* From the line to the stack page.                                        *)
ParserReset ==
  /\ stage = "done" /\ input = <<>> /\ pos = 1
  /\ command = <<>> /\ args = <<>> /\ quote = P!NUL

LineKnown == \E z \in Nat : \E B, E, Q : InLine(z, B, E, Q) /\ Reads(z, B, E, Q)

(* The arguments of the frame are the ones that were meant.                *)
Asked(f) ==
  /\ meant.command = run
  /\ Len(f.args) = Len(ArgsMeant) /\ \A n \in 1..Len(f.args) : f.args[n] = ArgsMeant[n]
  /\ f.program = f.args[1]

KnownMeaning == Meaning(meant) /\ Len(meant.command) < COMMAND_LEN

(* The inductive invariant.                                                *)
RunInv ==
  /\ KeptInv /\ ParserTypes /\ executing \in Contexts \cup {None}
  /\ executing # None => \A s \in Contexts : At(s, "poll")
  /\ executing = None => ParserReset
  /\ meant.known =>
       /\ KnownMeaning
       /\ executing # None => LineKnown
       /\ \A s \in Contexts : ~At(s, "poll") /\ frame[s].args # <<>> => Asked(frame[s])

LEMMA UserWaits == TypeAhead = FALSE
BY LoaderAssumption, RunCommandAssumption

LEMMA StringsOfCharacters ==
  /\ \A a \in Seq(P!Chars) : a \in Seq(STRING)
  /\ \A a \in Seq(Seq(P!Chars)) : a \in Seq(Seq(STRING))
<1>1. P!Chars \subseteq STRING
  BY RunCommandAssumption
<1>2. ASSUME NEW S, NEW T, S \subseteq T, NEW a \in Seq(S) PROVE a \in Seq(T)
  BY <1>2
<1>3. Seq(P!Chars) \subseteq Seq(STRING)
  BY <1>1, <1>2
<1> QED BY <1>2, <1>3

LEMMA MeaningsMean ==
  \A m \in Meanings : Meaning(m) /\ Len(m.command) < COMMAND_LEN
<1> SUFFICES ASSUME NEW m \in Meanings PROVE Meaning(m) /\ Len(m.command) < COMMAND_LEN
  OBVIOUS
<1>1. /\ Len(m.command) \in 1..(COMMAND_LEN - 1) /\ m.command \in Seq(Letters)
      /\ m.args \in Seq(Seq(P!Chars)) /\ COMMAND_LEN \in Nat
  BY RunCommandAssumption
<1> QED BY <1>1 DEF Meaning

LEMMA NothingKnown == ~P!AnyMeaning.known
BY DEF P!AnyMeaning

LEMMA RecordOfMeaning ==
  ASSUME NEW c, NEW a
  PROVE  /\ [command |-> c, args |-> a, known |-> TRUE].command = c
         /\ [command |-> c, args |-> a, known |-> TRUE].args = a
OBVIOUS
(* A line that was written is one that is read from its start.             *)
Fresh ==
  /\ ParserTypes /\ stage = "start" /\ pos = 1 /\ command = <<>> /\ args = <<>>
  /\ \E m \in Meanings :
       Written(input, m) /\ meant.command = m.command /\ meant.args = m.args

LEMMA FreshLine == Fresh => KnownMeaning /\ LineKnown
<1> SUFFICES ASSUME Fresh PROVE KnownMeaning /\ LineKnown
  OBVIOUS
<1>1. PICK m \in Meanings :
        Written(input, m) /\ meant.command = m.command /\ meant.args = m.args
  BY DEF Fresh
<1>2. PICK z \in Nat : \E B, E, Q : LaidOut(input, m, Len(m.args), z, B, E, Q)
  BY <1>1 DEF Written
<1>3. PICK B, E, Q : LaidOut(input, m, Len(m.args), z, B, E, Q)
  BY <1>2
<1>4. LaidOut(input, meant, Len(meant.args), z, B, E, Q)
  BY <1>1, <1>3 DEF LaidOut
<1>5. Meaning(meant) /\ Len(meant.command) < COMMAND_LEN
  BY <1>1, MeaningsMean DEF Meaning
<1>6. InLine(z, B, E, Q)
  BY <1>4, <1>5 DEF InLine, Fresh
<1>7. Reads(z, B, E, Q)
  <2>1. stage = "start" /\ pos \in 1..(z + 1) /\ command = <<>> /\ args = <<>>
    BY DEF Fresh
  <2> QED BY <2>1 DEF Reads
<1> QED BY <1>5, <1>6, <1>7 DEF LineKnown, KnownMeaning

LEMMA RunInvInit == RunInit => RunInv
<1> SUFFICES ASSUME RunInit PROVE RunInv
  OBVIOUS
<1>1. /\ KeptInv /\ executing \in Contexts /\ \A s \in Contexts : At(s, "poll")
  BY KeptInvInit, PollingKept DEF RunInit, Init, At
<1>2. /\ stage = "start" /\ pos = 1 /\ command = <<>> /\ args = <<>> /\ quote = P!NUL
  BY DEF RunInit, P!Init
<1>3. executing # None
  BY <1>1 DEF Contexts, None
<1>4. ASSUME input \in Seq(P!Chars) PROVE ParserTypes
  <2>1. pos \in 1..(Len(input) + 1)
    BY <1>2, <1>4
  <2> QED BY <1>2, <1>4, <2>1, EmptyArgument, ParserSizes DEF ParserTypes, P!TypeOK
<1>5. CASE /\ input \in UNION {[1..n -> P!Chars] : n \in 0..LineLength}
           /\ meant = P!AnyMeaning
  <2>1. PICK n \in 0..LineLength : input \in [1..n -> P!Chars]
    BY <1>5
  <2>2. input \in Seq(P!Chars)
    BY <2>1, RunCommandAssumption
  <2>3. ~meant.known
    BY <1>5, NothingKnown
  <2> QED BY <1>1, <1>3, <1>4, <2>2, <2>3 DEF RunInv
<1>6. CASE \E m \in Meanings :
             /\ input \in P!LinesFor(m)
             /\ meant = [command |-> m.command, args |-> m.args, known |-> TRUE]
  <2>1. PICK m \in Meanings :
          /\ input \in P!LinesFor(m)
          /\ meant = [command |-> m.command, args |-> m.args, known |-> TRUE]
    BY <1>6
  <2>2. meant.command = m.command /\ meant.args = m.args
    BY <2>1, RecordOfMeaning
  <2>3. input \in Seq(P!Chars) /\ Written(input, m)
    BY <2>1, MeaningsMean, LinesAreWritten
  <2>4. Fresh
    BY <1>2, <1>4, <2>2, <2>3 DEF Fresh
  <2> QED BY <1>1, <1>3, <2>4, FreshLine DEF RunInv, Fresh
<1> QED BY <1>5, <1>6 DEF RunInit, P!Init

(* What a step of the loader leaves of its frame.                          *)
SameRequest(s, f) ==
  f.pc = "poll" \/ (f.args = frame[s].args /\ f.program = frame[s].program)

LEMMA Labelled ==
  ASSUME NEW f \in Frames, NEW label
  PROVE  [f EXCEPT !.pc = label].args = f.args /\ [f EXCEPT !.pc = label].program = f.program
BY DEF Frames

LEMMA GotoKeeps ==
  ASSUME KeptInv, NEW s \in Contexts, NEW label, Goto(s, label)
  PROVE  \E f : frame' = [frame EXCEPT ![s] = f] /\ SameRequest(s, f)
<1> DEFINE f == [frame[s] EXCEPT !.pc = label]
<1>1. frame[s] \in Frames /\ frame' = [frame EXCEPT ![s] = f]
  BY KeptTypes DEF Goto
<1>2. f.args = frame[s].args /\ f.program = frame[s].program
  BY <1>1, Labelled
<1> HIDE DEF f
<1> QED BY <1>1, <1>2 DEF SameRequest

LEMMA ReturnKeeps ==
  ASSUME NEW s \in Contexts, Return(s)
  PROVE  \E f : frame' = [frame EXCEPT ![s] = f] /\ SameRequest(s, f)
<1>1. SameRequest(s, Polling)
  <2>1. Polling.pc = "poll"
    BY DEF Polling
  <2> QED BY <2>1 DEF SameRequest
<1>2. frame' = [frame EXCEPT ![s] = Polling]
  BY DEF Return
<1> WITNESS Polling
<1> QED BY <1>1, <1>2

LEMMA LoaderKeepsRequest ==
  ASSUME KeptInv, NEW s \in Contexts, LoaderStep(s)
  PROVE  \E f : frame' = [frame EXCEPT ![s] = f] /\ SameRequest(s, f)
<1>1. frame[s] \in Frames /\ frame \in [Contexts -> Frames]
  BY KeptTypes
<1>2. CASE Return(s)
  BY <1>2, ReturnKeeps
<1>3. ASSUME NEW label, Goto(s, label)
      PROVE  \E f : frame' = [frame EXCEPT ![s] = f] /\ SameRequest(s, f)
  BY <1>3, GotoKeeps
<1>4. CASE Read(s) /\ ~Return(s)
  <2> DEFINE text == TextOf(frame[s].program)
  <2>1. PICK n : n = IF Len(text) < TEXT THEN Len(text) ELSE TEXT - 1
    OBVIOUS
  <2> DEFINE f == [frame[s] EXCEPT !.pc = "clear", !.length = n]
  <2>2. frame' = [frame EXCEPT ![s] = f]
    BY <1>1, <1>4, <2>1 DEF Read
  <2>3. f.args = frame[s].args /\ f.program = frame[s].program
    BY <1>1 DEF Frames
  <2> HIDE DEF f
  <2> QED BY <2>2, <2>3 DEF SameRequest
<1>5. CASE Decode(s) /\ ~Return(s)
  <2>1. PICK n : n = frame[s].i + 1
    OBVIOUS
  <2> DEFINE f == [frame[s] EXCEPT !.i = n]
  <2>2. frame' = [frame EXCEPT ![s] = f]
    BY <1>1, <1>5, <2>1 DEF Decode
  <2>3. f.args = frame[s].args /\ f.program = frame[s].program
    BY <1>1 DEF Frames
  <2> HIDE DEF f
  <2> QED BY <2>2, <2>3 DEF SameRequest
<1>6. CASE Arguments(s) /\ ~Return(s)
  <2>1. PICK n : n = Argc(s)
    OBVIOUS
  <2> DEFINE f == [frame[s] EXCEPT !.pc = "string", !.i = n]
  <2>2. frame' = [frame EXCEPT ![s] = f]
    BY <1>1, <1>6, <2>1 DEF Arguments
  <2>3. f.args = frame[s].args /\ f.program = frame[s].program
    BY <1>1 DEF Frames
  <2> HIDE DEF f
  <2> QED BY <2>2, <2>3 DEF SameRequest
<1>7. CASE String(s) /\ ~Return(s)
  <2>1. PICK p, n, addresses : /\ p = frame[s].string_pos - (Len(Arg(s, frame[s].i)) + 1)
                               /\ n = frame[s].i - 1
                               /\ addresses = <<p>> \o frame[s].string_addresses
    OBVIOUS
  <2> DEFINE f == [frame[s] EXCEPT !.string_pos = p, !.i = n, !.string_addresses = addresses]
  <2>2. frame' = [frame EXCEPT ![s] = f]
    BY <1>1, <1>7, <2>1 DEF String
  <2>3. f.args = frame[s].args /\ f.program = frame[s].program
    BY <1>1 DEF Frames
  <2> HIDE DEF f
  <2> QED BY <2>2, <2>3 DEF SameRequest
<1>8. CASE PutVector(s) /\ ~Return(s)
  <2>1. PICK base : base = VectorBase(s)
    OBVIOUS
  <2> DEFINE f == [frame[s] EXCEPT !.pc = "start", !.user_esp = base]
  <2>2. frame' = [frame EXCEPT ![s] = f]
    BY <1>1, <1>8, <2>1 DEF PutVector
  <2>3. f.args = frame[s].args /\ f.program = frame[s].program
    BY <1>1 DEF Frames
  <2> HIDE DEF f
  <2> QED BY <2>2, <2>3 DEF SameRequest
<1>9. CASE Clear(s) \/ Decoded(s) \/ Start(s) \/ Enter(s) \/ Exit(s)
  BY <1>2, <1>3, <1>9 DEF Clear, Decoded, Start, Enter, Exit
<1> QED BY <1>2, <1>4, <1>5, <1>6, <1>7, <1>8, <1>9 DEF LoaderStep

LEMMA LoaderIsBusy == \A s : LoaderStep(s) => ~At(s, "poll")
BY DEF LoaderStep, Read, Clear, Decode, Decoded, Arguments, String,
       PutVector, Start, Enter, Exit, At

(* A step of the commands is a step of the loader or leaves it alone.      *)
LEMMA RunsLoader ==
  ASSUME RunInv, RunNext PROVE [Next]_vars
<1>1. CASE Parse
  BY <1>1 DEF Parse
<1>2. ASSUME NEW s \in Contexts, Load(s) PROVE [Next]_vars
  BY <1>2 DEF Load, Next
<1>3. ASSUME NEW s \in Contexts, Type(s) PROVE [Next]_vars
  BY <1>3 DEF Type
<1>4. ASSUME NEW s \in Contexts, Execute(s) PROVE [Next]_vars
  <2>1. CASE Selftest(s)
    BY <2>1 DEF Next
  <2>2. CASE IsRun /\ Command(s, args[1], args)
    <3>1. args \in Seq(Seq(STRING)) \ {<<>>}
      BY <2>2, StringsOfCharacters DEF RunInv, ParserTypes, P!TypeOK, IsRun
    <3> QED BY <2>2, <3>1 DEF Run, Next
  <2> QED BY <1>4, <2>1, <2>2 DEF Execute, Executes
<1> QED BY <1>1, <1>2, <1>3, <1>4 DEF RunNext, KernelStep

LEMMA RunParse ==
  ASSUME RunInv, Parse PROVE RunInv'
<1>1. /\ executing # None /\ UNCHANGED <<vars, executing>> /\ P!Next /\ UNCHANGED <<input, meant>>
  BY DEF Parse, P!Next, P!Start, P!Command, P!Gap, P!Argument
<1>2. KeptInv'
  BY <1>1, UserWaits, KeptInvStep DEF RunInv
<1>3. ParserTypes'
  BY <1>1, ParserStep DEF RunInv
<1>4. ASSUME LineKnown PROVE LineKnown'
  <2>1. PICK z \in Nat : \E B, E, Q : InLine(z, B, E, Q) /\ Reads(z, B, E, Q)
    BY <1>4 DEF LineKnown
  <2>2. PICK B, E, Q : InLine(z, B, E, Q) /\ Reads(z, B, E, Q)
    BY <2>1
  <2>3. InLine(z, B, E, Q)' /\ Reads(z, B, E, Q)'
    BY <1>1, <2>2, InLineStep, LineReadStep
  <2> QED BY <2>3 DEF LineKnown
<1>5. (meant.known)' = meant.known /\ (KnownMeaning <=> KnownMeaning')
  BY <1>1 DEF KnownMeaning, Meaning
<1>6. \A s \in Contexts : At(s, "poll") /\ At(s, "poll")'
  BY <1>1 DEF RunInv, At, vars
<1> QED BY <1>1, <1>2, <1>3, <1>4, <1>5, <1>6 DEF RunInv

LEMMA RunLoad ==
  ASSUME RunInv, NEW s \in Contexts, Load(s) PROVE RunInv'
<1>1. LoaderStep(s) /\ UNCHANGED <<executing, input, meant, parser>> /\ ~At(s, "poll")
  BY LoaderIsBusy DEF Load
<1>2. KeptInv'
  <2>1. [Next]_vars
    BY <1>1 DEF Next
  <2> QED BY <2>1, UserWaits, KeptInvStep DEF RunInv
<1>3. executing = None /\ ParserReset
  BY <1>1 DEF RunInv
<1>4. ParserTypes' /\ ParserReset'
  BY <1>1, <1>3 DEF RunInv, ParserTypes, P!TypeOK, ParserReset, parser
<1>5. PICK f : frame' = [frame EXCEPT ![s] = f] /\ SameRequest(s, f)
  BY <1>1, LoaderKeepsRequest DEF RunInv
<1>6. \A t \in Contexts : frame'[t] = IF t = s THEN f ELSE frame[t]
  BY <1>5, KeptTypes DEF RunInv
<1>7. ASSUME meant.known, NEW t \in Contexts, ~At(t, "poll")', (frame[t].args # <<>>)'
      PROVE  Asked(frame[t])'
  <2>1. ~At(t, "poll") /\ frame'[t].args = frame[t].args /\ frame'[t].program = frame[t].program
    BY <1>1, <1>5, <1>6, <1>7 DEF At, SameRequest
  <2>2. Asked(frame[t])
    BY <1>7, <2>1 DEF RunInv
  <2> QED BY <1>1, <2>1, <2>2 DEF Asked, ArgsMeant
<1>8. (meant.known)' = meant.known /\ (KnownMeaning <=> KnownMeaning')
  BY <1>1 DEF KnownMeaning, Meaning
<1> QED BY <1>1, <1>2, <1>3, <1>4, <1>7, <1>8 DEF RunInv

LEMMA RunType ==
  ASSUME RunInv, NEW s \in Contexts, Type(s) PROVE RunInv'
<1>1. /\ executing = None /\ executing' = s /\ UNCHANGED <<vars, pos, command, args, quote>>
      /\ \A t \in Contexts : At(t, "poll") /\ stage' = "start" /\ ParserReset
  BY DEF Type, RunInv
<1>2. PICK m \in Meanings :
        /\ input' \in P!PlainLinesFor(m)
        /\ meant' = [command |-> m.command, args |-> m.args, known |-> TRUE]
  BY DEF Type
<1>3. KeptInv' /\ \A t \in Contexts : At(t, "poll")'
  <2>1. KeptInv'
    BY <1>1, UserWaits, KeptInvStep DEF RunInv
  <2> QED BY <1>1, <2>1 DEF At, vars
<1>4. input' \in Seq(P!Chars) /\ Written(input', m)
  BY <1>2, MeaningsMean, LinesAreWritten
<1>5. meant'.command = m.command /\ meant'.args = m.args
  BY <1>2, RecordOfMeaning
<1>6. /\ pos' = 1 /\ command' = <<>> /\ args' = <<>> /\ quote' = P!NUL
  BY <1>1 DEF ParserReset
<1>7. ParserTypes'
  <2>1. pos' \in 1..(Len(input') + 1)
    BY <1>4, <1>6
  <2> QED BY <1>1, <1>4, <1>6, <2>1, EmptyArgument, ParserSizes DEF ParserTypes, P!TypeOK
<1>8. Fresh'
  BY <1>1, <1>4, <1>5, <1>6, <1>7 DEF Fresh
<1>9. (KnownMeaning /\ LineKnown)'
  BY <1>8, FreshLine, PTL
<1>10. executing' \in Contexts /\ executing' # None
  BY <1>1 DEF Contexts, None
<1> QED BY <1>3, <1>7, <1>9, <1>10 DEF RunInv

(* What the parser hands over.                                             *)
LEMMA ParsedIsMeant ==
  ASSUME LineKnown, stage = "done", ParserTypes
  PROVE  /\ command = meant.command /\ Len(args) = Len(ArgsMeant)
         /\ Len(ArgsMeant) = IF Len(meant.args) < MAX_COMMAND_ARGS THEN Len(meant.args)
                             ELSE MAX_COMMAND_ARGS
         /\ \A n \in 1..Len(args) : args[n] = ArgsMeant[n] /\ args[n] = P!Cut(meant.args[n])
<1>1. PICK z \in Nat : \E B, E, Q : InLine(z, B, E, Q) /\ Reads(z, B, E, Q)
  BY DEF LineKnown
<1>2. PICK B, E, Q : InLine(z, B, E, Q) /\ Reads(z, B, E, Q)
  BY <1>1
<1>3. PICK n : n = IF Len(meant.args) < MAX_COMMAND_ARGS THEN Len(meant.args) ELSE MAX_COMMAND_ARGS
  OBVIOUS
<1>4. /\ command = meant.command /\ Len(args) = n
      /\ \A k \in 1..n : Copied(args[k], meant.args[k], Len(meant.args[k]))
  BY <1>2, <1>3 DEF Reads, CopiedUpto
<1>5. /\ n \in Nat /\ n <= Len(meant.args)
      /\ meant.args \in Seq(Seq(P!Chars)) /\ args \in Seq(Seq(P!Chars))
  BY <1>2, <1>3, ParserSizes DEF InLine, Meaning, ParserTypes, P!TypeOK
<1>6. ArgsMeant = [k \in 1..n |-> P!Cut(meant.args[k])]
  BY <1>3 DEF ArgsMeant
<1>7. Len(ArgsMeant) = n /\ \A k \in 1..n : ArgsMeant[k] = P!Cut(meant.args[k])
  BY <1>5, <1>6
<1>8. ASSUME NEW k \in 1..n PROVE args[k] = P!Cut(meant.args[k])
  <2>1. args[k] \in Seq(P!Chars) /\ meant.args[k] \in Seq(P!Chars)
    BY <1>4, <1>5
  <2>2. Len(args[k]) = Len(P!Cut(meant.args[k])) /\ P!Cut(meant.args[k]) \in Seq(P!Chars)
    BY <1>4, <2>1, CutIs DEF Copied
  <2>3. \A j \in 1..Len(args[k]) : args[k][j] = P!Cut(meant.args[k])[j]
    BY <1>4, <2>1, <2>2, CutIs DEF Copied
  <2> QED BY <2>1, <2>2, <2>3, SequenceIs
<1> QED BY <1>3, <1>4, <1>7, <1>8

LEMMA RunExecute ==
  ASSUME RunInv, NEW s \in Contexts, Execute(s) PROVE RunInv'
<1>1. /\ executing = s /\ executing # None /\ stage = "done" /\ Executes(s)
      /\ UNCHANGED <<meant, stage>> /\ \A t \in Contexts : At(t, "poll")
      /\ executing' = None /\ ParserReset'
  BY DEF Execute, RunInv, ParserReset, Contexts, None
<1>2. KeptInv'
  <2>1. [Next]_vars
    BY RunsLoader DEF RunNext, KernelStep
  <2> QED BY <2>1, UserWaits, KeptInvStep DEF RunInv
<1>3. ParserTypes'
  <2>1. /\ stage' = "done" /\ input' = <<>> /\ pos' = 1
        /\ command' = <<>> /\ args' = <<>> /\ quote' = P!NUL
    BY <1>1 DEF ParserReset
  <2>2. pos' \in 1..(Len(input') + 1)
    BY <2>1, EmptyArgument
  <2> QED BY <2>1, <2>2, EmptyArgument, ParserSizes DEF ParserTypes, P!TypeOK
<1>4. (meant.known)' = meant.known /\ (KnownMeaning <=> KnownMeaning')
  BY <1>1 DEF KnownMeaning, Meaning
<1>5. frame \in [Contexts -> Frames] /\ frame[s] \in Frames
  BY KeptTypes DEF RunInv
<1>6. ASSUME meant.known, NEW t \in Contexts, ~At(t, "poll")', (frame[t].args # <<>>)'
      PROVE  Asked(frame[t])'
  <2>1. CASE Command(s, args[1], args) /\ IsRun
    <3> DEFINE f == [frame[s] EXCEPT !.pc = "read", !.program = args[1], !.args = args]
    <3>1. frame' = [frame EXCEPT ![s] = f]
      BY <1>5, <2>1 DEF Command
    <3>2. t = s
      BY <1>1, <1>5, <1>6, <3>1 DEF At
    <3>3. f.args = args /\ f.program = args[1]
      BY <1>5 DEF Frames
    <3> HIDE DEF f
    <3>4. frame'[t].args = args /\ frame'[t].program = args[1]
      BY <1>5, <3>1, <3>2, <3>3
    <3>5. LineKnown /\ ParserTypes
      BY <1>1, <1>6 DEF RunInv
    <3>6. /\ command = meant.command /\ Len(args) = Len(ArgsMeant)
          /\ \A n \in 1..Len(args) : args[n] = ArgsMeant[n]
      BY <1>1, <3>5, ParsedIsMeant
    <3>7. meant'.command = run /\ ArgsMeant' = ArgsMeant
      BY <1>1, <2>1, <3>6 DEF IsRun, ArgsMeant
    <3> QED BY <3>4, <3>6, <3>7 DEF Asked
  <2>2. CASE Selftest(s)
    <3> DEFINE f == [frame[s] EXCEPT !.pc = "read", !.program = hello, !.args = <<>>]
    <3>1. frame' = [frame EXCEPT ![s] = f]
      BY <1>5, <2>2 DEF Selftest, Command
    <3>2. t = s
      BY <1>1, <1>5, <1>6, <3>1 DEF At
    <3>3. f.args = <<>>
      BY <1>5 DEF Frames
    <3> HIDE DEF f
    <3>4. frame'[t].args = <<>>
      BY <1>5, <3>1, <3>2, <3>3
    <3> QED BY <1>6, <3>4
  <2>3. CASE UNCHANGED vars
    BY <1>1, <1>6, <2>3 DEF vars, At
  <2> QED BY <1>1, <2>1, <2>2, <2>3 DEF Executes
<1> QED BY <1>1, <1>2, <1>3, <1>4, <1>6 DEF RunInv

LEMMA RunInvStep == RunInv /\ [RunNext]_allvars => RunInv'
<1> SUFFICES ASSUME RunInv, [RunNext]_allvars PROVE RunInv'
  OBVIOUS
<1>1. CASE Parse
  BY <1>1, RunParse
<1>2. ASSUME NEW s \in Contexts, Execute(s) PROVE RunInv'
  BY <1>2, RunExecute
<1>3. ASSUME NEW s \in Contexts, Load(s) PROVE RunInv'
  BY <1>3, RunLoad
<1>4. ASSUME NEW s \in Contexts, Type(s) PROVE RunInv'
  BY <1>4, RunType
<1>5. CASE UNCHANGED allvars
  <2>1. KeptInv'
    BY <1>5, UserWaits, KeptInvStep DEF RunInv, allvars
  <2>2. UNCHANGED <<vars, executing, input, meant, parser>>
    BY <1>5 DEF allvars
  <2>3. ParserTypes' /\ (ParserReset <=> ParserReset')
    BY <2>2 DEF RunInv, ParserTypes, P!TypeOK, ParserReset, parser
  <2>4. ASSUME LineKnown PROVE LineKnown'
    <3>1. PICK z \in Nat : \E B, E, Q : InLine(z, B, E, Q) /\ Reads(z, B, E, Q)
      BY <2>4 DEF LineKnown
    <3>2. PICK B, E, Q : InLine(z, B, E, Q) /\ Reads(z, B, E, Q)
      BY <3>1
    <3>3. InLine(z, B, E, Q)'
      BY <2>2, <2>3, <3>2 DEF InLine
    <3>4. Reads(z, B, E, Q)'
      BY <2>2, <3>2 DEF Reads, CopiedUpto, Copied, parser
    <3> QED BY <3>3, <3>4 DEF LineKnown
  <2>5. \A t \in Contexts : /\ At(t, "poll") <=> At(t, "poll")'
                            /\ frame'[t] = frame[t] /\ (Asked(frame[t]) <=> Asked(frame[t])')
    BY <2>2 DEF At, Asked, ArgsMeant, vars
  <2>6. (meant.known)' = meant.known /\ (KnownMeaning <=> KnownMeaning')
    BY <2>2 DEF KnownMeaning, Meaning
  <2> QED BY <2>1, <2>2, <2>3, <2>4, <2>5, <2>6 DEF RunInv
<1> QED BY <1>1, <1>2, <1>3, <1>4, <1>5 DEF RunNext, KernelStep

(* Whatever the lines, and in every step of parser and loader: the parsed  *)
(* command and arguments stay inside their buffers, the position inside the*)
(* line, and the loader's buffers and frames keep their types.             *)
THEOREM RunCommandTypes == RunSpec => []TypesOK
<1>1. RunInv => TypesOK
  BY DEF RunInv, KeptInv, ParserTypes, TypesOK
<1> QED BY <1>1, RunInvInit, RunInvStep, PTL DEF RunSpec

LEMMA CutTwice ==
  ASSUME NEW S, NEW a \in Seq(S)
  PROVE  P!Cut(P!Cut(a)) = P!Cut(a)
<1>1. P!Cut(a) \in Seq(S) /\ Len(P!Cut(a)) \in Nat /\ Len(P!Cut(a)) < MAX_COMMAND_ARG_LEN
  BY CutIs, ParserSizes
<1> DEFINE b == P!Cut(a)
<1>2. b \in Seq(S)
  BY <1>1
<1>3. Len(b) \in Nat /\ Len(b) < MAX_COMMAND_ARG_LEN
  BY <1>1
<1> HIDE DEF b
<1>4. /\ P!Cut(b) \in Seq(S) /\ Len(P!Cut(b)) = Len(b)
      /\ \A k \in 1..Len(P!Cut(b)) : P!Cut(b)[k] = b[k]
  BY <1>2, <1>3, CutIs
<1>5. P!Cut(b) = b
  BY <1>2, <1>4, SequenceIs
<1> QED BY <1>5 DEF b

(* From the keyboard to the stack page, for every command and arguments    *)
(* the user may mean and every line that says them, whatever it is quoted  *)
(* and spaced with: execute_command parses what was meant, and a program   *)
(* that is entered is the one that was named and finds these arguments, cut*)
(* to the parser's buffers, in its stack page.                             *)
THEOREM RunCommandArgumentsArrive == RunSpec => []ArgumentsArrive
<1>1. RunInv => ArgumentsArrive
  <2> SUFFICES ASSUME RunInv PROVE ArgumentsArrive
    OBVIOUS
  <2>1. executing # None => P!SaysWhatWasMeant
    <3> SUFFICES ASSUME executing # None, stage = "done", meant.known
                 PROVE  /\ command = meant.command
                        /\ Len(args) = IF Len(meant.args) < MAX_COMMAND_ARGS THEN Len(meant.args)
                                       ELSE MAX_COMMAND_ARGS
                        /\ \A n \in 1..Len(args) : args[n] = P!Cut(meant.args[n])
      BY DEF P!SaysWhatWasMeant
    <3>1. LineKnown /\ ParserTypes
      BY DEF RunInv
    <3> QED BY <3>1, ParsedIsMeant
  <2>2. ASSUME NEW s \in Contexts, At(s, "enter"), meant.known
        PROVE  /\ meant.command = run /\ frame[s].program = ArgsMeant[1]
               /\ ArgumentsAt(s, ArgsMeant)
    <3>1. KeptInv /\ KnownMeaning /\ frame[s] \in Frames
      BY <2>2, KeptTypes DEF RunInv
    <3>2. Len(frame[s].args) > 0
      BY <2>2 DEF RunInv, KeptInv, Counted, VectorLabels, At
    <3>3. frame[s].args # <<>> /\ ~At(s, "poll")
      BY <2>2, <3>2, EmptySequences DEF At
    <3>4. Asked(frame[s])
      BY <2>2, <3>3 DEF RunInv
    <3>5. PICK n, list : n = Len(frame[s].args) /\ list = ArgsMeant
      OBVIOUS
    <3>6. /\ meant.command = run /\ Len(list) = n /\ frame[s].program = frame[s].args[1]
          /\ \A k \in 1..n : frame[s].args[k] = list[k]
      BY <3>4, <3>5 DEF Asked
    <3>7. n \in Nat /\ n > 0 /\ 1 \in 1..n
      BY <3>1, <3>2, <3>5 DEF Frames
    <3>8. /\ list \in Seq(Seq(P!Chars))
          /\ \A k \in 1..Len(list) :
                list[k] = P!Cut(meant.args[k]) /\ meant.args[k] \in Seq(P!Chars)
      <4>1. PICK m : m = IF Len(meant.args) < MAX_COMMAND_ARGS
                         THEN Len(meant.args) ELSE MAX_COMMAND_ARGS
        OBVIOUS
      <4>2. meant.args \in Seq(Seq(P!Chars)) /\ m \in Nat /\ m <= Len(meant.args)
        BY <3>1, <4>1, ParserSizes DEF KnownMeaning, Meaning
      <4>3. list = [k \in 1..m |-> P!Cut(meant.args[k])]
        BY <3>5, <4>1 DEF ArgsMeant
      <4>4. \A k \in 1..m : meant.args[k] \in Seq(P!Chars)
        BY <4>2
      <4>5. \A k \in 1..m : P!Cut(meant.args[k]) \in Seq(P!Chars)
        BY <4>4, CutIs
      <4>6. list \in Seq(Seq(P!Chars)) /\ Len(list) = m
        BY <4>2, <4>3, <4>5
      <4> QED BY <4>3, <4>4, <4>6
    <3>9. \A k \in 1..Len(list) : list[k] = P!Cut(frame[s].args[k])
      BY <3>6, <3>8, CutTwice
    <3>10. list \in Seq(Seq(STRING))
      BY <3>8, StringsOfCharacters
    <3>11. ArgumentsAt(s, list)
      BY <2>2, <3>1, <3>5, <3>6, <3>9, <3>10, EnteredArguments
    <3> QED BY <3>5, <3>6, <3>7, <3>11
  <2> QED BY <2>1, <2>2 DEF ArgumentsArrive
<1> QED BY <1>1, RunInvInit, RunInvStep, PTL DEF RunSpec

(* With the parser and the commands around it the loader takes no step of  *)
(* its own: every file, list of arguments and program that the shell hands *)
(* to run_program is one the loader was verified for.                      *)
THEOREM RunCommandImplementsLoader == RunSpec => Spec
<1>1. RunInit => Init
  BY DEF RunInit
<1>2. RunInv /\ [RunNext]_allvars => [Next]_vars
  <2>1. UNCHANGED allvars => UNCHANGED vars
    BY DEF allvars
  <2> QED BY <2>1, RunsLoader
<1> QED BY <1>1, <1>2, RunInvInit, RunInvStep, PTL DEF RunSpec, Spec

(* So what holds of the loader holds of the commands: the arguments stay   *)
(* inside the stack page, and a program that is entered is the whole of    *)
(* the file that run_program was given, or run_selftest's own.             *)
THEOREM RunCommandLoads ==
  ASSUME TEXT % 2 = 0
  PROVE  RunSpec => [](StackInPage /\ RunsWhatWasAsked)
<1>1. RunSpec => Spec /\ []StackInPage
  BY RunCommandImplementsLoader, LoaderStackInPage, PTL
<1>2. Spec => []RunsWhatWasAsked
  BY UserWaits, LoaderRunsWhatWasAsked
<1> QED BY <1>1, <1>2, PTL
=============================================================================
