--------------------------- MODULE ConsoleProofs ---------------------------
(***************************************************************************)
(* Theorems about Console, for every size of the screen and of the line,   *)
(* every prompt and output, and every keyboard queue: the buffer and the   *)
(* screen stay in their bounds, the line is the one the user typed and the *)
(* one the screen shows, and a press of Enter executes it once.            *)
(***************************************************************************)
EXTENDS Console, WellFoundedInduction, TLAPS

Glyphs  == Chars \cup {Blank} \cup {PROMPT[n] : n \in DOMAIN PROMPT}
Screens == [row : 0..(ROWS - 1), col : 0..COLS, video : [Cells -> Glyphs]]

(* Nothing is shown behind the cursor.                                     *)
Clean(s) ==
  \A p \in Cells : p[1] > s.row \/ (p[1] = s.row /\ p[2] >= s.col) => s.video[p] = Blank

LEMMA CellsType ==
  /\ \A p \in Cells : p[1] \in 0..(ROWS - 1) /\ p[2] \in 0..(COLS - 1) /\ p = <<p[1], p[2]>>
  /\ \A r \in 0..(ROWS - 1), c \in 0..(COLS - 1) : <<r, c>> \in Cells
BY DEF Cells

LEMMA GlyphsType == Blank \in Glyphs /\ NL \notin Chars /\ Chars \subseteq Glyphs
BY ConsoleAssumption DEF Glyphs

(* move_cursor_next_line.                                                  *)
LEMMA NextLineClean ==
  ASSUME NEW s \in Screens, Clean(s)
  PROVE  NextLine(s) \in Screens /\ Clean(NextLine(s)) /\ NextLine(s).col = 0
<1>1. CASE s.row + 1 < ROWS
  <2> DEFINE r == s.row + 1
             t == [s EXCEPT !.row = r, !.col = 0]
  <2>1. NextLine(s) = t
    BY <1>1 DEF NextLine
  <2>2. r \in 0..(ROWS - 1) /\ 0 \in 0..COLS /\ s.row \in Nat
    BY <1>1, ConsoleAssumption DEF Screens
  <2> HIDE DEF r
  <2>3. t \in Screens /\ t.row = r /\ t.col = 0 /\ t.video = s.video
    BY <2>2 DEF Screens
  <2> HIDE DEF t
  <2>4. Clean(t)
    <3>1. ASSUME NEW p \in Cells, p[1] > r \/ p[1] = r PROVE s.video[p] = Blank
      <4>1. p[1] > s.row
        BY <2>2, <3>1, CellsType, ConsoleAssumption DEF r
      <4> QED BY <4>1 DEF Clean
    <3> QED BY <2>3, <3>1 DEF Clean
  <2> QED BY <2>1, <2>3, <2>4
<1>2. CASE ~(s.row + 1 < ROWS)
  <2> DEFINE v == [p \in Cells |-> IF p[1] = ROWS - 1 THEN Blank
                                                      ELSE s.video[<<p[1] + 1, p[2]>>]]
             r == ROWS - 1
             t == [row |-> r, col |-> 0, video |-> v]
  <2>1. NextLine(s) = t
    BY <1>2 DEF NextLine
  <2>2. v \in [Cells -> Glyphs]
    <3>1. ASSUME NEW p \in Cells, p[1] # ROWS - 1 PROVE <<p[1] + 1, p[2]>> \in Cells
      <4>1. p[1] + 1 \in 0..(ROWS - 1) /\ p[2] \in 0..(COLS - 1)
        BY <3>1, CellsType, ConsoleAssumption
      <4> QED BY <4>1, CellsType
    <3> QED BY <3>1, GlyphsType DEF Screens
  <2>3. \A p \in Cells : p[1] = r => v[p] = Blank
    OBVIOUS
  <2>4. r \in 0..(ROWS - 1) /\ 0 \in 0..COLS
    BY ConsoleAssumption
  <2>5. \A p \in Cells : ~(p[1] > r)
    BY CellsType, ConsoleAssumption
  <2> HIDE DEF v, r
  <2>6. t \in Screens /\ t.row = r /\ t.col = 0 /\ t.video = v
    BY <2>2, <2>4 DEF Screens
  <2> HIDE DEF t
  <2>7. Clean(t)
    BY <2>3, <2>5, <2>6 DEF Clean
  <2> QED BY <2>1, <2>6, <2>7
<1> QED BY <1>1, <1>2

(* putchar where there is room in the row.                                 *)
LEMMA PutInRow ==
  ASSUME NEW s \in Screens, s.col < COLS, NEW c \in Glyphs, c # NL
  PROVE  /\ putchar(s, c) \in Screens
         /\ putchar(s, c).row = s.row /\ putchar(s, c).col = s.col + 1
         /\ \A p \in Cells : putchar(s, c).video[p] = IF p = <<s.row, s.col>> THEN c ELSE s.video[p]
<1> DEFINE v == [p \in Cells |-> IF p = <<s.row, s.col>> THEN c ELSE s.video[p]]
           n == s.col + 1
           t == [s EXCEPT !.video = v, !.col = n]
<1>1. s.row \in 0..(ROWS - 1) /\ s.col \in 0..COLS /\ s.video \in [Cells -> Glyphs]
  BY DEF Screens
<1>2. ~(s.col >= COLS)
  BY <1>1, ConsoleAssumption
<1>3. putchar(s, c) = t
  BY <1>2 DEF putchar, Screens
<1>4. v \in [Cells -> Glyphs] /\ n \in 0..COLS
  BY <1>1, ConsoleAssumption
<1>5. \A p \in Cells : v[p] = IF p = <<s.row, s.col>> THEN c ELSE s.video[p]
  OBVIOUS
<1>6. n = s.col + 1
  OBVIOUS
<1> HIDE DEF v, n
<1>7. t \in Screens /\ t.row = s.row /\ t.col = n /\ t.video = v
  BY <1>4 DEF Screens
<1> QED BY <1>3, <1>5, <1>6, <1>7

LEMMA PutClean ==
  ASSUME NEW s \in Screens, Clean(s), NEW c \in Glyphs \cup {NL}
  PROVE  putchar(s, c) \in Screens /\ Clean(putchar(s, c)) /\ (c = NL => putchar(s, c).col = 0)
<1>1. CASE c = NL
  BY <1>1, NextLineClean DEF putchar
<1>2. ASSUME NEW w \in Screens, Clean(w), w.col < COLS, c # NL
      PROVE  putchar(w, c) \in Screens /\ Clean(putchar(w, c))
  <2>1. /\ putchar(w, c) \in Screens
        /\ putchar(w, c).row = w.row /\ putchar(w, c).col = w.col + 1
        /\ \A p \in Cells : p # <<w.row, w.col>> => putchar(w, c).video[p] = w.video[p]
    BY <1>2, PutInRow
  <2>2. ASSUME NEW p \in Cells, p[1] > w.row \/ (p[1] = w.row /\ p[2] >= w.col + 1)
        PROVE  putchar(w, c).video[p] = Blank
    <3>1. w.row \in Nat /\ w.col \in Nat /\ p[1] \in Int /\ p[2] \in Int
      BY CellsType, ConsoleAssumption DEF Screens
    <3>2. p # <<w.row, w.col>> /\ (p[1] > w.row \/ (p[1] = w.row /\ p[2] >= w.col))
      BY <2>2, <3>1
    <3> QED BY <1>2, <2>1, <3>2 DEF Clean
  <2> QED BY <2>1, <2>2 DEF Clean
<1>3. CASE c # NL /\ s.col < COLS
  BY <1>2, <1>3
<1>4. CASE c # NL /\ ~(s.col < COLS)
  <2> DEFINE w == NextLine(s)
  <2>1. w \in Screens /\ Clean(w) /\ w.col = 0 /\ w.col < COLS
    BY NextLineClean, ConsoleAssumption
  <2>2. s.col >= COLS /\ ~(w.col >= COLS)
    BY <1>4, <2>1, ConsoleAssumption DEF Screens
  <2> HIDE DEF w
  <2>3. putchar(s, c) = putchar(w, c)
    BY <1>4, <2>2 DEF putchar, w
  <2> QED BY <1>2, <1>4, <2>1, <2>3
<1> QED BY <1>1, <1>3, <1>4

-----------------------------------------------------------------------------
(* Every nonempty set of natural numbers has a least element: induction,   *)
(* for what the loop of print has shown.                                   *)
LEMMA LeastNumber ==
  ASSUME NEW T, T \subseteq Nat, T # {}
  PROVE  \E x \in T : \A y \in T : x <= y
<1> DEFINE R == OpToRel(<, Nat)
<1>1. IsWellFoundedOn(R, Nat)
  BY NatLessThanWellFounded
<1>2. \A x, y \in Nat : x < y => <<x, y>> \in R
  BY DEF OpToRel
<1> HIDE DEF R
<1>3. PICK x \in T : \A y \in T : ~(<<y, x>> \in R)
  BY <1>1, WFMin
<1>4. \A y \in T : x \in Nat /\ y \in Nat /\ ~(y < x)
  BY <1>2, <1>3
<1> QED BY <1>3, <1>4

(* The screens after each character of str.                                *)
Prints(f, s, str) ==
  f[0] = s /\ \A n \in 1..Len(str) : f[n] = putchar(f[n - 1], str[n])

After(f, s, str) == [n \in 0..Len(str) |-> IF n = 0 THEN s ELSE putchar(f[n - 1], str[n])]

LEMMA PrintsSome ==
  ASSUME NEW s, NEW str, Len(str) \in Nat
  PROVE  \E f : f = After(f, s, str)
<1> DEFINE Upto(f, m) == f = [n \in 0..m |-> IF n = 0 THEN s ELSE putchar(f[n - 1], str[n])]
           T == {m \in Nat : ~\E f : Upto(f, m)}
<1>1. \E f : Upto(f, 0)
  <2>1. 0..0 = {0}
    OBVIOUS
  <2> DEFINE f == [n \in 0..0 |-> s]
  <2>2. Upto(f, 0)
    BY <2>1
  <2> QED BY <2>2
<1>2. ASSUME NEW m \in Nat, NEW g, Upto(g, m) PROVE \E f : Upto(f, m + 1)
  <2> DEFINE f == [n \in 0..(m + 1) |-> IF n = m + 1 THEN putchar(g[m], str[n]) ELSE g[n]]
  <2>1. \A n \in 0..m : f[n] = g[n]
    OBVIOUS
  <2>2. \A n \in 0..m : g[n] = IF n = 0 THEN s ELSE putchar(g[n - 1], str[n])
    BY <1>2
  <2>3. f[m + 1] = putchar(f[m], str[m + 1])
    BY <2>1
  <2>4. ASSUME NEW n \in 0..(m + 1)
        PROVE  f[n] = IF n = 0 THEN s ELSE putchar(f[n - 1], str[n])
    <3>1. CASE n = m + 1
      BY <2>3, <3>1
    <3>2. CASE n \in 0..m
      <4>1. n # 0 => n - 1 \in 0..m
        BY <3>2
      <4> HIDE DEF f
      <4> QED BY <2>1, <2>2, <3>2, <4>1
    <3> QED BY <3>1, <3>2
  <2>5. f = [n \in 0..(m + 1) |-> f[n]]
    OBVIOUS
  <2> HIDE DEF f
  <2>6. Upto(f, m + 1)
    BY <2>4, <2>5
  <2> QED BY <2>6
<1>3. T = {}
  <2> SUFFICES ASSUME T # {} PROVE FALSE
    OBVIOUS
  <2>0. T \subseteq Nat
    OBVIOUS
  <2>1. PICK k \in T : \A j \in T : k <= j
    <3> HIDE DEF T
    <3> QED BY <2>0, LeastNumber
  <2>2. k \in Nat /\ k # 0
    BY <1>1, <2>1
  <2>3. k - 1 \in Nat /\ k - 1 \notin T
    BY <2>1, <2>2
  <2>4. PICK g : Upto(g, k - 1)
    BY <2>3
  <2>5. (k - 1) + 1 = k
    BY <2>2
  <2> HIDE DEF Upto
  <2> QED BY <1>2, <2>1, <2>3, <2>4, <2>5
<1>4. \E f : Upto(f, Len(str))
  BY <1>3
<1> QED BY <1>4 DEF After

LEMMA PrintIsLast ==
  ASSUME NEW s, NEW str, Len(str) \in Nat
  PROVE  \E f : Prints(f, s, str) /\ print(s, str) = f[Len(str)]
<1> DEFINE f == CHOOSE g : g = After(g, s, str)
<1>1. f = After(f, s, str)
  BY PrintsSome
<1>2. print(s, str) = f[Len(str)]
  BY DEF print, After
<1> HIDE DEF f
<1>3. \A n \in 0..Len(str) : f[n] = IF n = 0 THEN s ELSE putchar(f[n - 1], str[n])
  BY <1>1 DEF After
<1>4. Prints(f, s, str)
  BY <1>3 DEF Prints
<1> QED BY <1>2, <1>4

(* The loop keeps everything behind the cursor clean.                      *)
LEMMA PrintsClean ==
  ASSUME NEW s \in Screens, Clean(s), NEW str, Len(str) \in Nat,
         \A n \in 1..Len(str) : str[n] \in Glyphs \cup {NL},
         NEW f, Prints(f, s, str)
  PROVE  \A n \in 0..Len(str) : f[n] \in Screens /\ Clean(f[n])
<1> DEFINE T == {n \in 0..Len(str) : ~(f[n] \in Screens /\ Clean(f[n]))}
<1>0. T \subseteq Nat
  OBVIOUS
<1>1. 0 \notin T
  BY DEF Prints
<1>2. ASSUME T # {} PROVE FALSE
  <2>1. PICK k \in T : \A j \in T : k <= j
    <3> HIDE DEF T
    <3> QED BY <1>0, <1>2, LeastNumber
  <2>2. k \in 1..Len(str) /\ k - 1 \in 0..Len(str)
    BY <1>1, <2>1
  <2>3. k - 1 \notin T
    BY <2>1, <2>2
  <2>4. f[k - 1] \in Screens /\ Clean(f[k - 1])
    BY <2>2, <2>3
  <2>5. f[k] = putchar(f[k - 1], str[k]) /\ str[k] \in Glyphs \cup {NL}
    BY <2>2 DEF Prints
  <2> QED BY <2>1, <2>4, <2>5, PutClean
<1> QED BY <1>2

(* The row of the cursor shows n characters of str and nothing else.       *)
Shows(s, str, n) ==
  /\ s.col = n
  /\ \A c \in 0..(COLS - 1) : s.video[<<s.row, c>>] = IF c < n THEN str[c + 1] ELSE Blank

LEMMA EmptyRow ==
  ASSUME NEW s \in Screens, Clean(s), s.col = 0, NEW str
  PROVE  Shows(s, str, 0)
<1>1. s.row \in 0..(ROWS - 1)
  BY DEF Screens
<1>2. \A c \in 0..(COLS - 1) : /\ <<s.row, c>> \in Cells /\ c >= s.col /\ ~(c < 0)
                               /\ <<s.row, c>>[1] = s.row /\ <<s.row, c>>[2] = c
  BY <1>1, CellsType, ConsoleAssumption
<1>3. \A c \in 0..(COLS - 1) : s.video[<<s.row, c>>] = Blank
  BY <1>2 DEF Clean
<1> QED BY <1>2, <1>3 DEF Shows

(* One more character in the row.                                          *)
LEMMA ShowsOneMore ==
  ASSUME NEW s \in Screens, NEW str, NEW n \in Nat, n < COLS, Shows(s, str, n),
         str[n + 1] \in Glyphs, str[n + 1] # NL
  PROVE  Shows(putchar(s, str[n + 1]), str, n + 1)
<1> DEFINE t == putchar(s, str[n + 1])
<1>1. s.col = n /\ s.row \in 0..(ROWS - 1)
  BY DEF Shows, Screens
<1>2. /\ t.row = s.row /\ t.col = n + 1
      /\ \A p \in Cells : t.video[p] = IF p = <<s.row, n>> THEN str[n + 1] ELSE s.video[p]
  BY <1>1, PutInRow
<1> HIDE DEF t
<1>3. ASSUME NEW c \in 0..(COLS - 1)
      PROVE  t.video[<<t.row, c>>] = IF c < n + 1 THEN str[c + 1] ELSE Blank
  <2>1. <<t.row, c>> \in Cells
    BY <1>1, <1>2, CellsType
  <2>2. s.video[<<s.row, c>>] = IF c < n THEN str[c + 1] ELSE Blank
    BY DEF Shows
  <2>3. c \in Int /\ (c < n + 1 <=> c < n \/ c = n)
    BY ConsoleAssumption
  <2> QED BY <1>2, <2>1, <2>2, <2>3
<1>4. Shows(t, str, n + 1)
  BY <1>2, <1>3 DEF Shows
<1> QED BY <1>4 DEF t

(* The prompt, from an empty row: it fits.                                 *)
LEMMA PromptType ==
  /\ Len(PROMPT) \in Nat /\ Len(PROMPT) < COLS /\ DOMAIN PROMPT = 1..Len(PROMPT)
  /\ \A n \in 1..Len(PROMPT) : PROMPT[n] \in Glyphs /\ PROMPT[n] # NL
<1>1. Len(PROMPT) \in Nat /\ DOMAIN PROMPT = 1..Len(PROMPT)
  BY ConsoleAssumption
<1>2. Len(PROMPT) < COLS
  BY <1>1, ConsoleAssumption
<1>3. \A n \in DOMAIN PROMPT : PROMPT[n] \in Glyphs /\ PROMPT[n] # NL
  BY ConsoleAssumption DEF Glyphs
<1> QED BY <1>1, <1>2, <1>3

LEMMA PromptShown ==
  ASSUME NEW f, NEW m \in Nat,
         \A n \in 0..Len(PROMPT) : f[m + n] \in Screens,
         Clean(f[m]), f[m].col = 0,
         \A n \in 1..Len(PROMPT) : f[m + n] = putchar(f[m + n - 1], PROMPT[n])
  PROVE  Shows(f[m + Len(PROMPT)], PROMPT, Len(PROMPT))
<1> DEFINE T == {n \in 0..Len(PROMPT) : ~Shows(f[m + n], PROMPT, n)}
<1>0. T \subseteq Nat /\ Len(PROMPT) \in Nat
  BY PromptType
<1>1. 0 \notin T
  <2>1. m + 0 = m /\ 0 \in 0..Len(PROMPT)
    BY <1>0
  <2> QED BY <2>1, EmptyRow
<1>2. ASSUME T # {} PROVE FALSE
  <2>1. PICK k \in T : \A j \in T : k <= j
    <3> HIDE DEF T
    <3> QED BY <1>0, <1>2, LeastNumber
  <2>2. k \in 1..Len(PROMPT) /\ k - 1 \in 0..Len(PROMPT) /\ k - 1 < COLS /\ k - 1 \in Nat
    <3>1. k \in 0..Len(PROMPT) /\ k # 0
      BY <1>1, <2>1
    <3> HIDE DEF T
    <3> QED BY <1>0, <3>1, PromptType, ConsoleAssumption
  <2>3. k - 1 \notin T
    BY <2>1, <2>2
  <2>4. (k - 1) + 1 = k /\ m + k - 1 = m + (k - 1)
    BY <2>2
  <2>5. Shows(f[m + (k - 1)], PROMPT, k - 1) /\ f[m + (k - 1)] \in Screens
    BY <2>2, <2>3
  <2>6. PROMPT[(k - 1) + 1] \in Glyphs /\ PROMPT[(k - 1) + 1] # NL
    BY <2>2, <2>4, PromptType
  <2>7. Shows(putchar(f[m + (k - 1)], PROMPT[(k - 1) + 1]), PROMPT, (k - 1) + 1)
    BY <2>2, <2>5, <2>6, ShowsOneMore
  <2>8. f[m + k] = putchar(f[m + (k - 1)], PROMPT[k])
    BY <2>2, <2>4
  <2>9. Shows(f[m + k], PROMPT, k)
    BY <2>4, <2>7, <2>8
  <2> QED BY <2>1, <2>9
<1>3. Len(PROMPT) \notin T
  BY <1>2
<1> QED BY <1>0, <1>3

(* A screen that shows an empty line.                                      *)
Prompted(s) == s \in Screens /\ Clean(s) /\ Shows(s, PROMPT, Len(PROMPT))

LEMMA ClearScreenClean ==
  ClearScreen \in Screens /\ Clean(ClearScreen) /\ ClearScreen.col = 0
<1> DEFINE v == [p \in Cells |-> Blank]
           t == [row |-> 0, col |-> 0, video |-> v]
<1>1. v \in [Cells -> Glyphs] /\ \A p \in Cells : v[p] = Blank
  BY GlyphsType
<1>2. 0 \in 0..(ROWS - 1) /\ 0 \in 0..COLS
  BY ConsoleAssumption
<1>3. ClearScreen = t
  BY DEF ClearScreen
<1> HIDE DEF v
<1>4. t \in Screens /\ t.col = 0 /\ t.video = v
  BY <1>1, <1>2 DEF Screens
<1> HIDE DEF t
<1> QED BY <1>1, <1>3, <1>4 DEF Clean

LEMMA ClearedPrompt == Prompted(print(ClearScreen, PROMPT))
<1>1. PICK f : Prints(f, ClearScreen, PROMPT) /\ print(ClearScreen, PROMPT) = f[Len(PROMPT)]
  BY PrintIsLast, PromptType
<1>2. \A n \in 0..Len(PROMPT) : f[n] \in Screens /\ Clean(f[n])
  BY <1>1, PrintsClean, PromptType, ClearScreenClean
<1>3. f[0].col = 0
  BY <1>1, ClearScreenClean DEF Prints
<1>4. \A n \in 0..Len(PROMPT) : 0 + n = n /\ 0 + n - 1 = n - 1
  BY PromptType
<1>5. 0 \in 0..Len(PROMPT) /\ Len(PROMPT) \in 0..Len(PROMPT)
  BY PromptType
<1>6. \A n \in 1..Len(PROMPT) : f[0 + n] = putchar(f[0 + n - 1], PROMPT[n])
  BY <1>1, PromptType DEF Prints
<1>7. \A n \in 0..Len(PROMPT) : f[0 + n] \in Screens
  BY <1>2, <1>4
<1>8. Shows(f[0 + Len(PROMPT)], PROMPT, Len(PROMPT))
  BY <1>2, <1>3, <1>5, <1>6, <1>7, PromptShown
<1> QED BY <1>1, <1>2, <1>4, <1>5, <1>8 DEF Prompted

(* execute_command: a new line, whole lines of output, the prompt.         *)
LEMMA OutputPrompt ==
  ASSUME NEW s \in Screens, Clean(s), NEW o \in Outputs
  PROVE  Prompted(print(s, <<NL>> \o o \o PROMPT))
<1> DEFINE str == <<NL>> \o o \o PROMPT
           m == 1 + Len(o)
<1>1. /\ o \in Seq(Glyphs \cup {NL}) /\ PROMPT \in Seq(Glyphs \cup {NL})
      /\ <<NL>> \in Seq(Glyphs \cup {NL})
  <2>1. o \in Seq(Chars \cup {NL, Blank})
    BY ConsoleAssumption
  <2>2. \A n \in 1..Len(o) : o[n] \in Glyphs \cup {NL}
    BY <2>1, GlyphsType
  <2>3. o \in Seq(Glyphs \cup {NL})
    BY <2>1, <2>2
  <2>4. PROMPT \in Seq(Glyphs \cup {NL})
    BY PromptType, ConsoleAssumption
  <2> QED BY <2>3, <2>4
<1>2. /\ str \in Seq(Glyphs \cup {NL}) /\ Len(str) = m + Len(PROMPT) /\ m \in 1..Len(str)
      /\ \A n \in 1..Len(PROMPT) : str[m + n] = PROMPT[n]
  BY <1>1
<1>3. str[m] = NL
  <2>1. CASE o = <<>>
    BY <1>1, <2>1
  <2>2. CASE o # <<>>
    <3>1. o[Len(o)] = NL
      BY <2>2, ConsoleAssumption DEF Last
    <3>2. Len(o) \in 1..Len(o)
      BY <1>1, <2>2
    <3> QED BY <1>1, <3>1, <3>2
  <2> QED BY <2>1, <2>2
<1>4. Len(str) \in Nat /\ \A n \in 1..Len(str) : str[n] \in Glyphs \cup {NL}
  BY <1>2
<1>5. m \in Nat /\ Len(PROMPT) \in Nat
  BY <1>1, PromptType
<1> HIDE DEF str, m
<1>6. PICK f : Prints(f, s, str) /\ print(s, str) = f[Len(str)]
  BY <1>4, PrintIsLast
<1>7. \A n \in 0..Len(str) : f[n] \in Screens /\ Clean(f[n])
  BY <1>4, <1>6, PrintsClean
<1>8. f[m].col = 0
  <2>1. f[m] = putchar(f[m - 1], NL) /\ m - 1 \in 0..Len(str)
    BY <1>2, <1>3, <1>6 DEF Prints
  <2> QED BY <1>7, <2>1, PutClean
<1>9. \A n \in 1..Len(PROMPT) : f[m + n] = putchar(f[m + n - 1], PROMPT[n])
  <2>1. \A n \in 1..Len(PROMPT) : m + n \in 1..Len(str)
    BY <1>2, <1>5
  <2> QED BY <1>2, <1>6, <2>1 DEF Prints
<1>10. \A n \in 0..Len(PROMPT) : f[m + n] \in Screens
  <2>1. \A n \in 0..Len(PROMPT) : m + n \in 0..Len(str)
    BY <1>2, <1>5
  <2> QED BY <1>7, <2>1
<1>11. m \in 0..Len(str) /\ Len(str) \in 0..Len(str)
  BY <1>2, <1>4
<1>12. Shows(f[m + Len(PROMPT)], PROMPT, Len(PROMPT))
  BY <1>5, <1>7, <1>8, <1>9, <1>10, <1>11, PromptShown
<1> QED BY <1>2, <1>6, <1>7, <1>11, <1>12 DEF Prompted, str

-----------------------------------------------------------------------------
(* The buffer and the row of the cursor.                                   *)
LineOf(buffer, n) == [i \in 1..n |-> buffer[i - 1]]

Buffers == [0..MAX_LINE -> Chars \cup {NUL}]

IsString(buffer, n) == buffer[n] = NUL /\ \A i \in 0..(n - 1) : buffer[i] # NUL

(* The row shows the prompt and the first n characters of the buffer.      *)
RowShows(s, buffer, n) ==
  s \in Screens /\ Clean(s) /\ Shows(s, PROMPT \o LineOf(buffer, n), Len(PROMPT) + n)

LEMMA LineType ==
  ASSUME NEW buffer \in Buffers, NEW n \in 0..MAX_LINE, IsString(buffer, n)
  PROVE  LineOf(buffer, n) \in Seq(Chars) /\ Len(LineOf(buffer, n)) = n
<1>1. MAX_LINE \in Nat /\ n \in Nat
  BY ConsoleAssumption
<1>2. \A i \in 1..n : i - 1 \in 0..MAX_LINE /\ i - 1 \in 0..(n - 1)
  BY <1>1
<1>3. \A i \in 1..n : buffer[i - 1] \in Chars
  BY <1>2 DEF Buffers, IsString
<1> QED BY <1>1, <1>3 DEF LineOf

LEMMA ShownLine ==
  ASSUME NEW buffer \in Buffers, NEW n \in 0..MAX_LINE, IsString(buffer, n)
  PROVE  \A c \in 0..(Len(PROMPT) + n - 1) :
           (PROMPT \o LineOf(buffer, n))[c + 1] =
             IF c < Len(PROMPT) THEN PROMPT[c + 1] ELSE buffer[c - Len(PROMPT)]
<1>1. LineOf(buffer, n) \in Seq(Chars) /\ Len(LineOf(buffer, n)) = n
  BY LineType
<1>2. PROMPT \in Seq(STRING) /\ Len(PROMPT) \in Nat /\ n \in Nat
  BY ConsoleAssumption, PromptType
<1>3. ASSUME NEW c \in 0..(Len(PROMPT) + n - 1)
      PROVE  (PROMPT \o LineOf(buffer, n))[c + 1] =
               IF c < Len(PROMPT) THEN PROMPT[c + 1] ELSE buffer[c - Len(PROMPT)]
  <2>1. c + 1 \in 1..(Len(PROMPT) + n)
    BY <1>2
  <2>2. (PROMPT \o LineOf(buffer, n))[c + 1] =
          IF c + 1 <= Len(PROMPT) THEN PROMPT[c + 1] ELSE LineOf(buffer, n)[c + 1 - Len(PROMPT)]
    BY <1>1, <1>2, <2>1
  <2>3. CASE c < Len(PROMPT)
    BY <1>2, <2>2, <2>3
  <2>4. CASE ~(c < Len(PROMPT))
    <3>1. c + 1 - Len(PROMPT) \in 1..n /\ ~(c + 1 <= Len(PROMPT))
          /\ c + 1 - Len(PROMPT) - 1 = c - Len(PROMPT)
      BY <1>2, <2>4
    <3>2. LineOf(buffer, n)[c + 1 - Len(PROMPT)] = buffer[c - Len(PROMPT)]
      BY <3>1 DEF LineOf
    <3> QED BY <2>2, <2>4, <3>1, <3>2
  <2> QED BY <2>3, <2>4
<1> QED BY <1>3

(* A prompt is the row of an empty line.                                   *)
LEMMA PromptedRow ==
  ASSUME NEW s, Prompted(s), NEW buffer \in Buffers, buffer[0] = NUL
  PROVE  RowShows(s, buffer, 0)
<1>1. IsString(buffer, 0) /\ 0 \in 0..MAX_LINE
  BY ConsoleAssumption DEF IsString
<1>2. Len(PROMPT) + 0 = Len(PROMPT) /\ Len(PROMPT) \in Nat
  BY PromptType
<1>3. \A c \in 0..(COLS - 1) : c < Len(PROMPT) => c \in 0..(Len(PROMPT) + 0 - 1)
  BY <1>2
<1>4. Shows(s, PROMPT \o LineOf(buffer, 0), Len(PROMPT))
  BY <1>1, <1>3, ShownLine DEF Prompted, Shows
<1> QED BY <1>2, <1>4 DEF Prompted, RowShows

(* What the buffers agree on the row shows of either.                      *)
LEMMA SameShown ==
  ASSUME NEW s, NEW b \in Buffers, NEW d \in Buffers, NEW n \in 0..MAX_LINE,
         IsString(b, n), NEW m \in 0..MAX_LINE, IsString(d, m),
         NEW j \in 0..n, j <= m, \A i \in 0..(j - 1) : d[i] = b[i],
         Shows(s, PROMPT \o LineOf(b, n), Len(PROMPT) + j)
  PROVE  Shows(s, PROMPT \o LineOf(d, m), Len(PROMPT) + j)
<1>1. /\ Len(PROMPT) \in Nat /\ n \in Nat /\ m \in Nat /\ j \in Nat /\ COLS \in Nat
      /\ j <= n /\ j <= m
  BY PromptType, ConsoleAssumption
<1>2. ASSUME NEW c \in 0..(COLS - 1), c < Len(PROMPT) + j
      PROVE  (PROMPT \o LineOf(d, m))[c + 1] = (PROMPT \o LineOf(b, n))[c + 1]
  <2>1. /\ c \in 0..(Len(PROMPT) + n - 1) /\ c \in 0..(Len(PROMPT) + m - 1)
        /\ ~(c < Len(PROMPT)) => c - Len(PROMPT) \in 0..(j - 1)
    BY <1>1, <1>2
  <2>2. (PROMPT \o LineOf(d, m))[c + 1] =
          IF c < Len(PROMPT) THEN PROMPT[c + 1] ELSE d[c - Len(PROMPT)]
    BY <2>1, ShownLine
  <2>3. (PROMPT \o LineOf(b, n))[c + 1] =
          IF c < Len(PROMPT) THEN PROMPT[c + 1] ELSE b[c - Len(PROMPT)]
    BY <2>1, ShownLine
  <2> QED BY <2>1, <2>2, <2>3
<1> QED BY <1>2 DEF Shows

Entered(b, n, k) == [i \in DOMAIN b |-> IF i = n THEN k ELSE IF i = n + 1 THEN NUL ELSE b[i]]

LEMMA CharacterEntered ==
  ASSUME NEW s, NEW b \in Buffers, NEW n \in 0..MAX_LINE, IsString(b, n), RowShows(s, b, n),
         n < MAX_LINE, NEW k \in Chars
  PROVE  LET d == Entered(b, n, k)
         IN /\ d \in Buffers /\ n + 1 \in 0..MAX_LINE /\ IsString(d, n + 1)
            /\ RowShows(putchar(s, k), d, n + 1)
            /\ LineOf(d, n + 1) = Append(LineOf(b, n), k)
<1> DEFINE d == Entered(b, n, k)
           m == n + 1
           str == PROMPT \o LineOf(d, m)
<1>1. /\ MAX_LINE \in Nat /\ n \in Nat /\ m \in 0..MAX_LINE /\ Len(PROMPT) \in Nat
      /\ COLS \in Nat /\ Len(PROMPT) + n < COLS
  BY ConsoleAssumption, PromptType
<1>2. k # NUL /\ k # NL /\ k \in Glyphs
  BY ConsoleAssumption, GlyphsType
<1>3. d \in Buffers
  BY DEF Buffers, Entered
<1>4. d[n] = k /\ d[m] = NUL /\ \A i \in 0..(n - 1) : d[i] = b[i]
  BY <1>1 DEF Buffers, Entered
<1>5. IsString(d, m)
  <2>1. \A i \in 0..(m - 1) : i = n \/ i \in 0..(n - 1)
    BY <1>1
  <2> QED BY <1>2, <1>4, <2>1 DEF IsString
<1>6. LineOf(d, m) = Append(LineOf(b, n), k)
  <2>1. LineOf(b, n) \in Seq(Chars) /\ Len(LineOf(b, n)) = n
    BY LineType
  <2>2. LineOf(d, m) \in Seq(Chars) /\ Len(LineOf(d, m)) = m
    BY <1>1, <1>3, <1>5, LineType
  <2>3. ASSUME NEW i \in 1..m PROVE LineOf(d, m)[i] = Append(LineOf(b, n), k)[i]
    <3>1. LineOf(d, m)[i] = d[i - 1]
      BY <2>3 DEF LineOf
    <3>2. CASE i = m
      BY <1>1, <1>4, <2>1, <3>1, <3>2
    <3>3. CASE i # m
      <4>1. i \in 1..n /\ i - 1 \in 0..(n - 1)
        BY <1>1, <3>3
      <4>2. LineOf(b, n)[i] = b[i - 1]
        BY <4>1 DEF LineOf
      <4> QED BY <1>1, <1>4, <2>1, <3>1, <4>1, <4>2
    <3> QED BY <3>2, <3>3
  <2> HIDE DEF d, m
  <2>4. Append(LineOf(b, n), k) \in Seq(Chars) /\ Len(Append(LineOf(b, n), k)) = m
    BY <2>1 DEF m
  <2> QED BY <2>2, <2>3, <2>4
<1>7. Shows(s, str, Len(PROMPT) + n)
  <2>1. n \in 0..n /\ n <= m
    BY <1>1
  <2> HIDE DEF d, m
  <2> QED BY <1>1, <1>3, <1>4, <1>5, <2>1, SameShown DEF RowShows
<1>8. str[Len(PROMPT) + n + 1] = k
  <2>1. /\ Len(PROMPT) + n \in 0..(Len(PROMPT) + m - 1) /\ ~(Len(PROMPT) + n < Len(PROMPT))
        /\ Len(PROMPT) + n - Len(PROMPT) = n
    BY <1>1
  <2> DEFINE c == Len(PROMPT) + n
  <2>2. c \in 0..(Len(PROMPT) + m - 1)
    BY <2>1
  <2> HIDE DEF d, m, c
  <2>3. (PROMPT \o LineOf(d, m))[c + 1] = IF c < Len(PROMPT) THEN PROMPT[c + 1]
                                                           ELSE d[c - Len(PROMPT)]
    BY <1>1, <1>3, <1>5, <2>2, ShownLine
  <2> QED BY <1>4, <2>1, <2>3 DEF c
<1> HIDE DEF d, str
<1>9. s \in Screens /\ Clean(s) /\ Len(PROMPT) + n \in Nat /\ Len(PROMPT) + m = Len(PROMPT) + n + 1
  BY <1>1 DEF RowShows
<1>10. putchar(s, k) \in Screens /\ Clean(putchar(s, k))
  BY <1>2, <1>9, PutClean
<1>11. Shows(putchar(s, k), str, Len(PROMPT) + n + 1)
  BY <1>1, <1>2, <1>7, <1>8, <1>9, ShowsOneMore
<1>12. RowShows(putchar(s, k), d, m)
  BY <1>9, <1>10, <1>11 DEF RowShows, str
<1> QED BY <1>1, <1>3, <1>5, <1>6, <1>12 DEF d

LEMMA CharacterErased ==
  ASSUME NEW s, NEW b \in Buffers, NEW n \in 0..MAX_LINE, IsString(b, n), RowShows(s, b, n), n > 0
  PROVE  LET d == [b EXCEPT ![n - 1] = NUL]
         IN /\ s.col > 0
            /\ d \in Buffers /\ n - 1 \in 0..MAX_LINE /\ IsString(d, n - 1)
            /\ RowShows(Erased(s), d, n - 1)
            /\ LineOf(d, n - 1) = Front(LineOf(b, n)) /\ LineOf(b, n) # <<>>
<1> DEFINE d == [b EXCEPT ![n - 1] = NUL]
           m == n - 1
           l == s.col - 1
           v == [s.video EXCEPT ![<<s.row, l>>] = Blank]
           t == [s EXCEPT !.col = l, !.video = v]
<1>1. /\ MAX_LINE \in Nat /\ n \in Nat /\ m \in 0..MAX_LINE /\ Len(PROMPT) \in Nat
      /\ COLS \in Nat /\ Len(PROMPT) + n < COLS
  BY ConsoleAssumption, PromptType
<1>2. d \in Buffers /\ d[m] = NUL /\ \A i \in 0..(m - 1) : d[i] = b[i]
  BY <1>1 DEF Buffers
<1>3. IsString(d, m)
  <2>1. \A i \in 0..(m - 1) : i \in 0..(n - 1)
    BY <1>1
  <2> HIDE DEF d, m
  <2> QED BY <1>2, <2>1 DEF IsString
<1>4. LineOf(d, m) = Front(LineOf(b, n)) /\ LineOf(b, n) # <<>>
  <2>1. LineOf(b, n) \in Seq(Chars) /\ Len(LineOf(b, n)) = n
    BY LineType
  <2>2. LineOf(d, m) \in Seq(Chars) /\ Len(LineOf(d, m)) = m
    <3> HIDE DEF d, m
    <3> QED BY <1>1, <1>2, <1>3, LineType
  <2>3. Front(LineOf(b, n)) \in Seq(Chars) /\ Len(Front(LineOf(b, n))) = m
    BY <1>1, <2>1 DEF Front
  <2>4. ASSUME NEW i \in 1..m PROVE LineOf(d, m)[i] = Front(LineOf(b, n))[i]
    <3>1. i \in 1..n /\ i - 1 \in 0..(m - 1)
      BY <1>1
    <3>2. LineOf(d, m)[i] = d[i - 1] /\ LineOf(b, n)[i] = b[i - 1]
      BY <3>1 DEF LineOf
    <3>3. Front(LineOf(b, n))[i] = LineOf(b, n)[i]
      BY <1>1, <2>1, <3>1 DEF Front
    <3> QED BY <1>2, <3>1, <3>2, <3>3
  <2> HIDE DEF d, m
  <2> QED BY <1>1, <2>1, <2>2, <2>3, <2>4
<1>5. /\ s.col = Len(PROMPT) + n /\ s.row \in 0..(ROWS - 1) /\ s \in Screens
      /\ s.video \in [Cells -> Glyphs] /\ Clean(s)
  BY DEF RowShows, Shows, Screens
<1>6. s.col > 0 /\ l \in 0..(COLS - 1) /\ l \in 0..COLS /\ l = Len(PROMPT) + m
  BY <1>1, <1>5
<1>7. /\ v \in [Cells -> Glyphs]
      /\ \A p \in Cells : v[p] = IF p = <<s.row, l>> THEN Blank ELSE s.video[p]
  BY <1>5, <1>6, GlyphsType
<1>8. Erased(s) = t
  BY <1>5 DEF Erased, Screens
<1>9. s.col = l + 1
  BY <1>5, <1>1
<1> HIDE DEF v, l, d, m
<1>10. t \in Screens /\ t.row = s.row /\ t.col = l /\ t.video = v
  BY <1>5, <1>6, <1>7 DEF Screens
<1> HIDE DEF t
<1>11. Clean(t)
  <2>1. ASSUME NEW p \in Cells, p[1] > s.row \/ (p[1] = s.row /\ p[2] >= l)
        PROVE  v[p] = Blank
    <3>1. CASE p = <<s.row, l>>
      BY <1>7, <3>1
    <3>2. CASE p # <<s.row, l>>
      <4>1. p[1] > s.row \/ (p[1] = s.row /\ p[2] >= s.col)
        <5>1. p[1] \in Int /\ p[2] \in Int /\ p = <<p[1], p[2]>> /\ s.row \in Int /\ l \in Int
          BY <1>5, <1>6, CellsType
        <5> QED BY <1>9, <2>1, <3>2, <5>1
      <4>2. s.video[p] = Blank
        BY <1>5, <4>1 DEF Clean
      <4> QED BY <1>7, <3>2, <4>2
    <3> QED BY <3>1, <3>2
  <2> QED BY <1>10, <2>1 DEF Clean
<1>12. Shows(t, PROMPT \o LineOf(b, n), Len(PROMPT) + m)
  <2>1. ASSUME NEW c \in 0..(COLS - 1)
        PROVE  t.video[<<t.row, c>>] =
                 IF c < Len(PROMPT) + m THEN (PROMPT \o LineOf(b, n))[c + 1] ELSE Blank
    <3>1. <<s.row, c>> \in Cells
      BY <1>5, CellsType
    <3>2. s.video[<<s.row, c>>] = IF c < Len(PROMPT) + n THEN (PROMPT \o LineOf(b, n))[c + 1]
                                                         ELSE Blank
      BY DEF RowShows, Shows
    <3>3. t.video[<<t.row, c>>] = IF c = l THEN Blank ELSE s.video[<<s.row, c>>]
      BY <1>7, <1>10, <3>1
    <3>4. c \in Int /\ l \in Int /\ (c < Len(PROMPT) + n <=> c < l \/ c = l) /\ ~(l < l)
      BY <1>1, <1>5, <1>6, <1>9
    <3> QED BY <1>6, <3>2, <3>3, <3>4
  <2> QED BY <1>6, <1>10, <2>1 DEF Shows
<1>13. Shows(t, PROMPT \o LineOf(d, m), Len(PROMPT) + m)
  <2>1. m \in 0..n /\ m <= m
    BY <1>1 DEF m
  <2> QED BY <1>1, <1>2, <1>3, <1>12, <2>1, SameShown
<1>14. RowShows(t, d, m)
  BY <1>10, <1>11, <1>13 DEF RowShows
<1> QED BY <1>1, <1>2, <1>3, <1>4, <1>6, <1>8, <1>14 DEF d, m

-----------------------------------------------------------------------------
Codes == [key : Keys, make : BOOLEAN]

(* The inductive invariant of the buffer and the screen.                   *)
ConsoleInv ==
  /\ held \subseteq Keys /\ key_down \subseteq Keys /\ queue \in Seq(Codes)
  /\ input \in Buffers /\ input_pos \in 0..MAX_LINE
  /\ IsString(input, input_pos) /\ RowShows(screen, input, input_pos)

LEMMA CodesType ==
  \A k \in Keys : Make(k) \in Codes /\ Break(k) \in Codes /\ Make(k).key = k /\ Make(k).make
BY DEF Codes, Make, Break

LEMMA KeysType ==
  /\ Chars \subseteq Keys /\ "enter" \in Keys /\ "backspace" \in Keys
  /\ "enter" \notin Chars /\ "backspace" \notin Chars /\ NUL \notin Chars
BY ConsoleAssumption DEF Keys

(* What a poll does to the buffer, by what the code is.                    *)
LEMMA PollBuffer ==
  ASSUME ConsoleInv, keyboard_poll
  PROVE  /\ key_down' \subseteq Keys
         /\ input' \in Buffers /\ input_pos' \in 0..MAX_LINE
         /\ IsString(input, input_pos)' /\ RowShows(screen', input', input_pos')
<1> DEFINE k == Head(queue).key
<1>1. queue # <<>> /\ Head(queue) \in Codes /\ k \in Keys
  <2>1. queue # <<>> /\ Head(queue) \in Codes
    BY DEF keyboard_poll, ConsoleInv
  <2> QED BY <2>1 DEF Codes
<1> HIDE DEF k
<1>2. CASE UNCHANGED <<input, input_pos, screen>> /\ key_down' \subseteq Keys
  BY <1>2 DEF ConsoleInv, IsString
<1>3. CASE Up(k) \/ StillDown(k)
  <2>1. UNCHANGED <<input, input_pos, screen>> /\ key_down' \subseteq Keys
    BY <1>1, <1>3 DEF Up, StillDown, ConsoleInv
  <2> QED BY <1>2, <2>1
<1>4. CASE Backspace(k)
  <2>1. key_down' \subseteq Keys
    BY <1>1, <1>4 DEF Backspace, FirstDown, ConsoleInv
  <2>2. CASE input_pos > 0 /\ screen.col > 0
    <3>1. /\ input_pos' = input_pos - 1 /\ screen' = Erased(screen)
          /\ input' = [input EXCEPT ![input_pos - 1] = NUL]
      BY <1>4, <2>2 DEF Backspace, Shortened
    <3>2. /\ input' \in Buffers /\ input_pos' \in 0..MAX_LINE
          /\ IsString(input', input_pos') /\ RowShows(screen', input', input_pos')
      BY <2>2, <3>1, CharacterErased DEF ConsoleInv
    <3> QED BY <2>1, <3>2 DEF IsString
  <2>3. CASE ~(input_pos > 0 /\ screen.col > 0)
    BY <1>2, <1>4, <2>1, <2>3 DEF Backspace
  <2> QED BY <2>2, <2>3
<1>5. CASE Enter(k)
  <2>1. key_down' \subseteq Keys /\ input_pos' = 0
    BY <1>1, <1>5 DEF Enter, FirstDown, ConsoleInv
  <2>2. Prompted(screen')
    BY <1>5, ClearedPrompt, OutputPrompt DEF Enter, ConsoleInv, RowShows
  <2>3. 0 \in 0..MAX_LINE /\ MAX_LINE \in Nat
    BY ConsoleAssumption
  <2>4. input' \in Buffers /\ input'[0] = NUL
    BY <1>5, <2>3 DEF Enter, ConsoleInv, Buffers
  <2>5. RowShows(screen', input', 0)
    BY <2>2, <2>4, PromptedRow
  <2>6. IsString(input', 0)
    BY <2>4 DEF IsString
  <2> QED BY <2>1, <2>3, <2>4, <2>5, <2>6 DEF IsString
<1>6. CASE Character(k)
  <2>1. key_down' \subseteq Keys /\ k \in Chars
    BY <1>1, <1>6 DEF Character, FirstDown, ConsoleInv
  <2>2. CASE input_pos < MAX_LINE
    <3>1. /\ input_pos' = input_pos + 1 /\ screen' = putchar(screen, k)
          /\ input' = Entered(input, input_pos, k)
      BY <1>6, <2>2 DEF Character, Entered
    <3>2. /\ input' \in Buffers /\ input_pos' \in 0..MAX_LINE
          /\ IsString(input', input_pos') /\ RowShows(screen', input', input_pos')
      BY <2>1, <2>2, <3>1, CharacterEntered DEF ConsoleInv
    <3> QED BY <2>1, <3>2 DEF IsString
  <2>3. CASE ~(input_pos < MAX_LINE)
    BY <1>2, <1>6, <2>1, <2>3 DEF Character
  <2> QED BY <2>2, <2>3
<1> QED BY <1>3, <1>4, <1>5, <1>6 DEF keyboard_poll, k

LEMMA ConsoleInvStep == ConsoleInv /\ [Next]_vars => ConsoleInv'
<1> SUFFICES ASSUME ConsoleInv, [Next]_vars PROVE ConsoleInv'
  OBVIOUS
<1>1. ASSUME UNCHANGED <<key_down, input, input_pos, screen>>, held' \subseteq Keys,
             queue' \in Seq(Codes)
      PROVE  ConsoleInv'
  BY <1>1 DEF ConsoleInv, IsString
<1>2. ASSUME NEW k \in Keys, Press(k) \/ Repeat(k) \/ Release(k) PROVE ConsoleInv'
  <2>1. UNCHANGED <<key_down, input, input_pos, screen>> /\ held' \subseteq Keys
    BY <1>2 DEF Press, Repeat, Release, ConsoleInv
  <2>2. queue' \in Seq(Codes)
    BY <1>2, CodesType DEF Press, Repeat, Release, ConsoleInv
  <2> QED BY <1>1, <2>1, <2>2
<1>3. CASE keyboard_poll
  <2>1. queue' \in Seq(Codes) /\ held' = held
    BY <1>3 DEF keyboard_poll, ConsoleInv
  <2> QED BY <1>3, <2>1, PollBuffer DEF ConsoleInv
<1>4. CASE UNCHANGED vars
  BY <1>1, <1>4 DEF vars, ConsoleInv
<1> QED BY <1>2, <1>3, <1>4 DEF Next

LEMMA ConsoleInit == Init => ConsoleInv
<1> SUFFICES ASSUME Init PROVE ConsoleInv
  OBVIOUS
<1>1. MAX_LINE \in Nat /\ 0 \in 0..MAX_LINE
  BY ConsoleAssumption
<1>2. input \in Buffers /\ input[0] = NUL /\ input_pos = 0
  BY <1>1 DEF Init, Buffers
<1>3. IsString(input, input_pos)
  BY <1>2 DEF IsString
<1>4. RowShows(screen, input, input_pos)
  BY <1>2, ClearedPrompt, PromptedRow DEF Init
<1>5. held \subseteq Keys /\ key_down \subseteq Keys /\ queue \in Seq(Codes)
  BY DEF Init
<1> QED BY <1>1, <1>2, <1>3, <1>4, <1>5 DEF ConsoleInv

LEMMA ConsoleInductive == Spec => []ConsoleInv
BY ConsoleInit, ConsoleInvStep, PTL DEF Spec

(* No index leaves the line buffer or the screen, whatever is typed and    *)
(* printed, and the buffer is a string of the length keyboard_poll counts. *)
THEOREM ConsoleBufferOK == Spec => []BufferOK
<1>1. ConsoleInv => BufferOK
  BY DEF ConsoleInv, BufferOK, TypeOK, Terminated, IsString, RowShows, Screens, Buffers, Codes,
         Glyphs
<1> QED BY <1>1, ConsoleInductive, PTL

(* The line that Enter executes is the one the user sees behind the last   *)
(* prompt, through backspaces, wrapped output and scrolling.               *)
THEOREM ConsoleScreenShowsLine == Spec => []ScreenShowsLine
<1>1. ConsoleInv => ScreenShowsLine
  <2> SUFFICES ASSUME ConsoleInv PROVE ScreenShowsLine
    OBVIOUS
  <2>1. LineOf(input, input_pos) = Line
    BY DEF LineOf, Line
  <2>2. /\ Line \in Seq(Chars) /\ Len(Line) = input_pos
        /\ PROMPT \in Seq(STRING) /\ input_pos \in Nat
    BY <2>1, LineType, ConsoleAssumption DEF ConsoleInv
  <2>3. Len(PROMPT \o Line) = Len(PROMPT) + input_pos
    BY <2>2
  <2> QED BY <2>1, <2>3 DEF ConsoleInv, RowShows, Shows, ScreenShowsLine
<1> QED BY <1>1, ConsoleInductive, PTL

-----------------------------------------------------------------------------
(* What becomes of the codes on their way: the keys believed held, the line*)
(* and the number of lines executed after each of them.                    *)
Handles(code, d, l, n, e, m, k, lines) ==
  \/ ~code.make /\ e = d \ {code.key} /\ m = l /\ k = n
  \/ code.make /\ code.key \in d /\ e = d /\ m = l /\ k = n
  \/ /\ code.make /\ code.key \notin d /\ e = d \cup {code.key}
     /\ \/ code.key \in Chars /\ k = n /\ m = (IF Len(l) < MAX_LINE THEN Append(l, code.key) ELSE l)
        \/ code.key = "backspace" /\ k = n /\ m = (IF l # <<>> THEN Front(l) ELSE <<>>)
        \/ code.key = "enter" /\ k = n + 1 /\ k \in 1..Len(lines) /\ l = lines[k] /\ m = <<>>

(* After the codes the machine believes what the user holds and means.     *)
Future(D, L, N) ==
  /\ D[0] = key_down /\ L[0] = Line /\ N[0] = 0
  /\ \A n \in 1..Len(queue) :
       Handles(queue[n], D[n - 1], L[n - 1], N[n - 1], D[n], L[n], N[n], submitted)
  /\ D[Len(queue)] = held /\ L[Len(queue)] = typed /\ N[Len(queue)] = Len(submitted)
  /\ \A n \in 0..Len(queue) : N[n] \in Nat
  /\ \A m, n \in 0..Len(queue) : m <= n => N[m] <= N[n]

(* The inductive invariant of the line.                                    *)
TypedInv ==
  /\ ConsoleInv
  /\ typed \in Seq(Chars) /\ Len(typed) <= MAX_LINE /\ submitted \in Seq(Seq(Chars))
  /\ \E D, L, N : Future(D, L, N)

LEMMA TypedType ==
  ASSUME typed \in Seq(Chars), Len(typed) <= MAX_LINE, NEW k \in Keys
  PROVE  Typed(k) \in Seq(Chars) /\ Len(Typed(k)) <= MAX_LINE
<1>1. MAX_LINE \in Nat /\ <<>> \in Seq(Chars) /\ Len(<<>>) = 0 /\ Len(typed) \in Nat
  BY ConsoleAssumption
<1>2. CASE k \in Chars
  BY <1>1, <1>2 DEF Typed
<1>3. CASE k \notin Chars
  <2>1. typed # <<>> => Front(typed) \in Seq(Chars) /\ Len(Front(typed)) <= MAX_LINE
    BY <1>1 DEF Front
  <2> QED BY <1>1, <1>3, <2>1 DEF Typed
<1> QED BY <1>2, <1>3

(* One more code on its way.                                               *)
LEMMA FutureAppends ==
  ASSUME NEW D, NEW L, NEW N, Future(D, L, N), queue \in Seq(Codes), submitted \in Seq(Seq(Chars)),
         NEW code \in Codes, queue' = Append(queue, code),
         submitted' \in Seq(Seq(Chars)), Len(submitted) <= Len(submitted'),
         \A n \in 1..Len(submitted) : submitted'[n] = submitted[n],
         UNCHANGED <<key_down, input, input_pos>>,
         Handles(code, held, typed, Len(submitted), held', typed', Len(submitted'), submitted')
  PROVE  \E F, M, K : Future(F, M, K)'
<1> DEFINE n == Len(queue) + 1
<1> PICK F, M, K : /\ F = [i \in 0..n |-> IF i = n THEN held' ELSE D[i]]
                   /\ M = [i \in 0..n |-> IF i = n THEN typed' ELSE L[i]]
                   /\ K = [i \in 0..n |-> IF i = n THEN Len(submitted') ELSE N[i]]
  OBVIOUS
<1>1. /\ Len(queue) \in Nat /\ Len(queue') = n /\ n \in Nat /\ queue'[n] = code
      /\ \A i \in 1..Len(queue) : queue'[i] = queue[i]
      /\ Len(submitted) \in Nat /\ Len(submitted') \in Nat
  OBVIOUS
<1>2. Line' = Line
  BY DEF Line
<1>3. /\ F[n] = held' /\ M[n] = typed' /\ K[n] = Len(submitted')
      /\ \A i \in 0..Len(queue) : F[i] = D[i] /\ M[i] = L[i] /\ K[i] = N[i]
  BY <1>1
<1>4. 0 \in 0..Len(queue) /\ Len(queue) \in 0..Len(queue) /\ n - 1 = Len(queue)
  BY <1>1
<1>5. n = Len(queue) + 1
  OBVIOUS
<1> HIDE DEF n
<1>6. ASSUME NEW i \in 0..Len(queue) PROVE N[i] \in Nat /\ N[i] <= Len(submitted)
  <2>1. i <= Len(queue)
    BY <1>1
  <2> QED BY <1>4, <2>1 DEF Future
<1>7. ASSUME NEW i \in 1..Len(queue')
      PROVE  Handles(queue'[i], F[i - 1], M[i - 1], K[i - 1], F[i], M[i], K[i], submitted')
  <2>1. CASE i = n
    BY <1>1, <1>3, <1>4, <2>1 DEF Future
  <2>2. CASE i # n
    <3>1. i \in 1..Len(queue) /\ i \in 0..Len(queue) /\ i - 1 \in 0..Len(queue)
      BY <1>1, <1>5, <2>2
    <3>2. Handles(queue[i], D[i - 1], L[i - 1], N[i - 1], D[i], L[i], N[i], submitted)
      BY <3>1 DEF Future
    <3>3. \A j \in 1..Len(submitted) : j \in 1..Len(submitted') /\ submitted'[j] = submitted[j]
      BY <1>1
    <3>4. Handles(queue[i], D[i - 1], L[i - 1], N[i - 1], D[i], L[i], N[i], submitted')
      BY <3>2, <3>3 DEF Handles
    <3> QED BY <1>1, <1>3, <3>1, <3>4
  <2> QED BY <2>1, <2>2
<1>8. /\ F[0] = key_down' /\ M[0] = Line' /\ K[0] = 0
      /\ F[Len(queue')] = held' /\ M[Len(queue')] = typed' /\ K[Len(queue')] = Len(submitted')
  BY <1>1, <1>2, <1>3, <1>4 DEF Future
<1>9. \A i \in 0..Len(queue') : i = n \/ i \in 0..Len(queue)
  BY <1>1, <1>5
<1>10. \A i \in 0..Len(queue') : K[i] \in Nat
  BY <1>1, <1>3, <1>6, <1>9
<1>11. ASSUME NEW i \in 0..Len(queue'), NEW j \in 0..Len(queue'), i <= j PROVE K[i] <= K[j]
  <2>1. CASE j = n
    <3>1. K[j] = Len(submitted')
      BY <1>3, <2>1
    <3>2. K[i] = Len(submitted') \/ (K[i] \in Nat /\ K[i] <= Len(submitted))
      BY <1>3, <1>6, <1>9
    <3> QED BY <1>1, <3>1, <3>2
  <2>2. CASE i \in 0..Len(queue) /\ j \in 0..Len(queue)
    BY <1>3, <1>11, <2>2 DEF Future
  <2>3. CASE i = n /\ j \in 0..Len(queue)
    BY <1>5, <1>11, <2>3, <1>1
  <2> QED BY <1>9, <2>1, <2>2, <2>3
<1>12. Future(F, M, K)'
  BY <1>7, <1>8, <1>10, <1>11 DEF Future
<1> QED BY <1>12


(* keyboard_poll does with the first code what its future says.            *)
PollResult(d, l, n) ==
  /\ key_down' = d /\ Line' = l
  /\ \/ n = 0 /\ submitted' = submitted /\ (Head(queue) = Make("enter") => screen' = screen)
     \/ /\ n = 1 /\ Len(submitted) > 0 /\ Line = submitted[1]
        /\ submitted' = SubSeq(submitted, 2, Len(submitted))

LEMMA PollHandles ==
  ASSUME ConsoleInv, keyboard_poll, NEW d, NEW l, NEW n,
         Handles(Head(queue), key_down, Line, 0, d, l, n, submitted),
         submitted \in Seq(Seq(Chars))
  PROVE  PollResult(d, l, n)
<1> DEFINE code == Head(queue)
           k == code.key
<1>1. code \in Codes /\ k \in Keys /\ code.make \in BOOLEAN
  <2>1. code \in Codes
    BY DEF keyboard_poll, ConsoleInv
  <2> QED BY <2>1 DEF Codes
<1>2. /\ LineOf(input, input_pos) = Line /\ Line \in Seq(Chars) /\ Len(Line) = input_pos
      /\ input_pos \in Nat /\ LineOf(input', input_pos') = Line'
  BY LineType, ConsoleAssumption DEF ConsoleInv, LineOf, Line
<1>3. UNCHANGED <<input, input_pos>> => Line' = Line
  BY DEF Line
<1>4. Make("enter").key = "enter" /\ Make("enter").make
  BY DEF Make
<1> HIDE DEF code, k
<1>5. CASE code.make = FALSE
  <2>1. Up(k)
    BY <1>5 DEF keyboard_poll, code, k
  <2>2. d = key_down \ {k} /\ l = Line /\ n = 0
    BY <1>5 DEF Handles, code, k
  <2> QED BY <1>3, <1>4, <1>5, <2>1, <2>2 DEF Up, PollResult, code
<1>6. CASE code.make = TRUE /\ k \in key_down
  <2>1. StillDown(k)
    BY <1>6 DEF keyboard_poll, code, k, Backspace, Enter, Character, FirstDown
  <2>2. d = key_down /\ l = Line /\ n = 0
    BY <1>6 DEF Handles, code, k
  <2> QED BY <1>3, <2>1, <2>2 DEF StillDown, PollResult
<1>7. CASE code.make = TRUE /\ k \notin key_down
  <2>0. Backspace(k) \/ Enter(k) \/ Character(k)
    BY <1>7 DEF keyboard_poll, code, k, StillDown
  <2>1. key_down' = key_down \cup {k} /\ d = key_down \cup {k}
    <3>1. key_down' = key_down \cup {k}
      BY <2>0 DEF Backspace, Enter, Character, FirstDown
    <3>2. d = key_down \cup {k}
      BY <1>7 DEF Handles, code, k
    <3> QED BY <3>1, <3>2
  <2>2. CASE k \in Chars
    <3>1. k # "backspace" /\ k # "enter"
      BY <2>2, KeysType
    <3>2. Character(k)
      BY <2>0, <3>1 DEF Backspace, Enter
    <3>3. n = 0 /\ l = IF Len(Line) < MAX_LINE THEN Append(Line, k) ELSE Line
      BY <1>7, <3>1 DEF Handles, code, k
    <3>4. Line' = l
      <4>1. CASE input_pos < MAX_LINE
        <5>1. input_pos' = input_pos + 1 /\ input' = Entered(input, input_pos, k)
          BY <3>2, <4>1 DEF Character, Entered
        <5>2. LineOf(Entered(input, input_pos, k), input_pos + 1) = Append(Line, k)
          BY <1>2, <2>2, <4>1, CharacterEntered DEF ConsoleInv
        <5> QED BY <1>2, <3>3, <4>1, <5>1, <5>2
      <4>2. CASE ~(input_pos < MAX_LINE)
        BY <1>2, <1>3, <3>2, <3>3, <4>2 DEF Character
      <4> QED BY <4>1, <4>2
    <3>5. submitted' = submitted
      BY <3>2 DEF Character
    <3> QED BY <1>4, <2>1, <3>1, <3>3, <3>4, <3>5 DEF PollResult, code, k
  <2>3. CASE k = "backspace"
    <3>1. k \notin Chars /\ k # "enter"
      BY <2>3, KeysType
    <3>2. Backspace(k)
      BY <2>0, <3>1 DEF Character, Enter
    <3>3. n = 0 /\ l = IF Line # <<>> THEN Front(Line) ELSE <<>>
      BY <1>7, <3>1 DEF Handles, code, k
    <3>4. Line' = l
      <4>1. CASE input_pos > 0
        <5>1. /\ screen.col > 0 /\ Line # <<>>
              /\ LineOf([input EXCEPT ![input_pos - 1] = NUL], input_pos - 1) = Front(Line)
          BY <1>2, <4>1, CharacterErased DEF ConsoleInv
        <5>2. /\ input_pos' = input_pos - 1
              /\ input' = [input EXCEPT ![input_pos - 1] = NUL]
          BY <3>2, <4>1, <5>1 DEF Backspace, Shortened
        <5> QED BY <1>2, <3>3, <5>1, <5>2
      <4>2. CASE ~(input_pos > 0)
        <5>1. Line = <<>>
          BY <1>2, <4>2
        <5> QED BY <1>3, <3>2, <3>3, <4>2, <5>1 DEF Backspace
      <4> QED BY <4>1, <4>2
    <3>5. submitted' = submitted
      BY <3>2 DEF Backspace
    <3> QED BY <1>4, <2>1, <3>1, <3>3, <3>4, <3>5 DEF PollResult, code, k
  <2>4. CASE k = "enter"
    <3>1. k \notin Chars /\ k # "backspace"
      BY <2>4, KeysType
    <3>2. Enter(k)
      BY <2>0, <3>1 DEF Character, Backspace
    <3>3. /\ n = 0 + 1 /\ n \in 1..Len(submitted) /\ Line = submitted[n] /\ l = <<>>
      BY <1>7, <3>1 DEF Handles, code, k
    <3>4. n = 1 /\ Len(submitted) > 0
      BY <3>3
    <3>5. Line' = l
      <4>1. input_pos' = 0 /\ 1..0 = {}
        BY <3>2 DEF Enter
      <4> QED BY <3>3, <4>1 DEF Line
    <3>6. submitted' = SubSeq(submitted, 2, Len(submitted))
      BY <3>2 DEF Enter
    <3> QED BY <2>1, <3>3, <3>4, <3>5, <3>6 DEF PollResult
  <2> QED BY <1>1, <2>2, <2>3, <2>4 DEF Keys
<1> QED BY <1>1, <1>5, <1>6, <1>7

(* The first code of the future.                                           *)
LEMMA FutureStarts ==
  ASSUME NEW D, NEW L, NEW N, Future(D, L, N), queue \in Seq(Codes), queue # <<>>
  PROVE  Handles(Head(queue), key_down, Line, 0, D[1], L[1], N[1], submitted)
<1>1. 1 - 1 = 0 /\ 1 \in 1..Len(queue) /\ queue[1] = Head(queue)
  OBVIOUS
<1> QED BY <1>1 DEF Future

LEMMA WithoutFirst ==
  ASSUME NEW S, NEW s \in Seq(S), Len(s) > 0
  PROVE  /\ SubSeq(s, 2, Len(s)) \in Seq(S) /\ Len(SubSeq(s, 2, Len(s))) = Len(s) - 1
         /\ \A j \in 1..(Len(s) - 1) : SubSeq(s, 2, Len(s))[j] = s[j + 1]
<1> DEFINE n == Len(s)
<1>0. n \in Nat /\ n >= 1 /\ \A j \in 2..n : s[j] \in S
  OBVIOUS
<1> HIDE DEF n
<1>1. Len(SubSeq(s, 2, n)) = n - 1
  BY <1>0
<1>3. SubSeq(s, 2, n) \in Seq(S)
  BY <1>0
<1>2. ASSUME NEW j \in 1..(Len(s) - 1) PROVE SubSeq(s, 2, Len(s))[j] = s[j + 1]
  OBVIOUS
<1> QED BY <1>1, <1>2, <1>3 DEF n

LEMMA CountFromSecond ==
  ASSUME NEW x \in Nat, NEW b \in {0, 1}, x >= b, NEW y \in Nat, x + 1 <= y
  PROVE  x + 1 - b = (x - b) + 1 /\ (x + 1 - b) + b = x + 1 /\ x + 1 - b \in 1..(y - b)
OBVIOUS

(* The future without it.                                                  *)
LEMMA FutureAdvances ==
  ASSUME NEW D, NEW L, NEW N, Future(D, L, N), queue \in Seq(Codes), queue # <<>>,
         submitted \in Seq(Seq(Chars)),
         queue' = Tail(queue), UNCHANGED <<held, typed>>, PollResult(D[1], L[1], N[1])
  PROVE  submitted' \in Seq(Seq(Chars)) /\ \E F, M, K : Future(F, M, K)'
<1> PICK F, M, K, b : /\ F = [i \in 0..(Len(queue) - 1) |-> D[i + 1]]
                      /\ M = [i \in 0..(Len(queue) - 1) |-> L[i + 1]]
                      /\ K = [i \in 0..(Len(queue) - 1) |-> N[i + 1] - N[1]]
                      /\ b = N[1]
  OBVIOUS
<1>1. /\ Len(queue) \in Nat \ {0} /\ Len(queue') = Len(queue) - 1
      /\ \A i \in 1..Len(queue') : queue'[i] = queue[i + 1]
  OBVIOUS
<1>2. /\ b \in {0, 1} /\ Len(submitted) \in Nat
      /\ submitted' \in Seq(Seq(Chars)) /\ Len(submitted') = Len(submitted) - b
      /\ \A j \in 1..Len(submitted') : submitted'[j] = submitted[j + b]
  <2>1. CASE b = 0
    BY <2>1 DEF PollResult
  <2>2. CASE b = 1
    <3>1. submitted' = SubSeq(submitted, 2, Len(submitted)) /\ Len(submitted) > 0
      BY <2>2 DEF PollResult
    <3> QED BY <2>2, <3>1, WithoutFirst
  <2> QED BY <2>1, <2>2 DEF PollResult
<1>3. \A i \in 0..Len(queue') : /\ i + 1 \in 1..Len(queue) /\ i + 1 \in 0..Len(queue)
                                /\ 1 <= i + 1
                                /\ F[i] = D[i + 1] /\ M[i] = L[i + 1] /\ K[i] = N[i + 1] - b
  BY <1>1
<1>4. 0 \in 0..Len(queue') /\ Len(queue') \in 0..Len(queue') /\ Len(queue') + 1 = Len(queue)
      /\ 0 + 1 = 1 /\ 1 \in 0..Len(queue)
  BY <1>1
<1>5. \A i \in 0..Len(queue') : N[i + 1] \in Nat /\ N[i + 1] >= b /\ K[i] \in Nat
  <2>1. ASSUME NEW i \in 0..Len(queue') PROVE N[i + 1] \in Nat /\ b <= N[i + 1]
    BY <1>3, <1>4 DEF Future
  <2> QED BY <1>2, <1>3, <2>1
<1>6. /\ F[0] = key_down' /\ M[0] = Line' /\ K[0] = 0
  BY <1>2, <1>3, <1>4 DEF PollResult
<1>7. /\ F[Len(queue')] = held' /\ M[Len(queue')] = typed' /\ K[Len(queue')] = Len(submitted')
  BY <1>2, <1>3, <1>4 DEF Future
<1>8. ASSUME NEW i \in 1..Len(queue')
      PROVE  Handles(queue'[i], F[i - 1], M[i - 1], K[i - 1], F[i], M[i], K[i], submitted')
  <2>1. /\ i \in 0..Len(queue') /\ i - 1 \in 0..Len(queue') /\ i - 1 + 1 = i
        /\ i + 1 \in 1..Len(queue) /\ i + 1 - 1 = i
    BY <1>1
  <2>2. Handles(queue[i + 1], D[i], L[i], N[i], D[i + 1], L[i + 1], N[i + 1], submitted)
    BY <2>1 DEF Future
  <2>3. /\ N[i] \in Nat /\ N[i] >= b /\ N[i + 1] \in Nat
        /\ K[i - 1] = N[i] - b /\ K[i] = N[i + 1] - b
        /\ F[i - 1] = D[i] /\ M[i - 1] = L[i] /\ F[i] = D[i + 1] /\ M[i] = L[i + 1]
        /\ queue'[i] = queue[i + 1]
    BY <1>1, <1>3, <1>5, <2>1
  <2>4. N[i + 1] = N[i] => K[i] = K[i - 1]
    BY <2>3
  <2>5. N[i + 1] = N[i] + 1 /\ N[i + 1] \in 1..Len(submitted)
          => /\ K[i] = K[i - 1] + 1 /\ K[i] \in 1..Len(submitted')
             /\ submitted'[K[i]] = submitted[N[i + 1]]
    <3> SUFFICES ASSUME N[i + 1] = N[i] + 1, N[i + 1] \in 1..Len(submitted)
                 PROVE  /\ K[i] = K[i - 1] + 1 /\ K[i] \in 1..Len(submitted')
                        /\ submitted'[K[i]] = submitted[N[i + 1]]
      OBVIOUS
    <3> DEFINE x == N[i]
               y == Len(submitted)
    <3>1. x \in Nat /\ x >= b /\ K[i - 1] = x - b /\ K[i] = N[i + 1] - b /\ N[i + 1] = x + 1
      BY <2>3
    <3>2. b \in {0, 1} /\ y \in Nat /\ x + 1 <= y /\ Len(submitted') = y - b
      BY <1>2, <3>1
    <3> HIDE DEF x, y
    <3>3. x + 1 - b = (x - b) + 1 /\ (x + 1 - b) + b = x + 1 /\ x + 1 - b \in 1..(y - b)
      BY <3>1, <3>2, CountFromSecond
    <3>4. K[i] = K[i - 1] + 1 /\ K[i] \in 1..Len(submitted') /\ K[i] + b = N[i + 1]
      BY <3>1, <3>2, <3>3
    <3> QED BY <1>2, <3>4
  <2> QED BY <2>2, <2>3, <2>4, <2>5 DEF Handles
<1>9. ASSUME NEW i \in 0..Len(queue'), NEW j \in 0..Len(queue'), i <= j PROVE K[i] <= K[j]
  <2>1. i + 1 <= j + 1
    BY <1>9
  <2>2. N[i + 1] <= N[j + 1]
    BY <1>3, <2>1 DEF Future
  <2>3. N[i + 1] \in Nat /\ N[j + 1] \in Nat /\ b \in Nat
    BY <1>2, <1>5
  <2>4. K[i] = N[i + 1] - b /\ K[j] = N[j + 1] - b
    BY <1>3
  <2> QED BY <2>2, <2>3, <2>4
<1>10. Future(F, M, K)'
  BY <1>5, <1>6, <1>7, <1>8, <1>9 DEF Future
<1> QED BY <1>2, <1>10

-----------------------------------------------------------------------------
LEMMA TypedStep == TypedInv /\ [Next]_vars => TypedInv'
<1> SUFFICES ASSUME TypedInv, [Next]_vars PROVE TypedInv'
  OBVIOUS
<1>0. ConsoleInv' /\ ConsoleInv /\ queue \in Seq(Codes) /\ submitted \in Seq(Seq(Chars))
  BY ConsoleInvStep DEF TypedInv, ConsoleInv
<1>1. PICK D, L, N : Future(D, L, N)
  BY DEF TypedInv
<1>2. ASSUME NEW k \in Keys, Press(k) PROVE TypedInv'
  <2> DEFINE code == Make(k)
  <2>1. /\ UNCHANGED <<key_down, input, input_pos>> /\ queue' = Append(queue, code)
        /\ code \in Codes /\ k \notin held /\ held' = held \cup {k} /\ typed' = Typed(k)
        /\ code.make /\ code.key = k
    BY <1>2, CodesType DEF Press
  <2>2. typed' \in Seq(Chars) /\ Len(typed') <= MAX_LINE
    BY <2>1, TypedType DEF TypedInv
  <2>3. /\ submitted' \in Seq(Seq(Chars)) /\ Len(submitted) <= Len(submitted')
        /\ Len(submitted) \in Nat /\ Len(submitted') \in Nat
        /\ \A n \in 1..Len(submitted) : submitted'[n] = submitted[n]
        /\ k = "enter" => Len(submitted') = Len(submitted) + 1 /\ submitted'[Len(submitted')] = typed
        /\ k # "enter" => submitted' = submitted
    BY <1>0, <1>2 DEF Press, TypedInv
  <2> HIDE DEF code
  <2>4. Handles(code, held, typed, Len(submitted), held', typed', Len(submitted'), submitted')
    <3>1. CASE k \in Chars
      BY <2>1, <2>3, <3>1, KeysType DEF Handles, Typed
    <3>2. CASE k = "backspace"
      BY <2>1, <2>3, <3>2, KeysType DEF Handles, Typed
    <3>3. CASE k = "enter"
      <4>1. typed' = <<>> /\ Len(submitted') \in 1..Len(submitted')
        BY <2>1, <2>3, <3>3, KeysType DEF Typed
      <4> QED BY <2>1, <2>3, <3>3, <4>1 DEF Handles
    <3> QED BY <3>1, <3>2, <3>3 DEF Keys
  <2>5. \E F, M, K : Future(F, M, K)'
    BY <1>0, <1>1, <2>1, <2>3, <2>4, FutureAppends
  <2> QED BY <1>0, <2>2, <2>3, <2>5 DEF TypedInv
<1>3. ASSUME NEW k \in Keys, Repeat(k) \/ Release(k) PROVE TypedInv'
  <2>1. PICK code \in Codes :
          /\ queue' = Append(queue, code) /\ UNCHANGED <<key_down, input, input_pos, typed, submitted>>
          /\ Handles(code, held, typed, Len(submitted), held', typed, Len(submitted), submitted)
    <3>1. CASE Repeat(k)
      BY <3>1, CodesType DEF Repeat, Handles
    <3>2. CASE Release(k)
      <4>1. Break(k) \in Codes /\ Break(k).key = k /\ Break(k).make = FALSE
        BY CodesType DEF Break
      <4> QED BY <3>2, <4>1 DEF Release, Handles
    <3> QED BY <1>3, <3>1, <3>2
  <2>2. Len(submitted) <= Len(submitted')
    BY <1>0, <2>1
  <2>3. \E F, M, K : Future(F, M, K)'
    BY <1>0, <1>1, <2>1, <2>2, FutureAppends
  <2> QED BY <1>0, <2>1, <2>3 DEF TypedInv
<1>4. CASE keyboard_poll
  <2>1. queue # <<>> /\ queue' = Tail(queue) /\ UNCHANGED <<held, typed>>
    BY <1>4 DEF keyboard_poll
  <2>2. PollResult(D[1], L[1], N[1])
    BY <1>0, <1>1, <1>4, <2>1, FutureStarts, PollHandles
  <2> QED BY <1>0, <1>1, <2>1, <2>2, FutureAdvances DEF TypedInv
<1>5. CASE UNCHANGED vars
  <2>1. Line' = Line
    BY <1>5 DEF vars, Line
  <2>2. Future(D, L, N)'
    BY <1>1, <1>5, <2>1 DEF vars, Future
  <2> QED BY <1>0, <1>5, <2>2 DEF TypedInv, vars
<1> QED BY <1>2, <1>3, <1>4, <1>5 DEF Next

LEMMA TypedInit == Init => TypedInv
<1> SUFFICES ASSUME Init PROVE TypedInv
  OBVIOUS
<1>1. ConsoleInv /\ queue = <<>> /\ typed = <<>> /\ submitted = <<>> /\ Line = <<>>
  <2>1. input_pos = 0 /\ 1..0 = {}
    BY DEF Init
  <2> QED BY <2>1, ConsoleInit DEF Init, Line
<1>2. /\ typed \in Seq(Chars) /\ Len(typed) <= MAX_LINE /\ submitted \in Seq(Seq(Chars))
      /\ Len(queue) = 0 /\ Len(submitted) = 0
  BY <1>1, ConsoleAssumption
<1> PICK D, L, N : D = [i \in 0..0 |-> {}] /\ L = [i \in 0..0 |-> <<>>] /\ N = [i \in 0..0 |-> 0]
  OBVIOUS
<1>3. D[0] = {} /\ L[0] = <<>> /\ N[0] = 0 /\ 0..0 = {0} /\ 1..0 = {}
  OBVIOUS
<1>4. held = {} /\ key_down = {}
  BY DEF Init
<1>5. Future(D, L, N)
  BY <1>1, <1>2, <1>3, <1>4 DEF Future
<1> QED BY <1>1, <1>2, <1>5 DEF TypedInv

LEMMA TypedInductive == Spec => []TypedInv
BY TypedInit, TypedStep, PTL DEF Spec

(* Once the codes are handled the line buffer holds what the user typed:   *)
(* no key that repeats, overlaps another or waits behind a command is      *)
(* entered twice or lost.                                                  *)
THEOREM ConsoleLineIsTyped == Spec => []LineIsTyped
<1>1. TypedInv => LineIsTyped
  <2> SUFFICES ASSUME TypedInv, queue = <<>> PROVE Line = typed /\ key_down = held
    BY DEF LineIsTyped
  <2>1. PICK D, L, N : Future(D, L, N)
    BY DEF TypedInv
  <2>2. Len(queue) = 0
    OBVIOUS
  <2> QED BY <2>1, <2>2 DEF Future
<1> QED BY <1>1, TypedInductive, PTL

(* A press of Enter executes once, and executes the line that was complete *)
(* when it was pressed.                                                    *)
THEOREM ConsoleExecutesTheLine == Spec => ExecutesTheLine
<1> DEFINE Rule == Executes /\ queue' = Tail(queue)
                     => submitted # <<>> /\ Line = Head(submitted) /\ submitted' = Tail(submitted)
<1>1. TypedInv /\ [Next]_vars => [Rule]_vars
  <2> SUFFICES ASSUME TypedInv, Next, Executes, queue' = Tail(queue)
               PROVE  submitted # <<>> /\ Line = Head(submitted) /\ submitted' = Tail(submitted)
    OBVIOUS
  <2>1. ConsoleInv /\ queue \in Seq(Codes) /\ submitted \in Seq(Seq(Chars)) /\ queue # <<>>
    BY DEF TypedInv, ConsoleInv, Executes
  <2>2. keyboard_poll
    <3>1. ASSUME NEW k \in Keys, Press(k) \/ Repeat(k) \/ Release(k) PROVE FALSE
      <4>1. PICK code \in Codes : queue' = Append(queue, code)
        BY <3>1, CodesType DEF Press, Repeat, Release
      <4>2. Len(Append(queue, code)) = Len(queue) + 1 /\ Len(Tail(queue)) = Len(queue) - 1
            /\ Len(queue) \in Nat
        BY <2>1
      <4> QED BY <4>1, <4>2
    <3> QED BY <3>1 DEF Next
  <2>3. PICK D, L, N : Future(D, L, N)
    BY DEF TypedInv
  <2>4. PollResult(D[1], L[1], N[1])
    BY <2>1, <2>2, <2>3, FutureStarts, PollHandles
  <2>5. Head(queue) = Make("enter") /\ screen' # screen
    BY DEF Executes
  <2>6. /\ Len(submitted) > 0 /\ Line = submitted[1]
        /\ submitted' = SubSeq(submitted, 2, Len(submitted))
    BY <2>4, <2>5 DEF PollResult
  <2> QED BY <2>1, <2>6
<1>2. Spec => [][Rule]_vars
  BY <1>1, TypedInductive, PTL DEF Spec
<1> QED BY <1>2 DEF ExecutesTheLine
=============================================================================
