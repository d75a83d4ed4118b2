--------------------------- MODULE KeyRaceProofs ---------------------------
(***************************************************************************)
(* Theorems about KeyRace, for every line length, keyboard and size of the *)
(* controller's queue, and a user who waits for the echo at each key: the  *)
(* two contexts leave the buffer by one byte at most, and no key is lost.  *)
(***************************************************************************)
EXTENDS KeyRace, TLAPS

(* Where a context can be that acts on a code.                             *)
Path(e) ==
  IF ~e.make THEN {"up"}
  ELSE IF e.key = "backspace" THEN {"test", "mark", "any", "load", "retreat", "length", "end"}
  ELSE IF e.key = "enter"
       THEN {"test", "mark", "length", "end", "execute", "reset", "clear"}
  ELSE {"test", "mark", "room", "load", "advance", "put", "length", "end"}

(* One event at a time: a code waits and nobody has acted on it, or it has *)
(* been read and every context that acts acts on it.                       *)
EventInv ==
  /\ queue = <<>> \/ queue = <<Read>>
  /\ \A s \in Contexts : pc[s] \notin {"poll", "take"} =>
       queue = <<>> /\ scancode[s] = Read /\ pc[s] \in Path(Read)

(* A context between its test of the line's length and its store of the    *)
(* new one holds a place; two of them, two places.  Until the other has    *)
(* stored, the length is the one a context has loaded.                     *)
Adds == {"load", "advance"}
Takes == {"load", "retreat"}

Placed(s, c) ==
  /\ At(s, "load") /\ Read.key # "backspace" =>
       input_pos <= MAX_LINE /\ (pc[c] \in Adds => input_pos < MAX_LINE)
  /\ At(s, "advance") =>
       /\ pos[s] <= MAX_LINE /\ (pc[c] \in Adds => pos[s] < MAX_LINE)
       /\ pc[c] \in {"take", "test", "mark", "room", "load"} => input_pos = pos[s]
  /\ At(s, "put") => pos[s] <= MAX_LINE
  /\ pc[s] \in {"put", "length", "end"} /\ Read.key \in Chars => input_pos >= 0
  /\ At(s, "load") /\ Read.key = "backspace" =>
       input_pos >= 0 /\ (pc[c] \in Takes => input_pos > 0)
  /\ At(s, "retreat") =>
       /\ pos[s] >= 0 /\ (pc[c] \in Takes => pos[s] > 0)
       /\ pc[c] \in {"take", "test", "mark", "any", "load"} => input_pos = pos[s]
  /\ pc[s] \in {"length", "end"} /\ Read.key = "backspace" => input_pos <= MAX_LINE
  /\ At(s, "end") /\ pos[s] = MAX_LINE + 1 => input_pos >= 0 /\ Read.key # "backspace"

PlaceInv == \A s, c \in Contexts : s # c => Placed(s, c)

(* The marks of the keys that are down are those of the keys held, but for *)
(* the key of the event, whose mark changes when the first context acts on *)
(* it; somebody is still to act until then.                                *)
MayMark(s) == pc[s] \in {"take", "test", "mark"}

MarkInv ==
  /\ IF Read.make
     THEN /\ Read.key \in held
          /\ key_down = IF seen = 0 THEN held \ {Read.key} ELSE held
          /\ queue # <<>> => seen = 0
          /\ queue = <<>> /\ seen = 0 => \E s \in Contexts : MayMark(s)
          /\ (\A s \in Contexts : MayMark(s)) => seen = 0
          /\ (\E s \in Contexts : MayMark(s)) => seen <= 1
     ELSE /\ Read.key \notin held /\ seen >= 1
          /\ key_down \in {held, held \cup {Read.key}}
          /\ queue = <<>> /\ key_down # held => \E s \in Contexts : pc[s] \in {"take", "up"}

-----------------------------------------------------------------------------
LEMMA Bounds ==
  /\ MAX_LINE \in Nat /\ 0 < MAX_LINE /\ 0 \in 0..MAX_LINE
  /\ \A p \in -1..(MAX_LINE + 1) : p \in Int /\ p >= -1 /\ p <= MAX_LINE + 1
  /\ \A p \in Int : p >= -1 /\ p <= MAX_LINE + 1 => p \in -1..(MAX_LINE + 1)
<1>1. MAX_LINE \in Nat \ {0}
  BY KeyRaceAssumption
<1> QED BY <1>1

(* The code a read returns stays the same while the contexts act on it.    *)
LEMMA ReadTyped == TypeOK => Read \in Codes
BY DEF TypeOK, Read

LEMMA ReadStays ==
  ASSUME TypeOK, EventInv, NEW s \in Contexts, KeyStep(s)
  PROVE  Read' = Read /\ (queue' = queue \/ queue' = <<>>)
<1>1. CASE Take(s)
  <2>1. CASE queue = <<>>
    BY <1>1, <2>1 DEF Take, Read
  <2>2. CASE queue = <<Read>>
    <3>1. queue' = <<>> /\ last' = Read
      BY <1>1, <2>2 DEF Take
    <3> QED BY <3>1 DEF Read
  <2> QED BY <2>1, <2>2 DEF EventInv
<1>2. CASE ~Take(s)
  <2>1. UNCHANGED <<queue, last>>
    BY <1>2 DEF KeyStep, Poll, Up, Test, Mark, Room, Any, Load, Advance, Retreat, Put, Length,
                End, Execute, Reset, Clear, user, buffer
  <2> QED BY <2>1 DEF Read
<1> QED BY <1>1, <1>2

LEMMA InitInv == Init => TypeOK /\ EventInv /\ PlaceInv /\ MarkInv
<1> SUFFICES ASSUME Init PROVE TypeOK /\ EventInv /\ PlaceInv /\ MarkInv
  OBVIOUS
<1>1. last \in Codes /\ Read = last /\ last.make = FALSE
  BY DEF Init, Codes, Keys, Read
<1>2. TypeOK
  <2>1. held \subseteq Keys /\ key_down \subseteq Keys /\ queue \in Seq(Codes) /\ seen \in 0..2
    BY DEF Init
  <2>2. input \in [0..MAX_LINE -> Chars \cup {NUL}]
    BY DEF Init
  <2>3. 0 \in -1..(MAX_LINE + 1)
    BY Bounds
  <2>4. input_pos \in -1..(MAX_LINE + 1) /\ pos \in [Contexts -> -1..(MAX_LINE + 1)]
    BY <2>3 DEF Init
  <2>5. pc \in [Contexts -> Labels] /\ scancode \in [Contexts -> Codes]
    BY <1>1 DEF Init, Labels
  <2> QED BY <1>1, <2>1, <2>2, <2>4, <2>5 DEF TypeOK
<1> QED BY <1>1, <1>2 DEF Init, EventInv, PlaceInv, Placed, MarkInv, At

-----------------------------------------------------------------------------
(* A key: the line is quiet before, and one code waits after it.           *)
LEMMA QuietMarks ==
  ASSUME TypeOK, MarkInv, Quiet
  PROVE  key_down = held /\ seen >= 1
<1>1. \A s \in Contexts : pc[s] = "poll"
  BY DEF Quiet, At
<1>2. CASE Read.make
  BY <1>1, <1>2 DEF TypeOK, Quiet, MarkInv, MayMark
<1>3. CASE ~Read.make
  BY <1>1, <1>3 DEF Quiet, MarkInv
<1> QED BY <1>2, <1>3

-----------------------------------------------------------------------------
(* What a step changes: the CASE of Mark as one the provers read, and what *)
(* the context that does not move keeps.                                   *)
LEMMA MarkEffect ==
  ASSUME NEW s \in Contexts, Mark(s)
  PROVE  /\ pc[s] = "mark" /\ key_down' = key_down \cup {scancode[s].key} /\ seen' = seen + 1
         /\ pc' = [pc EXCEPT ![s] = IF scancode[s].key = "backspace" THEN "any"
                                    ELSE IF scancode[s].key = "enter" THEN "length" ELSE "room"]
         /\ UNCHANGED <<held, queue, last, input, input_pos, scancode, pos>>
<1>1. CASE scancode[s].key = "backspace"
  BY <1>1, Zenon DEF Mark, Goto, At, user, buffer
<1>2. CASE scancode[s].key = "enter"
  BY <1>2, Zenon DEF Mark, Goto, At, user, buffer
<1>3. CASE scancode[s].key \notin {"backspace", "enter"}
  BY <1>3, Zenon DEF Mark, Goto, At, user, buffer
<1> QED BY <1>1, <1>2, <1>3

LEMMA OtherStays ==
  ASSUME TypeOK, NEW s \in Contexts, KeyStep(s), NEW c \in Contexts, c # s
  PROVE  pc'[c] = pc[c] /\ scancode'[c] = scancode[c] /\ pos'[c] = pos[c]
<1>1. pc \in [Contexts -> Labels] /\ scancode \in [Contexts -> Codes]
        /\ pos \in [Contexts -> -1..(MAX_LINE + 1)]
  BY DEF TypeOK
<1>2. CASE Poll(s) \/ Up(s) \/ Test(s) \/ Room(s) \/ Any(s)
  BY <1>1, <1>2 DEF Poll, Up, Test, Room, Any, Goto
<1>3. CASE Mark(s)
  BY <1>1, <1>3, MarkEffect
<1>4. CASE Take(s) \/ Load(s) \/ Length(s)
  BY <1>1, <1>4 DEF Take, Load, Length, Goto
<1>5. CASE Advance(s) \/ Retreat(s) \/ Reset(s) \/ Execute(s)
  BY <1>1, <1>5 DEF Advance, Retreat, Reset, Execute, Goto
<1>6. CASE Put(s) \/ End(s) \/ Clear(s)
  BY <1>1, <1>6 DEF Put, End, Clear, Goto
<1> QED BY <1>2, <1>3, <1>4, <1>5, <1>6 DEF KeyStep

(* Where a step takes its context.                                         *)
LEMMA Goes ==
  ASSUME TypeOK, EventInv, NEW s \in Contexts, KeyStep(s)
  PROVE  \/ Poll(s) /\ pc'[s] = "take" /\ queue # <<>> /\ queue' = queue /\ scancode' = scancode
         \/ Take(s) /\ pc'[s] = (IF Read.make THEN "test" ELSE "up") /\ queue' = <<>>
              /\ scancode'[s] = Read
         \/ /\ pc[s] \notin {"poll", "take"} /\ queue = <<>> /\ queue' = queue /\ last' = last
            /\ scancode' = scancode /\ scancode[s] = Read
            /\ pc[s] \in Path(Read) /\ pc'[s] \in {"poll"} \cup Path(Read)
<1>0. pc \in [Contexts -> Labels] /\ scancode \in [Contexts -> Codes] /\ Read \in Codes
  BY ReadTyped DEF TypeOK
<1>1. CASE Poll(s)
  BY <1>0, <1>1 DEF Poll, Goto, user
<1>2. CASE Take(s)
  <2>1. pc'[s] = (IF Read.make THEN "test" ELSE "up") /\ scancode'[s] = Read
    BY <1>0, <1>2 DEF Take, Goto
  <2>2. queue' = <<>>
    <3>1. CASE queue = <<>>
      BY <1>2, <3>1 DEF Take
    <3>2. CASE queue = <<Read>>
      BY <1>2, <3>2 DEF Take
    <3> QED BY <3>1, <3>2 DEF EventInv
  <2> QED BY <1>2, <2>1, <2>2
<1>3. CASE ~Poll(s) /\ ~Take(s)
  <2>1. pc[s] \notin {"poll", "take"}
    BY <1>3, MarkEffect
       DEF KeyStep, Up, Test, Room, Any, Load, Advance, Retreat, Put, Length, End, Execute,
           Reset, Clear, At
  <2>2. queue = <<>> /\ scancode[s] = Read /\ pc[s] \in Path(Read)
    BY <2>1 DEF EventInv
  <2>3. queue' = queue /\ last' = last /\ scancode' = scancode
    BY <1>3, MarkEffect
       DEF KeyStep, Up, Test, Room, Any, Load, Advance, Retreat, Put, Length, End, Execute,
           Reset, Clear, user
  <2>4. pc'[s] \in {"poll"} \cup Path(Read)
    <3>1. CASE Up(s) \/ Test(s) \/ Room(s) \/ Any(s)
      BY <1>0, <2>2, <3>1 DEF Up, Test, Room, Any, Goto, At, Path
    <3>2. CASE Mark(s)
      BY <1>0, <2>2, <3>2, MarkEffect DEF Path
    <3>3. CASE Load(s) \/ Length(s)
      BY <1>0, <2>2, <3>3 DEF Load, Length, Goto, At, Path
    <3>4. CASE Advance(s) \/ Retreat(s) \/ Put(s)
      BY <1>0, <2>2, <3>4 DEF Advance, Retreat, Put, Goto, At, Path
    <3>5. CASE End(s) \/ Execute(s) \/ Reset(s) \/ Clear(s)
      BY <1>0, <2>2, <3>5 DEF End, Execute, Reset, Clear, Goto, At, Path
    <3> QED BY <1>3, <3>1, <3>2, <3>3, <3>4, <3>5 DEF KeyStep
  <2> QED BY <2>1, <2>2, <2>3, <2>4
<1> QED BY <1>1, <1>2, <1>3

LEMMA EventKey ==
  ASSUME TypeOK, EventInv, NEW s \in Contexts, KeyStep(s)
  PROVE  EventInv'
<1>1. Read' = Read /\ (queue' = queue \/ queue' = <<>>)
  BY ReadStays
<1>2. \A c \in Contexts : c # s => pc'[c] = pc[c] /\ scancode'[c] = scancode[c]
  BY OtherStays
<1>3. "test" \in Path(Read) \/ ~Read.make
  BY DEF Path
<1>4. "up" \in Path(Read) \/ Read.make
  BY DEF Path
<1>5. queue' = <<>> \/ queue' = <<Read>>
  BY <1>1 DEF EventInv
<1>6. \A c \in Contexts : pc'[c] \notin {"poll", "take"} =>
        queue' = <<>> /\ scancode'[c] = Read /\ pc'[c] \in Path(Read)
  BY <1>1, <1>2, <1>3, <1>4, Goes DEF EventInv
<1> QED BY <1>1, <1>5, <1>6 DEF EventInv

LEMMA StoreEffect ==
  ASSUME TypeOK, NEW i \in -1..(MAX_LINE + 1), NEW c \in Chars \cup {NUL}, Store(i, c),
         i = MAX_LINE + 1 => c = NUL /\ input_pos >= 0
  PROVE  /\ input' \in [0..MAX_LINE -> Chars \cup {NUL}]
         /\ input_pos' = input_pos \/ (i = MAX_LINE + 1 /\ input_pos' = 0)
<1>1. CASE i \in 0..MAX_LINE
  BY <1>1 DEF Store, TypeOK
<1>2. CASE i \notin 0..MAX_LINE
  BY <1>2 DEF Store, TypeOK, LowByteCleared
<1> QED BY <1>1, <1>2

(* The steps that change the position or the line, with what the places    *)
(* held say of the new position.                                           *)
LEMMA Edits ==
  ASSUME TypeOK, EventInv, PlaceInv, NEW s \in Contexts, NEW c \in Contexts, c # s, KeyStep(s)
  PROVE  /\ input' \in [0..MAX_LINE -> Chars \cup {NUL}]
         /\ \/ input_pos' = input_pos
            \/ Advance(s) /\ input_pos' = pos[s] + 1 /\ pos[s] <= MAX_LINE
            \/ Retreat(s) /\ input_pos' = pos[s] - 1 /\ pos[s] >= 0
            \/ End(s) /\ input_pos' = 0 /\ Read.key # "backspace" /\ pos[s] = MAX_LINE + 1
            \/ Reset(s) /\ input_pos' = 0
<1>0. /\ pos[s] \in -1..(MAX_LINE + 1) /\ Placed(s, c) /\ NUL \in Chars \cup {NUL}
      /\ input \in [0..MAX_LINE -> Chars \cup {NUL}]
  BY DEF TypeOK, PlaceInv
<1>1. CASE Poll(s) \/ Up(s) \/ Test(s) \/ Room(s) \/ Any(s) \/ Execute(s)
  BY <1>0, <1>1 DEF Poll, Up, Test, Room, Any, Execute, buffer
<1>2. CASE Take(s) \/ Mark(s) \/ Load(s) \/ Length(s)
  BY <1>0, <1>2, MarkEffect DEF Take, Load, Length, buffer
<1>3. CASE Advance(s)
  BY <1>0, <1>3 DEF Advance, Placed
<1>4. CASE Retreat(s)
  BY <1>0, <1>4 DEF Retreat, Placed
<1>5. CASE Reset(s)
  BY <1>0, <1>5 DEF Reset
<1>6. CASE Put(s)
  <2>1. pc[s] = "put" /\ Store(pos[s], scancode[s].key)
    BY <1>6 DEF Put, At
  <2>2. scancode[s] = Read /\ pc[s] \in Path(Read) /\ Read \in Codes
    BY <2>1, ReadTyped DEF EventInv
  <2>3. scancode[s].key \in Chars
    BY <2>1, <2>2 DEF Path, Codes, Keys
  <2>4. pos[s] # MAX_LINE + 1
    BY <1>0, <2>1, Bounds DEF Placed, At
  <2> QED BY <1>0, <2>1, <2>3, <2>4, StoreEffect
<1>7. CASE End(s)
  <2>1. pc[s] = "end" /\ Store(pos[s], NUL)
    BY <1>7 DEF End, At
  <2>2. pos[s] = MAX_LINE + 1 => input_pos >= 0 /\ Read.key # "backspace"
    BY <1>0, <2>1 DEF Placed, At
  <2> QED BY <1>0, <1>7, <2>1, <2>2, StoreEffect
<1>8. CASE Clear(s)
  <2>1. Store(0, NUL) /\ 0 \in -1..(MAX_LINE + 1) /\ 0 # MAX_LINE + 1
    BY <1>8, Bounds DEF Clear
  <2> QED BY <1>0, <2>1, StoreEffect
<1> QED BY <1>1, <1>2, <1>3, <1>4, <1>5, <1>6, <1>7, <1>8 DEF KeyStep

LEMMA TypeKey ==
  ASSUME TypeOK, EventInv, PlaceInv, MarkInv, NEW s \in Contexts, KeyStep(s)
  PROVE  TypeOK'
<1>0. PICK c \in Contexts : c # s
  BY DEF Contexts
<1>1. /\ Read \in Codes /\ pos[s] \in -1..(MAX_LINE + 1) /\ input_pos \in -1..(MAX_LINE + 1)
      /\ pc[s] \in Labels /\ scancode[s] \in Codes
  BY ReadTyped DEF TypeOK
<1>2. pc' \in [Contexts -> Labels] /\ scancode' \in [Contexts -> Codes]
  <2>1. pc'[s] \in Labels
    BY <1>1, Goes DEF Labels, Path
  <2>2. \E l, e : pc' = [pc EXCEPT ![s] = l] /\ scancode' = [scancode EXCEPT ![s] = e]
    <3>1. CASE Poll(s) \/ Up(s) \/ Test(s) \/ Room(s) \/ Any(s) \/ Execute(s)
      BY <3>1 DEF Poll, Up, Test, Room, Any, Execute, Goto, TypeOK
    <3>2. CASE Take(s) \/ Mark(s) \/ Load(s) \/ Length(s)
      BY <3>2, MarkEffect DEF Take, Load, Length, Goto, TypeOK
    <3>3. CASE Advance(s) \/ Retreat(s) \/ Reset(s) \/ Put(s) \/ End(s) \/ Clear(s)
      BY <3>3 DEF Advance, Retreat, Reset, Put, End, Clear, Goto, TypeOK
    <3> QED BY <3>1, <3>2, <3>3 DEF KeyStep
  <2>3. scancode'[s] \in Codes
    BY <1>1, Goes
  <2> QED BY <2>1, <2>2, <2>3 DEF TypeOK
<1>3. input_pos' \in -1..(MAX_LINE + 1) /\ input' \in [0..MAX_LINE -> Chars \cup {NUL}]
  BY <1>0, <1>1, Edits, Bounds
<1>4. pos' \in [Contexts -> -1..(MAX_LINE + 1)]
  <2>1. CASE Load(s) \/ Length(s)
    BY <1>1, <2>1 DEF Load, Length, TypeOK
  <2>2. CASE ~(Load(s) \/ Length(s))
    BY <2>2, MarkEffect DEF KeyStep, Poll, Take, Up, Test, Room, Any, Advance, Retreat, Put, End,
                            Execute, Reset, Clear, TypeOK
  <2> QED BY <2>1, <2>2
<1>5. held' = held /\ queue' \in Seq(Codes) /\ last' \in Codes
  <2>1. held' = held
    BY MarkEffect DEF KeyStep, Poll, Take, Up, Test, Room, Any, Load, Advance, Retreat, Put,
                      Length, End, Execute, Reset, Clear, user
  <2>2. last' = last \/ last' = Read
    BY Goes DEF Poll, Take, user
  <2>3. <<>> \in Seq(Codes)
    OBVIOUS
  <2> QED BY <1>1, <2>1, <2>2, <2>3, ReadStays DEF TypeOK
<1>6. key_down' \subseteq Keys /\ seen' \in 0..2
  <2>1. CASE Mark(s)
    <3>1. pc[s] = "mark" /\ key_down' = key_down \cup {scancode[s].key} /\ seen' = seen + 1
      BY <2>1, MarkEffect
    <3>2. queue = <<>> /\ Read.make
      BY <3>1 DEF EventInv, Path
    <3>3. seen <= 1
      BY <3>1, <3>2 DEF MarkInv, MayMark
    <3>4. scancode[s].key \in Keys
      BY <1>1 DEF Codes
    <3> QED BY <3>1, <3>3, <3>4 DEF TypeOK
  <2>2. CASE ~Mark(s)
    BY <2>2 DEF KeyStep, Poll, Take, Up, Test, Room, Any, Load, Advance, Retreat, Put,
                Length, End, Execute, Reset, Clear, TypeOK
  <2> QED BY <2>1, <2>2
<1> QED BY <1>2, <1>3, <1>4, <1>5, <1>6 DEF TypeOK

LEMMA MarkKey ==
  ASSUME TypeOK, EventInv, MarkInv, NEW s \in Contexts, KeyStep(s)
  PROVE  MarkInv'
<1>0. PICK c \in Contexts : c # s /\ \A d \in Contexts : d = s \/ d = c
  BY DEF Contexts
<1>1. /\ Read' = Read /\ pc'[c] = pc[c]
      /\ queue' = queue \/ queue' = <<>>
      /\ queue = <<>> \/ queue = <<Read>>
  BY <1>0, ReadStays, OtherStays DEF EventInv
<1>2. held' = held
  BY MarkEffect DEF KeyStep, Poll, Take, Up, Test, Room, Any, Load, Advance, Retreat, Put,
                    Length, End, Execute, Reset, Clear, user
<1>3. seen \in 0..2
  BY DEF TypeOK
<1>4. CASE Mark(s)
  <2>1. /\ pc[s] = "mark" /\ key_down' = key_down \cup {scancode[s].key} /\ seen' = seen + 1
        /\ ~MayMark(s)'
    <3>1. pc'[s] \in {"any", "length", "room"}
      BY <1>4, MarkEffect DEF TypeOK
    <3> QED BY <1>4, <3>1, MarkEffect DEF MayMark
  <2>2. queue = <<>> /\ Read.make /\ scancode[s] = Read
    BY <2>1 DEF EventInv, Path
  <2>3. MayMark(c)' <=> MayMark(c)
    BY <1>1 DEF MayMark
  <2>4. /\ Read.key \in held /\ key_down = (IF seen = 0 THEN held \ {Read.key} ELSE held)
        /\ MayMark(c) => seen = 0
    BY <1>0, <2>1, <2>2 DEF MarkInv, MayMark
  <2>5. key_down' = held /\ seen' # 0 /\ (MayMark(c)' => seen' = 1) /\ queue' = <<>>
    BY <1>1, <1>3, <2>1, <2>2, <2>3, <2>4
  <2>6. \A d \in Contexts : MayMark(d)' => d = c
    BY <1>0, <2>1
  <2> QED BY <1>0, <1>1, <1>2, <2>1, <2>2, <2>4, <2>5, <2>6 DEF MarkInv
<1>5. CASE Up(s)
  <2>1. pc[s] = "up" /\ key_down' = key_down \ {scancode[s].key} /\ seen' = seen
    BY <1>5 DEF Up, At
  <2>2. queue = <<>> /\ ~Read.make /\ scancode[s] = Read
    BY <2>1 DEF EventInv, Path
  <2>3. key_down' = held /\ Read.key \notin held /\ seen >= 1
    BY <2>1, <2>2 DEF MarkInv
  <2> QED BY <1>1, <1>2, <2>1, <2>2, <2>3 DEF MarkInv
<1>6. CASE ~Mark(s) /\ ~Up(s)
  <2>1. key_down' = key_down /\ seen' = seen
    BY <1>6 DEF KeyStep, Poll, Take, Test, Room, Any, Load, Advance, Retreat, Put,
                Length, End, Execute, Reset, Clear
  <2>2. CASE Read.make
    <3>1. MayMark(s)' => MayMark(s) \/ queue # <<>>
      <4>1. pc'[s] = "mark" => pc[s] = "test"
        BY MarkEffect
           DEF KeyStep, Poll, Take, Up, Test, Room, Any, Load, Advance, Retreat, Put, Length, End,
               Execute, Reset, Clear, Goto, At, TypeOK
      <4>2. pc'[s] = "test" => pc[s] = "take"
        BY MarkEffect
           DEF KeyStep, Poll, Take, Up, Test, Room, Any, Load, Advance, Retreat, Put, Length, End,
               Execute, Reset, Clear, Goto, At, TypeOK
      <4>3. pc'[s] = "take" => queue # <<>>
        BY Goes DEF Path
      <4> QED BY <4>1, <4>2, <4>3 DEF MayMark
    <3>2. MayMark(c)' <=> MayMark(c)
      BY <1>1 DEF MayMark
    <3>3. CASE queue # <<>>
      <4>1. seen = 0
        BY <2>2, <3>3 DEF MarkInv
      <4>2. queue' = <<>> => MayMark(s)'
        BY <2>2, <3>3, Goes DEF MayMark
      <4> QED BY <1>1, <1>2, <2>1, <2>2, <4>1, <4>2 DEF MarkInv
    <3>4. CASE queue = <<>>
      <4>1. seen = 0 => (MayMark(s) => MayMark(s)')
        <5> SUFFICES ASSUME seen = 0, MayMark(s) PROVE MayMark(s)'
          OBVIOUS
        <5>1. key_down = held \ {Read.key}
          BY <2>2 DEF MarkInv
        <5>2. CASE pc[s] = "take"
          BY <2>2, <5>2, Goes DEF MayMark, Poll, At
        <5>3. CASE pc[s] = "test"
          <6>1. Test(s) /\ scancode[s] = Read
            BY <5>3, Goes
               DEF KeyStep, Poll, Take, Up, Mark, Room, Any, Load, Advance, Retreat, Put,
                   Length, End, Execute, Reset, Clear, At
          <6> QED BY <5>1, <6>1 DEF Test, Goto, MayMark, TypeOK
        <5>4. CASE pc[s] = "mark"
          BY <1>6, <5>4
             DEF KeyStep, Poll, Take, Up, Test, Room, Any, Load, Advance, Retreat, Put,
                 Length, End, Execute, Reset, Clear, At
        <5> QED BY <5>2, <5>3, <5>4 DEF MayMark
      <4>2. queue' = <<>> /\ (MayMark(s)' => MayMark(s))
        BY <1>1, <3>1, <3>4
      <4>3. /\ (\A d \in Contexts : MayMark(d)') => \A d \in Contexts : MayMark(d)
            /\ (\E d \in Contexts : MayMark(d)') => \E d \in Contexts : MayMark(d)
            /\ seen = 0 /\ (\E d \in Contexts : MayMark(d)) => \E d \in Contexts : MayMark(d)'
        BY <1>0, <3>2, <4>1, <4>2
      <4> QED BY <1>1, <1>2, <2>1, <2>2, <3>4, <4>2, <4>3 DEF MarkInv
    <3> QED BY <3>3, <3>4
  <2>3. CASE ~Read.make
    <3>1. /\ Read.key \notin held /\ seen >= 1
          /\ key_down \in {held, held \cup {Read.key}}
          /\ queue = <<>> /\ key_down # held => \E d \in Contexts : pc[d] \in {"take", "up"}
      BY <2>3 DEF MarkInv
    <3>2. CASE queue # <<>>
      <4>1. queue' = <<>> => pc'[s] = "up"
        BY <2>3, <3>2, Goes
      <4> QED BY <1>1, <1>2, <2>1, <2>3, <3>1, <4>1 DEF MarkInv
    <3>3. CASE queue = <<>>
      <4>1. pc[s] \in {"take", "up"} => pc'[s] \in {"take", "up"}
        BY <1>6, <2>3, <3>3, Goes
           DEF KeyStep, Poll, Take, Test, Mark, Room, Any, Load, Advance, Retreat, Put,
               Length, End, Execute, Reset, Clear, At
      <4>2. (\E d \in Contexts : pc[d] \in {"take", "up"})
              => \E d \in Contexts : pc'[d] \in {"take", "up"}
        BY <1>0, <1>1, <4>1
      <4> QED BY <1>1, <1>2, <2>1, <2>3, <3>1, <3>3, <4>2 DEF MarkInv
    <3> QED BY <3>2, <3>3
  <2> QED BY <2>2, <2>3
<1> QED BY <1>4, <1>5, <1>6

(* Each of the two contexts keeps its place, whichever of them moves.      *)
LEMMA PlaceKey ==
  ASSUME TypeOK, EventInv, PlaceInv, NEW s \in Contexts, KeyStep(s), NEW c \in Contexts, c # s
  PROVE  Placed(s, c)' /\ Placed(c, s)'
<1>0. /\ Placed(s, c) /\ Placed(c, s) /\ Read \in Codes /\ Read' = Read
      /\ pc'[c] = pc[c] /\ pos'[c] = pos[c]
  BY ReadTyped, ReadStays, OtherStays DEF PlaceInv
<1>1. /\ pos[s] \in -1..(MAX_LINE + 1) /\ pos[c] \in -1..(MAX_LINE + 1)
      /\ input_pos \in -1..(MAX_LINE + 1) /\ pc[s] \in Labels /\ pc[c] \in Labels
      /\ pos \in [Contexts -> -1..(MAX_LINE + 1)] /\ pc \in [Contexts -> Labels]
  BY DEF TypeOK
<1>2. /\ pc[s] \notin {"poll", "take"} =>
           queue = <<>> /\ scancode[s] = Read /\ pc[s] \in Path(Read)
      /\ pc[c] \notin {"poll", "take"} =>
           queue = <<>> /\ scancode[c] = Read /\ pc[c] \in Path(Read)
  BY DEF EventInv
<1>3. Read.key \in Chars => Read.key \notin {"backspace", "enter"}
  BY KeyRaceAssumption
<1>4. Read.key \in Chars \/ Read.key = "backspace" \/ Read.key = "enter"
  BY <1>0 DEF Codes, Keys
<1>5. CASE Poll(s)
  <2>1. pc'[s] = "take" /\ input_pos' = input_pos /\ pos' = pos /\ queue # <<>>
    BY <1>1, <1>5 DEF Poll, Goto, buffer
  <2> QED BY <1>0, <1>2, <2>1 DEF Placed, At, Adds, Takes
<1>6. CASE Take(s)
  <2>1. pc'[s] \in {"test", "up"} /\ input_pos' = input_pos /\ pos' = pos /\ pc[s] = "take"
    BY <1>1, <1>6 DEF Take, Goto, At, buffer
  <2> QED BY <1>0, <2>1 DEF Placed, At, Adds, Takes
<1>7. CASE Up(s) \/ Execute(s)
  <2>1. pc'[s] \in {"poll", "reset"} /\ input_pos' = input_pos /\ pos' = pos
    BY <1>1, <1>7 DEF Up, Execute, Goto, buffer
  <2> QED BY <1>0, <2>1 DEF Placed, At, Adds, Takes
<1>8. CASE Test(s)
  <2>1. /\ pc'[s] \in {"poll", "mark"} /\ input_pos' = input_pos /\ pos' = pos /\ pc[s] = "test"
    BY <1>1, <1>8 DEF Test, Goto, At, buffer
  <2> QED BY <1>0, <2>1 DEF Placed, At, Adds, Takes
<1>9. CASE Mark(s)
  <2>1. /\ input_pos' = input_pos /\ pos' = pos /\ pc[s] = "mark"
        /\ pc'[s] = IF Read.key = "backspace" THEN "any"
                    ELSE IF Read.key = "enter" THEN "length" ELSE "room"
    BY <1>1, <1>2, <1>9, MarkEffect
  <2> QED BY <1>0, <1>1, <1>2, <1>3, <1>4, <2>1 DEF Placed, At, Path, Adds, Takes
<1>10. CASE Room(s)
  <2>1. /\ input_pos' = input_pos /\ pos' = pos /\ pc[s] = "room"
        /\ pc'[s] = IF input_pos < MAX_LINE THEN "load" ELSE "poll"
    BY <1>1, <1>10 DEF Room, Goto, At, buffer
  <2>2. Read.key \notin {"backspace", "enter"} /\ pc[c] \in Path(Read) \cup {"poll", "take"}
    BY <1>2, <2>1 DEF Path
  <2> QED BY <1>0, <1>1, <2>1, <2>2, Bounds DEF Placed, At, Path, Adds, Takes
<1>11. CASE Any(s)
  <2>1. /\ input_pos' = input_pos /\ pos' = pos /\ pc[s] = "any"
        /\ pc'[s] = "poll" \/ (pc'[s] = "load" /\ input_pos > 0)
    BY <1>1, <1>11 DEF Any, Goto, At, buffer
  <2>2. Read.key = "backspace" /\ pc[c] \in Path(Read) \cup {"poll", "take"}
    BY <1>2, <2>1 DEF Path
  <2> QED BY <1>0, <1>1, <2>1, <2>2, Bounds DEF Placed, At, Path, Adds, Takes
<1>12. CASE Load(s)
  <2>1. /\ input_pos' = input_pos /\ pos'[s] = input_pos /\ pc[s] = "load" /\ scancode[s] = Read
        /\ pc'[s] = IF Read.key = "backspace" THEN "retreat" ELSE "advance"
    BY <1>1, <1>2, <1>12 DEF Load, Goto, At, buffer
  <2>2. pc[c] \in Path(Read) \cup {"poll", "take"} /\ Read.key # "enter"
    BY <1>2, <2>1 DEF Path
  <2> QED BY <1>0, <1>1, <2>1, <2>2, Bounds DEF Placed, At, Path, Adds, Takes
<1>13. CASE Advance(s)
  <2>1. /\ input_pos' = pos[s] + 1 /\ pos' = pos /\ pc[s] = "advance" /\ pc'[s] = "put"
    BY <1>1, <1>13 DEF Advance, Goto, At
  <2>2. Read.key \notin {"backspace", "enter"} /\ pc[c] \in Path(Read) \cup {"poll", "take"}
    BY <1>2, <2>1 DEF Path
  <2> QED BY <1>0, <1>1, <2>1, <2>2, Bounds DEF Placed, At, Path, Adds, Takes
<1>14. CASE Retreat(s)
  <2>1. /\ input_pos' = pos[s] - 1 /\ pos' = pos /\ pc[s] = "retreat" /\ pc'[s] = "length"
    BY <1>1, <1>14 DEF Retreat, Goto, At
  <2>2. Read.key = "backspace" /\ pc[c] \in Path(Read) \cup {"poll", "take"}
    BY <1>2, <2>1 DEF Path
  <2> QED BY <1>0, <1>1, <1>3, <2>1, <2>2, Bounds DEF Placed, At, Path, Adds, Takes
<1>15. CASE Put(s)
  <2>1. input_pos' = input_pos /\ pos' = pos /\ pc[s] = "put" /\ pc'[s] = "length"
    <3>1. input_pos' = input_pos
      BY <1>15, Edits DEF Put, Advance, Retreat, End, Reset, At
    <3> QED BY <1>1, <1>15, <3>1 DEF Put, Goto, At
  <2>2. Read.key \notin {"backspace", "enter"}
    BY <1>2, <2>1 DEF Path
  <2> QED BY <1>0, <2>1, <2>2 DEF Placed, At, Adds, Takes
<1>16. CASE Length(s)
  <2>1. input_pos' = input_pos /\ pos'[s] = input_pos /\ pc[s] = "length" /\ pc'[s] = "end"
    BY <1>1, <1>16 DEF Length, Goto, At, buffer
  <2> QED BY <1>0, <1>1, <2>1, Bounds DEF Placed, At, Adds, Takes
<1>17. CASE End(s)
  <2>1. pos' = pos /\ pc[s] = "end" /\ pc'[s] \in {"execute", "poll"}
    BY <1>1, <1>17 DEF End, Goto, At
  <2>2. input_pos' = input_pos
        \/ (input_pos' = 0 /\ Read.key # "backspace" /\ pos[s] = MAX_LINE + 1)
    BY <1>17, <2>1, Edits DEF Advance, Retreat, Reset, At
  <2>3. CASE input_pos' = input_pos
    BY <1>0, <2>1, <2>3 DEF Placed, At, Adds, Takes
  <2>4. CASE input_pos' = 0 /\ Read.key # "backspace"
    <3>1. pc[c] # "retreat"
      BY <1>2, <2>4 DEF Path
    <3>2. 0 < MAX_LINE
      BY Bounds
    <3> QED BY <1>0, <2>1, <2>4, <3>1, <3>2, Bounds DEF Placed, At, Adds, Takes
  <2> QED BY <2>2, <2>3, <2>4
<1>18. CASE Reset(s)
  <2>1. input_pos' = 0 /\ pos' = pos /\ pc[s] = "reset" /\ pc'[s] = "clear"
    BY <1>1, <1>18 DEF Reset, Goto, At
  <2>2. Read.key = "enter" /\ pc[c] \in Path(Read) \cup {"poll", "take"}
    BY <1>2, <2>1 DEF Path
  <2> QED BY <1>0, <1>3, <2>1, <2>2 DEF Placed, At, Path, Adds, Takes
<1>19. CASE Clear(s)
  <2>1. input_pos' = input_pos
    BY <1>19, Edits DEF Clear, Advance, Retreat, End, Reset, At
  <2>2. pos' = pos /\ pc'[s] = "poll"
    BY <1>1, <1>19 DEF Clear, Goto
  <2> QED BY <1>0, <2>1, <2>2 DEF Placed, At, Adds, Takes
<1> QED BY <1>5, <1>6, <1>7, <1>8, <1>9, <1>10, <1>11, <1>12, <1>13, <1>14, <1>15, <1>16, <1>17,
           <1>18, <1>19 DEF KeyStep

-----------------------------------------------------------------------------
(* The user: a press and a release begin a new event on a quiet line.      *)
LEMMA UserStep ==
  ASSUME Spaced, TypeOK, MarkInv, NEW k \in Keys, Press(k) \/ Release(k)
  PROVE  TypeOK' /\ EventInv' /\ PlaceInv' /\ MarkInv'
<1>1. Quiet /\ key_down = held /\ seen >= 1
  BY QuietMarks DEF Press, Release
<1>2. queue = <<>> /\ \A s \in Contexts : pc[s] = "poll"
  BY <1>1 DEF Quiet, At
<1>3. PICK e \in Codes : queue' = Append(queue, e) /\ e.key = k /\ (e.make <=> k \notin held)
  <2>1. CASE Press(k)
    <3> DEFINE c == [key |-> k, make |-> TRUE]
    <3>1. c \in Codes /\ c.key = k /\ c.make = TRUE
      BY DEF Codes
    <3>2. queue' = Append(queue, c) /\ k \notin held
      BY <2>1 DEF Press
    <3> HIDE DEF c
    <3> QED BY <3>1, <3>2
  <2>2. CASE Release(k)
    <3> DEFINE c == [key |-> k, make |-> FALSE]
    <3>1. c \in Codes /\ c.key = k /\ c.make = FALSE
      BY DEF Codes
    <3>2. queue' = Append(queue, c) /\ k \in held
      BY <2>2 DEF Release
    <3> HIDE DEF c
    <3> QED BY <3>1, <3>2
  <2> QED BY <2>1, <2>2
<1>4. queue' = <<e>> /\ Head(queue') = e /\ queue' # <<>> /\ queue' \in Seq(Codes)
  BY <1>2, <1>3
<1>5. Read' = e
  BY <1>4 DEF Read
<1>6. UNCHANGED <<last, key_down, input, input_pos, pc, scancode, pos>>
  BY DEF Press, Release, buffer
<1>7. held' \subseteq Keys /\ seen' \in 0..2
  BY DEF Press, Release, TypeOK
<1>8. TypeOK'
  BY <1>4, <1>6, <1>7 DEF TypeOK
<1>9. EventInv'
  BY <1>2, <1>4, <1>5, <1>6 DEF EventInv
<1>10. PlaceInv'
  BY <1>2, <1>6 DEF PlaceInv, Placed, At
<1>11. MarkInv'
  <2>1. CASE Press(k)
    <3>1. e.make /\ held' = held \cup {k} /\ seen' = 0 /\ k \notin held
      BY <1>3, <2>1 DEF Press
    <3> QED BY <1>1, <1>3, <1>4, <1>5, <1>6, <3>1 DEF MarkInv
  <2>2. CASE Release(k)
    <3>1. ~e.make /\ held' = held \ {k} /\ seen' = seen /\ k \in held
      BY <1>3, <2>2 DEF Release
    <3> QED BY <1>1, <1>3, <1>4, <1>5, <1>6, <3>1 DEF MarkInv
  <2> QED BY <2>1, <2>2
<1> QED BY <1>8, <1>9, <1>10, <1>11

LEMMA KeyRaceInductive ==
  ASSUME Spaced
  PROVE  Spec => [](TypeOK /\ EventInv /\ PlaceInv /\ MarkInv)
<1>1. TypeOK /\ EventInv /\ PlaceInv /\ MarkInv /\ [Next]_vars
        => (TypeOK /\ EventInv /\ PlaceInv /\ MarkInv)'
  <2> SUFFICES ASSUME TypeOK, EventInv, PlaceInv, MarkInv, [Next]_vars
               PROVE  TypeOK' /\ EventInv' /\ PlaceInv' /\ MarkInv'
    OBVIOUS
  <2>1. ASSUME NEW k \in Keys, Press(k) \/ Release(k)
        PROVE  TypeOK' /\ EventInv' /\ PlaceInv' /\ MarkInv'
    BY <2>1, UserStep
  <2>2. ASSUME NEW s \in Contexts, KeyStep(s)
        PROVE  TypeOK' /\ EventInv' /\ PlaceInv' /\ MarkInv'
    <3>1. \A c \in Contexts : c # s => Placed(s, c)' /\ Placed(c, s)'
      BY <2>2, PlaceKey
    <3>2. \A d, c \in Contexts : d # c => d = s \/ c = s
      BY DEF Contexts
    <3>3. PlaceInv'
      BY <3>1, <3>2 DEF PlaceInv
    <3> QED BY <2>2, <3>3, TypeKey, EventKey, MarkKey
  <2>3. CASE UNCHANGED vars
    BY <2>3 DEF vars, user, buffer, TypeOK, EventInv, PlaceInv, Placed, MarkInv, MayMark, Read, At
  <2> QED BY <2>1, <2>2, <2>3 DEF Next
<1> QED BY <1>1, InitInv, PTL DEF Spec

(* Two contexts that act on one key leave the buffer by one byte at most,  *)
(* and what they store past its last byte is a NUL, never a character.     *)
THEOREM KeyRaceInBounds ==
  ASSUME Spaced
  PROVE  Spec => []InBounds
<1>1. TypeOK /\ PlaceInv => InBounds
  <2> SUFFICES ASSUME TypeOK, PlaceInv, NEW s \in Contexts, At(s, "put")
               PROVE  pos[s] <= MAX_LINE
    BY DEF InBounds, OverrunByOne
  <2>1. PICK c \in Contexts : c # s
    BY DEF Contexts
  <2> QED BY <2>1 DEF PlaceInv, Placed
<1> QED BY <1>1, KeyRaceInductive, PTL

(* A key pressed on its own is never lost, whichever context reads it.     *)
THEOREM KeyRaceKeySeen ==
  ASSUME Spaced
  PROVE  Spec => []KeySeen
<1>1. TypeOK /\ MarkInv => KeySeen
  BY QuietMarks DEF KeySeen
<1> QED BY <1>1, KeyRaceInductive, PTL
=============================================================================
