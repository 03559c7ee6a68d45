---------------------------- MODULE LcdLogProofs ----------------------------
(***************************************************************************)
(* Proofs about module LcdLog, for any number of writers, any width and    *)
(* height of the window and any depth of the cache: the window shows the   *)
(* last lines while the writers take turns.                                *)
(***************************************************************************)
EXTENDS LcdLog, TLAPS

Lines == [Columns -> Nat]

Labels == {"idle", "char", "charstore", "end", "flag", "top", "index", "pad", "padstore",
           "draw", "advance", "bottom", "wrap"}

TypeInv ==
  /\ cache \in [0 .. LCD_CACHE_DEPTH - 1 -> Lines]
  /\ xptr \in Nat /\ top \in Nat /\ bottom \in Nat
  /\ invert \in BOOLEAN
  /\ screen \in [Rows -> Lines]
  /\ pc \in [Writers -> Labels]
  /\ newline \in [Writers -> BOOLEAN]
  /\ idx \in [Writers -> Nat]
  /\ loaded \in [Writers -> Nat]
  /\ raced \in BOOLEAN
  /\ lines \in Nat

-----------------------------------------------------------------------------
(* The window, while the writers take turns                                *)

\* The line k lines above b in the cache.
Above(b, k) == IF k <= b THEN b - k ELSE b - k + LCD_CACHE_DEPTH

Least(m, n) == IF m < n THEN m ELSE n

\* Where the lines are, between two of them, while one ends, and when the next
\* one has been taken: the cache has not been filled yet or it has.
Between ==
  /\ invert <=> bottom = 0
  /\ IF lines < LCD_CACHE_DEPTH
     THEN top = 0 /\ bottom = lines
     ELSE bottom < LCD_CACHE_DEPTH /\ top = IF bottom = 0 THEN 1 ELSE bottom

Within ==
  /\ ~invert
  /\ IF lines < LCD_CACHE_DEPTH
     THEN top = 0 /\ bottom = lines
     ELSE /\ bottom < LCD_CACHE_DEPTH
          /\ top = IF bottom = LCD_CACHE_DEPTH - 1 THEN 0 ELSE bottom + 1

After ==
  /\ ~invert /\ lines # 0
  /\ IF lines < LCD_CACHE_DEPTH
     THEN top = 0 /\ bottom = lines
     ELSE /\ bottom \in 1 .. LCD_CACHE_DEPTH
          /\ top = IF bottom = LCD_CACHE_DEPTH THEN 0 ELSE bottom

\* The last lines are above the one being written; those before the one that
\* ends are above it.
Kept ==
  /\ Len(recent) = Least(lines, YWINDOW_SIZE)
  /\ \A k \in 1 .. Len(recent) : cache[Above(bottom, k)] = recent[Len(recent) + 1 - k]

Ending ==
  /\ Len(recent) = Least(lines + 1, YWINDOW_SIZE)
  /\ \A k \in 1 .. Len(recent) - 1 : cache[Above(bottom, k)] = recent[Len(recent) - k]

Ended == cache[bottom] = recent[Len(recent)]

\* The characters written on the line, and those of the one that ends.
Written ==
  \A c \in Columns : c < xptr => cache[bottom][c] = text[c + 1]

Partly ==
  /\ xptr <= XSize
  /\ \A c \in Columns : recent[Len(recent)][c] = IF c < xptr THEN cache[bottom][c] ELSE Blank

\* The window shows the last lines, or, before the new one is drawn, those
\* before it, unless it will be drawn anew.
Shown ==
  \A r \in Rows : screen[r] = IF r < Len(recent) THEN recent[r + 1] ELSE BlankLine

ShownBefore ==
  lines < YWINDOW_SIZE =>
    \A r \in Rows : screen[r] = IF r < lines THEN recent[r + 1] ELSE BlankLine

Rest == Between /\ Kept /\ Written /\ Shown /\ Len(text) = xptr /\ xptr <= XSize

Begun(w) ==
  /\ pc[w] \in {"char", "charstore"} =>
       /\ Between /\ Kept /\ Written /\ Shown
       /\ Len(text) = xptr + 1 /\ xptr < XSize
       /\ text[xptr + 1] = lines + 1
  /\ pc[w] = "charstore" => loaded[w] = xptr

Ends(w) ==
  /\ pc[w] \in {"end", "flag", "top", "index", "pad", "padstore", "draw", "advance", "bottom"} =>
       /\ Ending
       /\ text = IF newline[w] THEN <<>> ELSE <<lines + 2>>
  /\ pc[w] \in {"end", "flag", "top", "index", "pad", "padstore"} => Partly /\ ShownBefore
  /\ pc[w] \in {"end", "flag", "top"} => Between
  /\ pc[w] = "flag" => bottom = 0
  /\ pc[w] = "top" => bottom # 0 /\ top >= bottom /\ loaded[w] = top
  /\ pc[w] \in {"index", "pad", "padstore", "draw", "advance", "bottom"} => Within
  /\ pc[w] \in {"pad", "padstore"} => idx[w] = xptr
  /\ pc[w] = "padstore" => loaded[w] = xptr /\ xptr < XSize
  /\ pc[w] = "draw" => Ended /\ ShownBefore /\ xptr = 0
  /\ pc[w] \in {"advance", "bottom"} => Ended /\ Shown /\ xptr = 0
  /\ pc[w] = "bottom" => loaded[w] = bottom

Wraps(w) ==
  pc[w] = "wrap" => /\ After /\ Kept /\ Shown /\ xptr = 0
                    /\ loaded[w] + 1 = bottom
                    /\ text = IF newline[w] THEN <<>> ELSE <<lines + 1>>

Alone == \A v, w \in Writers : pc[v] # "idle" /\ pc[w] # "idle" => v = w

WindowInv ==
  ~raced =>
    /\ text \in Seq(Nat) /\ recent \in Seq(Lines)
    /\ Alone
    /\ (\A w \in Writers : pc[w] = "idle") => Rest
    /\ \A w \in Writers : Begun(w) /\ Ends(w) /\ Wraps(w)

-----------------------------------------------------------------------------
(* Types                                                                   *)

LEMMA Sizes ==
  /\ XSize \in Nat \ {0} /\ YWINDOW_SIZE \in Nat \ {0} /\ LCD_CACHE_DEPTH \in Nat
  /\ LCD_CACHE_DEPTH > YWINDOW_SIZE /\ LCD_CACHE_DEPTH > 1
  /\ Columns = 0 .. XSize - 1 /\ Rows = 0 .. YWINDOW_SIZE - 1
  /\ BlankLine \in Lines
  /\ BlankCache \in [0 .. LCD_CACHE_DEPTH - 1 -> Lines] /\ BlankScreen \in [Rows -> Lines]
BY LogAssumption DEF Columns, Rows, BlankLine, Lines, Blank, BlankCache, BlankScreen

\* Where a row is in the cache: its place, or that place a lap on.
LEMMA Modulus ==
  \A x \in 0 .. 2 * LCD_CACHE_DEPTH - 1 :
    x % LCD_CACHE_DEPTH = IF x < LCD_CACHE_DEPTH THEN x ELSE x - LCD_CACHE_DEPTH
<1> SUFFICES ASSUME NEW x \in 0 .. 2 * LCD_CACHE_DEPTH - 1
             PROVE  x % LCD_CACHE_DEPTH = IF x < LCD_CACHE_DEPTH THEN x ELSE x - LCD_CACHE_DEPTH
  OBVIOUS
<1>1. LCD_CACHE_DEPTH \in Nat \ {0}
  BY Sizes
<1>2. CASE x < LCD_CACHE_DEPTH
  <2>1. \A y \in 0 .. LCD_CACHE_DEPTH - 1 : y % LCD_CACHE_DEPTH = y
    BY <1>1
  <2> QED BY <1>1, <1>2, <2>1
<1>3. CASE x >= LCD_CACHE_DEPTH
  <2>1. \A y \in 0 .. LCD_CACHE_DEPTH - 1 : (y + LCD_CACHE_DEPTH) % LCD_CACHE_DEPTH = y
    BY <1>1
  <2>2. x - LCD_CACHE_DEPTH \in 0 .. LCD_CACHE_DEPTH - 1 /\ (x - LCD_CACHE_DEPTH) + LCD_CACHE_DEPTH = x
    BY <1>1, <1>3
  <2> QED BY <1>1, <1>3, <2>1, <2>2
<1> QED BY <1>1, <1>2, <1>3

LEMMA StoreType ==
  ASSUME TypeInv, NEW w \in Writers, NEW ch \in Nat, Store(w, ch)
  PROVE  /\ cache' \in [0 .. LCD_CACHE_DEPTH - 1 -> Lines] /\ xptr' \in Nat
         /\ loaded' = [loaded EXCEPT ![w] = 0]
<1>1. cache \in [0 .. LCD_CACHE_DEPTH - 1 -> Lines] /\ loaded[w] \in Nat
  BY DEF TypeInv
<1>2. xptr' \in Nat /\ loaded' = [loaded EXCEPT ![w] = 0]
  BY <1>1 DEF Store, Unload
<1>3. CASE /\ loaded[w] \in Columns /\ bottom \in DOMAIN cache
           /\ cache' = [cache EXCEPT ![bottom][loaded[w]] = ch]
  <2>1. [cache[bottom] EXCEPT ![loaded[w]] = ch] \in Lines
    BY <1>1, <1>3 DEF Lines
  <2> QED BY <1>1, <1>2, <1>3, <2>1
<1>4. CASE cache' = cache
  BY <1>1, <1>2, <1>4
<1> QED BY <1>2, <1>3, <1>4 DEF Store

LEMMA DisplayedType == TypeInv => Displayed \in [Rows -> Lines]
<1> SUFFICES ASSUME TypeInv PROVE Displayed \in [Rows -> Lines]
  OBVIOUS
<1>1. /\ cache \in [0 .. LCD_CACHE_DEPTH - 1 -> Lines] /\ screen \in [Rows -> Lines]
      /\ bottom \in Nat
  BY DEF TypeInv
<1>2. \A l : Line(l) \in Lines
  BY <1>1, Sizes DEF Line
<1>3. [screen EXCEPT ![bottom] = Line(bottom)] \in [Rows -> Lines]
  BY <1>1, <1>2
<1>4. \A i \in Int : i % LCD_CACHE_DEPTH \in 0 .. LCD_CACHE_DEPTH - 1
  BY Sizes
<1>5. ASSUME NEW ptr \in Int
      PROVE  [r \in Rows |-> cache[(r + ptr) % LCD_CACHE_DEPTH]] \in [Rows -> Lines]
  <2>1. \A r \in Rows : r + ptr \in Int
    BY Sizes
  <2>2. \A r \in Rows : (r + ptr) % LCD_CACHE_DEPTH \in 0 .. LCD_CACHE_DEPTH - 1
    BY <1>4, <2>1
  <2>3. \A i \in 0 .. LCD_CACHE_DEPTH - 1 : cache[i] \in Lines
    BY <1>1
  <2>4. \A r \in Rows : cache[(r + ptr) % LCD_CACHE_DEPTH] \in Lines
    BY <2>2, <2>3
  <2> QED BY ONLY <2>4
<1>6. /\ LCD_CACHE_DEPTH + bottom - YWINDOW_SIZE + 1 \in Int
      /\ bottom - YWINDOW_SIZE + 1 \in Int
  BY <1>1, Sizes
<1>7. CASE bottom < YWINDOW_SIZE - 1 /\ bottom >= top
  BY <1>3, <1>7 DEF Displayed
<1>8. CASE ~(bottom < YWINDOW_SIZE - 1 /\ bottom >= top)
  <2>1. PICK ptr : ptr = (IF bottom < top THEN LCD_CACHE_DEPTH + bottom ELSE bottom) - YWINDOW_SIZE + 1
    OBVIOUS
  <2>2. Displayed = [r \in Rows |-> cache[(r + ptr) % LCD_CACHE_DEPTH]]
    BY <1>8, <2>1, Zenon DEF Displayed
  <2>3. ptr \in Int
    BY <1>6, <2>1
  <2> QED BY ONLY <1>5, <2>2, <2>3
<1> QED BY <1>7, <1>8

LEMMA TypeStep == TypeInv /\ [Next]_vars => TypeInv'
<1> SUFFICES ASSUME TypeInv, [Next]_vars PROVE TypeInv'
  OBVIOUS
<1> USE DEF TypeInv, Labels
<1>1. CASE UNCHANGED vars
  BY <1>1 DEF vars, shared, locals, history
<1>2. ASSUME NEW w \in Writers, Putchar(w) PROVE TypeInv'
  <2> USE DEF Goto, shared, locals, history
  <2>1. ASSUME NEW nl \in BOOLEAN, Begin(w, nl) PROVE TypeInv'
    <3>1. PICK label \in {"char", "end"} : pc' = [pc EXCEPT ![w] = label]
      BY <2>1 DEF Begin
    <3>2. newline' = [newline EXCEPT ![w] = nl]
      BY <2>1 DEF Begin
    <3>3. raced' \in BOOLEAN
      BY <2>1, Zenon DEF Begin
    <3>4. /\ cache' \in [0 .. LCD_CACHE_DEPTH - 1 -> Lines] /\ screen' \in [Rows -> Lines]
      BY <2>1, Sizes DEF Begin
    <3>5. UNCHANGED <<xptr, top, bottom, invert, idx, loaded, lines>>
      BY <2>1 DEF Begin
    <3> QED BY <2>1, <3>1, <3>2, <3>3, <3>4, <3>5
  <2>2. CASE Char(w)
    BY <2>2 DEF Char, Load
  <2>3. CASE CharStore(w)
    <3>1. lines + 1 \in Nat
      OBVIOUS
    <3>2. /\ cache' \in [0 .. LCD_CACHE_DEPTH - 1 -> Lines] /\ xptr' \in Nat
          /\ loaded' = [loaded EXCEPT ![w] = 0]
      BY <2>3, <3>1, StoreType DEF CharStore
    <3>3. /\ UNCHANGED <<top, bottom, invert, screen, newline, idx, history>>
          /\ pc' = [pc EXCEPT ![w] = "idle"]
      BY <2>3 DEF CharStore
    <3> QED BY <3>2, <3>3
  <2>4. CASE EndLine(w)
    <3>1. PICK label \in {"index", "flag", "top"} : pc' = [pc EXCEPT ![w] = label]
      BY <2>4 DEF EndLine
    <3>2. loaded' \in [Writers -> Nat]
      BY <2>4 DEF EndLine, Load
    <3>3. UNCHANGED <<shared, screen, newline, idx, history>>
      BY <2>4 DEF EndLine
    <3> QED BY <3>1, <3>2, <3>3
  <2>5. CASE Uninvert(w)
    BY <2>5 DEF Uninvert
  <2>6. CASE GiveUp(w)
    <3>1. (loaded[w] + 1) % LCD_CACHE_DEPTH \in Nat
      BY Sizes
    <3> QED BY <2>6, <3>1 DEF GiveUp, Unload
  <2>7. CASE Index(w)
    BY <2>7 DEF Index
  <2>8. CASE Pad(w)
    BY <2>8 DEF Pad, Load
  <2>9. CASE PadStore(w)
    <3>1. Blank \in Nat
      BY DEF Blank
    <3>2. /\ cache' \in [0 .. LCD_CACHE_DEPTH - 1 -> Lines] /\ xptr' \in Nat
          /\ loaded' = [loaded EXCEPT ![w] = 0]
      BY <2>9, <3>1, StoreType DEF PadStore
    <3>3. /\ UNCHANGED <<top, bottom, invert, screen, newline, history>>
          /\ idx' = [idx EXCEPT ![w] = @ + 1] /\ pc' = [pc EXCEPT ![w] = "pad"]
      BY <2>9 DEF PadStore
    <3> QED BY <3>2, <3>3
  <2>10. CASE Padded(w)
    BY <2>10 DEF Padded
  <2>11. CASE UpdateDisplay(w)
    BY <2>11, DisplayedType DEF UpdateDisplay
  <2>12. CASE Advance(w)
    BY <2>12 DEF Advance, Load
  <2>13. CASE NextLine(w)
    BY <2>13 DEF NextLine
  <2>14. CASE Wrap(w)
    <3>1. bottom' \in Nat /\ top' \in Nat
      BY <2>14 DEF Wrap
    <3>2. invert' \in BOOLEAN
      BY <2>14, Zenon DEF Wrap
    <3>3. PICK label \in {"idle", "char"} : pc' = [pc EXCEPT ![w] = label]
      BY <2>14 DEF Wrap
    <3>4. /\ UNCHANGED <<cache, xptr, screen, newline, idx, history>>
          /\ loaded' = [loaded EXCEPT ![w] = 0]
      BY <2>14 DEF Wrap, Unload
    <3> QED BY <3>1, <3>2, <3>3, <3>4
  <2> QED BY <1>2, <2>1, <2>2, <2>3, <2>4, <2>5, <2>6, <2>7, <2>8, <2>9, <2>10, <2>11, <2>12,
             <2>13, <2>14 DEF Putchar
<1> QED BY <1>1, <1>2 DEF Next

-----------------------------------------------------------------------------
(* The window                                                              *)

LEMMA AboveIs ==
  \A b \in 0 .. LCD_CACHE_DEPTH - 1, k \in 1 .. YWINDOW_SIZE :
    Above(b, k) \in 0 .. LCD_CACHE_DEPTH - 1 /\ Above(b, k) # b
BY Sizes DEF Above

\* The lines kept when another one ends.
Follows(s, line, q) ==
  /\ q \in Seq(Lines) /\ Len(q) \in Nat
  /\ Len(q) = Least(Len(s) + 1, YWINDOW_SIZE)
  /\ q[Len(q)] = line
  /\ \A k \in 1 .. Len(q) - 1 : q[Len(q) - k] = s[Len(s) + 1 - k]
  /\ Len(s) < YWINDOW_SIZE => \A i \in 1 .. Len(s) : q[i] = s[i]

LEMMA LastLinesAre ==
  ASSUME NEW s \in Seq(Lines), NEW line \in Lines, Len(s) <= YWINDOW_SIZE
  PROVE  Follows(s, line, LastLines(Append(s, line)))
<1> PICK q : q = LastLines(Append(s, line))
  OBVIOUS
<1> SUFFICES Follows(s, line, q)
  OBVIOUS
<1> USE DEF Follows
<1>1. YWINDOW_SIZE \in Nat \ {0} /\ Len(s) \in Nat
  BY Sizes
<1>2. PICK p : p = Append(s, line)
  OBVIOUS
<1>3. /\ p \in Seq(Lines) /\ Len(p) = Len(s) + 1 /\ p[Len(s) + 1] = line
      /\ \A i \in 1 .. Len(s) : p[i] = s[i]
  BY <1>2
<1>4. CASE Len(s) < YWINDOW_SIZE
  <2>1. q = p
    BY <1>1, <1>2, <1>3, <1>4 DEF LastLines
  <2> QED BY <1>1, <1>3, <1>4, <2>1 DEF Least
<1>5. CASE Len(s) = YWINDOW_SIZE
  <2>1. q = Tail(p)
    BY <1>1, <1>2, <1>3, <1>5 DEF LastLines
  <2>2. p # <<>>
    BY <1>1, <1>3
  <2>3. /\ q \in Seq(Lines) /\ Len(q) = Len(s)
        /\ \A i \in 1 .. Len(q) : q[i] = p[i + 1]
    BY <1>1, <1>3, <2>1, <2>2
  <2>4. \A k \in 1 .. Len(q) - 1 : q[Len(q) - k] = s[Len(s) + 1 - k]
    <3> SUFFICES ASSUME NEW k \in 1 .. Len(q) - 1 PROVE q[Len(q) - k] = s[Len(s) + 1 - k]
      OBVIOUS
    <3>1. Len(q) - k \in 1 .. Len(q) /\ Len(q) - k + 1 = Len(s) + 1 - k /\ Len(s) + 1 - k \in 1 .. Len(s)
      BY <1>1, <2>3
    <3> QED BY <1>3, <2>3, <3>1
  <2> QED BY <1>1, <1>3, <1>5, <2>3, <2>4 DEF Least
<1> QED BY <1>1, <1>4, <1>5

\* What is drawn: the lines that end with the one that ended last.
LEMMA DisplayedIs ==
  ASSUME TypeInv, recent \in Seq(Lines), Within, Ending, Ended, ShownBefore
  PROVE  \A r \in Rows :
           Displayed[r] = IF r < Len(recent) THEN recent[r + 1] ELSE BlankLine
<1>1. /\ YWINDOW_SIZE \in Nat \ {0} /\ LCD_CACHE_DEPTH \in Nat /\ LCD_CACHE_DEPTH > YWINDOW_SIZE
      /\ Rows = 0 .. YWINDOW_SIZE - 1
  BY Sizes
<1>2. /\ lines \in Nat /\ bottom \in Nat /\ top \in Nat /\ screen \in [Rows -> Lines]
      /\ cache \in [0 .. LCD_CACHE_DEPTH - 1 -> Lines]
  BY DEF TypeInv
<1>3. bottom \in 0 .. LCD_CACHE_DEPTH - 1
  BY <1>1, <1>2 DEF Within
<1>4. /\ Len(recent) = Least(lines + 1, YWINDOW_SIZE)
      /\ \A k \in 1 .. Len(recent) - 1 : cache[Above(bottom, k)] = recent[Len(recent) - k]
  BY DEF Ending
<1>5. CASE bottom < YWINDOW_SIZE - 1 /\ bottom >= top
  <2>1. Displayed = [screen EXCEPT ![bottom] = cache[bottom]]
    BY <1>2, <1>3, <1>5 DEF Displayed, Line
  <2>2. lines < LCD_CACHE_DEPTH /\ bottom = lines
    BY <1>1, <1>2, <1>5 DEF Within
  <2>3. Len(recent) = lines + 1 /\ lines < YWINDOW_SIZE
    BY <1>1, <1>2, <1>4, <1>5, <2>2 DEF Least
  <2>4. \A r \in Rows : screen[r] = IF r < lines THEN recent[r + 1] ELSE BlankLine
    BY <2>3 DEF ShownBefore
  <2>5. cache[bottom] = recent[lines + 1]
    BY <2>3 DEF Ended
  <2>6. \A r \in Rows : Displayed[r] = IF r = bottom THEN cache[bottom] ELSE screen[r]
    BY <1>2, <2>1
  <2> QED BY <1>1, <1>2, <2>2, <2>3, <2>4, <2>5, <2>6
<1>6. CASE ~(bottom < YWINDOW_SIZE - 1 /\ bottom >= top)
  <2>1. PICK ptr : ptr = (IF bottom < top THEN LCD_CACHE_DEPTH + bottom ELSE bottom) - YWINDOW_SIZE + 1
    OBVIOUS
  <2>2. Displayed = [r \in Rows |-> cache[(r + ptr) % LCD_CACHE_DEPTH]]
    BY <1>6, <2>1, Zenon DEF Displayed
  <2>3. Len(recent) = YWINDOW_SIZE
    BY <1>1, <1>2, <1>4, <1>6 DEF Least, Within
  <2>4. ASSUME NEW r \in Rows PROVE Displayed[r] = recent[r + 1]
    <3>1. /\ YWINDOW_SIZE - 1 - r \in 0 .. LCD_CACHE_DEPTH - 1
          /\ \/ r + ptr = bottom - (YWINDOW_SIZE - 1 - r) + LCD_CACHE_DEPTH
             \/ r + ptr = bottom - (YWINDOW_SIZE - 1 - r) /\ YWINDOW_SIZE - 1 - r <= bottom
      <4>1. CASE bottom < top
        <5>1. ptr = LCD_CACHE_DEPTH + bottom - YWINDOW_SIZE + 1
          BY <1>1, <1>2, <2>1, <4>1
        <5> QED BY <1>1, <1>3, <5>1
      <4>2. CASE ~(bottom < top)
        <5>1. ptr = bottom - YWINDOW_SIZE + 1 /\ bottom >= YWINDOW_SIZE - 1
          BY <1>1, <1>2, <1>6, <2>1, <4>2
        <5> QED BY <1>1, <1>3, <5>1
      <4> QED BY <4>1, <4>2
    <3>2. (r + ptr) % LCD_CACHE_DEPTH = Above(bottom, YWINDOW_SIZE - 1 - r)
      <4>1. PICK k \in 0 .. LCD_CACHE_DEPTH - 1 : k = YWINDOW_SIZE - 1 - r
        BY <3>1
      <4>2. PICK x : x = r + ptr
        OBVIOUS
      <4>3. x = bottom - k + LCD_CACHE_DEPTH \/ (x = bottom - k /\ k <= bottom)
        BY <3>1, <4>1, <4>2
      <4>4. x \in 0 .. 2 * LCD_CACHE_DEPTH - 1
        BY ONLY <1>1, <1>3, <4>1, <4>3
      <4>5. x % LCD_CACHE_DEPTH = IF x < LCD_CACHE_DEPTH THEN x ELSE x - LCD_CACHE_DEPTH
        BY <4>4, Modulus
      <4>6. x % LCD_CACHE_DEPTH = Above(bottom, k)
        BY ONLY <1>1, <1>3, <4>1, <4>3, <4>4, <4>5 DEF Above
      <4> QED BY ONLY <4>1, <4>2, <4>6
    <3>3. Displayed[r] = cache[Above(bottom, YWINDOW_SIZE - 1 - r)]
      BY <2>2, <3>2
    <3>4. CASE r = YWINDOW_SIZE - 1
      <4>1. Above(bottom, YWINDOW_SIZE - 1 - r) = bottom
        BY <1>1, <1>2, <3>4 DEF Above
      <4> QED BY <1>1, <2>3, <3>3, <3>4, <4>1 DEF Ended
    <3>5. CASE r # YWINDOW_SIZE - 1
      <4>1. YWINDOW_SIZE - 1 - r \in 1 .. Len(recent) - 1
            /\ Len(recent) - (YWINDOW_SIZE - 1 - r) = r + 1
        BY <1>1, <2>3, <3>5
      <4> QED BY <1>4, <3>3, <4>1
    <3> QED BY <3>4, <3>5
  <2> QED BY <1>1, <2>3, <2>4
<1> QED BY <1>5, <1>6

\* While writer w alone is in a call, what is to be shown of the next state is
\* what its place in the call says.
LEMMA OneWriter ==
  ASSUME TypeInv, TypeInv', NEW w \in Writers,
         \A v \in Writers \ {w} : pc'[v] = "idle",
         text' \in Seq(Nat), recent' \in Seq(Lines),
         pc'[w] = "idle" => Rest', Begun(w)', Ends(w)', Wraps(w)'
  PROVE  WindowInv'
<1>1. \A v \in Writers \ {w} : Begun(v)' /\ Ends(v)' /\ Wraps(v)'
  BY DEF Begun, Ends, Wraps
<1>2. \A v \in Writers : Begun(v)' /\ Ends(v)' /\ Wraps(v)'
  BY <1>1
<1>3. Alone'
  BY DEF Alone
<1> QED BY <1>2, <1>3 DEF WindowInv

\* A state in which w is in a call, or none is and it makes one.
Turn(w) == TypeInv /\ WindowInv /\ ~raced /\ \A v \in Writers \ {w} : pc[v] = "idle"

LEMMA TurnFacts ==
  ASSUME NEW w \in Writers, Turn(w)
  PROVE  /\ xptr \in Nat /\ top \in Nat /\ bottom \in Nat /\ lines \in Nat
         /\ idx[w] \in Nat /\ loaded[w] \in Nat
         /\ cache \in [0 .. LCD_CACHE_DEPTH - 1 -> Lines] /\ screen \in [Rows -> Lines]
         /\ text \in Seq(Nat) /\ recent \in Seq(Lines) /\ Len(text) \in Nat /\ Len(recent) \in Nat
         /\ pc[w] = "idle" => Rest
         /\ Begun(w) /\ Ends(w) /\ Wraps(w)
<1>1. pc[w] = "idle" => \A v \in Writers : pc[v] = "idle"
  BY DEF Turn
<1> QED BY <1>1 DEF Turn, WindowInv, TypeInv

\* A character is stored in the line being written, and no other line changes.
LEMMA Stored ==
  ASSUME NEW w \in Writers, Turn(w), TypeInv', NEW ch \in Nat, Store(w, ch),
         loaded[w] = xptr, xptr < XSize, bottom < LCD_CACHE_DEPTH, bottom' = bottom
  PROVE  /\ xptr' = xptr + 1
         /\ \A c \in Columns : cache'[bottom][c] = IF c = xptr THEN ch ELSE cache[bottom][c]
         /\ \A k \in 1 .. YWINDOW_SIZE : cache'[Above(bottom, k)] = cache[Above(bottom, k)]
<1>1. xptr \in Columns /\ bottom \in 0 .. LCD_CACHE_DEPTH - 1
  BY TurnFacts, Sizes
<1>2. cache \in [0 .. LCD_CACHE_DEPTH - 1 -> Lines]
  BY TurnFacts
<1>3. cache' = [cache EXCEPT ![bottom][xptr] = ch] /\ xptr' = xptr + 1
  BY <1>1, <1>2 DEF Store, Turn
<1>4. /\ cache'[bottom] = [cache[bottom] EXCEPT ![xptr] = ch]
      /\ \A i \in 0 .. LCD_CACHE_DEPTH - 1 : i # bottom => cache'[i] = cache[i]
  BY <1>1, <1>2, <1>3
<1>5. cache[bottom] \in Lines
  BY <1>1, <1>2
<1>6. \A c \in Columns : cache'[bottom][c] = IF c = xptr THEN ch ELSE cache[bottom][c]
  BY <1>1, <1>4, <1>5 DEF Lines
<1>7. \A k \in 1 .. YWINDOW_SIZE : Above(bottom, k) \in 0 .. LCD_CACHE_DEPTH - 1 /\ Above(bottom, k) # bottom
  BY <1>1, AboveIs
<1> QED BY <1>3, <1>4, <1>6, <1>7

LEMMA BeginWindow ==
  ASSUME NEW w \in Writers, NEW nl \in BOOLEAN, Turn(w), TypeInv', ~raced', Begin(w, nl)
  PROVE  WindowInv'
<1>1. /\ UNCHANGED <<cache, xptr, top, bottom, invert, screen, lines>>
      /\ pc' = [pc EXCEPT ![w] = IF xptr < XSize /\ ~nl THEN "char" ELSE "end"]
      /\ newline' = [newline EXCEPT ![w] = nl] /\ pc[w] = "idle" /\ Expect(nl)
  BY DEF Begin, Goto
<1>2. Rest /\ Between /\ Kept /\ Written /\ Shown /\ Len(text) = xptr /\ xptr <= XSize
  BY <1>1, TurnFacts DEF Rest
<1>3. /\ \A v \in Writers \ {w} : pc'[v] = "idle"
      /\ pc'[w] = IF xptr < XSize /\ ~nl THEN "char" ELSE "end"
      /\ newline'[w] = nl
  BY <1>1 DEF Turn, TypeInv
<1>4. /\ text \in Seq(Nat) /\ recent \in Seq(Lines) /\ xptr \in Nat /\ lines \in Nat
      /\ XSize \in Nat /\ YWINDOW_SIZE \in Nat \ {0} /\ Len(text) \in Nat /\ Len(recent) \in Nat
      /\ Columns = 0 .. XSize - 1 /\ Rows = 0 .. YWINDOW_SIZE - 1
  BY TurnFacts, Sizes
<1>5. CASE xptr < XSize /\ ~nl
  <2>1. text' = Append(text, lines + 1) /\ recent' = recent
    BY <1>1, <1>2, <1>5, Zenon DEF Expect
  <2>2. /\ text' \in Seq(Nat) /\ Len(text') = xptr + 1 /\ text'[xptr + 1] = lines + 1
        /\ \A i \in 1 .. xptr : text'[i] = text[i]
    BY <1>2, <1>4, <2>1
  <2>3. Between' /\ Kept' /\ Shown'
    BY <1>1, <1>2, <2>1 DEF Between, Kept, Shown
  <2>4. Written'
    <3> SUFFICES ASSUME NEW c \in Columns, c < xptr PROVE cache[bottom][c] = text'[c + 1]
      BY <1>1 DEF Written, Columns
    <3>1. c + 1 \in 1 .. xptr
      BY <1>4
    <3> QED BY <1>2, <2>2, <3>1 DEF Written
  <2>5. Begun(w)'
    BY <1>1, <1>5, <2>2, <2>3, <2>4 DEF Begun
  <2>6. Ends(w)' /\ Wraps(w)' /\ pc'[w] # "idle"
    BY <1>3, <1>5 DEF Ends, Wraps
  <2> QED BY <1>3, <1>4, <2>1, <2>2, <2>5, <2>6, OneWriter DEF Turn
<1>6. CASE ~(xptr < XSize /\ ~nl)
  <2>1. /\ recent' = LastLines(Append(recent, AsLine(text)))
        /\ text' = IF nl THEN <<>> ELSE <<lines + 2>>
    BY <1>1, <1>2, <1>6, Zenon DEF Expect
  <2>2. AsLine(text) \in Lines
    <3> SUFFICES ASSUME NEW c \in Columns, c < Len(text) PROVE text[c + 1] \in Nat
      BY DEF AsLine, Lines, Blank
    <3> QED BY <1>4
  <2>3. Len(recent) = Least(lines, YWINDOW_SIZE) /\ Len(recent) <= YWINDOW_SIZE
    BY <1>2, <1>4 DEF Kept, Least
  <2>3a. PICK line \in Lines : line = AsLine(text)
    BY <2>2
  <2>4. PICK q : q = LastLines(Append(recent, line))
    OBVIOUS
  <2>5. Follows(recent, line, q)
    <3>1. Follows(recent, line, LastLines(Append(recent, line)))
      BY <1>4, <2>3, <2>4, LastLinesAre
    <3> QED BY ONLY <2>4, <3>1
  <2>6. recent' = q
    BY <2>1, <2>4, <2>3a
  <2>7. Ending'
    <3>1. Len(q) = Least(lines + 1, YWINDOW_SIZE)
      BY <1>4, <2>3, <2>5 DEF Least, Follows
    <3>2. \A k \in 1 .. Len(q) - 1 : k \in 1 .. Len(recent)
      BY <1>4, <2>3, <2>5 DEF Least, Follows
    <3>3. \A k \in 1 .. Len(q) - 1 : cache[Above(bottom, k)] = q[Len(q) - k]
      BY <1>2, <2>5, <3>2 DEF Kept, Follows
    <3> QED BY <1>1, <2>6, <3>1, <3>3 DEF Ending, Above
  <2>8. Partly'
    <3>1. \A c \in Columns : q[Len(q)][c] = IF c < xptr THEN cache[bottom][c] ELSE Blank
      BY <1>2, <2>5, <2>3a DEF AsLine, Written, Follows
    <3> QED BY <1>1, <1>2, <2>6, <3>1 DEF Partly
  <2>9. ShownBefore'
    <3> SUFFICES ASSUME lines < YWINDOW_SIZE, NEW r \in Rows
                 PROVE  screen[r] = IF r < lines THEN q[r + 1] ELSE BlankLine
      BY <1>1, <2>6 DEF ShownBefore, Rows, BlankLine, Columns
    <3>1. Len(recent) = lines
      BY <1>4, <2>3 DEF Least, Follows
    <3>2. r < lines => r + 1 \in 1 .. Len(recent)
      BY <1>4, <3>1
    <3> QED BY <1>2, <2>5, <3>1, <3>2 DEF Shown, Follows
  <2>10. Between'
    BY <1>1, <1>2 DEF Between
  <2>11. text' \in Seq(Nat)
    BY <1>4, <2>1
  <2>12. Ends(w)' /\ Begun(w)' /\ Wraps(w)' /\ pc'[w] # "idle"
    <3>1. pc'[w] = "end"
      BY <1>3, <1>6
    <3>2. text' = IF newline'[w] THEN <<>> ELSE <<lines' + 2>>
      BY <1>1, <1>3, <2>1
    <3> QED BY <2>7, <2>8, <2>9, <2>10, <3>1, <3>2 DEF Ends, Begun, Wraps
  <2> QED BY <1>3, <2>5, <2>6, <2>11, <2>12, OneWriter DEF Turn, Follows
<1> QED BY <1>5, <1>6

LEMMA CharWindow ==
  ASSUME NEW w \in Writers, Turn(w), TypeInv', Char(w)
  PROVE  WindowInv'
<1>1. /\ UNCHANGED <<cache, xptr, top, bottom, invert, screen, text, recent, lines>>
      /\ pc[w] = "char" /\ pc' = [pc EXCEPT ![w] = "charstore"]
      /\ loaded' = [loaded EXCEPT ![w] = xptr]
  BY DEF Char, Goto, Load, shared, history
<1>2. /\ Between /\ Kept /\ Written /\ Shown /\ Len(text) = xptr + 1 /\ xptr < XSize
      /\ text[xptr + 1] = lines + 1
  BY <1>1, TurnFacts DEF Begun
<1>3. /\ \A v \in Writers \ {w} : pc'[v] = "idle"
      /\ pc'[w] = "charstore" /\ loaded'[w] = xptr
  BY <1>1 DEF Turn, TypeInv
<1>4. Between' /\ Kept' /\ Written' /\ Shown'
  BY <1>1, <1>2 DEF Between, Kept, Written, Shown, Above
<1>5. Begun(w)' /\ Ends(w)' /\ Wraps(w)' /\ pc'[w] # "idle"
  BY <1>1, <1>2, <1>3, <1>4 DEF Begun, Ends, Wraps
<1>6. text' \in Seq(Nat) /\ recent' \in Seq(Lines)
  BY <1>1, TurnFacts
<1> QED BY <1>3, <1>5, <1>6, OneWriter DEF Turn

LEMMA CharStoreWindow ==
  ASSUME NEW w \in Writers, Turn(w), TypeInv', CharStore(w)
  PROVE  WindowInv'
<1>1. /\ Store(w, lines + 1) /\ UNCHANGED <<top, bottom, invert, screen, text, recent, lines>>
      /\ pc[w] = "charstore" /\ pc' = [pc EXCEPT ![w] = "idle"]
  BY DEF CharStore, Goto, history
<1>2. /\ Between /\ Kept /\ Written /\ Shown /\ Len(text) = xptr + 1 /\ xptr < XSize
      /\ text[xptr + 1] = lines + 1 /\ loaded[w] = xptr
  BY <1>1, TurnFacts DEF Begun
<1>3. /\ \A v \in Writers \ {w} : pc'[v] = "idle"
      /\ pc'[w] = "idle"
  BY <1>1 DEF Turn, TypeInv
<1>4. /\ text \in Seq(Nat) /\ recent \in Seq(Lines) /\ xptr \in Nat /\ lines \in Nat
      /\ XSize \in Nat /\ YWINDOW_SIZE \in Nat \ {0} /\ LCD_CACHE_DEPTH \in Nat
      /\ bottom \in Nat /\ Columns = 0 .. XSize - 1
  BY TurnFacts, Sizes
<1>5. bottom < LCD_CACHE_DEPTH
  BY <1>2, <1>4 DEF Between
<1>6. /\ xptr' = xptr + 1
      /\ \A c \in Columns : cache'[bottom][c] = IF c = xptr THEN lines + 1 ELSE cache[bottom][c]
      /\ \A k \in 1 .. YWINDOW_SIZE : cache'[Above(bottom, k)] = cache[Above(bottom, k)]
  BY <1>1, <1>2, <1>4, <1>5, Stored
<1>7. Kept'
  <2>1. \A k \in 1 .. Len(recent) : k \in 1 .. YWINDOW_SIZE
    BY <1>2, <1>4 DEF Kept, Least
  <2>2. \A k \in 1 .. Len(recent) : cache'[Above(bottom, k)] = recent[Len(recent) + 1 - k]
    BY <1>2, <1>6, <2>1 DEF Kept
  <2> QED BY <1>1, <1>2, <2>2 DEF Kept, Above
<1>8. Written'
  <2> SUFFICES ASSUME NEW c \in Columns, c < xptr + 1 PROVE cache'[bottom][c] = text[c + 1]
    BY <1>1, <1>6 DEF Written, Columns
  <2>1. c = xptr \/ c < xptr
    BY <1>4
  <2> QED BY <1>2, <1>4, <1>6, <2>1 DEF Written
<1>9. Rest'
  <2>1. Between' /\ Shown'
    BY <1>1, <1>2 DEF Between, Shown
  <2>2. Len(text') = xptr' /\ xptr' <= XSize
    BY <1>1, <1>2, <1>4, <1>6
  <2> QED BY <1>7, <1>8, <2>1, <2>2 DEF Rest
<1>10. Begun(w)' /\ Ends(w)' /\ Wraps(w)'
  BY <1>3 DEF Begun, Ends, Wraps
<1>11. text' \in Seq(Nat) /\ recent' \in Seq(Lines)
  BY <1>1, <1>4
<1> QED BY <1>3, <1>9, <1>10, <1>11, OneWriter DEF Turn

\* The steps of a line end before its line is padded change none of the lines.
LEMMA EndingKept ==
  ASSUME Ending, Partly, ShownBefore,
         UNCHANGED <<cache, xptr, bottom, screen, recent, lines>>
  PROVE  Ending' /\ Partly' /\ ShownBefore'
BY DEF Ending, Partly, ShownBefore, Above

LEMMA EndLineWindow ==
  ASSUME NEW w \in Writers, Turn(w), TypeInv', EndLine(w)
  PROVE  WindowInv'
<1>1. /\ UNCHANGED <<cache, xptr, top, bottom, invert, screen, newline, text, recent, lines>>
      /\ pc[w] = "end"
      /\ \/ top < bottom /\ pc' = [pc EXCEPT ![w] = "index"]
         \/ top >= bottom /\ invert /\ pc' = [pc EXCEPT ![w] = "flag"]
         \/ /\ top >= bottom /\ ~invert /\ pc' = [pc EXCEPT ![w] = "top"]
            /\ loaded' = [loaded EXCEPT ![w] = top]
  BY DEF EndLine, Goto, Load, shared, history
<1>2. Ending /\ Between /\ Partly /\ ShownBefore /\ text = IF newline[w] THEN <<>> ELSE <<lines + 2>>
  BY <1>1, TurnFacts DEF Ends
<1>3. /\ \A v \in Writers \ {w} : pc'[v] = "idle"
      /\ \/ top < bottom /\ pc'[w] = "index"
         \/ top >= bottom /\ invert /\ pc'[w] = "flag"
         \/ top >= bottom /\ ~invert /\ pc'[w] = "top" /\ loaded'[w] = top
  BY <1>1 DEF Turn, TypeInv
<1>4. /\ text \in Seq(Nat) /\ recent \in Seq(Lines) /\ lines \in Nat
      /\ LCD_CACHE_DEPTH \in Nat /\ LCD_CACHE_DEPTH > 1 /\ bottom \in Nat /\ top \in Nat
  BY TurnFacts, Sizes
<1>5. Ending' /\ Partly' /\ ShownBefore' /\ Between' /\ text' = IF newline'[w] THEN <<>> ELSE <<lines' + 2>>
  <2>1. Ending' /\ Partly' /\ ShownBefore'
    BY <1>1, <1>2, EndingKept
  <2>2. Between'
    BY <1>1, <1>2 DEF Between
  <2> QED BY <1>1, <1>2, <2>1, <2>2
<1>6. Ends(w)'
  <2>1. CASE top < bottom /\ pc'[w] = "index"
    <3>1. bottom # 0
      BY <1>4, <2>1
    <3>2. ~invert
      BY <1>2, <3>1, Zenon DEF Between
    <3>3. Within'
      BY <1>1, <1>2, <1>4, <2>1, <3>1, <3>2 DEF Between, Within
    <3> QED BY <1>5, <2>1, <3>3 DEF Ends
  <2>2. CASE invert /\ pc'[w] = "flag"
    <3>1. bottom = 0
      BY <1>2, <2>2, Zenon DEF Between
    <3> QED BY <1>1, <1>5, <2>2, <3>1 DEF Ends
  <2>3. CASE top >= bottom /\ ~invert /\ pc'[w] = "top" /\ loaded'[w] = top
    <3>1. bottom # 0
      BY <1>2, <2>3, Zenon DEF Between
    <3> QED BY <1>1, <1>5, <2>3, <3>1 DEF Ends
  <2> QED BY <1>3, <2>1, <2>2, <2>3
<1>7. Begun(w)' /\ Wraps(w)' /\ pc'[w] # "idle"
  BY <1>3 DEF Begun, Wraps
<1>8. text' \in Seq(Nat) /\ recent' \in Seq(Lines)
  BY <1>1, <1>4
<1> QED BY <1>3, <1>6, <1>7, <1>8, OneWriter DEF Turn

\* After a wrap the oldest line is the second of the cache already.
LEMMA UninvertWindow ==
  ASSUME NEW w \in Writers, Turn(w), TypeInv', Uninvert(w)
  PROVE  WindowInv'
<1>1. /\ UNCHANGED <<cache, xptr, top, bottom, screen, newline, text, recent, lines>>
      /\ pc[w] = "flag" /\ pc' = [pc EXCEPT ![w] = "index"] /\ ~invert'
  BY DEF Uninvert, Goto, locals, history
<1>2. /\ Ending /\ Between /\ Partly /\ ShownBefore /\ bottom = 0
      /\ text = IF newline[w] THEN <<>> ELSE <<lines + 2>>
  BY <1>1, TurnFacts DEF Ends
<1>3. /\ \A v \in Writers \ {w} : pc'[v] = "idle"
      /\ pc'[w] = "index"
  BY <1>1 DEF Turn, TypeInv
<1>4. LCD_CACHE_DEPTH \in Nat /\ LCD_CACHE_DEPTH > 1 /\ lines \in Nat
  BY TurnFacts, Sizes
<1>5. Within'
  <2>1. IF lines < LCD_CACHE_DEPTH THEN top = 0 /\ bottom = lines
        ELSE bottom < LCD_CACHE_DEPTH /\ top = 1
    BY <1>2 DEF Between
  <2> QED BY <1>1, <1>2, <1>4, <2>1 DEF Within
<1>6. Ending' /\ Partly' /\ ShownBefore'
  BY <1>1, <1>2, EndingKept
<1>7. Begun(w)' /\ Ends(w)' /\ Wraps(w)' /\ pc'[w] # "idle"
  <2>1. text' = IF newline'[w] THEN <<>> ELSE <<lines' + 2>>
    BY <1>1, <1>2
  <2> QED BY <1>3, <1>5, <1>6, <2>1 DEF Begun, Ends, Wraps
<1>8. text' \in Seq(Nat) /\ recent' \in Seq(Lines)
  BY <1>1, TurnFacts
<1> QED BY <1>3, <1>7, <1>8, OneWriter DEF Turn

LEMMA GiveUpWindow ==
  ASSUME NEW w \in Writers, Turn(w), TypeInv', GiveUp(w)
  PROVE  WindowInv'
<1>1. /\ UNCHANGED <<cache, xptr, bottom, invert, screen, newline, text, recent, lines>>
      /\ pc[w] = "top" /\ pc' = [pc EXCEPT ![w] = "index"]
      /\ top' = (loaded[w] + 1) % LCD_CACHE_DEPTH
  BY DEF GiveUp, Goto, history
<1>2. /\ Ending /\ Between /\ Partly /\ ShownBefore
      /\ bottom # 0 /\ top >= bottom /\ loaded[w] = top
      /\ text = IF newline[w] THEN <<>> ELSE <<lines + 2>>
  BY <1>1, TurnFacts DEF Ends
<1>3. /\ \A v \in Writers \ {w} : pc'[v] = "idle"
      /\ pc'[w] = "index"
  BY <1>1 DEF Turn, TypeInv
<1>4. /\ lines \in Nat /\ bottom \in Nat /\ top \in Nat
      /\ LCD_CACHE_DEPTH \in Nat /\ LCD_CACHE_DEPTH > 1
  BY TurnFacts, Sizes
<1>5. ~(lines < LCD_CACHE_DEPTH) /\ top = bottom /\ bottom < LCD_CACHE_DEPTH
  BY <1>2, <1>4 DEF Between
<1>6. top' = IF top + 1 < LCD_CACHE_DEPTH THEN top + 1 ELSE top + 1 - LCD_CACHE_DEPTH
  <2>1. PICK x : x = top + 1
    OBVIOUS
  <2>2. x \in 0 .. 2 * LCD_CACHE_DEPTH - 1
    BY <1>4, <1>5, <2>1
  <2>3. x % LCD_CACHE_DEPTH = IF x < LCD_CACHE_DEPTH THEN x ELSE x - LCD_CACHE_DEPTH
    BY <2>2, Modulus
  <2>4. top' = x % LCD_CACHE_DEPTH
    BY <1>1, <1>2, <2>1
  <2> QED BY ONLY <1>4, <2>1, <2>2, <2>3, <2>4
<1>7. Within'
  <2>1. ~invert'
    BY <1>1, <1>2, Zenon DEF Between
  <2> QED BY <1>1, <1>4, <1>5, <1>6, <2>1 DEF Within
<1>8. Ending' /\ Partly' /\ ShownBefore'
  BY <1>1, <1>2, EndingKept
<1>9. Begun(w)' /\ Ends(w)' /\ Wraps(w)' /\ pc'[w] # "idle"
  <2>1. text' = IF newline'[w] THEN <<>> ELSE <<lines' + 2>>
    BY <1>1, <1>2
  <2> QED BY <1>3, <1>7, <1>8, <2>1 DEF Begun, Ends, Wraps
<1>10. text' \in Seq(Nat) /\ recent' \in Seq(Lines)
  BY <1>1, TurnFacts
<1> QED BY <1>3, <1>9, <1>10, OneWriter DEF Turn

LEMMA IndexWindow ==
  ASSUME NEW w \in Writers, Turn(w), TypeInv', Index(w)
  PROVE  WindowInv'
<1>1. /\ UNCHANGED <<cache, xptr, top, bottom, invert, screen, newline, text, recent, lines>>
      /\ pc[w] = "index" /\ pc' = [pc EXCEPT ![w] = "pad"] /\ idx' = [idx EXCEPT ![w] = xptr]
  BY DEF Index, Goto, shared, history
<1>2. /\ Ending /\ Within /\ Partly /\ ShownBefore
      /\ text = IF newline[w] THEN <<>> ELSE <<lines + 2>>
  BY <1>1, TurnFacts DEF Ends
<1>3. /\ \A v \in Writers \ {w} : pc'[v] = "idle"
      /\ pc'[w] = "pad" /\ idx'[w] = xptr
  BY <1>1 DEF Turn, TypeInv
<1>4. Ending' /\ Partly' /\ ShownBefore' /\ Within'
  BY <1>1, <1>2, EndingKept DEF Within
<1>5. Begun(w)' /\ Ends(w)' /\ Wraps(w)' /\ pc'[w] # "idle"
  <2>1. text' = IF newline'[w] THEN <<>> ELSE <<lines' + 2>>
    BY <1>1, <1>2
  <2> QED BY <1>1, <1>3, <1>4, <2>1 DEF Begun, Ends, Wraps
<1>6. text' \in Seq(Nat) /\ recent' \in Seq(Lines)
  BY <1>1, TurnFacts
<1> QED BY <1>3, <1>5, <1>6, OneWriter DEF Turn

LEMMA PadWindow ==
  ASSUME NEW w \in Writers, Turn(w), TypeInv', Pad(w)
  PROVE  WindowInv'
<1>1. /\ UNCHANGED <<cache, xptr, top, bottom, invert, screen, newline, idx, text, recent, lines>>
      /\ pc[w] = "pad" /\ idx[w] < XSize /\ pc' = [pc EXCEPT ![w] = "padstore"]
      /\ loaded' = [loaded EXCEPT ![w] = xptr]
  BY DEF Pad, Goto, Load, shared, history
<1>2. /\ Ending /\ Within /\ Partly /\ ShownBefore /\ idx[w] = xptr
      /\ text = IF newline[w] THEN <<>> ELSE <<lines + 2>>
  BY <1>1, TurnFacts DEF Ends
<1>3. /\ \A v \in Writers \ {w} : pc'[v] = "idle"
      /\ pc'[w] = "padstore" /\ loaded'[w] = xptr
  BY <1>1 DEF Turn, TypeInv
<1>4. Ending' /\ Partly' /\ ShownBefore' /\ Within'
  BY <1>1, <1>2, EndingKept DEF Within
<1>5. Begun(w)' /\ Ends(w)' /\ Wraps(w)' /\ pc'[w] # "idle"
  <2>1. text' = IF newline'[w] THEN <<>> ELSE <<lines' + 2>>
    BY <1>1, <1>2
  <2> QED BY <1>1, <1>2, <1>3, <1>4, <2>1 DEF Begun, Ends, Wraps
<1>6. text' \in Seq(Nat) /\ recent' \in Seq(Lines)
  BY <1>1, TurnFacts
<1> QED BY <1>3, <1>5, <1>6, OneWriter DEF Turn

LEMMA PadStoreWindow ==
  ASSUME NEW w \in Writers, Turn(w), TypeInv', PadStore(w)
  PROVE  WindowInv'
<1>1. /\ UNCHANGED <<top, bottom, invert, screen, newline, text, recent, lines>>
      /\ pc[w] = "padstore" /\ pc' = [pc EXCEPT ![w] = "pad"]
      /\ idx' = [idx EXCEPT ![w] = @ + 1] /\ Store(w, Blank)
  BY DEF PadStore, Goto, history
<1>2. /\ Ending /\ Within /\ Partly /\ ShownBefore
      /\ idx[w] = xptr /\ loaded[w] = xptr /\ xptr < XSize
      /\ text = IF newline[w] THEN <<>> ELSE <<lines + 2>>
  BY <1>1, TurnFacts DEF Ends
<1>3. /\ \A v \in Writers \ {w} : pc'[v] = "idle"
      /\ pc'[w] = "pad" /\ idx'[w] = xptr + 1
  BY <1>1, <1>2 DEF Turn, TypeInv
<1>4. /\ text \in Seq(Nat) /\ recent \in Seq(Lines) /\ Len(recent) \in Nat /\ lines \in Nat
      /\ LCD_CACHE_DEPTH \in Nat /\ bottom \in Nat /\ xptr \in Nat /\ XSize \in Nat
      /\ YWINDOW_SIZE \in Nat \ {0} /\ Blank \in Nat
  BY TurnFacts, Sizes DEF Blank
<1>5. bottom < LCD_CACHE_DEPTH
  BY <1>2, <1>4 DEF Within
<1>6. /\ xptr' = xptr + 1
      /\ \A c \in Columns : cache'[bottom][c] = IF c = xptr THEN Blank ELSE cache[bottom][c]
      /\ \A k \in 1 .. YWINDOW_SIZE : cache'[Above(bottom, k)] = cache[Above(bottom, k)]
  BY <1>1, <1>2, <1>4, <1>5, Stored
<1>7. Ending'
  <2>1. \A k \in 1 .. Len(recent) - 1 : k \in 1 .. YWINDOW_SIZE
    BY <1>2, <1>4 DEF Ending, Least
  <2>2. \A k \in 1 .. Len(recent) - 1 : cache'[Above(bottom, k)] = recent[Len(recent) - k]
    BY <1>2, <1>6, <2>1 DEF Ending
  <2> QED BY <1>1, <1>2, <2>2 DEF Ending, Above
<1>8. Partly'
  <2>1. \A c \in Columns : recent[Len(recent)][c] = IF c < xptr + 1 THEN cache'[bottom][c] ELSE Blank
    <3> SUFFICES ASSUME NEW c \in Columns
                 PROVE  recent[Len(recent)][c] = IF c < xptr + 1 THEN cache'[bottom][c] ELSE Blank
      OBVIOUS
    <3>1. c \in Int
      BY Sizes
    <3> QED BY <1>2, <1>4, <1>6, <3>1 DEF Partly
  <2> QED BY <1>1, <1>2, <1>4, <1>6, <2>1 DEF Partly
<1>9. Within' /\ ShownBefore'
  BY <1>1, <1>2 DEF Within, ShownBefore
<1>10. Begun(w)' /\ Ends(w)' /\ Wraps(w)' /\ pc'[w] # "idle"
  <2>1. text' = IF newline'[w] THEN <<>> ELSE <<lines' + 2>>
    BY <1>1, <1>2
  <2> QED BY <1>3, <1>6, <1>7, <1>8, <1>9, <2>1 DEF Begun, Ends, Wraps
<1>11. text' \in Seq(Nat) /\ recent' \in Seq(Lines)
  BY <1>1, <1>4
<1> QED BY <1>3, <1>10, <1>11, OneWriter DEF Turn

LEMMA PaddedWindow ==
  ASSUME NEW w \in Writers, Turn(w), TypeInv', Padded(w)
  PROVE  WindowInv'
<1>1. /\ UNCHANGED <<cache, top, bottom, invert, screen, newline, text, recent, lines>>
      /\ pc[w] = "pad" /\ idx[w] >= XSize /\ xptr' = 0
      /\ pc' = [pc EXCEPT ![w] = "draw"]
  BY DEF Padded, Goto, history
<1>2. /\ Ending /\ Within /\ Partly /\ ShownBefore /\ idx[w] = xptr
      /\ text = IF newline[w] THEN <<>> ELSE <<lines + 2>>
  BY <1>1, TurnFacts DEF Ends
<1>3. /\ \A v \in Writers \ {w} : pc'[v] = "idle"
      /\ pc'[w] = "draw"
  BY <1>1 DEF Turn, TypeInv
<1>4. /\ text \in Seq(Nat) /\ recent \in Seq(Lines) /\ Len(recent) \in Nat /\ lines \in Nat
      /\ LCD_CACHE_DEPTH \in Nat /\ bottom \in Nat /\ xptr \in Nat /\ XSize \in Nat
      /\ YWINDOW_SIZE \in Nat \ {0} /\ Columns = 0 .. XSize - 1
      /\ cache \in [0 .. LCD_CACHE_DEPTH - 1 -> Lines]
  BY TurnFacts, Sizes
<1>5. Ended'
  <2>1. Len(recent) \in 1 .. Len(recent)
    BY <1>2, <1>4 DEF Ending, Least
  <2>2. recent[Len(recent)] \in Lines
    BY <1>4, <2>1
  <2>3. bottom \in 0 .. LCD_CACHE_DEPTH - 1
    BY <1>2, <1>4 DEF Within
  <2>4. cache[bottom] \in Lines
    BY <1>4, <2>3
  <2>5. \A c \in Columns : recent[Len(recent)][c] = cache[bottom][c]
    BY <1>1, <1>2, <1>4 DEF Partly
  <2>6. recent[Len(recent)] = cache[bottom]
    BY <2>2, <2>4, <2>5 DEF Lines
  <2> QED BY <1>1, <2>6 DEF Ended
<1>6. Ending' /\ Within' /\ ShownBefore' /\ text' = IF newline'[w] THEN <<>> ELSE <<lines' + 2>>
  BY <1>1, <1>2 DEF Ending, Within, ShownBefore, Above
<1>7. Begun(w)' /\ Ends(w)' /\ Wraps(w)' /\ pc'[w] # "idle"
  BY <1>1, <1>3, <1>5, <1>6 DEF Begun, Ends, Wraps
<1>8. text' \in Seq(Nat) /\ recent' \in Seq(Lines)
  BY <1>1, <1>4
<1> QED BY <1>3, <1>7, <1>8, OneWriter DEF Turn

LEMMA DrawWindow ==
  ASSUME NEW w \in Writers, Turn(w), TypeInv', UpdateDisplay(w)
  PROVE  WindowInv'
<1>1. /\ UNCHANGED <<cache, xptr, top, bottom, invert, newline, text, recent, lines>>
      /\ pc[w] = "draw" /\ screen' = Displayed
      /\ pc' = [pc EXCEPT ![w] = "advance"]
  BY DEF UpdateDisplay, Goto, shared, locals, history
<1>2. /\ Ending /\ Within /\ Ended /\ ShownBefore /\ xptr = 0
      /\ text = IF newline[w] THEN <<>> ELSE <<lines + 2>>
  BY <1>1, TurnFacts DEF Ends
<1>3. /\ \A v \in Writers \ {w} : pc'[v] = "idle"
      /\ pc'[w] = "advance"
  BY <1>1 DEF Turn, TypeInv
<1>4. /\ text \in Seq(Nat) /\ recent \in Seq(Lines) /\ TypeInv
  BY TurnFacts DEF Turn
<1>5. Shown'
  <2>1. \A r \in Rows : Displayed[r] = IF r < Len(recent) THEN recent[r + 1] ELSE BlankLine
    BY <1>2, <1>4, DisplayedIs
  <2> QED BY <1>1, <2>1 DEF Shown, Rows, BlankLine, Columns
<1>6. Ending' /\ Within' /\ Ended' /\ text' = IF newline'[w] THEN <<>> ELSE <<lines' + 2>>
  BY <1>1, <1>2 DEF Ending, Within, Ended, Above
<1>7. Begun(w)' /\ Ends(w)' /\ Wraps(w)' /\ pc'[w] # "idle"
  BY <1>1, <1>2, <1>3, <1>5, <1>6 DEF Begun, Ends, Wraps
<1>8. text' \in Seq(Nat) /\ recent' \in Seq(Lines)
  BY <1>1, <1>4
<1> QED BY <1>3, <1>7, <1>8, OneWriter DEF Turn

LEMMA AdvanceWindow ==
  ASSUME NEW w \in Writers, Turn(w), TypeInv', Advance(w)
  PROVE  WindowInv'
<1>1. /\ UNCHANGED <<cache, xptr, top, bottom, invert, screen, newline, text, recent, lines>>
      /\ pc[w] = "advance" /\ pc' = [pc EXCEPT ![w] = "bottom"]
      /\ loaded' = [loaded EXCEPT ![w] = bottom]
  BY DEF Advance, Goto, Load, shared, history
<1>2. /\ Ending /\ Within /\ Ended /\ Shown /\ xptr = 0
      /\ text = IF newline[w] THEN <<>> ELSE <<lines + 2>>
  BY <1>1, TurnFacts DEF Ends
<1>3. /\ \A v \in Writers \ {w} : pc'[v] = "idle"
      /\ pc'[w] = "bottom" /\ loaded'[w] = bottom
  BY <1>1 DEF Turn, TypeInv
<1>4. Ending' /\ Within' /\ Ended' /\ Shown'
  BY <1>1, <1>2 DEF Ending, Within, Ended, Shown, Above
<1>5. Begun(w)' /\ Ends(w)' /\ Wraps(w)' /\ pc'[w] # "idle"
  <2>1. text' = IF newline'[w] THEN <<>> ELSE <<lines' + 2>>
    BY <1>1, <1>2
  <2> QED BY <1>1, <1>2, <1>3, <1>4, <2>1 DEF Begun, Ends, Wraps
<1>6. text' \in Seq(Nat) /\ recent' \in Seq(Lines)
  BY <1>1, TurnFacts
<1> QED BY <1>3, <1>5, <1>6, OneWriter DEF Turn

\* The line that ended joins those above the next one.
LEMMA NextLineWindow ==
  ASSUME NEW w \in Writers, Turn(w), TypeInv', NextLine(w)
  PROVE  WindowInv'
<1>1. /\ UNCHANGED <<cache, xptr, top, invert, screen, newline, text, recent>>
      /\ pc[w] = "bottom" /\ bottom' = loaded[w] + 1 /\ lines' = lines + 1 /\ loaded' = loaded
      /\ pc' = [pc EXCEPT ![w] = "wrap"]
  BY DEF NextLine, Goto, locals
<1>2. /\ Ending /\ Within /\ Ended /\ Shown /\ xptr = 0 /\ loaded[w] = bottom
      /\ text = IF newline[w] THEN <<>> ELSE <<lines + 2>>
  BY <1>1, TurnFacts DEF Ends
<1>3. /\ \A v \in Writers \ {w} : pc'[v] = "idle"
      /\ pc'[w] = "wrap" /\ loaded'[w] + 1 = bottom' /\ bottom' = bottom + 1
  BY <1>1, <1>2 DEF Turn, TypeInv
<1>4. /\ text \in Seq(Nat) /\ recent \in Seq(Lines) /\ Len(recent) \in Nat
      /\ lines \in Nat /\ bottom \in Nat /\ top \in Nat
      /\ LCD_CACHE_DEPTH \in Nat /\ LCD_CACHE_DEPTH > YWINDOW_SIZE
      /\ YWINDOW_SIZE \in Nat \ {0}
  BY TurnFacts, Sizes
<1>5. After'
  <2>1. ~invert'
    BY <1>1, <1>2 DEF Within
  <2>2. lines + 1 # 0
    BY <1>4
  <2>3. IF lines + 1 < LCD_CACHE_DEPTH
        THEN top = 0 /\ bottom + 1 = lines + 1
        ELSE /\ bottom + 1 \in 1 .. LCD_CACHE_DEPTH
             /\ top = IF bottom + 1 = LCD_CACHE_DEPTH THEN 0 ELSE bottom + 1
    BY <1>2, <1>4 DEF Within
  <2> QED BY <1>1, <1>3, <2>1, <2>2, <2>3 DEF After
<1>6. Kept'
  <2>1. Len(recent) = Least(lines + 1, YWINDOW_SIZE)
    BY <1>2 DEF Ending
  <2>2. ASSUME NEW k \in 1 .. Len(recent)
        PROVE  cache[Above(bottom + 1, k)] = recent[Len(recent) + 1 - k]
    <3>1. CASE k = 1
      <4>1. Above(bottom + 1, k) = bottom /\ Len(recent) + 1 - k = Len(recent)
        BY <1>4, <3>1 DEF Above
      <4> QED BY <1>2, <4>1 DEF Ended
    <3>2. CASE k # 1
      <4>1. /\ Above(bottom + 1, k) = Above(bottom, k - 1)
            /\ k - 1 \in 1 .. Len(recent) - 1
            /\ Len(recent) - (k - 1) = Len(recent) + 1 - k
        BY <1>4, <3>2 DEF Above
      <4> QED BY <1>2, <4>1 DEF Ending
    <3> QED BY <3>1, <3>2
  <2> QED BY <1>1, <1>3, <2>1, <2>2 DEF Kept, Above
<1>7. Shown' /\ text' = IF newline'[w] THEN <<>> ELSE <<lines' + 1>>
  <2>1. lines + 2 = (lines + 1) + 1
    BY <1>4
  <2>2. Shown'
    BY <1>1, <1>2 DEF Shown
  <2> QED BY <1>1, <1>2, <2>1, <2>2
<1>8. Begun(w)' /\ Ends(w)' /\ Wraps(w)' /\ pc'[w] # "idle"
  BY <1>1, <1>2, <1>3, <1>5, <1>6, <1>7 DEF Begun, Ends, Wraps
<1>9. text' \in Seq(Nat) /\ recent' \in Seq(Lines)
  BY <1>1, <1>4
<1> QED BY <1>3, <1>8, <1>9, OneWriter DEF Turn

LEMMA WrapWindow ==
  ASSUME NEW w \in Writers, Turn(w), TypeInv', Wrap(w)
  PROVE  WindowInv'
<1>1. /\ UNCHANGED <<cache, xptr, screen, newline, text, recent, lines>>
      /\ pc[w] = "wrap"
      /\ pc' = [pc EXCEPT ![w] = IF newline[w] THEN "idle" ELSE "char"]
  BY DEF Wrap, Goto, history
<1>2. /\ After /\ Kept /\ Shown /\ xptr = 0 /\ loaded[w] + 1 = bottom
      /\ text = IF newline[w] THEN <<>> ELSE <<lines + 1>>
  BY <1>1, TurnFacts DEF Wraps
<1>3. /\ \A v \in Writers \ {w} : pc'[v] = "idle"
      /\ pc'[w] = IF newline[w] THEN "idle" ELSE "char"
  BY <1>1 DEF Turn, TypeInv
<1>4. /\ text \in Seq(Nat) /\ recent \in Seq(Lines) /\ Len(recent) \in Nat
      /\ lines \in Nat /\ bottom \in Nat /\ top \in Nat /\ XSize \in Nat \ {0}
      /\ LCD_CACHE_DEPTH \in Nat /\ LCD_CACHE_DEPTH > YWINDOW_SIZE
      /\ YWINDOW_SIZE \in Nat \ {0}
  BY TurnFacts, Sizes
<1>5. Between' /\ Kept'
  <2>1. CASE bottom = LCD_CACHE_DEPTH
    <3>1. bottom' = 0 /\ top' = 1 /\ invert' = TRUE
      BY <1>2, <2>1, Zenon DEF Wrap
    <3>2. ~(lines < LCD_CACHE_DEPTH)
      BY <1>2, <1>4, <2>1 DEF After
    <3>3. Between'
      BY <1>1, <1>4, <3>1, <3>2 DEF Between
    <3>4. \A k \in 1 .. Len(recent) : k \in 1 .. YWINDOW_SIZE
      BY <1>2, <1>4 DEF Kept, Least
    <3>5. \A k \in 1 .. Len(recent) : Above(0, k) = Above(bottom, k)
      BY <1>4, <2>1, <3>4 DEF Above
    <3>6. \A k \in 1 .. Len(recent) : cache[Above(0, k)] = recent[Len(recent) + 1 - k]
      BY <1>2, <3>5 DEF Kept
    <3> QED BY <1>1, <1>2, <3>1, <3>3, <3>6 DEF Kept, Above
  <2>2. CASE bottom # LCD_CACHE_DEPTH
    <3>1. UNCHANGED <<bottom, top, invert>>
      BY <1>2, <2>2, Zenon DEF Wrap
    <3>2. /\ bottom # 0
          /\ IF lines < LCD_CACHE_DEPTH THEN top = 0 /\ bottom = lines
             ELSE bottom < LCD_CACHE_DEPTH /\ top = bottom
      BY <1>2, <1>4, <2>2 DEF After
    <3>3. ~invert'
      BY <1>2, <3>1 DEF After
    <3>4. Between'
      BY <1>1, <3>1, <3>2, <3>3 DEF Between
    <3> QED BY <1>1, <1>2, <3>1, <3>4 DEF Kept, Above
  <2> QED BY <2>1, <2>2
<1>6. Shown' /\ Written'
  <2>1. \A c \in Columns : ~(c < 0)
    BY Sizes
  <2> QED BY <1>1, <1>2, <2>1 DEF Shown, Written, Columns
<1>7. pc'[w] = "idle" => Rest'
  <2> SUFFICES ASSUME pc'[w] = "idle" PROVE Rest'
    OBVIOUS
  <2>1. newline[w]
    BY <1>3
  <2>2. text' = <<>> /\ xptr' = 0
    BY <1>1, <1>2, <2>1
  <2> QED BY <1>4, <1>5, <1>6, <2>2 DEF Rest
<1>8. Begun(w)'
  <2> SUFFICES ASSUME pc'[w] = "char" PROVE Begun(w)'
    BY <1>3 DEF Begun
  <2>1. ~newline[w]
    BY <1>3
  <2>2. text' = <<lines + 1>> /\ xptr' = 0 /\ lines' = lines
    BY <1>1, <1>2, <2>1
  <2>3. Len(text') = 0 + 1 /\ text'[0 + 1] = lines + 1 /\ 0 < XSize
    BY <1>4, <2>2
  <2> QED BY <1>5, <1>6, <2>2, <2>3 DEF Begun
<1>9. Ends(w)' /\ Wraps(w)'
  BY <1>3 DEF Ends, Wraps
<1>10. text' \in Seq(Nat) /\ recent' \in Seq(Lines)
  BY <1>1, <1>4
<1> QED BY <1>3, <1>7, <1>8, <1>9, <1>10, OneWriter DEF Turn

-----------------------------------------------------------------------------
(* The invariant                                                           *)

Inv == TypeInv /\ WindowInv

LEMMA WindowStep == TypeInv /\ TypeInv' /\ WindowInv /\ [Next]_vars => WindowInv'
<1> SUFFICES ASSUME TypeInv, TypeInv', WindowInv, [Next]_vars, ~raced' PROVE WindowInv'
  BY DEF WindowInv
<1>1. CASE UNCHANGED vars
  BY <1>1 DEF vars, shared, locals, history, WindowInv, Alone, Rest, Begun, Ends, Wraps, Between, Within, After,
              Kept, Ending, Ended, Written, Partly, Shown, ShownBefore, Above
<1>2. ASSUME NEW w \in Writers, Putchar(w) PROVE WindowInv'
  <2>1. ~raced
    BY <1>2 DEF Putchar, Begin, Char, CharStore, EndLine, Uninvert, GiveUp, Index, Pad, PadStore,
                Padded, UpdateDisplay, Advance, NextLine, Wrap, history
  <2>2. \A v \in Writers \ {w} : pc[v] = "idle"
    <3>1. ASSUME NEW nl \in BOOLEAN, Begin(w, nl) PROVE \A v \in Writers \ {w} : pc[v] = "idle"
      BY <3>1 DEF Begin
    <3>2. CASE pc[w] # "idle"
      BY <2>1, <3>2 DEF WindowInv, Alone
    <3>3. pc[w] # "idle" \/ \E nl \in BOOLEAN : Begin(w, nl)
      BY <1>2 DEF Putchar, Char, CharStore, EndLine, Uninvert, GiveUp, Index, Pad, PadStore,
                  Padded, UpdateDisplay, Advance, NextLine, Wrap
    <3> QED BY <3>1, <3>2, <3>3
  <2>3. Turn(w)
    BY <2>1, <2>2 DEF Turn
  <2>4. ASSUME NEW nl \in BOOLEAN, Begin(w, nl) PROVE WindowInv'
    BY <2>3, <2>4, BeginWindow
  <2>5. CASE Char(w)
    BY <2>3, <2>5, CharWindow
  <2>6. CASE CharStore(w)
    BY <2>3, <2>6, CharStoreWindow
  <2>7. CASE EndLine(w)
    BY <2>3, <2>7, EndLineWindow
  <2>8. CASE Uninvert(w)
    BY <2>3, <2>8, UninvertWindow
  <2>9. CASE GiveUp(w)
    BY <2>3, <2>9, GiveUpWindow
  <2>10. CASE Index(w)
    BY <2>3, <2>10, IndexWindow
  <2>11. CASE Pad(w)
    BY <2>3, <2>11, PadWindow
  <2>12. CASE PadStore(w)
    BY <2>3, <2>12, PadStoreWindow
  <2>13. CASE Padded(w)
    BY <2>3, <2>13, PaddedWindow
  <2>14. CASE UpdateDisplay(w)
    BY <2>3, <2>14, DrawWindow
  <2>15. CASE Advance(w)
    BY <2>3, <2>15, AdvanceWindow
  <2>16. CASE NextLine(w)
    BY <2>3, <2>16, NextLineWindow
  <2>17. CASE Wrap(w)
    BY <2>3, <2>17, WrapWindow
  <2> QED BY <1>2, <2>4, <2>5, <2>6, <2>7, <2>8, <2>9, <2>10, <2>11, <2>12,
             <2>13, <2>14, <2>15, <2>16, <2>17 DEF Putchar
<1> QED BY <1>1, <1>2 DEF Next

LEMMA InitInv == Init => Inv
<1> SUFFICES ASSUME Init PROVE Inv
  OBVIOUS
<1>1. TypeInv
  BY Sizes DEF Init, TypeInv, Labels
<1>2. WindowInv
  <2>1. /\ text = <<>> /\ recent = <<>> /\ lines = 0 /\ bottom = 0 /\ top = 0 /\ invert = TRUE
        /\ xptr = 0 /\ screen = BlankScreen /\ \A w \in Writers : pc[w] = "idle"
    BY DEF Init
  <2>2. Len(text) = 0 /\ Len(recent) = 0 /\ text \in Seq(Nat) /\ recent \in Seq(Lines)
    BY <2>1
  <2>3. Between /\ Kept
    BY <2>1, <2>2, Sizes DEF Between, Kept, Least
  <2>4. Written /\ Shown /\ xptr <= XSize
    BY <2>1, <2>2, Sizes DEF Written, Shown, BlankScreen
  <2>5. Rest
    BY <2>1, <2>2, <2>3, <2>4 DEF Rest
  <2>6. Alone /\ \A w \in Writers : Begun(w) /\ Ends(w) /\ Wraps(w)
    BY <2>1 DEF Alone, Begun, Ends, Wraps
  <2> QED BY <2>2, <2>5, <2>6 DEF WindowInv
<1> QED BY <1>1, <1>2 DEF Inv

\* Types, and the place of each line in the cache and on the display, always.
THEOREM Invariant == Spec => []Inv
<1>1. Inv /\ [Next]_vars => Inv'
  BY TypeStep, WindowStep DEF Inv
<1> QED BY <1>1, InitInv, PTL DEF Spec

LEMMA WindowEnds == Inv => WindowShown
BY DEF Inv, WindowInv, Rest, Shown, WindowShown

\* While the writers take turns the window shows the last lines, across every
\* wrap of the cache.
THEOREM LastLinesShown == Spec => []WindowShown
BY WindowEnds, Invariant, PTL

=============================================================================
