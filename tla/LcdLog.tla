------------------------------- MODULE LcdLog -------------------------------
(***************************************************************************)
(* The log window on the display: printf writes each character with        *)
(* LCD_LOG_PUTCHAR into a cyclic cache of lines, and a line that ends is   *)
(* drawn with those above it.  startup_task and the web server's thread    *)
(* write; nothing locks the cache, and the two have one priority, so the   *)
(* tick may switch them between any two statements of a call.              *)
(*                                                                         *)
(* A character is the number of the line it was written for (Blank is the  *)
(* space), which tells the lines apart.  Drawing is one step.  Colours are *)
(* left out (every message has the same), and so is scrolling, which       *)
(* nothing calls.  An increment of a shared counter is a load and a store, *)
(* each a step of its own, so that a stale value may be stored.  Once two  *)
(* calls have interleaved the contents of lines are dropped, which decide  *)
(* nothing, and only the counters are followed.                            *)
(***************************************************************************)
EXTENDS Integers, Sequences

CONSTANTS
  Writers,          \* tasks that write
  XSize,            \* characters of a line (BSP_LCD_GetXSize() / Width)
  YWINDOW_SIZE,     \* lines of the window
  LCD_CACHE_DEPTH,  \* lines of the cache
  MaxLines          \* bound: lines written in a behaviour

ASSUME LogAssumption ==
  /\ XSize \in Nat \ {0}
  /\ YWINDOW_SIZE \in Nat \ {0}
  /\ LCD_CACHE_DEPTH \in Nat /\ LCD_CACHE_DEPTH > YWINDOW_SIZE
  /\ MaxLines \in Nat

VARIABLES
  cache,   \* LCD_CacheBuffer: the characters of each line
  xptr,    \* LCD_CacheBuffer_xptr
  top,     \* LCD_CacheBuffer_yptr_top
  bottom,  \* LCD_CacheBuffer_yptr_bottom
  invert,  \* LCD_CacheBuffer_yptr_invert
  screen,  \* what each row of the window shows
  pc,      \* where each writer is in LCD_LOG_PUTCHAR
  newline, \* its character is '\n'
  idx,     \* its local idx
  loaded,  \* the counter it has loaded and not stored yet
  raced,   \* history: two writers were in LCD_LOG_PUTCHAR at once
  text,    \* history: the characters written since the last line end
  recent,  \* history: the last lines that ended, the latest last
  lines    \* history: number of lines that ended

shared == <<cache, xptr, top, bottom, invert>>
locals == <<newline, idx, loaded>>
history == <<raced, text, recent, lines>>
vars == <<shared, screen, pc, locals, history>>

Blank   == 0
Rows    == 0 .. YWINDOW_SIZE - 1
Columns == 0 .. XSize - 1
BlankLine == [c \in Columns |-> Blank]

\* LCD_LOG_DeInit.
BlankCache  == [l \in 0 .. LCD_CACHE_DEPTH - 1 |-> BlankLine]
BlankScreen == [r \in Rows |-> BlankLine]

Init ==
  /\ cache = BlankCache
  /\ xptr = 0
  /\ top = 0
  /\ bottom = 0
  /\ invert = TRUE
  /\ screen = BlankScreen
  /\ pc = [w \in Writers |-> "idle"]
  /\ newline = [w \in Writers |-> FALSE]
  /\ idx = [w \in Writers |-> 0]
  /\ loaded = [w \in Writers |-> 0]
  /\ raced = FALSE
  /\ text = <<>>
  /\ recent = <<>>
  /\ lines = 0

Goto(w, label) == pc' = [pc EXCEPT ![w] = label]

-----------------------------------------------------------------------------
(* What a reader expects: a line ends with '\n' or when it is full, and the *)
(* window shows the last lines.                                             *)

AsLine(s) == [c \in Columns |-> IF c < Len(s) THEN s[c + 1] ELSE Blank]

LastLines(s) == IF Len(s) > YWINDOW_SIZE THEN Tail(s) ELSE s

Expect(nl) ==
  CASE raced' ->
         text' = <<>> /\ recent' = <<>>
    [] ~raced' /\ ~nl /\ Len(text) < XSize ->
         text' = Append(text, lines + 1) /\ UNCHANGED recent
    [] OTHER ->
         /\ recent' = LastLines(Append(recent, AsLine(text)))
         /\ text' = IF nl THEN <<>> ELSE <<lines + 2>>

-----------------------------------------------------------------------------
(* LCD_LOG_PUTCHAR                                                         *)

Load(w, counter) == loaded' = [loaded EXCEPT ![w] = counter]

Unload(w) == loaded' = [loaded EXCEPT ![w] = 0]

\* One character is written where the cursor was when it was loaded.  Beyond the
\* columns shown, or below the cache, it goes where nothing is displayed from.
Store(w, ch) ==
  /\ cache' = IF ~raced /\ loaded[w] \in Columns /\ bottom \in DOMAIN cache
              THEN [cache EXCEPT ![bottom][loaded[w]] = ch] ELSE cache
  /\ xptr' = loaded[w] + 1
  /\ Unload(w)

\* The call, up to its test for room on the line.
Begin(w, nl) ==
  /\ pc[w] = "idle"
  /\ lines < MaxLines
  /\ newline' = [newline EXCEPT ![w] = nl]
  /\ raced' = (raced \/ \E v \in Writers \ {w} : pc[v] # "idle")
  /\ Expect(nl)
  /\ Goto(w, IF xptr < XSize /\ ~nl THEN "char" ELSE "end")
  /\ cache' = IF raced' THEN BlankCache ELSE cache
  /\ screen' = IF raced' THEN BlankScreen ELSE screen
  /\ UNCHANGED <<xptr, top, bottom, invert, idx, loaded, lines>>

Char(w) ==
  /\ pc[w] = "char"
  /\ Load(w, xptr)
  /\ Goto(w, "charstore")
  /\ UNCHANGED <<shared, screen, newline, idx, history>>

CharStore(w) ==
  /\ pc[w] = "charstore"
  /\ Store(w, lines + 1)
  /\ Goto(w, "idle")
  /\ UNCHANGED <<top, bottom, invert, screen, newline, idx, history>>

\* Faulty variant: the oldest line is not given up when the cache is full.
EndLineKeepsTop(w) ==
  /\ pc[w] = "end"
  /\ Goto(w, "index")
  /\ UNCHANGED <<shared, screen, locals, history>>

\* When the cache is full its oldest line is given up, the first time after a
\* wrap by the flag alone.
EndLine(w) ==
  /\ pc[w] = "end"
  /\ \/ top < bottom /\ Goto(w, "index") /\ UNCHANGED loaded
     \/ top >= bottom /\ invert /\ Goto(w, "flag") /\ UNCHANGED loaded
     \/ top >= bottom /\ ~invert /\ Goto(w, "top") /\ Load(w, top)
  /\ UNCHANGED <<shared, screen, newline, idx, history>>

Uninvert(w) ==
  /\ pc[w] = "flag"
  /\ invert' = FALSE
  /\ Goto(w, "index")
  /\ UNCHANGED <<cache, xptr, top, bottom, screen, locals, history>>

\* The increment and the wrap of top are one store, as the compiler may make it.
GiveUp(w) ==
  /\ pc[w] = "top"
  /\ top' = (loaded[w] + 1) % LCD_CACHE_DEPTH
  /\ Unload(w)
  /\ Goto(w, "index")
  /\ UNCHANGED <<cache, xptr, bottom, invert, screen, newline, idx, history>>

\* The line is padded from where the cursor is.
Index(w) ==
  /\ pc[w] = "index"
  /\ idx' = [idx EXCEPT ![w] = xptr]
  /\ Goto(w, "pad")
  /\ UNCHANGED <<shared, screen, newline, loaded, history>>

Pad(w) ==
  /\ pc[w] = "pad" /\ idx[w] < XSize
  /\ Load(w, xptr)
  /\ Goto(w, "padstore")
  /\ UNCHANGED <<shared, screen, newline, idx, history>>

PadStore(w) ==
  /\ pc[w] = "padstore"
  /\ Store(w, Blank)
  /\ idx' = [idx EXCEPT ![w] = @ + 1]
  /\ Goto(w, "pad")
  /\ UNCHANGED <<top, bottom, invert, screen, newline, history>>

Padded(w) ==
  /\ pc[w] = "pad" /\ idx[w] >= XSize
  /\ xptr' = 0
  /\ idx' = [idx EXCEPT ![w] = 0]
  /\ Goto(w, "draw")
  /\ UNCHANGED <<cache, top, bottom, invert, screen, newline, loaded, history>>

Line(l) == IF l \in DOMAIN cache THEN cache[l] ELSE BlankLine

\* LCD_LOG_UpdateDisplay: the window fills from its first row, then shows the
\* lines that end with the last one, across the end of the cache.
Displayed ==
  IF bottom < YWINDOW_SIZE - 1 /\ bottom >= top
  THEN [screen EXCEPT ![bottom] = Line(bottom)]
  ELSE LET length == IF bottom < top THEN LCD_CACHE_DEPTH + bottom ELSE bottom
           ptr    == length - YWINDOW_SIZE + 1
       IN  [r \in Rows |-> cache[(r + ptr) % LCD_CACHE_DEPTH]]

UpdateDisplay(w) ==
  /\ pc[w] = "draw"
  /\ screen' = Displayed
  /\ Goto(w, "advance")
  /\ UNCHANGED <<shared, locals, history>>

Advance(w) ==
  /\ pc[w] = "advance"
  /\ Load(w, bottom)
  /\ Goto(w, "bottom")
  /\ UNCHANGED <<shared, screen, newline, idx, history>>

NextLine(w) ==
  /\ pc[w] = "bottom"
  /\ bottom' = loaded[w] + 1
  /\ lines' = lines + 1
  /\ Goto(w, "wrap")
  /\ UNCHANGED <<cache, xptr, top, invert, screen, locals, raced, text, recent>>

\* The cache is full: its first line is written next.  The number tested is the
\* one just stored.  Then the character that found no room is written.
Wrap(w) ==
  /\ pc[w] = "wrap"
  /\ IF loaded[w] + 1 = LCD_CACHE_DEPTH
     THEN bottom' = 0 /\ top' = 1 /\ invert' = TRUE
     ELSE UNCHANGED <<bottom, top, invert>>
  /\ Unload(w)
  /\ Goto(w, IF newline[w] THEN "idle" ELSE "char")
  /\ UNCHANGED <<cache, xptr, screen, newline, idx, history>>

Putchar(w) ==
  \/ \E nl \in BOOLEAN : Begin(w, nl)
  \/ Char(w) \/ CharStore(w)
  \/ EndLine(w) \/ Uninvert(w) \/ GiveUp(w) \/ Index(w)
  \/ Pad(w) \/ PadStore(w) \/ Padded(w)
  \/ UpdateDisplay(w) \/ Advance(w) \/ NextLine(w) \/ Wrap(w)

Next == \E w \in Writers : Putchar(w)

Spec == Init /\ [][Next]_vars

-----------------------------------------------------------------------------
(* Properties                                                              *)

\* While the writers take turns, the window shows the last lines written, in
\* order: the flag and the two line numbers say where they are in the cache,
\* before and after it wraps.
WindowShown ==
  (~raced /\ \A w \in Writers : pc[w] = "idle") =>
    \A r \in Rows : screen[r] = IF r < Len(recent) THEN recent[r + 1] ELSE BlankLine
=============================================================================
