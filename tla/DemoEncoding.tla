---------------------------- MODULE DemoEncoding ----------------------------
(***************************************************************************)
(* One rect on its way from the demo server to a viewer: the encoder in    *)
(* DemoServerClient::sendUpdates() (ica/src/DemoServer.cpp:369-492) and    *)
(* the decoder in ica/src/RfbLZORLE.cpp.                                   *)
(*                                                                         *)
(* A small rect is sent pixel by pixel.  A larger one becomes a sequence   *)
(* of words: a colour and, in the byte the colour leaves free, the number  *)
(* of pixels that follow the first one.  The counter of a run is a byte.   *)
(* LZO and the socket keep the words and their order, so the decoder       *)
(* handles each of them here before the encoder goes on.                   *)
(*                                                                         *)
(* The image wraps the framebuffer libvncclient paints into, in another    *)
(* thread and without a lock, so each read of a pixel may find another     *)
(* colour.                                                                 *)
(***************************************************************************)
EXTENDS Integers

CONSTANTS Colours, Blank,   \* what a pixel shows; what the viewer shows before
          Width, Height,    \* of the screen
          RawMaxPixels,     \* RAW_MAX_PIXELS, 1024
          RleMax            \* the largest value of rle_cnt, 255

ASSUME EncodingAssumption ==
  /\ Width \in Nat \ {0} /\ Height \in Nat \ {0} /\ Blank \notin Colours
  /\ RleMax \in Nat \ {0} /\ RawMaxPixels \in Nat /\ RawMaxPixels >= RleMax

VARIABLES
  rect,      \* the rect of m_changedRects that is sent
  encoder,   \* where the encoder is
  at,        \* the pixel of the rect it reads next
  last_pix, rle_cnt, rle_sub,
  word,      \* the word the decoder has in hand: colour, pixels left to write
  dx, dy,    \* where the decoder writes: column of the rect, row of the screen
  done,      \* it wrote the last pixel of the screen's last row
  frame,     \* the viewer's framebuffer
  read,      \* history: the colour the encoder took for each pixel
  torn       \* history: the first pixel changed between its two reads

encVars == <<encoder, at, last_pix, rle_cnt, rle_sub, read, torn>>
decVars == <<word, dx, dy, done, frame>>
vars == <<rect, encVars, decVars>>

Screen == (0..(Width - 1)) \X (0..(Height - 1))
Rects == {r \in [x : 0..(Width - 1), y : 0..(Height - 1), w : 1..Width, h : 1..Height] :
            r.x + r.w <= Width /\ r.y + r.h <= Height}
Inside == (0..(rect.w - 1)) \X (0..(rect.h - 1))
OnScreen(p) == <<rect.x + p[1], rect.y + p[2]>>
NoWord == [val |-> Blank, left |-> 0]
Words == [val : Colours \cup {Blank}, left : Nat]

TypeOK ==
  /\ rect \in Rects
  /\ encoder \in {"start", "scan", "flush", "end"}
  /\ at \in (0..(rect.w - 1)) \X Nat
  /\ last_pix \in Colours \cup {Blank} /\ rle_cnt \in 0..RleMax /\ rle_sub \in {0, 1}
  /\ word \in Words
  /\ dx \in 0..(rect.w - 1) /\ dy \in 0..(Height - 1)
  /\ done \in BOOLEAN /\ torn \in BOOLEAN
  /\ frame \in [Screen -> Colours \cup {Blank}]
  /\ read \in [Inside -> Colours \cup {Blank}]

Init ==
  /\ rect \in Rects
  /\ encoder = "start" /\ at = <<0, 0>>
  /\ last_pix = Blank /\ rle_cnt = 0 /\ rle_sub = 0
  /\ word = NoWord /\ dx = 0 /\ dy = rect.y /\ done = FALSE
  /\ frame = [p \in Screen |-> Blank]
  /\ read = [p \in Inside |-> Blank] /\ torn = FALSE

----------------------------------------------------------------------------
(* The encoder                                                              *)

\* Mutant of Compressed: as soon as there are two rows.
CompressedRows(r) == r.h > 1

\* "we only compress if it's enough data"
Compressed(r) == r.w * r.h > RawMaxPixels

\* An uint8_t.
Byte(n) == n % (RleMax + 1)

RunFull == rle_cnt >= RleMax

\* The two loops over the rows and columns of the rect.
Following(p) == IF p[1] + 1 < rect.w THEN <<p[1] + 1, p[2]>> ELSE <<0, p[2] + 1>>

\* The bytes of the rect, and CopyRectangle() at the viewer.
SendRaw(pixels) ==
  /\ encoder = "start" /\ ~Compressed(rect)
  /\ read' = pixels
  /\ frame' = [p \in Screen |->
                 LET q == <<p[1] - rect.x, p[2] - rect.y>>
                 IN  IF q \in Inside THEN pixels[q] ELSE frame[p]]
  /\ encoder' = "end"
  /\ UNCHANGED <<rect, at, last_pix, rle_cnt, rle_sub, torn, word, dx, dy, done>>

\* QRgb last_pix = *( (QRgb *) i.scanLine( ry ) + rx )
BeginRle(c) ==
  /\ encoder = "start" /\ Compressed(rect)
  /\ last_pix' = c /\ rle_cnt' = 0 /\ rle_sub' = 1
  /\ encoder' = "scan"
  /\ UNCHANGED <<rect, at, read, torn, decVars>>

\* Mutant of NextRun: rle_sub keeps its value.
NextRunSub(c) == last_pix' = c /\ rle_cnt' = 0 /\ rle_sub' = rle_sub

NextRun(c) == last_pix' = c /\ rle_cnt' = 0 /\ rle_sub' = 0

Advance ==
  /\ at' = Following(at)
  /\ encoder' = IF Following(at)[2] < rect.h THEN "scan" ELSE "flush"

\* The pixel is c when it is compared; it is still part of the run.
CountPixel(c) ==
  /\ encoder = "scan" /\ word = NoWord
  /\ c = last_pix /\ ~RunFull
  /\ rle_cnt' = rle_cnt + 1
  /\ read' = [read EXCEPT ![at] = c]
  /\ Advance
  /\ UNCHANGED <<rect, last_pix, rle_sub, torn, decVars>>

\* The pixel is c when it is compared, and d when it becomes last_pix.
EmitRun(c, d) ==
  /\ encoder = "scan" /\ word = NoWord
  /\ c # last_pix \/ RunFull
  /\ word' = [val |-> last_pix, left |-> Byte(rle_cnt - rle_sub) + 1]
  /\ NextRun(d)
  /\ read' = [read EXCEPT ![at] = d]
  /\ torn' = (torn \/ at = <<0, 0>>)
  /\ Advance
  /\ UNCHANGED <<rect, dx, dy, done, frame>>

\* "flush RLE-loop": no rle_sub
Flush ==
  /\ encoder = "flush" /\ word = NoWord
  /\ word' = [val |-> last_pix, left |-> Byte(rle_cnt) + 1]
  /\ encoder' = "end"
  /\ UNCHANGED <<rect, at, last_pix, rle_cnt, rle_sub, read, torn, dx, dy, done, frame>>

----------------------------------------------------------------------------
(* The decoder                                                              *)

\* Mutant of EndOfRow: rows of the width of the screen.
EndOfRowOfScreen == dx + 1 >= Width

EndOfRow == dx + 1 >= rect.w

\* *dst = val, and on to the next pixel, until the word is used up.
WritePixel ==
  /\ word.left > 0 /\ ~done
  /\ frame' = [frame EXCEPT ![<<rect.x + dx, dy>>] = word.val]
  /\ IF EndOfRow
     THEN /\ dx' = 0
          /\ dy' = IF dy + 1 < Height THEN dy + 1 ELSE dy
          /\ done' = (dy + 1 >= Height)
     ELSE dx' = dx + 1 /\ UNCHANGED <<dy, done>>
  /\ word' = IF word.left = 1 THEN NoWord ELSE [word EXCEPT !.left = @ - 1]
  /\ UNCHANGED <<rect, encVars>>

\* hdr.bytesRLE is not reached: what is left is ignored.
IgnoreWord ==
  /\ word.left > 0 /\ done
  /\ word' = NoWord
  /\ UNCHANGED <<rect, encVars, dx, dy, done, frame>>

Next ==
  \/ \E pixels \in [Inside -> Colours] : SendRaw(pixels)
  \/ \E c \in Colours : BeginRle(c) \/ CountPixel(c)
  \/ \E c, d \in Colours : EmitRun(c, d)
  \/ Flush \/ WritePixel \/ IgnoreWord

Spec == Init /\ [][Next]_vars

----------------------------------------------------------------------------
(* Properties                                                               *)

Decoded == encoder = "end" /\ word = NoWord

\* The viewer shows each pixel of the rect in the colour the encoder read, if
\* the first pixel was the same in both reads: the extra count of the first run
\* is made up for before the flush (DemoServer.cpp:394-421, RfbLZORLE.cpp:118-145).
RectIsShown == Decoded /\ ~torn => \A p \in Inside : frame[OnScreen(p)] = read[p]

\* No pixel outside the rect is written at any time, although the decoder only
\* knows the end of a row and of the screen (RfbLZORLE.cpp:127-137).
OthersUntouched ==
  ~torn => \A p \in Screen \ {OnScreen(q) : q \in Inside} : frame[p] = Blank

\* "dx(%d) != 0" is not logged: a rect ends at the end of a row (RfbLZORLE.cpp:147).
EndsWithARow == Decoded /\ ~torn => dx = 0
=============================================================================
