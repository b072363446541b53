------------------------- MODULE DemoEncodingProofs --------------------------
(* Theorems about DemoEncoding for screens, rects and counters of any size.  *)
EXTENDS DemoEncoding, TLAPS

\* The number of pixels before p in a rect of width w.
Index(p, w) == p[2] * w + p[1]

Size == rect.h * rect.w
Taken == Index(at, rect.w)
Run == rle_cnt + 1 - rle_sub
Written == IF done THEN Size ELSE Index(<<dx, dy - rect.y>>, rect.w)

Scanning == encoder \in {"scan", "flush"}
Shown(p) == OnScreen(p) \in Screen /\ frame[OnScreen(p)] = read[p]

\* What each stage of the encoder implies.
Stages ==
  /\ rect.y <= dy /\ (done => dx = 0)
  /\ encoder = "start" => /\ at = <<0, 0>> /\ word = NoWord /\ ~done /\ ~torn
                          /\ dx = 0 /\ dy = rect.y
  /\ encoder = "scan" => at[2] < rect.h
  /\ encoder = "flush" => at = <<0, rect.h>>
  /\ Scanning => Compressed(rect) /\ last_pix \in Colours
  /\ encoder = "end" /\ ~Compressed(rect) => word = NoWord /\ dx = 0

\* Each pixel is written, in the decoder's hand, part of the run or not yet
\* taken; the first run is counted one too high while rle_sub is 1.
Counted ==
  /\ Scanning => /\ Written + word.left + Run = Taken
                 /\ rle_sub = 1 => rle_cnt = Taken
  /\ encoder = "end" /\ Compressed(rect) => Written + word.left = Size

\* The colours of these pixels.
Coloured ==
  \A p \in Inside :
    /\ encoder = "end" /\ ~Compressed(rect) => Shown(p)
    /\ Scanning \/ (encoder = "end" /\ Compressed(rect)) =>
         /\ Index(p, rect.w) < Written => Shown(p)
         /\ Written <= Index(p, rect.w) /\ Index(p, rect.w) < Written + word.left
              => read[p] = word.val
    /\ Scanning /\ Written + word.left <= Index(p, rect.w) /\ Index(p, rect.w) < Taken
         => read[p] = last_pix

Untouched == \A p \in Screen : (\A q \in Inside : p # OnScreen(q)) => frame[p] = Blank

RoundTrip == ~torn => Counted /\ Coloured /\ Untouched

----------------------------------------------------------------------------
(* Counting in rows                                                         *)

LEMMA Rows ==
  ASSUME NEW w \in Nat, NEW a \in Nat
  PROVE  a * w \in Nat /\ (a + 1) * w = a * w + w
OBVIOUS

LEMMA MoreRows ==
  ASSUME NEW w \in Nat, NEW a \in Nat, NEW b \in Nat, a < b
  PROVE  a * w + w <= b * w
<1> DEFINE k == b - (a + 1)
<1>1. k \in Nat /\ b = (a + 1) + k
  OBVIOUS
<1>2. ((a + 1) + k) * w = (a + 1) * w + k * w
  BY <1>1
<1>3. k * w \in Nat
  BY <1>1
<1> QED BY <1>1, <1>2, <1>3, Rows

\* The index of a pixel tells its column and row, and whether it is in the rect.
LEMMA IndexIsUnique ==
  ASSUME NEW w \in Nat, NEW a \in Nat, NEW c \in Nat, NEW b \in 0..(w - 1), NEW d \in 0..(w - 1),
         Index(<<b, a>>, w) = Index(<<d, c>>, w)
  PROVE  a = c /\ b = d
<1>1. a * w \in Nat /\ c * w \in Nat
  BY Rows
<1>2. ~(a < c)
  BY <1>1, MoreRows DEF Index
<1>3. ~(c < a)
  BY <1>1, MoreRows DEF Index
<1> QED BY <1>1, <1>2, <1>3 DEF Index

LEMMA IndexInside ==
  ASSUME NEW w \in Nat, NEW a \in Nat, NEW h \in Nat, NEW b \in 0..(w - 1)
  PROVE  /\ Index(<<b, a>>, w) \in Nat
         /\ a < h <=> Index(<<b, a>>, w) < h * w
<1>1. a * w \in Nat /\ h * w \in Nat
  BY Rows
<1>2. a < h => a * w + w <= h * w
  BY MoreRows
<1>3. h <= a => h * w <= a * w
  <2>1. CASE h = a BY <2>1, <1>1
  <2>2. CASE h < a BY <2>2, <1>1, MoreRows
  <2> QED BY <2>1, <2>2
<1> QED BY <1>1, <1>2, <1>3 DEF Index

LEMMA IndexFollowing ==
  ASSUME NEW w \in Nat, NEW a \in Nat, NEW b \in 0..(w - 1)
  PROVE  /\ b + 1 < w => Index(<<b + 1, a>>, w) = Index(<<b, a>>, w) + 1
         /\ ~(b + 1 < w) => Index(<<0, a + 1>>, w) = Index(<<b, a>>, w) + 1
BY Rows DEF Index

----------------------------------------------------------------------------
LEMMA Sizes ==
  ASSUME TypeOK
  PROVE  /\ rect.x \in Nat /\ rect.y \in Nat /\ rect.w \in Nat \ {0} /\ rect.h \in Nat \ {0}
         /\ rect.x + rect.w <= Width /\ rect.y + rect.h <= Height
         /\ Size \in Nat
BY EncodingAssumption, Rows DEF TypeOK, Rects, Size

LEMMA NextPixel ==
  ASSUME TypeOK
  PROVE  Following(at) \in (0..(rect.w - 1)) \X Nat
<1>1. at = <<at[1], at[2]>> /\ at[1] \in 0..(rect.w - 1) /\ at[2] \in Nat
  BY DEF TypeOK
<1>2. CASE at[1] + 1 < rect.w
  BY <1>1, <1>2, Sizes DEF Following
<1>3. CASE ~(at[1] + 1 < rect.w)
  BY <1>1, <1>3, Sizes DEF Following
<1> QED BY <1>2, <1>3

LEMMA Bytes ==
  ASSUME NEW n \in Int
  PROVE  Byte(n) \in 0..RleMax /\ (n \in 0..RleMax => Byte(n) = n)
BY EncodingAssumption DEF Byte

(* The type invariant: the counter of a run stays in its byte, and the decoder *)
(* on the screen (DemoServer.cpp:402-413, RfbLZORLE.cpp:118-145).               *)
THEOREM TypeCorrect == Spec => []TypeOK
<1>1. Init => TypeOK
  <2> SUFFICES ASSUME Init PROVE TypeOK
    OBVIOUS
  <2>1. /\ rect.w \in Nat \ {0} /\ rect.y \in 0..(Height - 1) /\ rect \in Rects
    BY EncodingAssumption DEF Init, Rects
  <2>2. at \in (0..(rect.w - 1)) \X Nat
    BY <2>1 DEF Init
  <2>3. word \in Words /\ frame \in [Screen -> Colours \cup {Blank}]
          /\ read \in [Inside -> Colours \cup {Blank}]
    BY DEF Init, NoWord, Words
  <2>4. dx \in 0..(rect.w - 1) /\ dy \in 0..(Height - 1)
    BY <2>1 DEF Init
  <2>5. rle_cnt \in 0..RleMax /\ rle_sub \in {0, 1} /\ last_pix \in Colours \cup {Blank}
    BY EncodingAssumption DEF Init
  <2>6. done \in BOOLEAN /\ torn \in BOOLEAN /\ encoder \in {"start", "scan", "flush", "end"}
    BY DEF Init
  <2> QED BY <2>1, <2>2, <2>3, <2>4, <2>5, <2>6 DEF TypeOK
<1>2. TypeOK /\ [Next]_vars => TypeOK'
  <2> SUFFICES ASSUME TypeOK, [Next]_vars PROVE TypeOK'
    OBVIOUS
  <2>1. ASSUME NEW pixels \in [Inside -> Colours], SendRaw(pixels) PROVE TypeOK'
    BY <2>1, EncodingAssumption DEF SendRaw, TypeOK, Screen, Inside
  <2>2. ASSUME NEW c \in Colours, BeginRle(c) PROVE TypeOK'
    BY <2>2 , EncodingAssumption DEF BeginRle, TypeOK, decVars, Inside
  <2>3. ASSUME NEW c \in Colours, CountPixel(c) PROVE TypeOK'
    <3>1. at' \in (0..(rect.w - 1)) \X Nat /\ encoder' \in {"scan", "flush"}
      BY <2>3, NextPixel DEF CountPixel, Advance
    <3>2. rle_cnt' \in 0..RleMax
      BY <2>3, EncodingAssumption DEF CountPixel, RunFull, TypeOK
    <3>3. read' \in [Inside -> Colours \cup {Blank}]
      BY <2>3 DEF CountPixel, TypeOK
    <3> QED BY <2>3, <3>1, <3>2, <3>3 DEF CountPixel, TypeOK, decVars, Inside
  <2>4. ASSUME NEW c \in Colours, NEW d \in Colours, EmitRun(c, d) PROVE TypeOK'
    <3>1. word' \in Words
      BY <2>4, Bytes DEF EmitRun, Words, TypeOK
    <3>2. at' \in (0..(rect.w - 1)) \X Nat /\ encoder' \in {"scan", "flush"}
      BY <2>4, NextPixel DEF EmitRun, Advance
    <3>3. read' \in [Inside -> Colours \cup {Blank}]
      BY <2>4 DEF EmitRun, TypeOK
    <3>4. torn' \in BOOLEAN
      BY <2>4 DEF EmitRun, TypeOK
    <3> QED
      BY <2>4, <3>1, <3>2, <3>3, <3>4, EncodingAssumption
      DEF EmitRun, NextRun, TypeOK, Inside
  <2>5. CASE Flush
    <3>1. word' \in Words
      BY <2>5, Bytes DEF Flush, Words, TypeOK
    <3> QED BY <2>5, <3>1 DEF Flush, TypeOK, Inside
  <2>6. CASE WritePixel
    <3>1. word' \in Words /\ word.val \in Colours \cup {Blank}
      <4>1. word = [val |-> word.val, left |-> word.left] /\ word.left \in Nat
              /\ word.val \in Colours \cup {Blank}
        BY DEF TypeOK, Words
      <4>2. CASE word.left = 1
        BY <2>6, <4>1, <4>2 DEF WritePixel, Words, NoWord
      <4>3. CASE word.left # 1
        <5>1. word' = [val |-> word.val, left |-> word.left - 1] /\ word.left - 1 \in Nat
          BY <2>6, <4>1, <4>3 DEF WritePixel
        <5> QED BY <5>1, <4>1 DEF Words
      <4> QED BY <4>2, <4>3, <4>1
    <3>2. frame' \in [Screen -> Colours \cup {Blank}]
      BY <2>6, <3>1 DEF WritePixel, TypeOK
    <3>3. dx' \in 0..(rect.w - 1) /\ dy' \in 0..(Height - 1)
      <4>1. dx \in 0..(rect.w - 1) /\ dy \in 0..(Height - 1) /\ rect.w \in Nat \ {0}
        BY Sizes DEF TypeOK
      <4> QED BY <2>6, <4>1, EncodingAssumption DEF WritePixel, EndOfRow
    <3>4. done' \in BOOLEAN
      <4>1. CASE EndOfRow
        BY <2>6, <4>1 DEF WritePixel
      <4>2. CASE ~EndOfRow
        BY <2>6, <4>2 DEF WritePixel, TypeOK
      <4> QED BY <4>1, <4>2
    <3> QED BY <2>6, <3>1, <3>2, <3>3, <3>4 DEF WritePixel, TypeOK, encVars, Inside
  <2>7. CASE IgnoreWord
    BY <2>7 DEF IgnoreWord, TypeOK, encVars, Inside, NoWord, Words
  <2>8. CASE UNCHANGED vars
    BY <2>8 DEF vars, encVars, decVars, TypeOK, Inside
  <2> QED BY <2>1, <2>2, <2>3, <2>4, <2>5, <2>6, <2>7, <2>8 DEF Next
<1> QED BY <1>1, <1>2, PTL DEF Spec

----------------------------------------------------------------------------
\* The pixel p of the rect is on the screen, and p is the only one there.
LEMMA Places ==
  ASSUME TypeOK
  PROVE  /\ \A p \in Inside : /\ OnScreen(p) \in Screen
                              /\ Index(p, rect.w) \in Nat /\ Index(p, rect.w) < Size
         /\ \A p, q \in Inside : /\ Index(p, rect.w) = Index(q, rect.w) => p = q
                                 /\ OnScreen(p) = OnScreen(q) => p = q
<1>1. ASSUME NEW p \in Inside
      PROVE  /\ p = <<p[1], p[2]>> /\ p[1] \in 0..(rect.w - 1) /\ p[2] \in 0..(rect.h - 1)
             /\ p[2] \in Nat /\ p[2] < rect.h
  BY Sizes DEF Inside
<1>2. ASSUME NEW p \in Inside PROVE OnScreen(p) \in Screen
  <2>1. rect.x + p[1] \in 0..(Width - 1) /\ rect.y + p[2] \in 0..(Height - 1)
    BY <1>1, Sizes, EncodingAssumption
  <2> QED BY <2>1 DEF OnScreen, Screen
<1>3. ASSUME NEW p \in Inside PROVE Index(p, rect.w) \in Nat /\ Index(p, rect.w) < Size
  BY <1>1, Sizes, IndexInside DEF Size
<1>4. ASSUME NEW p \in Inside, NEW q \in Inside, Index(p, rect.w) = Index(q, rect.w) PROVE p = q
  <2>1. p[2] = q[2] /\ p[1] = q[1]
    BY <1>1, <1>4, Sizes, IndexIsUnique
  <2> QED BY <2>1, <1>1
<1>5. ASSUME NEW p \in Inside, NEW q \in Inside, OnScreen(p) = OnScreen(q) PROVE p = q
  <2>1. rect.x + p[1] = rect.x + q[1] /\ rect.y + p[2] = rect.y + q[2]
    BY <1>5 DEF OnScreen
  <2>2. p[1] = q[1] /\ p[2] = q[2]
    BY <2>1, <1>1, Sizes
  <2> QED BY <2>2, <1>1
<1> QED BY <1>2, <1>3, <1>4, <1>5

\* The encoder's step to the next pixel of the rect.
LEMMA Step ==
  ASSUME TypeOK, Stages, encoder = "scan", Advance, rect' = rect
  PROVE  /\ at \in Inside /\ Taken \in Nat /\ Taken < Size /\ Taken' = Taken + 1
         /\ encoder' = "scan" => at'[2] < rect.h
         /\ encoder' = "flush" => at' = <<0, rect.h>>
         /\ encoder' \in {"scan", "flush"}
<1>1. /\ at = <<at[1], at[2]>> /\ at[1] \in 0..(rect.w - 1) /\ at[2] \in Nat
      /\ at[2] < rect.h
  BY DEF TypeOK, Stages
<1>2. at \in Inside
  BY <1>1, Sizes DEF Inside
<1>3. Taken' = Taken + 1
  <2>1. Taken = Index(<<at[1], at[2]>>, rect.w) /\ Taken' = Index(Following(at), rect.w)
    BY <1>1 DEF Taken, Advance
  <2>2. CASE at[1] + 1 < rect.w
    <3>1. Following(at) = <<at[1] + 1, at[2]>>
      BY <2>2 DEF Following
    <3>2. Index(<<at[1] + 1, at[2]>>, rect.w) = Index(<<at[1], at[2]>>, rect.w) + 1
      <4>1. rect.w \in Nat /\ at[2] \in Nat /\ at[1] \in 0..(rect.w - 1)
        BY <1>1, Sizes
      <4> QED BY <2>2, <4>1, IndexFollowing
    <3> QED BY <2>1, <3>1, <3>2
  <2>3. CASE ~(at[1] + 1 < rect.w)
    <3>1. Following(at) = <<0, at[2] + 1>>
      BY <2>3 DEF Following
    <3>2. Index(<<0, at[2] + 1>>, rect.w) = Index(<<at[1], at[2]>>, rect.w) + 1
      <4>1. rect.w \in Nat /\ at[2] \in Nat /\ at[1] \in 0..(rect.w - 1)
        BY <1>1, Sizes
      <4> QED BY <2>3, <4>1, IndexFollowing
    <3> QED BY <2>1, <3>1, <3>2
  <2> QED BY <2>2, <2>3
<1>4. Following(at)[2] < rect.h \/ Following(at) = <<0, rect.h>>
  BY <1>1, Sizes DEF Following
<1> QED BY <1>2, <1>3, <1>4, Places DEF Advance, Taken

(* Where the encoder and the decoder are at each stage.                         *)
LEMMA StagesStep == TypeOK /\ Stages /\ [Next]_vars => Stages'
<1> SUFFICES ASSUME TypeOK, Stages, [Next]_vars PROVE Stages'
  OBVIOUS
<1>1. ASSUME NEW pixels \in [Inside -> Colours], SendRaw(pixels) PROVE Stages'
  BY <1>1 DEF SendRaw, Stages, Scanning, Compressed
<1>2. ASSUME NEW c \in Colours, BeginRle(c) PROVE Stages'
  BY <1>2, Sizes DEF BeginRle, Stages, Scanning, Compressed, decVars
<1>3. ASSUME NEW c \in Colours, CountPixel(c) PROVE Stages'
  BY <1>3, Step DEF CountPixel, Stages, Scanning, Compressed, decVars
<1>4. ASSUME NEW c \in Colours, NEW d \in Colours, EmitRun(c, d) PROVE Stages'
  BY <1>4, Step DEF EmitRun, NextRun, Stages, Scanning, Compressed
<1>5. CASE Flush
  BY <1>5 DEF Flush, Stages, Scanning, Compressed
<1>6. CASE WritePixel
  <2>1. encoder # "start" /\ ~(encoder = "end" /\ ~Compressed(rect))
    BY <1>6 DEF WritePixel, Stages, NoWord
  <2>2. rect'.y <= dy'
    BY <1>6, Sizes DEF WritePixel, Stages, TypeOK
  <2> QED BY <1>6, <2>1, <2>2 DEF WritePixel, encVars, Stages, Scanning, Compressed
<1>7. CASE IgnoreWord
  BY <1>7 DEF IgnoreWord, encVars, Stages, Scanning, Compressed, NoWord
<1>8. CASE UNCHANGED vars
  BY <1>8 DEF vars, encVars, decVars, Stages, Scanning, Compressed
<1> QED BY <1>1, <1>2, <1>3, <1>4, <1>5, <1>6, <1>7, <1>8 DEF Next

----------------------------------------------------------------------------
LEMMA StartTrips == Init => Stages /\ RoundTrip
<1> SUFFICES ASSUME Init PROVE Stages /\ RoundTrip
  OBVIOUS
<1>1. Stages
  BY EncodingAssumption DEF Init, Stages, Scanning, Rects
<1>2. Counted /\ Coloured
  BY DEF Init, Counted, Coloured, Scanning
<1>3. Untouched
  BY DEF Init, Untouched
<1> QED BY <1>1, <1>2, <1>3 DEF RoundTrip

\* A rect that is sent raw.
LEMMA RawTrips ==
  ASSUME TypeOK, Stages, RoundTrip, ~torn, NEW pixels \in [Inside -> Colours], SendRaw(pixels)
  PROVE  (Counted /\ Coloured /\ Untouched)'
<1>1. Inside' = Inside /\ rect' = rect /\ encoder' = "end" /\ ~Compressed(rect)
  BY DEF SendRaw, Inside
<1>2. Counted'
  BY <1>1 DEF Counted, Scanning, Compressed
<1>3. ASSUME NEW p \in Inside PROVE Shown(p)'
  <2>1. OnScreen(p) \in Screen
    BY Places
  <2>2. <<OnScreen(p)[1] - rect.x, OnScreen(p)[2] - rect.y>> = p
    BY Sizes DEF OnScreen, Inside
  <2>3. frame'[OnScreen(p)] = pixels[p]
    BY <2>1, <2>2 DEF SendRaw
  <2> QED BY <1>1, <2>1, <2>3 DEF SendRaw, Shown, OnScreen
<1>4. Coloured'
  BY <1>1, <1>3 DEF Coloured, Scanning, Compressed
<1>5. ASSUME NEW p \in Screen, \A q \in Inside : p # OnScreen(q) PROVE frame'[p] = Blank
  <2> DEFINE q == <<p[1] - rect.x, p[2] - rect.y>>
  <2>1. OnScreen(q) = p
    BY Sizes, EncodingAssumption DEF OnScreen, Screen
  <2>2. q \notin Inside
    BY <1>5, <2>1
  <2>3. frame'[p] = frame[p]
    BY <2>2 DEF SendRaw
  <2> QED BY <1>5, <2>3 DEF Untouched, RoundTrip
<1>6. Untouched'
  BY <1>1, <1>5 DEF Untouched, OnScreen
<1> QED BY <1>2, <1>4, <1>6

LEMMA BeginTrips ==
  ASSUME TypeOK, Stages, RoundTrip, ~torn, NEW c \in Colours, BeginRle(c)
  PROVE  (Counted /\ Coloured /\ Untouched)'
<1>1. /\ Inside' = Inside /\ rect' = rect /\ encoder' = "scan" /\ frame' = frame
      /\ word' = NoWord /\ at' = <<0, 0>>
  BY DEF BeginRle, Inside, decVars, Stages
<1>2. Written' = 0 /\ Taken' = 0 /\ Run' = 0 /\ rle_cnt' = 0
  BY <1>1, Sizes DEF BeginRle, decVars, Stages, Written, Taken, Run, Index
<1>3. Counted'
  BY <1>1, <1>2 DEF Counted, NoWord
<1>4. Coloured'
  <2> SUFFICES ASSUME NEW p \in Inside PROVE ~(Index(p, rect.w) < 0)
    BY <1>1, <1>2 DEF Coloured, Scanning, NoWord
  <2> QED BY Places
<1>5. Untouched'
  BY <1>1 DEF Untouched, OnScreen, RoundTrip
<1> QED BY <1>3, <1>4, <1>5

LEMMA Numbers ==
  ASSUME TypeOK, Stages
  PROVE  /\ dx \in 0..(rect.w - 1) /\ dy - rect.y \in Nat
         /\ Written \in Nat /\ Run \in Int
         /\ ~done => Written = Index(<<dx, dy - rect.y>>, rect.w)
         /\ word.left \in Nat /\ rle_cnt \in 0..RleMax /\ rle_cnt \in Nat /\ rle_sub \in {0, 1}
<1>1. dx \in 0..(rect.w - 1) /\ dy - rect.y \in Nat
  BY Sizes, EncodingAssumption DEF TypeOK, Stages
<1>2. Index(<<dx, dy - rect.y>>, rect.w) \in Nat
  BY <1>1, Sizes, IndexInside
<1>3. word.left \in Nat /\ rle_cnt \in 0..RleMax /\ rle_cnt \in Nat /\ rle_sub \in {0, 1}
  BY EncodingAssumption DEF TypeOK, Words
<1> QED BY <1>1, <1>2, <1>3, Sizes DEF Written, Run

\* The first pixel is counted, so the counter makes up for rle_sub.
LEMMA RunIsNatural ==
  ASSUME TypeOK, Stages, Counted, Scanning
  PROVE  Run \in Nat /\ (Taken \in Nat /\ Taken > 0 => rle_cnt - rle_sub \in 0..RleMax)
<1>1. Run \in Nat
  BY Numbers DEF Run
<1>2. CASE rle_sub = 0
  BY <1>1, <1>2, Numbers
<1>3. CASE rle_sub = 1
  BY <1>1, <1>3, Numbers, EncodingAssumption DEF Counted
<1> QED BY <1>2, <1>3, Numbers

LEMMA CountTrips ==
  ASSUME TypeOK, Stages, RoundTrip, ~torn, NEW c \in Colours, CountPixel(c)
  PROVE  (Counted /\ Coloured /\ Untouched)'
<1>1. /\ Inside' = Inside /\ rect' = rect /\ frame' = frame /\ word' = word
      /\ Written' = Written /\ word.left = 0 /\ encoder = "scan" /\ Scanning
      /\ last_pix' = last_pix /\ rle_sub' = rle_sub /\ rle_cnt' = rle_cnt + 1 /\ c = last_pix
  BY DEF CountPixel, Inside, decVars, Written, NoWord, Size, Scanning
<1>2. /\ at \in Inside /\ Taken \in Nat /\ Taken' = Taken + 1 /\ encoder' \in {"scan", "flush"}
  BY <1>1, Step DEF CountPixel
<1>3. /\ Run' = Run + 1 /\ Written + Run = Taken /\ (rle_sub = 1 => rle_cnt = Taken)
      /\ Written <= Taken
  <2>1. Run' = Run + 1
    BY <1>1, Numbers DEF Run
  <2>2. Counted /\ Run \in Nat
    BY <1>1, RunIsNatural DEF RoundTrip
  <2>3. Written + Run = Taken /\ (rle_sub = 1 => rle_cnt = Taken)
    BY <1>1, <2>2, Numbers DEF Counted
  <2> QED BY <2>1, <2>2, <2>3, <1>2, Numbers
<1>4. Counted'
  BY <1>1, <1>2, <1>3, Numbers DEF Counted, Scanning
<1>5. ASSUME NEW p \in Inside
      PROVE  /\ Index(p, rect.w) # Taken => p # at /\ read'[p] = read[p]
             /\ Index(p, rect.w) = Taken => p = at /\ read'[p] = last_pix
             /\ Index(p, rect.w) \in Nat
  BY <1>1, <1>2, Places DEF Taken, CountPixel, TypeOK
<1>6. Coloured'
  <2> SUFFICES ASSUME NEW p \in Inside
               PROVE  /\ Index(p, rect.w) < Written => Shown(p)'
                      /\ Written <= Index(p, rect.w) /\ Index(p, rect.w) < Taken + 1
                           => read'[p] = last_pix
    <3>1. encoder' # "end" /\ word'.left = 0 /\ Written + 0 = Written
      BY <1>1, <1>2, Numbers
    <3>2. \A p \in Inside : ~(Written <= Index(p, rect.w) /\ Index(p, rect.w) < Written)
      BY <1>5, Numbers
    <3> QED BY <1>1, <1>2, <3>1, <3>2 DEF Coloured, Scanning
  <2>1. ASSUME Index(p, rect.w) < Written PROVE Shown(p)'
    BY <1>1, <1>2, <1>3, <1>5, <2>1, Numbers DEF Coloured, RoundTrip, Shown, OnScreen, Screen
  <2>2. ASSUME Written <= Index(p, rect.w), Index(p, rect.w) < Taken + 1
        PROVE  read'[p] = last_pix
    BY <1>1, <1>2, <1>3, <1>5, <2>2, Numbers DEF Coloured, RoundTrip
  <2> QED BY <2>1, <2>2
<1>7. Untouched'
  BY <1>1 DEF Untouched, OnScreen, RoundTrip
<1> QED BY <1>4, <1>6, <1>7

LEMMA EmitTrips ==
  ASSUME TypeOK, Stages, RoundTrip, ~torn', NEW c \in Colours, NEW d \in Colours, EmitRun(c, d)
  PROVE  (Counted /\ Coloured /\ Untouched)'
<1>1. /\ Inside' = Inside /\ rect' = rect /\ frame' = frame /\ ~torn /\ at # <<0, 0>>
      /\ Written' = Written /\ word.left = 0 /\ encoder = "scan" /\ Scanning
      /\ last_pix' = d /\ rle_sub' = 0 /\ rle_cnt' = 0 /\ Run' = 1
      /\ word' = [val |-> last_pix, left |-> Byte(rle_cnt - rle_sub) + 1]
  <2>1. ~torn /\ at # <<0, 0>>
    BY DEF EmitRun, TypeOK
  <2>2. /\ Inside' = Inside /\ rect' = rect /\ frame' = frame /\ encoder = "scan" /\ Scanning
        /\ Written' = Written
    BY DEF EmitRun, Inside, Written, Size, Scanning
  <2>3. /\ last_pix' = d /\ rle_sub' = 0 /\ rle_cnt' = 0 /\ Run' = 1
    BY DEF EmitRun, NextRun, Run
  <2>4. word.left = 0 /\ word' = [val |-> last_pix, left |-> Byte(rle_cnt - rle_sub) + 1]
    BY DEF EmitRun, NoWord
  <2> QED BY <2>1, <2>2, <2>3, <2>4
<1>2. /\ at \in Inside /\ Taken \in Nat /\ Taken' = Taken + 1 /\ encoder' \in {"scan", "flush"}
  BY <1>1, Step DEF EmitRun
<1>3. Taken > 0
  <2>1. <<0, 0>> \in Inside /\ Index(<<0, 0>>, rect.w) = 0
    BY Sizes DEF Inside, Index
  <2> QED BY <1>1, <1>2, <2>1, Places DEF Taken
<1>4. Counted
  BY <1>1 DEF RoundTrip
<1>5. word'.left = Run /\ Run \in Nat /\ Written + Run = Taken
  BY <1>1, <1>2, <1>3, <1>4, Numbers, RunIsNatural, Bytes DEF Counted, Run
<1>6. Counted'
  BY <1>1, <1>2, <1>5, Numbers DEF Counted, Scanning
<1>7. ASSUME NEW p \in Inside
      PROVE  /\ Index(p, rect.w) # Taken => p # at /\ read'[p] = read[p]
             /\ Index(p, rect.w) = Taken => p = at /\ read'[p] = d
             /\ Index(p, rect.w) \in Nat
  BY <1>1, <1>2, Places DEF Taken, EmitRun, TypeOK
<1>8. Coloured'
  <2> SUFFICES ASSUME NEW p \in Inside
               PROVE  /\ Index(p, rect.w) < Written => Shown(p)'
                      /\ Written <= Index(p, rect.w) /\ Index(p, rect.w) < Taken
                           => read'[p] = last_pix
                      /\ Index(p, rect.w) = Taken => read'[p] = d
    BY <1>1, <1>2, <1>5, <1>7, Numbers DEF Coloured, Scanning
  <2>1. ASSUME Index(p, rect.w) < Written PROVE Shown(p)'
    BY <1>1, <1>2, <1>5, <1>7, <2>1, Numbers DEF Coloured, RoundTrip, Shown, OnScreen, Screen
  <2>2. ASSUME Written <= Index(p, rect.w), Index(p, rect.w) < Taken PROVE read'[p] = last_pix
    BY <1>1, <1>2, <1>5, <1>7, <2>2, Numbers DEF Coloured, RoundTrip
  <2> QED BY <2>1, <2>2, <1>7
<1>9. Untouched'
  BY <1>1 DEF Untouched, OnScreen, RoundTrip
<1> QED BY <1>6, <1>8, <1>9

LEMMA FlushTrips ==
  ASSUME TypeOK, Stages, RoundTrip, ~torn, Flush
  PROVE  (Counted /\ Coloured /\ Untouched)'
<1>1. /\ Inside' = Inside /\ rect' = rect /\ frame' = frame /\ read' = read
      /\ Written' = Written /\ word.left = 0 /\ Scanning /\ encoder' = "end"
      /\ Compressed(rect) /\ at = <<0, rect.h>>
      /\ word' = [val |-> last_pix, left |-> Byte(rle_cnt) + 1]
  BY DEF Flush, Inside, Written, NoWord, Size, Scanning, Stages
<1>2. Taken = Size
  BY <1>1, Sizes, Rows DEF Taken, Index, Size
<1>3. rle_sub = 0
  <2>1. Size > RleMax
    BY <1>1, Sizes, EncodingAssumption DEF Compressed, Size
  <2> QED BY <1>1, <1>2, <2>1, Numbers, EncodingAssumption DEF Counted, RoundTrip
<1>4. word'.left = Run /\ Run \in Nat /\ Written + Run = Size
  BY <1>1, <1>2, <1>3, Numbers, RunIsNatural, Bytes DEF Counted, RoundTrip, Run
<1>5. Counted'
  BY <1>1, <1>4 DEF Counted, Scanning, Size
<1>6. ASSUME NEW p \in Inside
      PROVE  /\ Index(p, rect.w) < Written => Shown(p)
             /\ Written <= Index(p, rect.w) => read[p] = last_pix
  BY <1>1, <1>2, Places, Numbers DEF Coloured, RoundTrip
<1>7. Coloured'
  BY <1>1, <1>6 DEF Coloured, Scanning, Shown, OnScreen, Screen, Compressed
<1>8. Untouched'
  BY <1>1 DEF Untouched, OnScreen, RoundTrip
<1> QED BY <1>5, <1>7, <1>8

\* The pixel the decoder writes next, and the one after it.
LEMMA WriteStep ==
  ASSUME TypeOK, Stages, Counted, WritePixel
  PROVE  /\ Scanning \/ (encoder = "end" /\ Compressed(rect))
         /\ <<dx, dy - rect.y>> \in Inside /\ Index(<<dx, dy - rect.y>>, rect.w) = Written
         /\ OnScreen(<<dx, dy - rect.y>>) = <<rect.x + dx, dy>>
         /\ Written' = Written + 1
<1>1. Scanning \/ (encoder = "end" /\ Compressed(rect))
  BY DEF WritePixel, Stages, NoWord, Scanning, TypeOK
<1>2. Written < Size
  <2>1. CASE Scanning
    <3>1. Taken \in Nat /\ Taken <= Size
      <4>1. CASE encoder = "scan"
        <5>1. at = <<at[1], at[2]>> /\ at \in Inside
          BY <4>1, Sizes DEF TypeOK, Stages, Inside
        <5> QED BY <5>1, Places, Sizes DEF Taken
      <4>2. CASE encoder = "flush"
        BY <4>2, Sizes, Rows DEF Stages, Taken, Index, Size
      <4> QED BY <2>1, <4>1, <4>2 DEF Scanning
    <3>2. Run \in Nat /\ Written + word.left + Run = Taken /\ word.left > 0
      BY <2>1, RunIsNatural DEF Counted, WritePixel
    <3> QED BY <3>1, <3>2, Numbers, Sizes
  <2>2. CASE encoder = "end" /\ Compressed(rect)
    BY <2>2, Numbers, Sizes DEF Counted, WritePixel
  <2> QED BY <1>1, <2>1, <2>2
<1>3. ~done /\ Index(<<dx, dy - rect.y>>, rect.w) = Written
  BY Numbers DEF WritePixel
<1>4. dy - rect.y \in Nat /\ dy - rect.y < rect.h /\ dx \in 0..(rect.w - 1)
  BY <1>2, <1>3, Numbers, Sizes, IndexInside DEF Size
<1>5. <<dx, dy - rect.y>> \in Inside
  BY <1>4, Sizes DEF Inside
<1>6. OnScreen(<<dx, dy - rect.y>>) = <<rect.x + dx, dy>>
  BY <1>4, Sizes, EncodingAssumption DEF OnScreen, TypeOK
<1>7. Written' = Written + 1
  <2>1. rect' = rect /\ dy \in Nat /\ rect.y \in Nat
    BY Sizes, EncodingAssumption DEF WritePixel, TypeOK
  <2>2. CASE ~EndOfRow
    <3>1. ~done' /\ dx' = dx + 1 /\ dy' = dy /\ dx + 1 < rect.w
      BY <1>3, <1>4, <2>2, Sizes DEF WritePixel, EndOfRow
    <3>2. Written' = Index(<<dx + 1, dy - rect.y>>, rect.w)
      BY <2>1, <3>1 DEF Written
    <3>3. Index(<<dx + 1, dy - rect.y>>, rect.w) = Index(<<dx, dy - rect.y>>, rect.w) + 1
      <4>1. rect.w \in Nat /\ dy - rect.y \in Nat /\ dx \in 0..(rect.w - 1)
        BY <1>4, Sizes
      <4> QED BY <3>1, <4>1, IndexFollowing
    <3> QED BY <1>3, <3>2, <3>3
  <2>3. CASE EndOfRow /\ dy + 1 < Height
    <3>1. ~done' /\ dx' = 0 /\ dy' = dy + 1 /\ ~(dx + 1 < rect.w)
      <4>1. ~(dy + 1 >= Height) /\ ~(dx + 1 < rect.w)
        BY <1>4, <2>1, <2>3, Sizes, EncodingAssumption DEF EndOfRow
      <4>2. done' = (dy + 1 >= Height)
        BY <2>3 DEF WritePixel
      <4>3. dx' = 0 /\ dy' = dy + 1
        BY <2>3 DEF WritePixel
      <4> QED BY <4>1, <4>2, <4>3
    <3>2. Written' = Index(<<0, (dy - rect.y) + 1>>, rect.w)
      BY <2>1, <3>1 DEF Written
    <3>3. Index(<<0, (dy - rect.y) + 1>>, rect.w) = Index(<<dx, dy - rect.y>>, rect.w) + 1
      <4>1. rect.w \in Nat /\ dy - rect.y \in Nat /\ dx \in 0..(rect.w - 1)
        BY <1>4, Sizes
      <4> QED BY <3>1, <4>1, IndexFollowing
    <3> QED BY <1>3, <3>2, <3>3
  <2>4. CASE EndOfRow /\ dy + 1 >= Height
    <3>1. done' /\ ~(dx + 1 < rect.w) /\ (dy - rect.y) + 1 = rect.h
      <4>1. ~(dx + 1 < rect.w) /\ (dy - rect.y) + 1 = rect.h
        BY <1>4, <2>1, <2>4, Sizes, EncodingAssumption DEF EndOfRow
      <4>2. done' = (dy + 1 >= Height)
        BY <2>4 DEF WritePixel
      <4> QED BY <2>4, <4>1, <4>2
    <3>2. Written' = Index(<<0, (dy - rect.y) + 1>>, rect.w)
      BY <2>1, <3>1, Sizes, Rows DEF Written, Size, Index
    <3>3. Index(<<0, (dy - rect.y) + 1>>, rect.w) = Index(<<dx, dy - rect.y>>, rect.w) + 1
      <4>1. rect.w \in Nat /\ dy - rect.y \in Nat /\ dx \in 0..(rect.w - 1)
        BY <1>4, Sizes
      <4> QED BY <3>1, <4>1, IndexFollowing
    <3> QED BY <1>3, <3>2, <3>3
  <2> QED BY <2>1, <2>2, <2>3, <2>4, EncodingAssumption
<1> QED BY <1>1, <1>3, <1>5, <1>6, <1>7

LEMMA WriteTrips ==
  ASSUME TypeOK, Stages, RoundTrip, ~torn, WritePixel
  PROVE  (Counted /\ Coloured /\ Untouched)'
<1> DEFINE now == <<dx, dy - rect.y>>
<1>1. Counted /\ Coloured /\ Untouched
  BY DEF RoundTrip
<1>2. /\ Inside' = Inside /\ rect' = rect /\ read' = read /\ last_pix' = last_pix
      /\ encoder' = encoder /\ Scanning' = Scanning /\ Taken' = Taken /\ Run' = Run
      /\ Size' = Size /\ rle_sub' = rle_sub /\ rle_cnt' = rle_cnt /\ word.left > 0
      /\ frame' = [frame EXCEPT ![<<rect.x + dx, dy>>] = word.val]
  BY DEF WritePixel, encVars, Inside, Scanning, Taken, Run, Size
<1>3. /\ Scanning \/ (encoder = "end" /\ Compressed(rect))
      /\ now \in Inside /\ Index(now, rect.w) = Written /\ OnScreen(now) = <<rect.x + dx, dy>>
      /\ Written' = Written + 1
  BY <1>1, WriteStep
<1>4. word'.left = word.left - 1 /\ (word'.left > 0 => word'.val = word.val)
  <2>1. word = [val |-> word.val, left |-> word.left] /\ word.left \in Nat
    BY DEF TypeOK, Words
  <2>2. CASE word.left = 1
    BY <2>1, <2>2 DEF WritePixel, NoWord
  <2>3. CASE word.left # 1
    BY <2>1, <2>3 DEF WritePixel
  <2> QED BY <2>2, <2>3
<1>5. Written' + word'.left = Written + word.left
  BY <1>3, <1>4, Numbers
<1>6. Counted'
  BY <1>1, <1>2, <1>5 DEF Counted, Compressed
<1>7. ASSUME NEW p \in Inside
      PROVE  /\ OnScreen(p) \in Screen /\ Index(p, rect.w) \in Nat
             /\ Index(p, rect.w) = Written => p = now /\ frame'[OnScreen(p)] = word.val
             /\ Index(p, rect.w) # Written => frame'[OnScreen(p)] = frame[OnScreen(p)]
  BY <1>2, <1>3, Places DEF TypeOK
<1>8. Coloured'
  <2> SUFFICES ASSUME NEW p \in Inside
               PROVE  /\ Index(p, rect.w) < Written' => frame'[OnScreen(p)] = read[p]
                      /\ Written' <= Index(p, rect.w) /\ Index(p, rect.w) < Written' + word'.left
                           => read[p] = word'.val
                      /\ Scanning /\ Written' + word'.left <= Index(p, rect.w)
                           /\ Index(p, rect.w) < Taken => read[p] = last_pix
    BY <1>2, <1>3, <1>7 DEF Coloured, Shown, OnScreen, Screen, Compressed, Scanning
  <2>1. ASSUME Index(p, rect.w) < Written' PROVE frame'[OnScreen(p)] = read[p]
    <3>1. CASE Index(p, rect.w) = Written
      BY <1>1, <1>2, <1>3, <1>7, <3>1, Numbers DEF Coloured
    <3>2. CASE Index(p, rect.w) # Written
      BY <1>1, <1>2, <1>3, <1>7, <2>1, <3>2, Numbers DEF Coloured, Shown
    <3> QED BY <3>1, <3>2
  <2>2. ASSUME Written' <= Index(p, rect.w), Index(p, rect.w) < Written' + word'.left
        PROVE  read[p] = word'.val
    BY <1>1, <1>3, <1>4, <1>5, <1>7, <2>2, Numbers DEF Coloured
  <2>3. ASSUME Scanning, Written' + word'.left <= Index(p, rect.w), Index(p, rect.w) < Taken
        PROVE  read[p] = last_pix
    BY <1>1, <1>5, <2>3 DEF Coloured
  <2> QED BY <2>1, <2>2, <2>3
<1>9. Untouched'
  <2> SUFFICES ASSUME NEW p \in Screen, \A q \in Inside : p # OnScreen(q) PROVE frame'[p] = Blank
    BY <1>2 DEF Untouched, OnScreen, Screen
  <2>1. p # <<rect.x + dx, dy>>
    BY <1>3
  <2> QED BY <1>1, <1>2, <2>1 DEF Untouched, TypeOK
<1> QED BY <1>6, <1>8, <1>9

LEMMA IgnoreTrips ==
  ASSUME TypeOK, Stages, RoundTrip, ~torn, IgnoreWord
  PROVE  (Counted /\ Coloured /\ Untouched)'
<1> SUFFICES FALSE
  OBVIOUS
<1>1. Counted /\ word.left > 0 /\ Written = Size
  BY DEF RoundTrip, IgnoreWord, Written
<1>2. Scanning \/ (encoder = "end" /\ Compressed(rect))
  BY DEF IgnoreWord, Stages, NoWord, Scanning, TypeOK
<1>3. Scanning => Taken \in Nat /\ Taken <= Size
  <2>1. CASE encoder = "scan"
    <3>1. at = <<at[1], at[2]>> /\ at \in Inside
      BY <2>1, Sizes DEF TypeOK, Stages, Inside
    <3> QED BY <3>1, Places, Sizes DEF Taken
  <2>2. CASE encoder = "flush"
    BY <2>2, Sizes, Rows DEF Stages, Taken, Index, Size
  <2> QED BY <2>1, <2>2 DEF Scanning
<1>4. Scanning => Run \in Nat
  BY <1>1, RunIsNatural
<1> QED BY <1>1, <1>2, <1>3, <1>4, Numbers, Sizes DEF Counted

LEMMA TripStep == TypeOK /\ Stages /\ RoundTrip /\ [Next]_vars => RoundTrip'
<1> SUFFICES ASSUME TypeOK, Stages, RoundTrip, [Next]_vars, ~torn'
             PROVE  (Counted /\ Coloured /\ Untouched)'
  BY DEF RoundTrip
<1> DEFINE Goal == (Counted /\ Coloured /\ Untouched)'
<1>1. ASSUME NEW pixels \in [Inside -> Colours], SendRaw(pixels) PROVE Goal
  <2>1. ~torn
    BY <1>1 DEF SendRaw
  <2> QED BY <1>1, <2>1, RawTrips
<1>2. ASSUME NEW c \in Colours, BeginRle(c) PROVE Goal
  <2>1. ~torn
    BY <1>2 DEF BeginRle
  <2> QED BY <1>2, <2>1, BeginTrips
<1>3. ASSUME NEW c \in Colours, CountPixel(c) PROVE Goal
  <2>1. ~torn
    BY <1>3 DEF CountPixel
  <2> QED BY <1>3, <2>1, CountTrips
<1>4. ASSUME NEW c \in Colours, NEW d \in Colours, EmitRun(c, d) PROVE Goal
  BY <1>4, EmitTrips
<1>5. CASE Flush
  <2>1. ~torn
    BY <1>5 DEF Flush
  <2> QED BY <1>5, <2>1, FlushTrips
<1>6. CASE WritePixel
  <2>1. ~torn
    BY <1>6 DEF WritePixel, encVars
  <2> QED BY <1>6, <2>1, WriteTrips
<1>7. CASE IgnoreWord
  <2>1. ~torn
    BY <1>7 DEF IgnoreWord, encVars
  <2> QED BY <1>7, <2>1, IgnoreTrips
<1>8. CASE UNCHANGED vars
  <2>1. Counted /\ Coloured /\ Untouched
    BY <1>8 DEF RoundTrip, vars, encVars
  <2> QED BY <1>8, <2>1 DEF vars, encVars, decVars, Counted, Coloured, Untouched, Scanning,
             Written, Taken, Run, Size, Shown, OnScreen, Inside, Compressed
<1> QED BY <1>1, <1>2, <1>3, <1>4, <1>5, <1>6, <1>7, <1>8 DEF Next

(* What is encoded is what is decoded, pixel by pixel and run by run, as long   *)
(* as both reads of the first pixel agree (DemoServer.cpp:377-420,               *)
(* RfbLZORLE.cpp:118-145).                                                       *)
THEOREM TripInvariant == Spec => [](TypeOK /\ Stages /\ RoundTrip)
<1>1. Init => Stages /\ RoundTrip
  BY StartTrips
<1>2. TypeOK /\ Stages /\ RoundTrip /\ [Next]_vars => (Stages /\ RoundTrip)'
  BY StagesStep, TripStep
<1> QED BY <1>1, <1>2, TypeCorrect, PTL DEF Spec

(* The viewer shows each pixel of a rect as the encoder read it                  *)
(* (DemoServer.cpp:394-421).                                                     *)
THEOREM RectsAreShown == Spec => []RectIsShown
<1>1. TypeOK /\ Stages /\ RoundTrip => RectIsShown
  <2> SUFFICES ASSUME TypeOK, Stages, RoundTrip, encoder = "end", word = NoWord, ~torn,
                      NEW p \in Inside
               PROVE  frame[OnScreen(p)] = read[p]
    BY DEF RectIsShown, Decoded
  <2>1. Counted /\ Coloured
    BY DEF RoundTrip
  <2>2. CASE Compressed(rect)
    <3>1. Written = Size
      BY <2>1, <2>2, Numbers DEF Counted, NoWord
    <3> QED BY <2>1, <2>2, <3>1, Places DEF Coloured, Shown
  <2>3. CASE ~Compressed(rect)
    BY <2>1, <2>3 DEF Coloured, Shown
  <2> QED BY <2>2, <2>3
<1> QED BY <1>1, TripInvariant, PTL

(* The decoder leaves the pixels outside the rect alone (RfbLZORLE.cpp:127-137). *)
THEOREM OthersAreUntouched == Spec => []OthersUntouched
<1>1. TypeOK /\ Stages /\ RoundTrip => OthersUntouched
  BY DEF RoundTrip, Untouched, OthersUntouched
<1> QED BY <1>1, TripInvariant, PTL

(* A rect ends at the end of a row (RfbLZORLE.cpp:147).                          *)
THEOREM RectsEndWithARow == Spec => []EndsWithARow
<1>1. TypeOK /\ Stages /\ RoundTrip => EndsWithARow
  <2> SUFFICES ASSUME TypeOK, Stages, RoundTrip, encoder = "end", word = NoWord, ~torn
               PROVE  dx = 0
    BY DEF EndsWithARow, Decoded
  <2>1. CASE ~Compressed(rect)
    BY <2>1 DEF Stages
  <2>2. CASE Compressed(rect) /\ ~done
    <3>1. Index(<<dx, dy - rect.y>>, rect.w) = Size
      BY <2>2, Numbers DEF RoundTrip, Counted, NoWord
    <3>2. Index(<<0, rect.h>>, rect.w) = Size
      BY Sizes, Rows DEF Index, Size
    <3>3. Index(<<dx, dy - rect.y>>, rect.w) = Index(<<0, rect.h>>, rect.w)
      BY <3>1, <3>2
    <3>4. /\ 0 \in 0..(rect.w - 1) /\ dx \in 0..(rect.w - 1)
          /\ rect.h \in Nat /\ rect.w \in Nat /\ dy - rect.y \in Nat
      BY Sizes, Numbers
    <3> QED BY <3>3, <3>4, IndexIsUnique
  <2>3. CASE Compressed(rect) /\ done
    BY <2>3 DEF Stages
  <2> QED BY <2>1, <2>2, <2>3
<1> QED BY <1>1, TripInvariant, PTL
=============================================================================
