------------------------------ MODULE ScreenProofs ------------------------------
(***************************************************************************)
(* How frames reach the terminal (Presenter): for any sizes, areas, images *)
(* and graphics protocols, the screen shows the frame that was drawn last, *)
(* and a click does what that frame offers.                                *)
(*                                                                         *)
(* The argument.  While nothing else has touched the terminal, every pixel *)
(* on it belongs to the image the presenter holds (PixelsOwn), and every   *)
(* column shows what last_text says of it (TextTrue): so what is not       *)
(* written again needs no writing.  A frame keeps both (ComposedKeeps): an *)
(* image that comes, moves or goes erases its own columns only, and those  *)
(* are the ones image_changed writes again.  A terminal that was cleared   *)
(* or resized has no pixels, and its text is either unknown to the         *)
(* presenter or excluded by the property (blanked).                        *)
(*                                                                         *)
(* Then, what the user does with what is seen (Navigation): for any tower, *)
(* people, records and clock, markers are filed with their own kind, what  *)
(* changed since the last visit is listed, and a frame shows who was asked *)
(* for.                                                                    *)
(*                                                                         *)
(* The argument.  Between two frames the world changes only the world, and *)
(* each key or click makes a few Moves: to the notebook, the finder, what  *)
(* the next frame is asked for, and the selection (UserMoves).  These keep *)
(* that the rows are of the notebook's channel, or gone, while a "Mark" of *)
(* the last frame can still be clicked (NotebookInv); that who was asked   *)
(* for by name is the person or the find that is pending (AskInv); and     *)
(* that a selection that was not steered is the one that was shown         *)
(* (SelectionInv).  A frame brings all of it up to date (DrawKeeps) and    *)
(* keeps the dates of the visits (VisitInv).                               *)
(***************************************************************************)
EXTENDS Presenter, Navigation, FiniteSetTheorems, SequenceTheorems, TLAPS

Fields == {"surface", "columns", "id", "area", "frame", "text", "changed", "complete"}
Images(p) == p.surface \in {"kitty", "sixel"}

(* A presenter, as far as its shape goes.                                  *)
Shaped(p) ==
  /\ DOMAIN p = Fields /\ p.surface \in {"kitty", "sixel", "off"} /\ p.id \in {1, 2}

(* A screen of n columns.                                                  *)
IsScreen(s, n) == DOMAIN s = 1..n /\ \A c \in 1..n : DOMAIN s[c] = {"text", "pixel"}

(* Pixels are those of the image the presenter holds.                      *)
PixelsOwn(s, p) ==
  \A c \in DOMAIN s : s[c].pixel # Nothing =>
    c \in p.area /\ (p.surface = "kitty" => s[c].pixel.id = 3 - p.id)

NoPixels(s) == \A c \in DOMAIN s : s[c].pixel = Nothing

(* The image that is held, and the text around it.                         *)
Held(p, n) ==
  /\ p.frame = Nothing => p.area = {}
  /\ p.frame # Nothing =>
       /\ p.area = p.frame.area /\ p.area # {} /\ p.area \subseteq 1..n
       /\ p.frame.art \in Arts /\ p.text # Nothing
       /\ DOMAIN p.frame.natives \subseteq p.area
       /\ \A c \in 1..n : p.text[c].skip <=> c \in p.area /\ c \notin DOMAIN p.frame.natives
       /\ \A c \in DOMAIN p.frame.natives : p.text[c] = Cell(p.frame.natives[c], FALSE)

(* Every column shows what last_text says of it.                           *)
TextTrue(s, p, n) ==
  p.text # Nothing => \A c \in 1..n :
    IF p.text[c].skip
    THEN /\ p.frame # Nothing /\ c \in p.area
         /\ s[c].text = Space /\ s[c].pixel # Nothing /\ s[c].pixel.look = p.frame.art
    ELSE /\ s[c].text = p.text[c].glyph
         /\ s[c].text = Space => s[c].pixel = Nothing \/ s[c].pixel.look = Space

(* What the presenter holds is this frame, or an image that stands for it. *)
Holds(p, frame, n) ==
  /\ p.text = Cells(frame.text, {c \in frame.area : frame.text[c] = HalfBlock})
  /\ p.text # Nothing /\ p.area = frame.area
  /\ frame.area # {} => p.frame # Nothing /\ p.frame.art \in Arts
                        /\ (p.complete => p.frame.art = frame.art)

-----------------------------------------------------------------------------
(* What the UI may draw has text everywhere, and art only in its area.     *)
LEMMA FrameTyped ==
  ASSUME NEW n, NEW frame \in Frames(n)
  PROVE  /\ DOMAIN frame.text = 1..n /\ frame.area \subseteq 1..n
         /\ \A c \in 1..n : frame.text[c] = HalfBlock => c \in frame.area
         /\ frame.area # {} => frame.art \in Arts
<1>1. CASE frame \in {[text |-> text, area |-> {}, art |-> Nothing, actions |-> a] :
                       text \in [1..n -> Glyphs], a \in Actions}
  <2>1. PICK text \in [1..n -> Glyphs], a \in Actions :
          frame = [text |-> text, area |-> {}, art |-> Nothing, actions |-> a]
    BY <1>1
  <2>2. \A c \in 1..n : text[c] \in Glyphs
    OBVIOUS
  <2>3. frame.text = text /\ frame.area = {} /\ DOMAIN text = 1..n
    BY <2>1
  <2>4. HalfBlock \notin Glyphs
    BY DEF HalfBlock, Glyphs, Space
  <2>5. QED
    BY <2>2, <2>3, <2>4
<1>2. CASE \E area \in {x \in Areas : x \subseteq 1..n} :
             frame \in {[text |-> text, area |-> area, art |-> art, actions |-> a] :
                          text \in {t \in [1..n -> Glyphs \cup {HalfBlock}] :
                                      \A c \in 1..n : t[c] = HalfBlock => c \in area},
                          art \in Arts, a \in Actions}
  <2>1. PICK area \in {x \in Areas : x \subseteq 1..n} :
             frame \in {[text |-> text, area |-> area, art |-> art, actions |-> a] :
                          text \in {t \in [1..n -> Glyphs \cup {HalfBlock}] :
                                      \A c \in 1..n : t[c] = HalfBlock => c \in area},
                          art \in Arts, a \in Actions}
    BY <1>2
  <2>2. PICK text \in {t \in [1..n -> Glyphs \cup {HalfBlock}] :
                         \A c \in 1..n : t[c] = HalfBlock => c \in area},
             art \in Arts, a \in Actions :
          frame = [text |-> text, area |-> area, art |-> art, actions |-> a]
    BY <2>1
  <2>3. frame.text = text /\ frame.area = area /\ frame.art = art /\ DOMAIN text = 1..n
    BY <2>2
  <2>4. QED
    BY <2>2, <2>3
<1>3. QED
  BY <1>1, <1>2 DEF Frames

(* The pixel frame of a frame with art.                                    *)
LEMMA PixelsOf ==
  ASSUME NEW n \in Widths, NEW frame \in Frames(n)
  PROVE  /\ Pixels(frame) = Nothing <=> frame.area = {}
         /\ frame.area # {} =>
              /\ Pixels(frame).area = frame.area /\ Pixels(frame).art = frame.art
              /\ DOMAIN Pixels(frame).natives = {c \in frame.area : frame.text[c] # HalfBlock}
              /\ \A c \in DOMAIN Pixels(frame).natives : Pixels(frame).natives[c] = frame.text[c]
BY NothingAssumption DEF Pixels

(* Writing text leaves pixels alone or removes them.                       *)
LEMMA WrittenScreen ==
  ASSUME NEW s, NEW p, NEW n, IsScreen(s, n), NEW columns, NEW text
  PROVE  IsScreen(Written(s, p, columns, text), n)
BY DEF Written, IsScreen

LEMMA WrittenElsewhere ==
  ASSUME NEW s, NEW p, NEW n, IsScreen(s, n), NEW columns, NEW text
  PROVE  \A c \in 1..n : c \notin columns => Written(s, p, columns, text)[c] = s[c]
BY DEF Written, IsScreen

LEMMA WrittenText ==
  ASSUME NEW s, NEW p, NEW n, IsScreen(s, n), NEW columns, NEW text
  PROVE  \A c \in 1..n : c \in columns => Written(s, p, columns, text)[c].text = text[c]
BY DEF Written, IsScreen

LEMMA WrittenPixels ==
  ASSUME NEW s, NEW p, NEW n, IsScreen(s, n), NEW columns, NEW text
  PROVE  \A c \in 1..n : c \in columns =>
           Written(s, p, columns, text)[c].pixel = IF p.surface = "kitty" THEN s[c].pixel ELSE Nothing
BY DEF Written, IsScreen

LEMMA ErasedScreen ==
  ASSUME NEW s, NEW p, NEW n, IsScreen(s, n), NEW columns
  PROVE  IsScreen(Erased(s, p, columns), n)
BY WrittenScreen DEF Erased

LEMMA ErasedCells ==
  ASSUME NEW s, NEW p, NEW n, IsScreen(s, n), NEW columns
  PROVE  \A c \in 1..n : c \notin columns => Erased(s, p, columns)[c] = s[c]
BY DEF Erased, Written, IsScreen

LEMMA ErasedText ==
  ASSUME NEW s, NEW p, NEW n, IsScreen(s, n), NEW columns
  PROVE  \A c \in 1..n : c \in columns => Erased(s, p, columns)[c].text = Space
BY DEF Erased, Written, IsScreen

LEMMA ErasedPixels ==
  ASSUME NEW s, NEW p, NEW n, IsScreen(s, n), NEW columns, p.surface # "kitty"
  PROVE  \A c \in 1..n : c \in columns => Erased(s, p, columns)[c].pixel = Nothing
BY DEF Erased, Written, IsScreen

(* A cell that was built has what it was built of.                         *)
LEMMA Built ==
  ASSUME NEW cell, NEW t, NEW x, cell = [text |-> t, pixel |-> x]
  PROVE  cell.text = t /\ cell.pixel = x /\ DOMAIN cell = {"text", "pixel"}
OBVIOUS

(* An image that goes leaves no pixel behind, and no text but its own      *)
(* columns is touched.                                                     *)
LEMMA RetiredClean ==
  ASSUME NEW s, NEW p, NEW n, IsScreen(s, n), Shaped(p), Images(p), PixelsOwn(s, p)
  PROVE  /\ IsScreen(Retired(s, p), n) /\ NoPixels(Retired(s, p))
         /\ \A c \in 1..n : c \notin p.area => Retired(s, p)[c].text = s[c].text
<1>a. DOMAIN s = 1..n /\ \A c \in 1..n : DOMAIN s[c] = {"text", "pixel"}
  BY DEF IsScreen
<1>1. CASE p.area = {}
  BY <1>1, <1>a DEF Retired, PixelsOwn, NoPixels, IsScreen
<1>2. CASE p.area # {} /\ p.surface = "kitty"
  <2> DEFINE r == Retired(s, p)
  <2>1. r = [c \in DOMAIN s |-> IF s[c].pixel # Nothing /\ s[c].pixel.id = 3 - p.id
                                THEN [s[c] EXCEPT !.pixel = Nothing] ELSE s[c]]
    BY <1>2 DEF Retired
  <2>2. ASSUME NEW c \in 1..n
        PROVE /\ DOMAIN r[c] = {"text", "pixel"}
              /\ r[c].pixel = Nothing /\ r[c].text = s[c].text
    <3>1. CASE s[c].pixel = Nothing
      BY <3>1, <2>1, <1>a
    <3>2. CASE s[c].pixel # Nothing
      <4>1. r[c] = [s[c] EXCEPT !.pixel = Nothing]
        BY <3>2, <2>1, <1>a, <1>2 DEF PixelsOwn
      <4>2. QED
        BY <4>1, <1>a
    <3>3. QED
      BY <3>1, <3>2
  <2>3. DOMAIN r = 1..n
    BY <2>1, <1>a
  <2> HIDE DEF r
  <2>4. QED
    BY <2>2, <2>3 DEF IsScreen, NoPixels, r
<1>3. CASE p.area # {} /\ p.surface = "sixel"
  <2> DEFINE w == Erased(s, p, p.area)
  <2>1. Retired(s, p) = w
    BY <1>3 DEF Retired
  <2>2. /\ IsScreen(w, n)
        /\ \A c \in 1..n : c \notin p.area => w[c] = s[c]
        /\ \A c \in 1..n : c \in p.area => w[c].pixel = Nothing
    BY <1>3, ErasedScreen, ErasedCells, ErasedPixels
  <2>3. \A c \in 1..n : c \notin p.area => s[c].pixel = Nothing
    BY <1>a DEF PixelsOwn
  <2> HIDE DEF w
  <2>4. QED
    BY <2>1, <2>2, <2>3 DEF NoPixels, IsScreen
<1>4. QED
  BY <1>1, <1>2, <1>3 DEF Images

(* An image that comes has its pixels in its columns and no text there.    *)
LEMMA PlacedCells ==
  ASSUME NEW n \in Widths, NEW s, NEW p, IsScreen(s, n), NoPixels(s), Shaped(p), Images(p),
         NEW frame \in Frames(n), frame.area # {}
  PROVE  LET pixels == Pixels(frame)
             placed == Placed(Erased(s, p, pixels.area), p, pixels)
         IN /\ IsScreen(placed, n)
            /\ \A c \in 1..n : c \notin frame.area => placed[c] = s[c] /\ placed[c].pixel = Nothing
            /\ \A c \in frame.area :
                 /\ placed[c].text = Space /\ placed[c].pixel # Nothing /\ placed[c].pixel.id = p.id
                 /\ placed[c].pixel.look = IF c \in DOMAIN pixels.natives THEN Space ELSE frame.art
<1> DEFINE pixels == Pixels(frame)
           erased == Erased(s, p, pixels.area)
           placed == Placed(erased, p, pixels)
           pixel(c) == [id |-> p.id, look |-> IF c \in DOMAIN pixels.natives THEN Space ELSE pixels.art]
<1>1. pixels.area = frame.area /\ pixels.art = frame.art /\ frame.art \in Arts /\ frame.area \subseteq 1..n
  BY PixelsOf, FrameTyped
<1>3. /\ IsScreen(erased, n)
      /\ \A c \in 1..n : c \notin frame.area => erased[c] = s[c]
      /\ \A c \in 1..n : c \in frame.area => erased[c].text = Space
  <2> HIDE DEF pixels
  <2>1. IsScreen(erased, n)
    BY ErasedScreen
  <2>2. \A c \in 1..n : c \notin pixels.area => erased[c] = s[c]
    BY ErasedCells
  <2>3. \A c \in 1..n : c \in pixels.area => erased[c].text = Space
    BY ErasedText
  <2>4. QED
    BY <1>1, <2>1, <2>2, <2>3
<1> HIDE DEF erased, pixels
<1>4. placed = [c \in DOMAIN erased |->
                  IF c \notin pixels.area THEN erased[c]
                  ELSE [text |-> IF p.surface = "kitty" THEN erased[c].text ELSE Space,
                        pixel |-> pixel(c)]]
  BY DEF Placed
<1>5. \A c : pixel(c) # Nothing
  BY <1>1, NothingAssumption DEF Shaped
<1>6. \A c : pixel(c).id = p.id
             /\ pixel(c).look = IF c \in DOMAIN pixels.natives THEN Space ELSE frame.art
  BY <1>1
<1> HIDE DEF pixel
<1>7. ASSUME NEW c \in frame.area
      PROVE placed[c].text = Space /\ placed[c].pixel = pixel(c) /\ DOMAIN placed[c] = {"text", "pixel"}
  <2>1. c \in DOMAIN erased /\ c \in pixels.area /\ erased[c].text = Space
    BY <1>1, <1>3 DEF IsScreen
  <2> HIDE DEF placed
  <2>2. placed[c] = [text |-> Space, pixel |-> pixel(c)]
    BY <1>4, <2>1
  <2>3. QED
    BY <2>2, Built
<1>8. ASSUME NEW c \in 1..n, c \notin frame.area
      PROVE placed[c] = s[c] /\ placed[c].pixel = Nothing
  <2>1. placed[c] = s[c]
    BY <1>1, <1>3, <1>4, <1>8 DEF IsScreen
  <2>2. QED
    BY <2>1 DEF NoPixels, IsScreen
<1>10. DOMAIN placed = 1..n
  BY <1>3, <1>4 DEF IsScreen
<1> HIDE DEF placed
<1>11. IsScreen(placed, n)
  BY <1>7, <1>8, <1>10 DEF IsScreen
<1>12. \A c \in frame.area : placed[c].pixel # Nothing /\ placed[c].pixel.id = p.id
          /\ placed[c].pixel.look = IF c \in DOMAIN pixels.natives THEN Space ELSE frame.art
  BY <1>5, <1>6, <1>7
<1>13. QED
  BY <1>7, <1>8, <1>11, <1>12 DEF pixels, placed, erased

-----------------------------------------------------------------------------
(* What is written is what is drawn.                                       *)
LEMMA NextDomain ==
  ASSUME NEW n \in Widths, NEW frame \in Frames(n), NEW skipped
  PROVE  DOMAIN Cells(frame.text, skipped) = 1..n
BY FrameTyped DEF Cells

LEMMA NextCell ==
  ASSUME NEW n \in Widths, NEW frame \in Frames(n), NEW skipped, NEW c \in 1..n
  PROVE  Cells(frame.text, skipped)[c] = Cell(frame.text[c], c \in skipped)
BY FrameTyped DEF Cells

LEMMA NextGlyph ==
  ASSUME NEW n \in Widths, NEW frame \in Frames(n), NEW skipped, NEW c \in 1..n
  PROVE  Cells(frame.text, skipped)[c].glyph = frame.text[c]
<1>1. CASE c \in skipped
  BY <1>1, FrameTyped DEF Cells, Cell
<1>2. CASE c \notin skipped
  BY <1>2, FrameTyped DEF Cells, Cell
<1>3. QED
  BY <1>1, <1>2

LEMMA NextSkip ==
  ASSUME NEW n \in Widths, NEW frame \in Frames(n), NEW skipped, NEW c \in 1..n
  PROVE  Cells(frame.text, skipped)[c].skip <=> c \in skipped
<1>1. Cell(frame.text[c], TRUE).skip = TRUE /\ Cell(frame.text[c], FALSE).skip = FALSE
  BY DEF Cell
<1>2. CASE c \in skipped
  <2>1. (c \in skipped) = TRUE
    BY <1>2
  <2>2. Cells(frame.text, skipped)[c] = Cell(frame.text[c], TRUE)
    BY <2>1, FrameTyped DEF Cells
  <2>3. QED
    BY <1>1, <1>2, <2>2
<1>3. CASE c \notin skipped
  <2>1. (c \in skipped) = FALSE
    BY <1>3
  <2>2. Cells(frame.text, skipped)[c] = Cell(frame.text[c], FALSE)
    BY <2>1, NextCell
  <2>3. QED
    BY <1>1, <1>3, <2>2
<1>4. QED
  BY <1>2, <1>3

-----------------------------------------------------------------------------
(* What present_composed_frame keeps and brings about.                     *)
Keeps(r, s, p, frame, n, late) ==
  /\ Shaped(r.p) /\ r.p.surface = p.surface /\ r.p.columns = p.columns
  /\ IsScreen(r.s, n) /\ PixelsOwn(r.s, r.p)
  /\ Held(r.p, n) /\ Holds(r.p, frame, n)
  /\ TextTrue(s, p, n) \/ ~r.cached => TextTrue(r.s, r.p, n)
  /\ r.p.complete \/ ~late

(* The parts of what present_composed_frame computes.                      *)
ShownOf(s, p, frame, late) == Shown(s, p, Pixels(frame), late)
SkippedOf(s, p, frame, late) ==
  IF ShownOf(s, p, frame, late).visible THEN frame.area \ DOMAIN Pixels(frame).natives ELSE {}
NextOf(s, p, frame, late) == Cells(frame.text, SkippedOf(s, p, frame, late))
UpdatesOf(s, p, frame, late) ==
  LET sent == ShownOf(s, p, frame, late)
      next == NextOf(s, p, frame, late)
  IN {c \in DOMAIN next \ SkippedOf(s, p, frame, late) :
        c \in Repainted(p, sent.p, Pixels(frame), next)
        \/ (sent.p.text # Nothing => next[c] # sent.p.text[c])}

LEMMA ComposedParts ==
  ASSUME NEW s, NEW p, NEW frame, NEW late
  PROVE  LET r == Composed(s, p, frame, late)
             sent == ShownOf(s, p, frame, late)
         IN /\ r.p = [sent.p EXCEPT !.text = NextOf(s, p, frame, late)]
            /\ r.cached = (sent.p.text # Nothing)
            /\ r.s = Written(sent.s, p, UpdatesOf(s, p, frame, late), frame.text)
BY DEF Composed, ShownOf, SkippedOf, NextOf, UpdatesOf

(* The art of a frame with an image, and its text.                         *)
ArtOf(frame) == {c \in frame.area : frame.text[c] = HalfBlock}

LEMMA NextIs ==
  ASSUME NEW n \in Widths, NEW frame \in Frames(n), NEW s, NEW p, NEW late,
         ShownOf(s, p, frame, late).visible <=> frame.area # {}
  PROVE  /\ SkippedOf(s, p, frame, late) = ArtOf(frame)
         /\ NextOf(s, p, frame, late) = Cells(frame.text, ArtOf(frame))
         /\ Cells(frame.text, ArtOf(frame)) # Nothing
<1>1. ASSUME frame.area = {} PROVE SkippedOf(s, p, frame, late) = ArtOf(frame)
  BY <1>1 DEF SkippedOf, ArtOf
<1>2. ASSUME frame.area # {} PROVE SkippedOf(s, p, frame, late) = ArtOf(frame)
  <2>1. DOMAIN Pixels(frame).natives = {c \in frame.area : frame.text[c] # HalfBlock}
    BY <1>2, PixelsOf
  <2>2. frame.area \ DOMAIN Pixels(frame).natives = ArtOf(frame)
    BY <2>1 DEF ArtOf
  <2>3. QED
    BY <1>2, <2>2 DEF SkippedOf
<1>3. SkippedOf(s, p, frame, late) = ArtOf(frame)
  BY <1>1, <1>2
<1>4. ArtOf(frame) \in SUBSET (1..n)
  BY FrameTyped DEF ArtOf
<1>5. QED
  BY <1>3, <1>4, NothingAssumption DEF NextOf

(* The presenter after a frame: the one that was shown, with its text.     *)
LEMMA PresenterAfter ==
  ASSUME NEW q, Shaped(q), NEW text
  PROVE  LET r == [q EXCEPT !.text = text] IN
         /\ Shaped(r) /\ r.text = text
         /\ r.surface = q.surface /\ r.columns = q.columns /\ r.id = q.id
         /\ r.area = q.area /\ r.frame = q.frame /\ r.complete = q.complete
BY DEF Shaped, Fields

(* What showing an image, keeping it or taking it away does to the columns.*)
ShowsWell(s, p, frame, n, late) ==
  LET sent == ShownOf(s, p, frame, late) IN
  /\ sent.visible <=> frame.area # {}
  /\ Shaped(sent.p) /\ sent.p.surface = p.surface /\ sent.p.columns = p.columns
  /\ IsScreen(sent.s, n) /\ PixelsOwn(sent.s, sent.p) /\ sent.p.area = frame.area
  /\ sent.p.complete \/ ~late
  /\ frame.area = {} <=> sent.p.frame = Nothing
  /\ frame.area # {} =>
       /\ sent.p.frame.area = frame.area /\ sent.p.frame.art \in Arts
       /\ sent.p.frame.natives = Pixels(frame).natives
       /\ sent.p.complete => sent.p.frame.art = frame.art
  /\ TextTrue(s, p, n) \/ sent.p.text = Nothing =>
       \A c \in 1..n :
         IF c \in ArtOf(frame)
         THEN /\ sent.s[c].text = Space /\ sent.s[c].pixel # Nothing
              /\ sent.s[c].pixel.look = sent.p.frame.art
         ELSE IF c \in UpdatesOf(s, p, frame, late)
         THEN p.surface = "kitty" =>
                (frame.text[c] = Space => sent.s[c].pixel = Nothing \/ sent.s[c].pixel.look = Space)
         ELSE /\ sent.s[c].text = frame.text[c]
              /\ frame.text[c] = Space => sent.s[c].pixel = Nothing \/ sent.s[c].pixel.look = Space

(* What is known of a frame, once it is shown, follows column by column.   *)
LEMMA ColumnsKeep ==
  ASSUME NEW n \in Widths, NEW s, NEW p, IsScreen(s, n), Shaped(p), Images(p),
         NEW frame \in Frames(n), NEW late,
         ShowsWell(s, p, frame, n, late)
  PROVE  Keeps(Composed(s, p, frame, late), s, p, frame, n, late)
<1> USE DEF ShowsWell
<1> DEFINE sent == ShownOf(s, p, frame, late)
           r == Composed(s, p, frame, late)
           next == Cells(frame.text, ArtOf(frame))
           updates == UpdatesOf(s, p, frame, late)
<1>1. /\ SkippedOf(s, p, frame, late) = ArtOf(frame)
      /\ NextOf(s, p, frame, late) = next /\ next # Nothing
  BY NextIs
<1>2. /\ r.p = [sent.p EXCEPT !.text = next] /\ r.cached = (sent.p.text # Nothing)
      /\ r.s = Written(sent.s, p, updates, frame.text)
  BY <1>1, ComposedParts
<1>3. DOMAIN next = 1..n
  BY NextDomain
<1>a. \A c \in 1..n : next[c] = Cell(frame.text[c], c \in ArtOf(frame))
  BY NextCell
<1>b. \A c \in 1..n : next[c].glyph = frame.text[c]
  BY NextGlyph
<1>c. \A c \in 1..n : next[c].skip <=> c \in ArtOf(frame)
  BY NextSkip
<1>4. updates \subseteq 1..n \ ArtOf(frame)
  BY <1>1, <1>3 DEF UpdatesOf
<1> HIDE DEF sent, r, next, updates
<1>5. /\ Shaped(r.p) /\ r.p.text = next
      /\ r.p.surface = sent.p.surface /\ r.p.columns = sent.p.columns /\ r.p.id = sent.p.id
      /\ r.p.area = sent.p.area /\ r.p.frame = sent.p.frame /\ r.p.complete = sent.p.complete
  BY <1>2, PresenterAfter DEF sent
<1>d. /\ \A c \in 1..n : c \notin updates => r.s[c] = sent.s[c]
      /\ \A c \in 1..n : c \in updates => r.s[c].text = frame.text[c]
  <2>1. \A c \in 1..n : c \notin updates => r.s[c] = sent.s[c]
    BY <1>2, WrittenElsewhere DEF sent
  <2>2. \A c \in 1..n : c \in updates => r.s[c].text = frame.text[c]
    <3>1. IsScreen(sent.s, n)
      BY DEF sent
    <3> DEFINE text == frame.text
    <3> HIDE DEF text
    <3>2. \A c \in 1..n : c \in updates => Written(sent.s, p, updates, text)[c].text = text[c]
      BY <3>1, WrittenText
    <3>3. QED
      BY <1>2, <3>2 DEF text
  <2>3. QED
    BY <2>1, <2>2
<1>e. \A c \in 1..n : c \in updates =>
        r.s[c].pixel = IF p.surface = "kitty" THEN sent.s[c].pixel ELSE Nothing
  BY <1>2, WrittenPixels DEF sent
<1>6. IsScreen(r.s, n)
  BY <1>2, WrittenScreen DEF sent
<1>7. PixelsOwn(r.s, r.p)
  <2>1. DOMAIN r.s = 1..n /\ DOMAIN sent.s = 1..n
    BY <1>6 DEF IsScreen, sent
  <2>2. ASSUME NEW c \in 1..n, r.s[c].pixel # Nothing PROVE r.s[c].pixel = sent.s[c].pixel
    BY <2>2, <1>d, <1>e
  <2>3. \A c \in 1..n : sent.s[c].pixel # Nothing =>
          c \in sent.p.area /\ (sent.p.surface = "kitty" => sent.s[c].pixel.id = 3 - sent.p.id)
    BY <2>1 DEF PixelsOwn, sent
  <2>4. QED
    BY <2>1, <2>2, <2>3, <1>5 DEF PixelsOwn
<1>8. Holds(r.p, frame, n)
  BY <1>1, <1>5 DEF Holds, sent, next, ArtOf
<1>9. Held(r.p, n)
  <2>1. CASE frame.area = {}
    BY <2>1, <1>5 DEF Held, sent
  <2>2. CASE frame.area # {}
    <3>1. /\ DOMAIN sent.p.frame.natives = {c \in frame.area : frame.text[c] # HalfBlock}
          /\ \A c \in DOMAIN sent.p.frame.natives : sent.p.frame.natives[c] = frame.text[c]
      BY <2>2, PixelsOf DEF sent
    <3>2. frame.area \subseteq 1..n
      BY FrameTyped
    <3>3. \A c \in 1..n : r.p.text[c].skip <=> c \in frame.area /\ c \notin DOMAIN sent.p.frame.natives
      BY <1>5, <1>c, <3>1 DEF ArtOf
    <3>4. ASSUME NEW c \in DOMAIN sent.p.frame.natives
          PROVE  r.p.text[c] = Cell(sent.p.frame.natives[c], FALSE)
      <4>1. c \in 1..n /\ (c \in ArtOf(frame)) = FALSE
        BY <3>1, <3>2 DEF ArtOf
      <4>2. QED
        BY <4>1, <1>5, <1>a, <3>1
    <3>5. /\ r.p.frame # Nothing /\ r.p.area = r.p.frame.area /\ r.p.area # {}
          /\ r.p.area \subseteq 1..n /\ r.p.frame.art \in Arts /\ r.p.text # Nothing
          /\ DOMAIN r.p.frame.natives \subseteq r.p.area
      BY <2>2, <3>1, <3>2, <1>1, <1>5 DEF sent
    <3>6. \A c \in 1..n : r.p.text[c].skip <=> c \in r.p.area /\ c \notin DOMAIN r.p.frame.natives
      BY <3>3, <1>5 DEF sent
    <3>7. \A c \in DOMAIN r.p.frame.natives : r.p.text[c] = Cell(r.p.frame.natives[c], FALSE)
      BY <3>4, <1>5
    <3>8. QED
      BY <3>5, <3>6, <3>7 DEF Held
  <2>3. QED
    BY <2>1, <2>2
<1>10. ASSUME TextTrue(s, p, n) \/ ~r.cached PROVE TextTrue(r.s, r.p, n)
  <2>1. TextTrue(s, p, n) \/ sent.p.text = Nothing
    BY <1>10, <1>2
  <2>2. ASSUME NEW c \in 1..n, c \in ArtOf(frame)
        PROVE /\ r.p.frame # Nothing /\ c \in r.p.area
              /\ r.s[c].text = Space /\ r.s[c].pixel # Nothing /\ r.s[c].pixel.look = r.p.frame.art
    <3>1. /\ sent.s[c].text = Space /\ sent.s[c].pixel # Nothing
          /\ sent.s[c].pixel.look = sent.p.frame.art
      BY <2>1, <2>2 DEF sent
    <3>2. r.s[c] = sent.s[c]
      BY <1>4, <1>d, <2>2
    <3>3. c \in frame.area /\ frame.area # {}
      BY <2>2 DEF ArtOf
    <3>4. sent.p.frame # Nothing /\ sent.p.area = frame.area
      BY <3>3 DEF sent
    <3>5. QED
      BY <3>1, <3>2, <3>3, <3>4, <1>5
  <2>3. ASSUME NEW c \in 1..n, c \notin ArtOf(frame)
        PROVE /\ r.s[c].text = frame.text[c]
              /\ r.s[c].text = Space => r.s[c].pixel = Nothing \/ r.s[c].pixel.look = Space
    <3>1. CASE c \in updates
      <4>1. p.surface = "kitty" =>
              (frame.text[c] = Space => sent.s[c].pixel = Nothing \/ sent.s[c].pixel.look = Space)
        BY <2>1, <2>3, <3>1 DEF sent, updates
      <4>2. QED
        BY <4>1, <3>1, <1>d, <1>e
    <3>2. CASE c \notin updates
      <4>1. /\ sent.s[c].text = frame.text[c]
            /\ frame.text[c] = Space => sent.s[c].pixel = Nothing \/ sent.s[c].pixel.look = Space
        BY <2>1, <2>3, <3>2 DEF sent, updates
      <4>2. QED
        BY <4>1, <3>2, <1>d
    <3>3. QED
      BY <3>1, <3>2
  <2>4. QED
    BY <2>2, <2>3, <1>5, <1>b, <1>c DEF TextTrue
<1>11. r.p.complete \/ ~late
  BY <1>5 DEF sent
<1>12. r.p.surface = p.surface /\ r.p.columns = p.columns
  BY <1>5 DEF sent
<1>13. QED
  BY <1>5, <1>6, <1>7, <1>8, <1>9, <1>10, <1>11, <1>12 DEF Keeps, r

(* A column that is not written says already what it is to say.            *)
LEMMA NotWritten ==
  ASSUME NEW n \in Widths, NEW frame \in Frames(n), NEW s, NEW p, NEW late,
         ShownOf(s, p, frame, late).visible <=> frame.area # {},
         NEW c \in 1..n, c \notin ArtOf(frame), c \notin UpdatesOf(s, p, frame, late)
  PROVE  ShownOf(s, p, frame, late).p.changed => c \notin p.area /\ c \notin frame.area
<1>1. /\ SkippedOf(s, p, frame, late) = ArtOf(frame)
      /\ NextOf(s, p, frame, late) = Cells(frame.text, ArtOf(frame))
  BY NextIs
<1>2. c \in DOMAIN NextOf(s, p, frame, late)
  BY <1>1, NextDomain
<1>3. c \notin Repainted(p, ShownOf(s, p, frame, late).p, Pixels(frame), NextOf(s, p, frame, late))
  BY <1>1, <1>2 DEF UpdatesOf
<1>4. (IF Pixels(frame) = Nothing THEN {} ELSE Pixels(frame).area) = frame.area
  BY PixelsOf
<1>5. QED
  BY <1>2, <1>3, <1>4 DEF Repainted

SaidAlready(s, p, frame, late, c) ==
  /\ ShownOf(s, p, frame, late).p.text # Nothing
  /\ ShownOf(s, p, frame, late).p.text[c] = Cell(frame.text[c], FALSE)

LEMMA NotWrittenText ==
  ASSUME NEW n \in Widths, NEW frame \in Frames(n), NEW s, NEW p, NEW late,
         ShownOf(s, p, frame, late).visible <=> frame.area # {},
         NEW c \in 1..n, c \notin ArtOf(frame), c \notin UpdatesOf(s, p, frame, late)
  PROVE  SaidAlready(s, p, frame, late, c)
<1>1. /\ SkippedOf(s, p, frame, late) = ArtOf(frame)
      /\ NextOf(s, p, frame, late) = Cells(frame.text, ArtOf(frame))
  BY NextIs
<1>2. c \in DOMAIN NextOf(s, p, frame, late)
  BY <1>1, NextDomain
<1>3. (c \in ArtOf(frame)) = FALSE
  OBVIOUS
<1>4. NextOf(s, p, frame, late)[c] = Cell(frame.text[c], FALSE)
  BY <1>1, <1>3, FrameTyped DEF Cells
<1>5. QED
  BY <1>1, <1>2, <1>4 DEF UpdatesOf, SaidAlready

(* The image stays as it is: only text that changed is written.            *)
LEMMA KeepImage ==
  ASSUME NEW n \in Widths, NEW s, NEW p, IsScreen(s, n), Shaped(p), Images(p),
         PixelsOwn(s, p), Held(p, n), NEW frame \in Frames(n), NEW late,
         frame.area # {}, p.frame = Pixels(frame) \/ Throttled(p, Pixels(frame), late)
  PROVE  ShowsWell(s, p, frame, n, late)
<1> DEFINE pixels == Pixels(frame)
           q == [p EXCEPT !.complete = p.frame = pixels, !.changed = FALSE]
           sent == ShownOf(s, p, frame, late)
<1>1. /\ pixels # Nothing /\ pixels.area = frame.area /\ pixels.art = frame.art
      /\ DOMAIN pixels.natives = {c \in frame.area : frame.text[c] # HalfBlock}
      /\ \A c \in DOMAIN pixels.natives : pixels.natives[c] = frame.text[c]
  BY PixelsOf
<1>2. frame.area \subseteq 1..n /\ \A c \in 1..n : frame.text[c] = HalfBlock => c \in frame.area
  BY FrameTyped
<1>3. /\ p.frame # Nothing /\ p.text # Nothing /\ p.area = frame.area
      /\ p.frame.natives = pixels.natives /\ (p.frame # pixels => ~late)
  BY <1>1 DEF Throttled, Held
<1>4. sent = [p |-> q, s |-> s, visible |-> TRUE]
  BY <1>1, <1>3 DEF Shown, ShownOf
<1>5. /\ Shaped(q) /\ q.text = p.text /\ q.area = p.area /\ q.frame = p.frame /\ q.id = p.id
      /\ q.surface = p.surface /\ q.columns = p.columns
  BY DEF Shaped, Fields
<1>6. q.complete <=> p.frame = pixels
  BY DEF Shaped, Fields
<1> HIDE DEF pixels, q, sent
<1>7. sent.p = q /\ sent.s = s /\ sent.visible = TRUE
  BY <1>4
<1>8. PixelsOwn(s, q)
  BY <1>5 DEF PixelsOwn
<1>9. p.frame.area = frame.area /\ p.frame.art \in Arts /\ (q.complete => p.frame.art = frame.art)
  BY <1>1, <1>3, <1>6 DEF Held
<1>10. \A c \in 1..n : p.text[c].skip <=> c \in ArtOf(frame)
  BY <1>1, <1>3 DEF Held, ArtOf
<1>11. ASSUME TextTrue(s, p, n), NEW c \in 1..n, c \in ArtOf(frame)
       PROVE  /\ s[c].text = Space /\ s[c].pixel # Nothing /\ s[c].pixel.look = q.frame.art
  BY <1>3, <1>5, <1>10, <1>11 DEF TextTrue
<1>12. ASSUME NEW c \in 1..n, c \notin ArtOf(frame), c \in UpdatesOf(s, p, frame, late),
              TextTrue(s, p, n)
       PROVE  frame.text[c] = Space => s[c].pixel = Nothing \/ s[c].pixel.look = Space
  <2>1. CASE c \notin frame.area
    BY <2>1, <1>3 DEF PixelsOwn, IsScreen
  <2>2. CASE c \in frame.area
    <3>1. c \in DOMAIN p.frame.natives /\ p.frame.natives[c] = frame.text[c]
      BY <2>2, <1>12, <1>1, <1>3 DEF ArtOf
    <3>2. p.text[c] = Cell(frame.text[c], FALSE)
      BY <3>1, <1>3 DEF Held
    <3>3. p.text[c].glyph = frame.text[c] /\ ~p.text[c].skip
      BY <3>2, <1>10, <1>12 DEF Cell
    <3>4. QED
      BY <3>3, <1>12, <1>3 DEF TextTrue
  <2>3. QED
    BY <2>1, <2>2
<1>13. ASSUME NEW c \in 1..n, c \notin ArtOf(frame), c \notin UpdatesOf(s, p, frame, late),
              TextTrue(s, p, n)
       PROVE  /\ s[c].text = frame.text[c]
              /\ frame.text[c] = Space => s[c].pixel = Nothing \/ s[c].pixel.look = Space
  <2>1. p.text[c] = Cell(frame.text[c], FALSE)
    <3>1. ShownOf(s, p, frame, late).visible <=> frame.area # {}
      BY <1>7 DEF sent
    <3>2. SaidAlready(s, p, frame, late, c)
      BY <3>1, <1>13, NotWrittenText
    <3>3. QED
      BY <3>2, <1>7, <1>5 DEF sent, SaidAlready
  <2>2. p.text[c].glyph = frame.text[c] /\ ~p.text[c].skip
    BY <2>1, <1>10, <1>13 DEF Cell
  <2>3. QED
    BY <2>2, <1>13, <1>3 DEF TextTrue
<1>14. QED
  BY <1>1, <1>3, <1>5, <1>6, <1>7, <1>8, <1>9, <1>11, <1>12, <1>13 DEF ShowsWell, sent, pixels

(* An image comes, or comes anew.                                          *)
LEMMA PlaceImage ==
  ASSUME NEW n \in Widths, NEW s, NEW p, IsScreen(s, n), Shaped(p), Images(p),
         PixelsOwn(s, p), NEW frame \in Frames(n), NEW late,
         frame.area # {}, ~(p.frame = Pixels(frame) \/ Throttled(p, Pixels(frame), late))
  PROVE  ShowsWell(s, p, frame, n, late)
<1> DEFINE pixels == Pixels(frame)
           q == [p EXCEPT !.complete = TRUE, !.changed = TRUE, !.area = pixels.area,
                          !.frame = pixels, !.id = 3 - @]
           gone == Retired(s, p)
           placed == Placed(Erased(gone, p, pixels.area), p, pixels)
           sent == ShownOf(s, p, frame, late)
<1>1. /\ pixels # Nothing /\ pixels.area = frame.area /\ pixels.art = frame.art
      /\ DOMAIN pixels.natives = {c \in frame.area : frame.text[c] # HalfBlock}
  BY PixelsOf
<1>2. frame.area \subseteq 1..n /\ frame.art \in Arts
  BY FrameTyped
<1>3. sent = [p |-> q, s |-> placed, visible |-> TRUE]
  BY <1>1 DEF Shown, ShownOf
<1>4. /\ Shaped(q) /\ q.text = p.text /\ q.area = frame.area /\ q.frame = pixels
      /\ q.id = 3 - p.id /\ q.surface = p.surface /\ q.columns = p.columns
      /\ q.changed = TRUE /\ q.complete = TRUE
  BY <1>1 DEF Shaped, Fields
<1>5. /\ IsScreen(gone, n) /\ NoPixels(gone)
      /\ \A c \in 1..n : c \notin p.area => gone[c].text = s[c].text
  BY RetiredClean
<1> HIDE DEF gone
<1>6. /\ IsScreen(placed, n)
      /\ \A c \in 1..n : c \notin frame.area => placed[c] = gone[c] /\ placed[c].pixel = Nothing
      /\ \A c \in frame.area :
           /\ placed[c].text = Space /\ placed[c].pixel # Nothing /\ placed[c].pixel.id = p.id
           /\ placed[c].pixel.look = IF c \in DOMAIN pixels.natives THEN Space ELSE frame.art
  BY <1>5, PlacedCells
<1> HIDE DEF pixels, q, placed, sent
<1>7. sent.p = q /\ sent.s = placed /\ sent.visible = TRUE
  BY <1>3
<1>8. PixelsOwn(placed, q)
  <2>1. 3 - q.id = p.id
    BY <1>4 DEF Shaped
  <2>2. QED
    BY <2>1, <1>4, <1>6 DEF PixelsOwn, IsScreen
<1>9. ASSUME NEW c \in 1..n, c \in ArtOf(frame)
      PROVE  placed[c].text = Space /\ placed[c].pixel # Nothing /\ placed[c].pixel.look = q.frame.art
  BY <1>1, <1>4, <1>6, <1>9 DEF ArtOf
<1>10. ASSUME NEW c \in 1..n, c \notin ArtOf(frame)
       PROVE  placed[c].pixel = Nothing \/ placed[c].pixel.look = Space
  BY <1>1, <1>6, <1>10 DEF ArtOf
<1>11. ASSUME NEW c \in 1..n, c \notin ArtOf(frame), c \notin UpdatesOf(s, p, frame, late),
              TextTrue(s, p, n) \/ q.text = Nothing
       PROVE  placed[c].text = frame.text[c]
  <2>1. ShownOf(s, p, frame, late).visible <=> frame.area # {}
    BY <1>7 DEF sent
  <2>2. SaidAlready(s, p, frame, late, c)
    BY <2>1, <1>11, NotWrittenText
  <2>3. p.text # Nothing /\ p.text[c] = Cell(frame.text[c], FALSE)
    BY <2>2, <1>4, <1>7 DEF sent, SaidAlready
  <2>4. c \notin p.area /\ c \notin frame.area
    <3>1. ShownOf(s, p, frame, late).p.changed => c \notin p.area /\ c \notin frame.area
      BY <2>1, <1>11, NotWritten
    <3>2. QED
      BY <3>1, <1>4, <1>7 DEF sent
  <2>5. p.text[c].glyph = frame.text[c] /\ ~p.text[c].skip
    BY <2>3 DEF Cell
  <2>6. s[c].text = frame.text[c]
    BY <2>3, <2>5, <1>4, <1>11 DEF TextTrue
  <2>7. QED
    BY <2>4, <2>6, <1>5, <1>6
<1>12. QED
  BY <1>1, <1>2, <1>4, <1>6, <1>7, <1>8, <1>9, <1>10, <1>11 DEF ShowsWell, sent, pixels

(* An image goes, or there was none.                                       *)
LEMMA RemoveImage ==
  ASSUME NEW n \in Widths, NEW s, NEW p, IsScreen(s, n), Shaped(p), Images(p),
         PixelsOwn(s, p), NEW frame \in Frames(n), NEW late, frame.area = {}
  PROVE  ShowsWell(s, p, frame, n, late)
<1> DEFINE q == Removed(p)
           gone == Retired(s, p)
           sent == ShownOf(s, p, frame, late)
<1>1. Pixels(frame) = Nothing
  BY PixelsOf
<1>2. sent = [p |-> q, s |-> gone, visible |-> FALSE]
  BY <1>1 DEF Shown, ShownOf
<1>3. /\ Shaped(q) /\ q.area = {} /\ q.frame = Nothing /\ q.complete = TRUE
      /\ q.surface = p.surface /\ q.columns = p.columns
      /\ p.area # {} => q.text = Nothing
      /\ p.area = {} => q.text = p.text
  BY DEF Shaped, Fields, Removed, Images
<1>4. /\ IsScreen(gone, n) /\ NoPixels(gone)
      /\ \A c \in 1..n : c \notin p.area => gone[c].text = s[c].text
  BY RetiredClean
<1> HIDE DEF q, gone, sent
<1>5. sent.p = q /\ sent.s = gone /\ sent.visible = FALSE
  BY <1>2
<1>6. PixelsOwn(gone, q)
  BY <1>4 DEF PixelsOwn, NoPixels
<1>7. ArtOf(frame) = {}
  BY DEF ArtOf
<1>8. \A c \in 1..n : gone[c].pixel = Nothing
  BY <1>4 DEF NoPixels, IsScreen
<1>9. ASSUME NEW c \in 1..n, c \notin UpdatesOf(s, p, frame, late),
             TextTrue(s, p, n) \/ q.text = Nothing
      PROVE  gone[c].text = frame.text[c]
  <2>1. ShownOf(s, p, frame, late).visible <=> frame.area # {}
    BY <1>5 DEF sent
  <2>2. SaidAlready(s, p, frame, late, c)
    BY <2>1, <1>7, <1>9, NotWrittenText
  <2>3. q.text # Nothing /\ q.text[c] = Cell(frame.text[c], FALSE)
    BY <2>2, <1>5 DEF sent, SaidAlready
  <2>4. p.area = {} /\ p.text = q.text
    BY <2>3, <1>3
  <2>5. p.text[c].glyph = frame.text[c] /\ ~p.text[c].skip
    BY <2>3, <2>4 DEF Cell
  <2>6. s[c].text = frame.text[c]
    BY <2>3, <2>4, <2>5, <1>9 DEF TextTrue
  <2>7. QED
    BY <2>4, <2>6, <1>4
<1>10. QED
  BY <1>1, <1>3, <1>4, <1>5, <1>6, <1>7, <1>8, <1>9 DEF ShowsWell, sent

(* So what is known of one frame is known of the next.                     *)
LEMMA ComposedKeeps ==
  ASSUME NEW n \in Widths, NEW s, NEW p, IsScreen(s, n), Shaped(p), Images(p),
         PixelsOwn(s, p), Held(p, n), NEW frame \in Frames(n), NEW late
  PROVE  Keeps(Composed(s, p, frame, late), s, p, frame, n, late)
<1>1. CASE frame.area = {}
  BY <1>1, RemoveImage, ColumnsKeep
<1>2. CASE frame.area # {} /\ (p.frame = Pixels(frame) \/ Throttled(p, Pixels(frame), late))
  BY <1>2, KeepImage, ColumnsKeep
<1>3. CASE frame.area # {} /\ ~(p.frame = Pixels(frame) \/ Throttled(p, Pixels(frame), late))
  BY <1>3, PlaceImage, ColumnsKeep
<1>4. QED
  BY <1>1, <1>2, <1>3

-----------------------------------------------------------------------------
(* A function on 1..n is as long as that.                                  *)
LEMMA LenIs ==
  ASSUME NEW n \in Nat, NEW f, f = [c \in 1..n |-> f[c]]
  PROVE  Len(f) = n
<1>1. f \in [1..n -> {f[c] : c \in 1..n}]
  OBVIOUS
<1>2. f \in Seq({f[c] : c \in 1..n})
  BY <1>1, SeqDef
<1>3. Len(f) \in Nat /\ DOMAIN f = 1..Len(f) /\ DOMAIN f = 1..n
  BY <1>1, <1>2, LenProperties
<1>4. QED
  BY <1>3

LEMMA CellsLen ==
  ASSUME NEW n \in Nat, NEW text, DOMAIN text = 1..n, NEW skipped
  PROVE  Len(Cells(text, skipped)) = n
<1> DEFINE f == Cells(text, skipped)
<1>1. f = [c \in 1..n |-> f[c]]
  BY DEF Cells
<1> HIDE DEF f
<1>2. Len(f) = n
  BY <1>1, LenIs
<1>3. QED
  BY <1>2 DEF f

(* Text alone: what is on the screen is what the buffer says.              *)
Plain(s, old, n) ==
  \A c \in 1..n : old[c] = Cell(s[c].text, FALSE) /\ s[c].pixel = Nothing

LEMMA BlankPlain ==
  ASSUME NEW n
  PROVE  /\ IsScreen(Blank(n), n) /\ NoPixels(Blank(n))
         /\ Plain(Blank(n), Cells([c \in 1..n |-> Space], {}), n)
<1>1. \A c \in 1..n : (c \in {}) = FALSE
  OBVIOUS
<1>2. \A c \in 1..n : Cells([d \in 1..n |-> Space], {})[c] = Cell(Space, FALSE)
  BY <1>1 DEF Cells
<1>3. DOMAIN Blank(n) = 1..n
  BY DEF Blank
<1>4. \A c \in 1..n : Blank(n)[c] = [text |-> Space, pixel |-> Nothing]
  BY DEF Blank
<1>5. \A c \in 1..n : /\ Blank(n)[c].text = Space /\ Blank(n)[c].pixel = Nothing
                       /\ DOMAIN Blank(n)[c] = {"text", "pixel"}
  BY <1>4, Built
<1>6. IsScreen(Blank(n), n) /\ NoPixels(Blank(n))
  BY <1>3, <1>5 DEF IsScreen, NoPixels
<1>7. Plain(Blank(n), Cells([c \in 1..n |-> Space], {}), n)
  BY <1>2, <1>5 DEF Plain
<1>8. QED
  BY <1>6, <1>7

(* What holds of the terminal while nothing else has touched it.           *)
Shows ==
  /\ presenter.surface = "off" =>
       /\ Plain(screen, buffer, width)
       /\ drawn # Nothing => \A c \in 1..width : screen[c].text = drawn.text[c]
  /\ Images(presenter) =>
       /\ PixelsOwn(screen, presenter) /\ Held(presenter, width)
       /\ ~blanked => TextTrue(screen, presenter, width)
       /\ drawn # Nothing => Holds(presenter, drawn, width)

PresenterInv ==
  /\ width \in Widths /\ IsScreen(screen, width) /\ Shaped(presenter)
  /\ presenter.surface = "off" => presenter.area = {}
  /\ Images(presenter) /\ clearing => presenter.area = {} /\ presenter.frame = Nothing
  /\ Images(presenter) /\ ~clearing => presenter.columns = Len(buffer)
  /\ drawn # Nothing => ~clearing /\ Len(buffer) = width /\ drawn \in Frames(width)
  /\ ~clearing /\ Len(buffer) = width => Shows
  /\ ClicksAsShown

(* A terminal that has not been drawn on.                                  *)
LEMMA InitInv == PresenterInit => PresenterInv
<1> SUFFICES ASSUME PresenterInit PROVE PresenterInv
  OBVIOUS
<1>1. PICK protocol \in Protocols :
        presenter = [surface |-> protocol, columns |-> width, id |-> 1, area |-> {},
                     frame |-> Nothing, text |-> Nothing, changed |-> FALSE, complete |-> FALSE]
  BY DEF PresenterInit
<1>2. /\ Shaped(presenter) /\ presenter.area = {} /\ presenter.frame = Nothing
      /\ presenter.text = Nothing /\ presenter.columns = width
  BY <1>1, PresenterAssumption DEF Shaped, Fields
<1>3. /\ width \in Widths /\ width \in Nat /\ screen = Blank(width)
      /\ buffer = Cells([c \in 1..width |-> Space], {})
      /\ clearing = FALSE /\ hits = Nothing /\ drawn = Nothing
  BY PresenterAssumption DEF PresenterInit
<1>4. Len(buffer) = width
  <2> DEFINE text == [c \in 1..width |-> Space]
  <2>1. DOMAIN text = 1..width
    OBVIOUS
  <2> HIDE DEF text
  <2>2. Len(Cells(text, {})) = width
    BY <2>1, <1>3, CellsLen
  <2>3. QED
    BY <2>2, <1>3 DEF text
<1>5. IsScreen(screen, width) /\ NoPixels(screen) /\ Plain(screen, buffer, width)
  BY <1>3, BlankPlain
<1>6. Shows
  BY <1>2, <1>3, <1>5 DEF Shows, PixelsOwn, NoPixels, Held, TextTrue
<1>7. QED
  BY <1>2, <1>3, <1>4, <1>5, <1>6 DEF PresenterInv, ClicksAsShown

(* Before a frame: graphics given up, the size taken over.  Where there    *)
(* are still graphics, either the screen goes on as it was, or it was      *)
(* cleared and there is no image.                                          *)
Wiped == clearing \/ giveUp \/ Len(buffer) # width
Before == Fitted(GivenUp(presenter), width)
Base == IF Wiped THEN Blank(width) ELSE screen
Old == IF Wiped THEN Cells([c \in 1..width |-> Space], {}) ELSE buffer

LEMMA Prepared ==
  ASSUME PresenterInv
  PROVE  /\ Shaped(Before) /\ (Before.surface = "off" => Before.area = {})
         /\ Images(Before) => Before.columns = width
         /\ Images(Before) /\ Wiped => Before.area = {} /\ Before.frame = Nothing
         /\ Images(Before) /\ ~Wiped => Before = presenter
         /\ ~Wiped => Before.surface = presenter.surface
<1>1. /\ Shaped(presenter) /\ (presenter.surface = "off" => presenter.area = {})
      /\ Images(presenter) /\ clearing => presenter.area = {} /\ presenter.frame = Nothing
      /\ Images(presenter) /\ ~clearing => presenter.columns = Len(buffer)
  BY DEF PresenterInv
<1>2. CASE giveUp
  <2> DEFINE given == [Removed(presenter) EXCEPT !.surface = "off"]
  <2>1. GivenUp(presenter) = given
    BY <1>2 DEF GivenUp
  <2>2. Shaped(given) /\ given.surface = "off" /\ given.area = {}
    BY <1>1 DEF Shaped, Fields, Removed, Images
  <2> HIDE DEF given
  <2>3. Before = given
    BY <2>1, <2>2 DEF Before, Fitted
  <2>4. QED
    BY <2>2, <2>3, <1>2 DEF Images, Wiped
<1>3. CASE ~giveUp
  <2>1. Before = Fitted(presenter, width)
    BY <1>3 DEF Before, GivenUp
  <2>2. CASE presenter.surface = "off" \/ presenter.columns = width
    <3>1. Before = presenter
      BY <2>1, <2>2 DEF Fitted
    <3>2. QED
      BY <3>1, <2>2, <1>1, <1>3 DEF Wiped, Images
  <2>3. CASE presenter.surface # "off" /\ presenter.columns # width
    <3>1. Before = [presenter EXCEPT !.columns = width, !.area = {}, !.frame = Nothing, !.text = Nothing]
      BY <2>1, <2>3 DEF Fitted
    <3>2. /\ Shaped(Before) /\ Before.surface = presenter.surface /\ Before.columns = width
          /\ Before.area = {} /\ Before.frame = Nothing
      BY <3>1, <1>1 DEF Shaped, Fields
    <3>3. Wiped
      BY <2>3, <1>1 DEF Wiped, Images, Shaped
    <3>4. QED
      BY <3>2, <3>3, <2>3 DEF Images
  <2>4. QED
    BY <2>2, <2>3
<1>4. QED
  BY <1>2, <1>3

(* A frame as text alone.                                                  *)
LEMMA TextFrame ==
  ASSUME PresenterInv, NEW frame \in Frames(width), NEW late, Frame(frame, late),
         Before.surface = "off"
  PROVE  PresenterInv'
<1>1. /\ screen' = TextDrawn(Base, Old, frame) /\ presenter' = Before
      /\ buffer' = Cells(frame.text, {}) /\ hits' = frame.actions
      /\ clearing' = FALSE /\ drawn' = frame /\ width' = width
  BY DEF Frame, Wiped, Before, Base, Old
<1>2. width \in Widths /\ width \in Nat /\ IsScreen(screen, width)
  BY PresenterAssumption DEF PresenterInv
<1>3. Shaped(Before) /\ Before.area = {}
  BY Prepared
<1>4. DOMAIN frame.text = 1..width
  BY <1>2, FrameTyped
<1>5. IsScreen(Base, width) /\ Plain(Base, Old, width)
  <2>1. CASE Wiped
    BY <2>1, BlankPlain DEF Base, Old
  <2>2. CASE ~Wiped
    <3>1. presenter.surface = "off"
      BY <2>2, Prepared
    <3>2. Shows
      BY <2>2 DEF PresenterInv, Wiped
    <3>3. QED
      BY <2>2, <3>1, <3>2, <1>2 DEF Base, Old, Shows
  <2>3. QED
    BY <2>1, <2>2
<1> DEFINE base == Base
           text == frame.text
           columns == {c \in DOMAIN base : Cell(text[c], FALSE) # Old[c]}
<1>6. screen' = Written(base, presenter, columns, text)
  BY <1>1 DEF TextDrawn
<1> HIDE DEF base, text
<1>7. IsScreen(base, width) /\ Plain(base, Old, width)
  BY <1>5 DEF base
<1>8. /\ \A c \in 1..width : c \in columns <=> Cell(text[c], FALSE) # Old[c]
      /\ \A c \in 1..width : base[c].pixel = Nothing /\ Old[c] = Cell(base[c].text, FALSE)
  BY <1>7 DEF IsScreen, Plain
<1> HIDE DEF columns
<1>9. IsScreen(screen', width)
  BY <1>6, <1>7, WrittenScreen
<1>10. ASSUME NEW c \in 1..width
       PROVE  screen'[c].text = text[c] /\ screen'[c].pixel = Nothing
  <2>1. CASE c \in columns
    <3>1. screen'[c].text = text[c]
      BY <2>1, <1>6, <1>7, WrittenText
    <3>2. screen'[c].pixel = IF presenter.surface = "kitty" THEN base[c].pixel ELSE Nothing
      BY <2>1, <1>6, <1>7, WrittenPixels
    <3>3. QED
      BY <3>1, <3>2, <1>8
  <2>2. CASE c \notin columns
    <3>1. screen'[c] = base[c]
      BY <2>2, <1>6, <1>7, WrittenElsewhere
    <3>2. Cell(text[c], FALSE) = Cell(base[c].text, FALSE)
      BY <2>2, <1>8
    <3>3. text[c] = base[c].text
      BY <3>2 DEF Cell
    <3>4. QED
      BY <3>1, <3>3, <1>8
  <2>3. QED
    BY <2>1, <2>2
<1>11. \A c \in 1..width : buffer'[c] = Cell(text[c], FALSE)
  <2>1. \A c \in 1..width : (c \in {}) = FALSE
    OBVIOUS
  <2>2. \A c \in 1..width : Cells(text, {})[c] = Cell(text[c], FALSE)
    BY <2>1, <1>4 DEF Cells, text
  <2>3. QED
    BY <2>2, <1>1 DEF text
<1>12. Len(buffer') = width'
  BY <1>1, <1>2, <1>4, CellsLen
<1>13. Shows'
  <2>1. Plain(screen', buffer', width)
    BY <1>10, <1>11 DEF Plain
  <2>2. presenter'.surface = "off"
    BY <1>1
  <2>3. QED
    BY <2>1, <2>2, <1>1, <1>10 DEF Shows, Images, text
<1>14. ClicksAsShown'
  BY <1>1 DEF ClicksAsShown
<1>15. QED
  BY <1>1, <1>2, <1>3, <1>9, <1>12, <1>13, <1>14 DEF PresenterInv, Images

(* A frame with graphics: composed around, over or without an image.       *)
LEMMA ImageFrame ==
  ASSUME PresenterInv, NEW frame \in Frames(width), NEW late, Frame(frame, late),
         Before.surface # "off"
  PROVE  PresenterInv'
<1> DEFINE offered == IF giveUp \/ Len(buffer) # width THEN Nothing ELSE hits
           hurried == late \/ Forced(offered, frame)
           r == Composed(Base, Before, frame, hurried)
<1>1. /\ screen' = r.s /\ presenter' = r.p
      /\ buffer' = Cells(frame.text, 1..width)
      /\ hits' = IF r.p.complete THEN frame.actions ELSE offered
      /\ blanked' = (r.cached /\ (Wiped \/ blanked))
      /\ clearing' = FALSE /\ drawn' = frame /\ width' = width
  BY DEF Frame, Wiped, Before, Base
<1>2. width \in Widths /\ width \in Nat /\ IsScreen(screen, width)
  BY PresenterAssumption DEF PresenterInv
<1>3. /\ Shaped(Before) /\ Images(Before) /\ Before.columns = width
      /\ Wiped => Before.area = {} /\ Before.frame = Nothing
      /\ ~Wiped => Before = presenter
  BY Prepared DEF Shaped, Images
<1>4. /\ IsScreen(Base, width) /\ PixelsOwn(Base, Before) /\ Held(Before, width)
      /\ ~Wiped /\ ~blanked => TextTrue(Base, Before, width)
  <2>1. CASE Wiped
    <3>1. IsScreen(Blank(width), width) /\ NoPixels(Blank(width)) /\ Base = Blank(width)
      BY <2>1, BlankPlain DEF Base
    <3>2. QED
      BY <2>1, <3>1, <1>3 DEF PixelsOwn, NoPixels, Held
  <2>2. CASE ~Wiped
    BY <2>2, <1>2, <1>3 DEF PresenterInv, Wiped, Shows, Base
  <2>3. QED
    BY <2>1, <2>2
<1>5. ~r.p.complete => hits' = offered /\ (offered = frame.actions \/ hurried)
  BY <1>1 DEF Forced
<1> HIDE DEF hurried
<1>6. Keeps(r, Base, Before, frame, width, hurried)
  BY <1>2, <1>3, <1>4, ComposedKeeps
<1> HIDE DEF r, offered
<1>7. /\ Shaped(r.p) /\ r.p.surface = Before.surface /\ r.p.columns = Before.columns
      /\ IsScreen(r.s, width) /\ PixelsOwn(r.s, r.p)
      /\ Held(r.p, width) /\ Holds(r.p, frame, width)
      /\ TextTrue(Base, Before, width) \/ ~r.cached => TextTrue(r.s, r.p, width)
      /\ r.p.complete \/ ~hurried
  BY <1>6 DEF Keeps
<1>8. Len(buffer') = width
  BY <1>1, <1>2, FrameTyped, CellsLen
<1>9. ~blanked' => TextTrue(r.s, r.p, width)
  BY <1>1, <1>4, <1>7
<1>10. Shows'
  BY <1>1, <1>3, <1>7, <1>9 DEF Shows, Images
<1>11. hits' = frame.actions
  BY <1>1, <1>5, <1>7
<1>12. ClicksAsShown'
  BY <1>1, <1>11 DEF ClicksAsShown
<1>13. QED
  BY <1>1, <1>2, <1>3, <1>7, <1>8, <1>10, <1>12 DEF PresenterInv, Images

(* The terminal is resized.                                                *)
LEMMA Resized ==
  ASSUME PresenterInv, NEW n \in Widths, Resize(n)
  PROVE  PresenterInv'
<1>1. /\ n # width /\ Len(buffer) = width /\ width' = n /\ drawn' = Nothing
      /\ screen' = [c \in 1..n |-> IF c <= width THEN screen[c] ELSE [text |-> Space, pixel |-> Nothing]]
      /\ buffer' = buffer /\ presenter' = presenter /\ clearing' = clearing
  BY DEF Resize
<1>2. n \in Nat /\ width \in Nat /\ IsScreen(screen, width)
  BY PresenterAssumption DEF PresenterInv
<1>3. IsScreen(screen', n)
  <2>1. DOMAIN screen' = 1..n
    BY <1>1
  <2>2. ASSUME NEW c \in 1..n PROVE DOMAIN screen'[c] = {"text", "pixel"}
    <3>1. CASE c <= width
      BY <3>1, <1>1, <1>2 DEF IsScreen
    <3>2. CASE ~(c <= width)
      <4>1. screen'[c] = [text |-> Space, pixel |-> Nothing]
        BY <3>2, <1>1
      <4>2. QED
        BY <4>1, Built
    <3>3. QED
      BY <3>1, <3>2
  <2>3. QED
    BY <2>1, <2>2 DEF IsScreen
<1>4. QED
  BY <1>1, <1>3 DEF PresenterInv, ClicksAsShown

(* Another program or screen has the terminal.                             *)
LEMMA Yielded ==
  ASSUME PresenterInv, Handoff \/ Sources
  PROVE  PresenterInv'
<1>1. /\ clearing' = TRUE /\ presenter' = Removed(presenter) /\ hits' = Nothing
      /\ drawn' = Nothing /\ width' = width
  BY DEF Handoff, Sources, Yield
<1>2. Shaped(presenter) /\ (presenter.surface = "off" => presenter.area = {})
  BY DEF PresenterInv
<1>3. /\ Shaped(Removed(presenter))
      /\ Removed(presenter).surface = "off" => Removed(presenter).area = {}
      /\ Images(Removed(presenter)) => Removed(presenter).area = {} /\ Removed(presenter).frame = Nothing
  BY <1>2 DEF Removed, Shaped, Fields, Images
<1>4. IsScreen(screen', width)
  <2>1. CASE Handoff
    BY <2>1, BlankPlain DEF Handoff
  <2>2. CASE Sources
    <3>1. screen' = [c \in 1..width |-> [text |-> "x", pixel |-> Nothing]]
      BY <2>2 DEF Sources
    <3>2. DOMAIN screen' = 1..width
      BY <3>1
    <3>3. ASSUME NEW c \in 1..width PROVE DOMAIN screen'[c] = {"text", "pixel"}
      <4>1. screen'[c] = [text |-> "x", pixel |-> Nothing]
        BY <3>1
      <4>2. QED
        BY <4>1, Built
    <3>4. QED
      BY <3>2, <3>3 DEF IsScreen
  <2>3. QED
    BY <2>1, <2>2
<1>5. QED
  BY <1>1, <1>3, <1>4 DEF PresenterInv, ClicksAsShown

(* The invariant holds in every state: a frame brings it about again       *)
(* (present_composed_frame), and a terminal that was resized or lent is    *)
(* cleared before the next one.                                            *)
THEOREM PresenterInvariance == PresenterSpec => []PresenterInv
<1>1. PresenterInit => PresenterInv
  BY InitInv
<1>2. PresenterInv /\ [PresenterNext]_presenterVars => PresenterInv'
  <2> SUFFICES ASSUME PresenterInv, [PresenterNext]_presenterVars PROVE PresenterInv'
    OBVIOUS
  <2>1. CASE \E frame \in Frames(width), late \in Pace : Frame(frame, late)
    <3>1. PICK frame \in Frames(width), late \in Pace : Frame(frame, late)
      BY <2>1
    <3>2. QED
      BY <3>1, TextFrame, ImageFrame
  <2>2. CASE \E n \in Widths : Resize(n)
    BY <2>2, Resized
  <2>3. CASE Handoff \/ Sources
    BY <2>3, Yielded
  <2>4. CASE UNCHANGED presenterVars
    BY <2>4 DEF presenterVars, PresenterInv, Shows, ClicksAsShown
  <2>5. QED
    BY <2>1, <2>2, <2>3, <2>4 DEF PresenterNext
<1>3. QED
  BY <1>1, <1>2, PTL DEF PresenterSpec

-----------------------------------------------------------------------------
(* What the presenter holds, the screen shows.                             *)
LEMMA InvRestores == PresenterInv => ScreenShowsFrame
<1> SUFFICES ASSUME PresenterInv, ~blanked, drawn # Nothing, NEW c \in 1..width
             PROVE  IF Art(c) THEN Look(c) = drawn.art \/ (~presenter.complete /\ Look(c) \in Arts)
                    ELSE Look(c) = drawn.text[c]
  BY DEF ScreenShowsFrame, Restored
<1>1. /\ width \in Widths /\ drawn \in Frames(width) /\ Shaped(presenter) /\ Shows
      /\ presenter.surface = "off" => presenter.area = {}
  BY DEF PresenterInv
<1>2. CASE presenter.surface = "off"
  <2>1. screen[c].pixel = Nothing /\ screen[c].text = drawn.text[c]
    BY <1>1, <1>2 DEF Shows, Plain
  <2>2. QED
    BY <2>1, <1>1, <1>2 DEF Art, Look
<1>3. CASE Images(presenter)
  <2>1. TextTrue(screen, presenter, width) /\ Holds(presenter, drawn, width)
    BY <1>1, <1>3 DEF Shows
  <2>2. /\ presenter.text[c].glyph = drawn.text[c]
        /\ presenter.text[c].skip <=> c \in ArtOf(drawn)
    <3>1. presenter.text = Cells(drawn.text, ArtOf(drawn))
      BY <2>1 DEF Holds, ArtOf
    <3>2. Cells(drawn.text, ArtOf(drawn))[c].glyph = drawn.text[c]
      BY <1>1, NextGlyph
    <3>3. Cells(drawn.text, ArtOf(drawn))[c].skip <=> c \in ArtOf(drawn)
      BY <1>1, NextSkip
    <3>4. QED
      BY <3>1, <3>2, <3>3
  <2>3. Art(c) <=> c \in ArtOf(drawn)
    BY <2>1 DEF Art, ArtOf, Holds
  <2>4. CASE c \in ArtOf(drawn)
    <3>1. Look(c) = presenter.frame.art
      BY <2>1, <2>2, <2>4 DEF TextTrue, Holds, Look
    <3>2. QED
      BY <3>1, <2>1, <2>3, <2>4 DEF Holds, ArtOf
  <2>5. CASE c \notin ArtOf(drawn)
    <3>1. Look(c) = drawn.text[c]
      BY <2>1, <2>2, <2>5 DEF TextTrue, Holds, Look
    <3>2. QED
      BY <3>1, <2>3, <2>5
  <2>6. QED
    BY <2>4, <2>5
<1>4. QED
  BY <1>1, <1>2, <1>3 DEF Shaped, Images

(* ScreenShowsFrame: present_composed_frame repaints what an image erased. *)
THEOREM ScreenShowsFrameCorrect == PresenterSpec => []ScreenShowsFrame
BY PresenterInvariance, InvRestores, PTL

(* ClicksAsShown: presented_hits follows the frame that is on the screen.  *)
THEOREM ClicksAsShownCorrect == PresenterSpec => []ClicksAsShown
<1>1. PresenterInv => ClicksAsShown
  BY DEF PresenterInv
<1>2. QED
  BY <1>1, PresenterInvariance, PTL

-----------------------------------------------------------------------------
(* A set of numbers that is not empty has a least member.                  *)
LEMMA LeastOf ==
  ASSUME NEW T \in SUBSET Nat, T # {}
  PROVE  \E n \in T : \A m \in T : n <= m
<1>1. PICK n \in T : \A m \in T : ~ (<<m, n>> \in OpToRel(<, Nat))
  BY WFMin, NatLessThanWellFounded
<1>2. ASSUME NEW m \in T PROVE n <= m
  <2>1. <<m, n>> \in Nat \X Nat /\ ~(<<m, n>> \in OpToRel(<, Nat))
    BY <1>1
  <2>2. ~(m < n)
    BY <2>1 DEF OpToRel
  <2>3. QED
    BY <2>2
<1>3. QED
  BY <1>2

UpTo(S, R, x) == {y \in S : <<y, x>> \in R}

Linear(S, R) ==
  /\ \A x \in S : <<x, x>> \in R
  /\ \A x, y \in S : <<x, y>> \in R \/ <<y, x>> \in R
  /\ \A x, y \in S : <<x, y>> \in R /\ <<y, x>> \in R => x = y
  /\ \A x, y, z \in S : <<x, y>> \in R /\ <<y, z>> \in R => <<x, z>> \in R

Ranking(S, R, rank) == \A x \in S : rank[x] = Cardinality(UpTo(S, R, x))

Distinct(S, rank) ==
  /\ \A x \in S : rank[x] \in 1..Cardinality(S)
  /\ \A x, y \in S : rank[x] = rank[y] => x = y

(* Ranks that differ put a finite set in order, and leave nothing out.     *)
LEMMA InOrderIs ==
  ASSUME NEW S, IsFiniteSet(S), NEW rank, Distinct(S, rank)
  PROVE  /\ Cardinality(S) \in Nat
         /\ InOrder(S, rank) \in [1..Cardinality(S) -> S]
         /\ \A x \in S : rank[x] \in 1..Cardinality(S) /\ InOrder(S, rank)[rank[x]] = x
<1> DEFINE n == Cardinality(S)
           f == [x \in S |-> rank[x]]
<1>1. n \in Nat /\ IsFiniteSet(1..n) /\ Cardinality(1..n) = n
  BY FS_CardinalityType, FS_Interval
<1>2. f \in Injection(S, 1..n)
  BY DEF Injection, IsInjective, Distinct
<1>3. f \in Surjection(S, 1..n)
  <2> HIDE DEF f
  <2>1. QED
    BY <1>1, <1>2, FS_Injection
<1>4. \A i \in 1..n : \E x \in S : rank[x] = i
  BY <1>3 DEF Surjection
<1>5. QED
  BY <1>1, <1>4 DEF InOrder, Distinct

(* The members of a finite set, counted along a linear order, have ranks   *)
(* that differ.                                                            *)
LEMMA RanksDiffer ==
  ASSUME NEW S, IsFiniteSet(S), NEW R, NEW rank, Linear(S, R), Ranking(S, R, rank)
  PROVE  Distinct(S, rank)
<1> DEFINE upto(x) == UpTo(S, R, x)
<1>1. \A x \in S : x \in upto(x) /\ upto(x) \in SUBSET S /\ rank[x] = Cardinality(upto(x))
  BY DEF UpTo, Linear, Ranking
<1>2. ASSUME NEW x \in S, NEW y \in S, <<x, y>> \in R, x # y PROVE upto(x) \in SUBSET upto(y) /\ y \notin upto(x)
  BY <1>2 DEF UpTo, Linear
<1> HIDE DEF upto
<1>3. \A x \in S : IsFiniteSet(upto(x)) /\ Cardinality(upto(x)) \in Nat /\ Cardinality(upto(x)) <= Cardinality(S)
  BY <1>1, FS_Subset, FS_CardinalityType
<1>4. \A x \in S : Cardinality(upto(x)) # 0
  BY <1>1, <1>3, FS_EmptySet
<1>5. ASSUME NEW x \in S, NEW y \in S, <<x, y>> \in R, x # y PROVE rank[x] # rank[y]
  <2>1. Cardinality(upto(x)) = Cardinality(upto(y)) => upto(x) = upto(y)
    BY <1>2, <1>3, <1>5, FS_Subset
  <2>2. QED
    BY <1>1, <1>2, <1>5, <2>1
<1>6. Cardinality(S) \in Nat
  BY FS_CardinalityType
<1>7. ASSUME NEW x \in S PROVE rank[x] \in 1..Cardinality(S)
  BY <1>1, <1>3, <1>4, <1>6
<1>8. ASSUME NEW x \in S, NEW y \in S, rank[x] = rank[y] PROVE x = y
  BY <1>5, <1>8 DEF Linear
<1>9. QED
  BY <1>7, <1>8 DEF Distinct

(* Only: exactly those that are in the set.                                *)
LEMMA OnlyIs ==
  ASSUME NEW T, NEW s \in Seq(T), NEW S
  PROVE  /\ Only(s, S) \in Seq(T)
         /\ ToSet(Only(s, S)) = ToSet(s) \cap S
<1> DEFINE places == {i \in DOMAIN s : s[i] \in S}
           rank == [i \in places |-> Cardinality({j \in places : j <= i})]
           R == {r \in places \X places : r[1] <= r[2]}
           kept == InOrder(places, rank)
<1>1. DOMAIN s = 1..Len(s) /\ Len(s) \in Nat /\ \A i \in DOMAIN s : s[i] \in T
  OBVIOUS
<1>2. IsFiniteSet(1..Len(s))
  BY <1>1, FS_Interval
<1>3. IsFiniteSet(places) /\ places \subseteq Nat
  BY <1>1, <1>2, FS_Subset
<1>4. Ranking(places, R, rank)
  <2>1. ASSUME NEW i \in places PROVE {j \in places : j <= i} = UpTo(places, R, i)
    BY DEF UpTo
  <2>2. QED
    BY <2>1 DEF Ranking
<1>5. Linear(places, R)
  BY <1>3 DEF Linear
<1>6. Only(s, S) = [n \in DOMAIN kept |-> s[kept[n]]]
  BY DEF Only
<1>6a. /\ \A i \in places : i \in DOMAIN s /\ s[i] \in S
       /\ \A i \in DOMAIN s : s[i] \in S => i \in places
  OBVIOUS
<1> HIDE DEF places, rank, R
<1>7. Distinct(places, rank)
  BY <1>3, <1>4, <1>5, RanksDiffer
<1>8. /\ Cardinality(places) \in Nat
      /\ kept \in [1..Cardinality(places) -> places]
      /\ \A x \in places : rank[x] \in 1..Cardinality(places) /\ kept[rank[x]] = x
  BY <1>3, <1>7, InOrderIs
<1> HIDE DEF kept
<1>9. DOMAIN kept = 1..Cardinality(places) /\ \A n \in DOMAIN kept : kept[n] \in places
  BY <1>8
<1>10. Only(s, S) \in Seq(T)
  BY <1>1, <1>6, <1>6a, <1>8, <1>9
<1>11. ASSUME NEW x \in ToSet(s), x \in S PROVE x \in ToSet(Only(s, S))
  <2>1. PICK i \in DOMAIN s : s[i] = x
    BY DEF ToSet
  <2>2. i \in places /\ rank[i] \in DOMAIN kept /\ kept[rank[i]] = i
    BY <1>6a, <1>8, <1>9, <1>11, <2>1
  <2>3. rank[i] \in DOMAIN Only(s, S) /\ Only(s, S)[rank[i]] = x
    BY <1>6, <2>1, <2>2
  <2>4. QED
    BY <2>3 DEF ToSet
<1>12. ASSUME NEW x \in ToSet(Only(s, S)) PROVE x \in ToSet(s) \cap S
  <2>1. PICK n \in DOMAIN Only(s, S) : Only(s, S)[n] = x
    BY DEF ToSet
  <2>2. n \in DOMAIN kept /\ x = s[kept[n]] /\ kept[n] \in DOMAIN s /\ s[kept[n]] \in S
    BY <1>6, <1>6a, <1>9, <2>1
  <2>3. QED
    BY <2>2 DEF ToSet
<1>13. QED
  BY <1>10, <1>11, <1>12

(* Where a member is in a sequence.                                        *)
LEMMA PositionIs ==
  ASSUME NEW T, NEW s \in Seq(T), NEW x
  PROVE  /\ Position(s, x) \in 0..Len(s)
         /\ x \in ToSet(s) <=> Position(s, x) > 0
         /\ Position(s, x) > 0 => s[Position(s, x)] = x
<1> DEFINE I == {i \in 1..Len(s) : s[i] = x}
<1>1. Position(s, x) = IF I # {} THEN Min(I) ELSE 0
  BY DEF Position, SelectInSeq
<1>2. x \in ToSet(s) <=> I # {}
  BY DEF ToSet
<1>3. I # {} => Min(I) \in I
  <2>1. I \in SUBSET Nat
    OBVIOUS
  <2> HIDE DEF I
  <2>2. I # {} => \E n \in I : \A m \in I : n <= m
    BY <2>1, LeastOf
  <2>3. QED
    BY <2>2 DEF Min
<1>4. Len(s) \in Nat
  OBVIOUS
<1>5. QED
  BY <1>1, <1>2, <1>3, <1>4

-----------------------------------------------------------------------------
Places == [floor : Floors, person : People \cup {Nobody}]
DeliveryKeys == {<<"event", n.id>> : n \in {m \in Notes : m.result}}

(* The world.                                                              *)
TowerInv == staff \in [Floors -> Seq(People)] /\ notes \subseteq Notes /\ moment \in Nat

(* The rows are of the notebook's channel, and there are none while a      *)
(* "Mark" that is still on the screen belongs to another.                  *)
NotebookInv ==
  /\ DOMAIN notebook = {"open", "roomy", "channel", "all", "rows", "index"}
  /\ DOMAIN markers = {"reviewed", "acknowledged"}
  /\ DOMAIN markers.reviewed \subseteq DeliveryKeys
  /\ \A k \in DOMAIN markers.acknowledged : k[1] = "Attention"
  /\ \A i \in DOMAIN notebook.rows :
       /\ notebook.channel = "Deliveries" => notebook.rows[i].key \in DeliveryKeys
       /\ notebook.channel = "Attention" => notebook.rows[i].key[1] = "Attention"
  /\ \A h \in targets :
       h.do = "Mark" => notebook.rows = <<>> \/ notebook.channel \in {"Attention", "Deliveries"}

(* What the finder lists are floors, and people on floors.                 *)
FinderInv ==
  /\ DOMAIN finder = {"open", "gone", "roomy", "entries", "search", "matches", "index"}
  /\ finder.entries \in Seq(Places) /\ finder.matches \in Seq(Places)

(* Who was asked for by name is what the next frame is asked to open: the  *)
(* person on the phone, or the find.  Unless the selection is steered, the *)
(* next frame is asked for nothing else.                                   *)
AskInv ==
  /\ DOMAIN pending = {"person", "find", "control"}
  /\ pending.find # Nobody => pending.find \in Places
  /\ \A t \in named :
       \/ t.floor = Nobody /\ Target(Nobody, pending.person) \in named
       \/ pending.find # Nobody /\ t = pending.find /\ t.person # Nobody
  /\ pending.person # Nobody => Target(Nobody, pending.person) \in named
  /\ pending.find # Nobody => pending.find \in named \/ (pending.find.person = Nobody /\ steered)

(* Unless it is steered, the selection is what the last frame showed.      *)
SelectionInv ==
  /\ DOMAIN selection = {"floor", "floorId", "person", "personId"}
  /\ selection.floor \in Nat /\ known.floors \in Nat
  /\ shown # Nobody => shown = [view |-> shown.view, floor |-> shown.floor, person |-> shown.person]
  /\ ~steered /\ shown # Nobody =>
       view = shown.view /\ selection.floorId = shown.floor /\ selection.personId = shown.person

(* The ends of the visits are what the baselines and dates say they are.   *)
VisitInv ==
  /\ visits \in [last : [Floors -> Nat], base : [Floors -> Nat \cup {Nobody}], at : Floors \cup {Nobody}]
  /\ stay \in [floor : Floors \cup {Nobody}, at : Nat, ends : [Floors -> Nat]]
  /\ stay.floor = visits.at
  /\ \A f \in Floors :
       IF f = visits.at THEN visits.base[f] = stay.ends[f] /\ stay.at = visits.last[f]
       ELSE stay.ends[f] = visits.last[f]

NavInv == TowerInv /\ NotebookInv /\ FinderInv /\ AskInv /\ SelectionInv /\ VisitInv

-----------------------------------------------------------------------------
(* FlattenSeq: the sequences, one after another.                           *)
LEMMA FlattenIs ==
  ASSUME NEW T, NEW seqs \in Seq(Seq(T))
  PROVE  FlattenSeq(seqs) \in Seq(T)
<1> DEFINE n == Len(seqs)
           Grown(f, k) == f = [i \in 1..k |-> IF i = 1 THEN seqs[i] ELSE f[i - 1] \o seqs[i]]
           flat == CHOOSE f : Grown(f, n)
           Lost == {k \in 1..n : ~ \E f : Grown(f, k)}
           Odd == {i \in 1..n : flat[i] \notin Seq(T)}
<1>1. n \in Nat /\ \A i \in 1..n : seqs[i] \in Seq(T)
  OBVIOUS
<1>2. FlattenSeq(seqs) = IF n = 0 THEN seqs ELSE flat[n]
  BY DEF FlattenSeq
<1>3. Lost = {}
  <2> SUFFICES ASSUME Lost # {} PROVE FALSE
    OBVIOUS
  <2>1. PICK k \in Lost : \A m \in Lost : k <= m
    <3>1. Lost \in SUBSET Nat
      <4> HIDE DEF Grown
      <4>1. QED
        BY <1>1
    <3> HIDE DEF Lost
    <3>2. QED
      BY <3>1, LeastOf
  <2>2. k \in 1..n /\ ~ \E f : Grown(f, k)
    BY <2>1
  <2>3. CASE k = 1
    <3>1. Grown([i \in 1..1 |-> seqs[1]], 1)
      OBVIOUS
    <3>2. QED
      BY <2>2, <2>3, <3>1
  <2>4. CASE k # 1
    <3>1. k - 1 \in 1..n /\ k - 1 < k
      BY <1>1, <2>2, <2>4
    <3>2. k - 1 \notin Lost
      <4> HIDE DEF Lost
      <4>1. QED
        BY <1>1, <2>1, <2>2, <3>1
    <3>3. PICK f : Grown(f, k - 1)
      BY <3>1, <3>2
    <3> DEFINE g == [i \in 1..k |-> IF i < k THEN f[i] ELSE f[k - 1] \o seqs[k]]
    <3>4. f = [i \in 1..(k - 1) |-> IF i = 1 THEN seqs[i] ELSE f[i - 1] \o seqs[i]]
      BY <3>3
    <3>5. ASSUME NEW i \in 1..k PROVE g[i] = IF i = 1 THEN seqs[i] ELSE g[i - 1] \o seqs[i]
      <4>1. CASE i = k
        <5>1. k \in 1..k /\ k - 1 \in 1..k /\ k - 1 < k /\ ~(k < k)
          BY <1>1, <2>2, <2>4
        <5>2. g[k] = f[k - 1] \o seqs[k]
          BY <5>1
        <5>3. g[k - 1] = f[k - 1]
          BY <5>1
        <5> HIDE DEF g
        <5>4. QED
          BY <5>2, <5>3, <4>1, <2>4
      <4>2. CASE i # k
        <5>1. i \in 1..(k - 1) /\ g[i] = f[i] /\ (i # 1 => g[i - 1] = f[i - 1])
          BY <1>1, <2>2, <4>2
        <5>2. f[i] = IF i = 1 THEN seqs[i] ELSE f[i - 1] \o seqs[i]
          BY <3>4, <5>1
        <5>3. QED
          BY <5>1, <5>2
      <4>3. QED
        BY <4>1, <4>2
    <3>6. g = [i \in 1..k |-> IF i = 1 THEN seqs[i] ELSE g[i - 1] \o seqs[i]]
      <4>1. DOMAIN g = 1..k /\ g = [i \in 1..k |-> g[i]]
        OBVIOUS
      <4> HIDE DEF g
      <4>2. QED
        BY <3>5, <4>1
    <3>7. Grown(g, k)
      BY <3>6
    <3>8. QED
      BY <2>2, <3>7
  <2>5. QED
    BY <2>3, <2>4
<1>4. CASE n = 0
  BY <1>2, <1>4
<1>5. CASE n # 0
  <2>1. n \in 1..n
    BY <1>1, <1>5
  <2>2. \E f : Grown(f, n)
    BY <1>3, <2>1
  <2>3. Grown(flat, n)
    <3> HIDE DEF Grown
    <3>1. QED
      BY <2>2
  <2>4. flat = [i \in 1..n |-> IF i = 1 THEN seqs[i] ELSE flat[i - 1] \o seqs[i]]
    BY <2>3
  <2> HIDE DEF flat
  <2>5. \A i \in 1..n : flat[i] = IF i = 1 THEN seqs[i] ELSE flat[i - 1] \o seqs[i]
    BY <2>4
  <2>6. Odd = {}
    <3> SUFFICES ASSUME Odd # {} PROVE FALSE
      OBVIOUS
    <3>1. PICK i \in Odd : \A m \in Odd : i <= m
      <4>1. Odd \in SUBSET Nat
        BY <1>1
      <4> HIDE DEF Odd
      <4>2. QED
        BY <4>1, LeastOf
    <3>2. i \in 1..n /\ flat[i] \notin Seq(T)
      BY <3>1
    <3>3. i # 1 => i - 1 \in 1..n /\ i - 1 \notin Odd
      BY <1>1, <3>1, <3>2
    <3>4. i # 1 => flat[i - 1] \in Seq(T)
      BY <3>3
    <3>5. flat[i] \in Seq(T)
      <4>1. seqs[i] \in Seq(T) /\ flat[i] = IF i = 1 THEN seqs[i] ELSE flat[i - 1] \o seqs[i]
        BY <1>1, <2>5, <3>2
      <4>2. QED
        BY <3>4, <4>1
    <3>6. QED
      BY <3>2, <3>5
  <2>7. QED
    BY <1>2, <1>5, <2>1, <2>6
<1>6. QED
  BY <1>4, <1>5

(* The floors that have people, and what can be found there.               *)
LEMMA OpenFloorsAre ==
  ASSUME TowerInv
  PROVE  /\ OpenFloors \in Seq(Floors)
         /\ \A f : f \in ToSet(OpenFloors) <=> f \in Floors /\ staff[f] # <<>>
<1> DEFINE all == [f \in Floors |-> f]
           open == {f \in Floors : staff[f] # <<>>}
<1>1. all \in Seq(Floors) /\ ToSet(all) = Floors
  BY NavigationAssumption DEF Floors, ToSet
<1>2. OpenFloors = Only(all, open)
  BY DEF OpenFloors
<1> HIDE DEF all
<1>3. OpenFloors \in Seq(Floors) /\ ToSet(OpenFloors) = Floors \cap open
  BY <1>1, <1>2, OnlyIs
<1>4. QED
  BY <1>3

LEMMA DirectoryTyped == TowerInv => Directory \in Seq(Places)
<1> SUFFICES ASSUME TowerInv PROVE Directory \in Seq(Places)
  OBVIOUS
<1> DEFINE on(f) == [j \in DOMAIN staff[f] |-> Target(f, staff[f][j])]
           one(f) == <<Target(f, Nobody)>> \o on(f)
           each == [i \in DOMAIN OpenFloors |-> one(OpenFloors[i])]
<1>1. OpenFloors \in Seq(Floors)
  BY OpenFloorsAre
<1>2. ASSUME NEW f \in Floors PROVE one(f) \in Seq(Places)
  <2>1. staff[f] \in Seq(People)
    BY DEF TowerInv
  <2>2. \A j \in DOMAIN staff[f] : Target(f, staff[f][j]) \in Places
    BY <2>1 DEF Target, Places
  <2>3. on(f) \in Seq(Places)
    BY <2>1, <2>2
  <2>4. Target(f, Nobody) \in Places
    BY DEF Target, Places
  <2>5. <<Target(f, Nobody)>> \in Seq(Places)
    BY <2>4
  <2> HIDE DEF on
  <2>6. QED
    BY <2>3, <2>5
<1> HIDE DEF one
<1>3. each \in Seq(Seq(Places))
  <2> DEFINE floors == OpenFloors
  <2>1. floors \in Seq(Floors)
    BY <1>1
  <2> HIDE DEF floors
  <2>2. DOMAIN floors = 1..Len(floors) /\ Len(floors) \in Nat /\ \A i \in DOMAIN floors : floors[i] \in Floors
    BY <2>1
  <2>3. \A i \in DOMAIN floors : one(floors[i]) \in Seq(Places)
    BY <1>2, <2>2
  <2>4. [i \in DOMAIN floors |-> one(floors[i])] \in [1..Len(floors) -> Seq(Places)]
    BY <2>2, <2>3
  <2>5. [i \in DOMAIN floors |-> one(floors[i])] \in Seq(Seq(Places))
    BY <2>2, <2>4
  <2>6. QED
    BY <2>5 DEF floors
<1>4. Directory = FlattenSeq(each)
  BY DEF Directory, one
<1> HIDE DEF each
<1>5. QED
  BY <1>3, <1>4, FlattenIs

-----------------------------------------------------------------------------
(* What a key or a click may do to the notebook and the markers,           *)
NotebookMoves ==
  /\ \/ notebook' = notebook
     \/ notebook' = Shut(notebook)
     \/ \E all : notebook' = [notebook EXCEPT !.all = all]
     \/ \E i : notebook' = [notebook EXCEPT !.index = i]
     \/ \E c, all : notebook' = TurnedTo(notebook, c, all)
  /\ \/ markers' = markers
     \/ /\ notebook.channel \in {"Attention", "Deliveries"}
        /\ \E i \in DOMAIN notebook.rows : Mark(notebook.rows[i].key)

(* to the finder,                                                          *)
FinderMoves ==
  \/ finder' = finder
  \/ finder' = Shut(finder)
  \/ \E i : finder' = [finder EXCEPT !.index = i]
  \/ finder' = FinderOpened(finder)
  \/ \E q : finder' = Filtered([finder EXCEPT !.search = q, !.index = 1, !.gone = FALSE], Nobody)

(* to what the next frame is asked for,                                    *)
AskMoves ==
  \/ /\ named' = named /\ (~steered' => ~steered)
     /\ \/ pending' = pending
        \/ \E what : pending' = [pending EXCEPT !.control = what]
  \/ /\ pending' = [pending EXCEPT !.find = Nobody] /\ named' = named \ Sought
     /\ IF pending.find = Nobody THEN ~steered' => ~steered ELSE steered' = TRUE
  \/ \E p : /\ named' = named \cup {Target(Nobody, p)} /\ steered' = steered
            /\ \/ pending' = [pending EXCEPT !.person = p]
               \/ \E what : pending' = [pending EXCEPT !.person = p, !.control = what]
  \/ /\ pending' = [pending EXCEPT !.person = Nobody] /\ named' = named \cap Sought
     /\ steered' = TRUE
  \/ \E t \in Places :
       /\ t # Nobody /\ pending' = [pending EXCEPT !.find = t]
       /\ \/ t.person = Nobody /\ steered' = TRUE /\ named' = named \ Sought
          \/ t.person # Nobody /\ steered' = steered /\ named' = (named \ Sought) \cup {t}

(* and to the selection.                                                   *)
SelectionMoves ==
  \/ UNCHANGED <<view, selection, steered>>
  \/ steered' = TRUE /\ DOMAIN selection' = DOMAIN selection /\ selection'.floor \in Nat

Moves == Inert /\ NotebookMoves /\ FinderMoves /\ AskMoves /\ SelectionMoves

LEMMA NotebookMovesKeep == ASSUME NotebookInv, NotebookMoves, targets' = targets PROVE NotebookInv'
<1>1. /\ DOMAIN notebook' = {"open", "roomy", "channel", "all", "rows", "index"}
      /\ notebook'.rows = <<>> \/ (notebook'.rows = notebook.rows /\ notebook'.channel = notebook.channel)
  BY DEF NotebookInv, NotebookMoves, Shut, TurnedTo
<1>2. /\ DOMAIN markers' = {"reviewed", "acknowledged"}
      /\ DOMAIN markers'.reviewed \subseteq DeliveryKeys
      /\ \A k \in DOMAIN markers'.acknowledged : k[1] = "Attention"
  <2>1. CASE markers' = markers
    BY <2>1 DEF NotebookInv
  <2>2. ASSUME NEW i \in DOMAIN notebook.rows, Mark(notebook.rows[i].key),
               notebook.channel \in {"Attention", "Deliveries"}
        PROVE  <1>2!1 /\ <1>2!2 /\ <1>2!3
    <3> DEFINE key == notebook.rows[i].key
    <3>1. ASSUME NEW marks, NEW m \in Pruned(Toggled(marks, key)) PROVE DOMAIN m \subseteq DOMAIN marks \cup {key}
      <4>1. DOMAIN Toggled(marks, key) \subseteq DOMAIN marks \cup {key}
        BY DEF Toggled
      <4> DEFINE all == Toggled(marks, key)
      <4> HIDE DEF all, key
      <4>2. DOMAIN m \subseteq DOMAIN all
        BY <3>1 DEF Pruned, all
      <4>3. QED
        BY <4>1, <4>2 DEF all
    <3>2. CASE notebook.channel = "Deliveries"
      <4>1. PICK m \in Pruned(Toggled(markers.reviewed, key)) : markers' = [markers EXCEPT !.reviewed = m]
        BY <2>2, <3>2 DEF Mark
      <4>2. key \in DeliveryKeys /\ DOMAIN m \subseteq DOMAIN markers.reviewed \cup {key}
        BY <3>1, <3>2 DEF NotebookInv
      <4>3. QED
        BY <4>1, <4>2 DEF NotebookInv
    <3>3. CASE notebook.channel = "Attention"
      <4>1. PICK m \in Pruned(Toggled(markers.acknowledged, key)) :
              markers' = [markers EXCEPT !.acknowledged = m]
        BY <2>2, <3>3 DEF Mark
      <4>2. key[1] = "Attention" /\ DOMAIN m \subseteq DOMAIN markers.acknowledged \cup {key}
        BY <3>1, <3>3 DEF NotebookInv
      <4>3. QED
        BY <4>1, <4>2 DEF NotebookInv
    <3>4. QED
      BY <2>2, <3>2, <3>3
  <2>3. QED
    BY <2>1, <2>2 DEF NotebookMoves
<1>3. QED
  BY <1>1, <1>2 DEF NotebookInv

LEMMA MatchingTyped ==
  ASSUME NEW entries \in Seq(Places), NEW q
  PROVE  Matching(entries, q) \in Seq(Places)
BY OnlyIs DEF Matching

LEMMA FinderMovesKeep == ASSUME FinderInv, FinderMoves PROVE FinderInv'
<1>1. ASSUME NEW q, NEW f, DOMAIN f = DOMAIN finder, f.entries = finder.entries, f.search = q
      PROVE  LET g == Filtered(f, Nobody)
             IN DOMAIN g = DOMAIN finder /\ g.entries \in Seq(Places) /\ g.matches \in Seq(Places)
  <2>1. Matching(f.entries, f.search) \in Seq(Places)
    BY <1>1, MatchingTyped DEF FinderInv
  <2>2. QED
    BY <1>1, <2>1 DEF Filtered, FinderInv
<1>2. CASE finder' = finder \/ finder' = Shut(finder) \/ \E i : finder' = [finder EXCEPT !.index = i]
  BY <1>2 DEF FinderInv, Shut
<1>3. CASE finder' = FinderOpened(finder)
  <2> DEFINE f == [finder EXCEPT !.open = TRUE, !.gone = FALSE, !.search = Nobody, !.index = 1]
  <2>1. finder' = Filtered(f, Nobody)
    BY <1>3 DEF FinderOpened
  <2>2. DOMAIN f = DOMAIN finder /\ f.entries = finder.entries /\ f.search = Nobody
    BY DEF FinderInv
  <2> HIDE DEF f
  <2>3. QED
    BY <1>1, <2>1, <2>2 DEF FinderInv
<1>4. ASSUME NEW q, finder' = Filtered([finder EXCEPT !.search = q, !.index = 1, !.gone = FALSE], Nobody)
      PROVE  FinderInv'
  <2> DEFINE f == [finder EXCEPT !.search = q, !.index = 1, !.gone = FALSE]
  <2>1. finder' = Filtered(f, Nobody)
    BY <1>4
  <2>2. DOMAIN f = DOMAIN finder /\ f.entries = finder.entries /\ f.search = q
    BY DEF FinderInv
  <2> HIDE DEF f
  <2>3. QED
    BY <1>1, <2>1, <2>2 DEF FinderInv
<1>5. QED
  BY <1>2, <1>3, <1>4 DEF FinderMoves

LEMMA AskMovesKeep == ASSUME AskInv, AskMoves PROVE AskInv'
<1>1. Nobody \notin Floors
  BY NavigationAssumption DEF Floors
<1>2. CASE /\ named' = named /\ (~steered' => ~steered)
           /\ \/ pending' = pending
              \/ \E what : pending' = [pending EXCEPT !.control = what]
  <2>1. DOMAIN pending' = DOMAIN pending /\ pending'.person = pending.person /\ pending'.find = pending.find
    BY <1>2 DEF AskInv
  <2>2. QED
    BY <1>2, <2>1 DEF AskInv
<1>3. ASSUME NEW p, named' = named \cup {Target(Nobody, p)}, steered' = steered,
             \/ pending' = [pending EXCEPT !.person = p]
             \/ \E what : pending' = [pending EXCEPT !.person = p, !.control = what]
      PROVE  AskInv'
  <2>1. DOMAIN pending' = DOMAIN pending /\ pending'.person = p /\ pending'.find = pending.find
    BY <1>3 DEF AskInv
  <2>2. Target(Nobody, p) \in named' /\ Target(Nobody, p).floor = Nobody
    BY <1>3 DEF Target
  <2>3. QED
    BY <1>3, <2>1, <2>2 DEF AskInv
<1>4. Target(Nobody, pending.person).floor = Nobody /\ \A s \in Sought : s.floor \in Floors
  BY DEF Target, Sought, AskInv, Places
<1>5. Target(Nobody, pending.person) \notin Sought
  BY <1>1, <1>4
<1>6. \A s \in named \ Sought : s.floor = Nobody /\ Target(Nobody, pending.person) \in named \ Sought
  <2>1. \A s \in named \ Sought : ~(pending.find # Nobody /\ s = pending.find)
    BY DEF Sought
  <2>2. QED
    BY <1>5, <2>1 DEF AskInv
<1>7. CASE /\ pending' = [pending EXCEPT !.find = Nobody] /\ named' = named \ Sought
           /\ IF pending.find = Nobody THEN ~steered' => ~steered ELSE steered' = TRUE
  <2>1. DOMAIN pending' = DOMAIN pending /\ pending'.person = pending.person /\ pending'.find = Nobody
    BY <1>7 DEF AskInv
  <2>2. QED
    BY <1>5, <1>6, <1>7, <2>1 DEF AskInv
<1>8. CASE /\ pending' = [pending EXCEPT !.person = Nobody] /\ named' = named \cap Sought /\ steered' = TRUE
  <2>1. DOMAIN pending' = DOMAIN pending /\ pending'.person = Nobody /\ pending'.find = pending.find
    BY <1>8 DEF AskInv
  <2>2. \A s \in named \cap Sought : pending.find # Nobody /\ s = pending.find /\ s.person # Nobody
    <3>1. \A s \in named \cap Sought : s.floor # Nobody /\ pending.find # Nobody /\ s = pending.find
      BY <1>1, <1>4 DEF Sought
    <3>2. QED
      BY <3>1 DEF AskInv
  <2>3. pending.find # Nobody => pending.find \in named \cap Sought \/ pending.find.person = Nobody
    BY DEF AskInv, Sought
  <2>4. QED
    BY <1>8, <2>1, <2>2, <2>3 DEF AskInv
<1>9. ASSUME NEW t \in Places, t # Nobody, pending' = [pending EXCEPT !.find = t],
             \/ t.person = Nobody /\ steered' = TRUE /\ named' = named \ Sought
             \/ t.person # Nobody /\ steered' = steered /\ named' = (named \ Sought) \cup {t}
      PROVE  AskInv'
  <2>1. DOMAIN pending' = DOMAIN pending /\ pending'.person = pending.person /\ pending'.find = t
    BY <1>9 DEF AskInv
  <2>2. ASSUME NEW s \in named'
        PROVE  \/ s.floor = Nobody /\ Target(Nobody, pending.person) \in named'
               \/ t # Nobody /\ s = t /\ t.person # Nobody
    BY <1>6, <1>9
  <2>3. t \in named' \/ (t.person = Nobody /\ steered')
    BY <1>9
  <2>4. pending.person # Nobody => Target(Nobody, pending.person) \in named'
    BY <1>5, <1>9 DEF AskInv
  <2>5. QED
    BY <1>9, <2>1, <2>2, <2>3, <2>4 DEF AskInv
<1>10. QED
  BY <1>2, <1>3, <1>7, <1>8, <1>9 DEF AskMoves

LEMMA MovesKeep == ASSUME NavInv, Moves PROVE NavInv'
<1>1. UNCHANGED <<staff, asking, notes, moment, known, targets, visits, shown, stay>>
  BY DEF Moves, Inert, towerVars, frameVars
<1>2. NotebookInv'
  BY <1>1, NotebookMovesKeep DEF NavInv, Moves
<1>3. FinderInv'
  BY FinderMovesKeep DEF NavInv, Moves
<1>4. AskInv'
  BY AskMovesKeep DEF NavInv, Moves
<1>5. SelectionInv'
  BY <1>1 DEF NavInv, Moves, SelectionMoves, SelectionInv
<1>6. TowerInv' /\ VisitInv'
  BY <1>1 DEF NavInv, TowerInv, VisitInv
<1>7. QED
  BY <1>2, <1>3, <1>4, <1>5, <1>6 DEF NavInv

-----------------------------------------------------------------------------
LEMMA StepsTyped ==
  ASSUME NEW i \in Nat, NEW n \in Nat
  PROVE  Within(i, n) \in Nat /\ Steps(i, n) \subseteq Nat
BY DEF Within, Steps

(* What only opens and closes panels, or asks for nobody by name.          *)
LEMMA PanelsMove ==
  ASSUME Inert, pending' = pending, named' = named, SelectionMoves, ~steered' => ~steered,
         markers' = markers, notebook' \in {notebook, Shut(notebook)}, finder' \in {finder, Shut(finder)}
  PROVE  Moves
BY DEF Moves, NotebookMoves, FinderMoves, AskMoves

LEMMA SteeredMoves ==
  ASSUME SelectionInv, Inert, Unasked, markers' = markers,
         notebook' \in {notebook, Shut(notebook)}, finder' \in {finder, Shut(finder)},
         NEW v, NEW c, Go(v, c), DOMAIN c = DOMAIN selection, c.floor \in Nat
  PROVE  Moves
<1>1. SelectionMoves /\ (~steered' => ~steered)
  BY DEF Go, SelectionMoves
<1>2. QED
  BY <1>1, PanelsMove DEF Unasked

LEMMA FloorChosen ==
  ASSUME SelectionInv, NEW i \in Nat
  PROVE  /\ DOMAIN ToFloor(selection, i) = DOMAIN selection /\ ToFloor(selection, i).floor \in Nat
         /\ DOMAIN ToFirst(selection, i) = DOMAIN selection /\ ToFirst(selection, i).floor \in Nat
         /\ DOMAIN ToPerson(selection, i) = DOMAIN selection /\ ToPerson(selection, i).floor \in Nat
         /\ DOMAIN selection = DOMAIN selection /\ selection.floor \in Nat
BY DEF SelectionInv, ToFloor, ToFirst, ToPerson

LEMMA PersonChosen ==
  ASSUME SelectionInv, NEW i
  PROVE  DOMAIN ToPerson(selection, i) = DOMAIN selection /\ ToPerson(selection, i).floor \in Nat
BY DEF SelectionInv, ToPerson

LEMMA CycleMoves ==
  ASSUME SelectionInv, CycleOffice, Inert, Unasked, UNCHANGED <<panelVars, markers>>
  PROVE  Moves
<1>1. selection.floor \in Nat /\ known.floors \in Nat
  BY DEF SelectionInv
<1>2. notebook' = notebook /\ finder' = finder /\ markers' = markers
  BY DEF panelVars
<1>3. CASE known.floors = 0
  BY <1>1, <1>2, <1>3, SteeredMoves DEF CycleOffice
<1>4. CASE known.floors # 0
  <2> DEFINE next == (selection.floor % known.floors) + 1
             last == ((selection.floor + known.floors - 2) % known.floors) + 1
  <2>1. next \in Nat /\ last \in Nat
    BY <1>1, <1>4
  <2>2. PICK i \in {next, last} : Go("Office", ToFirst(selection, i))
    BY <1>4 DEF CycleOffice
  <2> HIDE DEF next, last
  <2>3. i \in Nat
    BY <2>1
  <2>4. QED
    BY <1>2, <2>2, <2>3, FloorChosen, SteeredMoves
<1>5. QED
  BY <1>3, <1>4

LEMMA SteeringMoves ==
  ASSUME NavInv
  PROVE  /\ Move => Moves
         /\ Page => Moves
         /\ \A i \in Floors : JumpOffice(i) => Moves
         /\ Enter => Moves
         /\ Back => Moves
<1>1. SelectionInv /\ selection.floor \in Nat /\ known.floors \in Nat
  BY DEF NavInv, SelectionInv
<1>2. ASSUME Move PROVE Moves
  <2>1. Inert /\ Unasked /\ markers' = markers /\ notebook' = notebook /\ finder' = finder
    BY <1>2 DEF Move, panelVars
  <2>2. CASE view = "Cameras"
    <3>1. PICK i \in Steps(selection.floor, known.floors) : Go(view, ToFirst(selection, i))
      BY <1>2, <2>2 DEF Move
    <3>2. i \in Nat
      BY <1>1, StepsTyped
    <3>3. QED
      BY <1>1, <2>1, <3>1, <3>2, FloorChosen, SteeredMoves
  <2>3. CASE view # "Cameras"
    <3>1. PICK i : Go(view, ToPerson(selection, i))
      BY <1>2, <2>3 DEF Move
    <3>2. QED
      BY <1>1, <2>1, <3>1, PersonChosen, SteeredMoves
  <2>4. QED
    BY <2>2, <2>3
<1>3. ASSUME Page PROVE Moves
  <2>1. /\ Inert /\ Unasked /\ markers' = markers /\ notebook' = notebook /\ finder' = finder
        /\ UNCHANGED <<panelVars, markers>>
    BY <1>3 DEF Page, panelVars
  <2>2. ASSUME NEW i \in {1, Within(known.floors, known.floors)} \cup Steps(selection.floor, known.floors),
               Go(view, ToFloor(selection, i))
        PROVE  Moves
    <3>1. i \in Nat
      <4>1. Within(known.floors, known.floors) \in Nat /\ Steps(selection.floor, known.floors) \subseteq Nat
        BY <1>1, StepsTyped
      <4>2. QED
        BY <2>2, <4>1
    <3>2. QED
      BY <1>1, <2>1, <2>2, <3>1, FloorChosen, SteeredMoves
  <2>3. CASE CycleOffice
    BY <1>1, <2>1, <2>3, CycleMoves
  <2>4. ASSUME NEW i, Go(view, ToPerson(selection, i)) PROVE Moves
    BY <1>1, <2>1, <2>4, PersonChosen, SteeredMoves
  <2>5. QED
    BY <1>3, <2>2, <2>3, <2>4 DEF Page
<1>4. ASSUME NEW i \in Floors, JumpOffice(i) PROVE Moves
  <2>1. Inert /\ Unasked /\ markers' = markers /\ notebook' = notebook /\ finder' = finder
    BY <1>4 DEF JumpOffice, panelVars
  <2>2. i \in Nat /\ Go("Office", ToFirst(selection, i))
    BY <1>4 DEF JumpOffice, Floors
  <2>3. QED
    BY <1>1, <2>1, <2>2, FloorChosen, SteeredMoves
<1>5. ASSUME Enter PROVE Moves
  <2>1. Inert /\ Unasked /\ markers' = markers /\ notebook' = notebook /\ finder' = finder
    BY <1>5 DEF Enter, panelVars
  <2>2. QED
    BY <1>1, <1>5, <2>1, SteeredMoves DEF Enter
<1>6. ASSUME Back PROVE Moves
  <2>1. Inert /\ Unasked /\ markers' = markers /\ notebook' = notebook /\ finder' = finder
    BY <1>6 DEF Back, panelVars
  <2>2. QED
    BY <1>1, <1>6, <2>1, SteeredMoves DEF Back
<1>7. QED
  BY <1>2, <1>3, <1>4, <1>5, <1>6

LEMMA StillMoves == Still => SelectionMoves /\ (~steered' => ~steered)
BY DEF Still, SelectionMoves

(* A person asked for by name; nobody asked for by name.                   *)
LEMMA WantMoves == ASSUME NEW p, Want(p), Still PROVE AskMoves
BY DEF Want, Still, AskMoves

LEMMA UnaskedMoves == Unasked /\ Still => AskMoves
<1> SUFFICES ASSUME Unasked, Still PROVE AskMoves
  OBVIOUS
<1>1. pending' = pending /\ named' = named
  BY DEF Unasked
<1>2. ~steered' => ~steered
  BY StillMoves
<1>3. QED
  BY <1>1, <1>2 DEF AskMoves

LEMMA ControlMoves ==
  ASSUME NEW what, pending' = [pending EXCEPT !.control = what], named' = named, ~steered' => ~steered
  PROVE  AskMoves
BY DEF AskMoves

LEMMA PanelKeysMove ==
  ASSUME NavInv
  PROVE  /\ NextAsking => Moves
         /\ \A what : AskControls(what) => Moves
         /\ Modal => Moves
         /\ OpenFinder => Moves
         /\ TogglePhone => Moves
         /\ PhoneKey => Moves
         /\ PhoneEnter => Moves
<1>1. ASSUME NextAsking PROVE Moves
  <2>1. /\ Inert /\ Still /\ notebook' = notebook /\ finder' = finder /\ markers' = markers
        /\ \E p : Want(p)
    BY <1>1 DEF NextAsking
  <2>2. QED
    BY <2>1, WantMoves, StillMoves DEF Moves, NotebookMoves, FinderMoves
<1>2. ASSUME NEW what, AskControls(what) PROVE Moves
  <2>1. /\ Inert /\ Still /\ notebook' = notebook /\ finder' = finder /\ markers' = markers
        /\ pending' = [pending EXCEPT !.control = what] /\ named' = named
    BY <1>2 DEF AskControls
  <2>2. QED
    BY <2>1, ControlMoves, StillMoves DEF Moves, NotebookMoves, FinderMoves
<1>3. ASSUME Modal \/ TogglePhone \/ PhoneKey PROVE Moves
  <2>1. Inert /\ Still /\ Unasked /\ notebook' = notebook /\ finder' = finder /\ markers' = markers
    BY <1>3 DEF Modal, TogglePhone, PhoneKey
  <2>2. QED
    BY <2>1, UnaskedMoves, StillMoves DEF Moves, NotebookMoves, FinderMoves
<1>4. ASSUME OpenFinder PROVE Moves
  <2>1. Inert /\ Still /\ Unasked /\ notebook' = notebook /\ finder' = FinderOpened(finder) /\ markers' = markers
    BY <1>4 DEF OpenFinder
  <2>2. QED
    BY <2>1, UnaskedMoves, StillMoves DEF Moves, NotebookMoves, FinderMoves
<1>5. ASSUME PhoneEnter PROVE Moves
  <2>1. /\ Inert /\ notebook' = notebook /\ finder' = finder /\ markers' = markers
        /\ UNCHANGED <<view, selection>>
    BY <1>5 DEF PhoneEnter
  <2>2. CASE At(phone.list, phone.index) # Nobody
    <3>1. Still /\ \E p : Want(p)
      BY <1>5, <2>1, <2>2 DEF PhoneEnter, Still
    <3>2. QED
      BY <2>1, <3>1, WantMoves, StillMoves DEF Moves, NotebookMoves, FinderMoves
  <2>3. CASE At(phone.list, phone.index) = Nobody
    <3>1. pending' = [pending EXCEPT !.person = Nobody] /\ named' = named \cap Sought /\ steered' = TRUE
      BY <1>5, <2>3 DEF PhoneEnter
    <3>2. AskMoves
      BY <3>1 DEF AskMoves
    <3>3. DOMAIN selection' = DOMAIN selection /\ selection'.floor \in Nat
      BY <2>1 DEF NavInv, SelectionInv
    <3>4. QED
      BY <2>1, <3>1, <3>2, <3>3 DEF Moves, NotebookMoves, FinderMoves, SelectionMoves
  <2>4. QED
    BY <2>2, <2>3
<1>6. QED
  BY <1>1, <1>2, <1>3, <1>4, <1>5

LEMMA FoundTyped ==
  ASSUME FinderInv, Found(finder) # Nobody
  PROVE  Found(finder) \in Places
BY DEF FinderInv, Found, At

LEMMA FinderKeysMove ==
  ASSUME NavInv
  PROVE  (FinderKey => Moves) /\ (FinderEnter => Moves)
<1>1. ASSUME FinderKey PROVE Moves
  <2>1. /\ Inert /\ notebook' = notebook /\ markers' = markers /\ UNCHANGED <<view, selection>>
        /\ pending' = [pending EXCEPT !.find = Nobody]
    BY <1>1 DEF FinderKey, Withdraw
  <2>2. FinderMoves
    BY <1>1 DEF FinderKey, FinderMoves
  <2>3. named' = named \ Sought /\ (pending.find = Nobody <=> Sought = {})
    BY <1>1 DEF FinderKey, Withdraw, Sought
  <2>4. CASE pending.find = Nobody
    <3>1. Still
      BY <1>1, <2>1, <2>3, <2>4 DEF FinderKey, Withdraw, Still
    <3>2. AskMoves
      BY <2>1, <2>3, <2>4, <3>1, StillMoves DEF AskMoves
    <3>3. QED
      BY <2>1, <2>2, <3>1, <3>2, StillMoves DEF Moves, NotebookMoves
  <2>5. CASE pending.find # Nobody
    <3>1. steered' = TRUE
      BY <1>1, <2>3, <2>5 DEF FinderKey, Withdraw
    <3>2. AskMoves
      BY <2>1, <2>3, <2>5, <3>1 DEF AskMoves
    <3>3. DOMAIN selection' = DOMAIN selection /\ selection'.floor \in Nat
      BY <2>1 DEF NavInv, SelectionInv
    <3>4. QED
      BY <2>1, <2>2, <3>1, <3>2, <3>3 DEF Moves, NotebookMoves, SelectionMoves
  <2>6. QED
    BY <2>4, <2>5
<1>2. ASSUME FinderEnter PROVE Moves
  <2> DEFINE t == Found(finder)
  <2>1. /\ Inert /\ notebook' = notebook /\ markers' = markers /\ UNCHANGED <<view, selection>>
        /\ pending' = [pending EXCEPT !.find = t] /\ finder' = Shut(finder) /\ t # Nobody
    BY <1>2 DEF FinderEnter
  <2>2. t \in Places
    BY <2>1, FoundTyped DEF NavInv
  <2>3. IF t.person = Nobody THEN steered' = TRUE /\ named' = named \ Sought
        ELSE named' = (named \ Sought) \cup {t} /\ UNCHANGED steered
    BY <1>2 DEF FinderEnter
  <2> HIDE DEF t
  <2>4. AskMoves
    BY <2>1, <2>2, <2>3 DEF AskMoves
  <2>5. DOMAIN selection' = DOMAIN selection /\ selection'.floor \in Nat
    BY <2>1 DEF NavInv, SelectionInv
  <2>6. SelectionMoves
    BY <2>1, <2>3, <2>5 DEF SelectionMoves
  <2>7. QED
    BY <2>1, <2>4, <2>6 DEF Moves, NotebookMoves, FinderMoves
<1>3. QED
  BY <1>1, <1>2

LEMMA ReviewMoves ==
  ASSUME NEW p, NEW requests, NEW native, Review(p, requests, native), Still
  PROVE  /\ finder' = Shut(finder) /\ notebook' = Shut(notebook) /\ AskMoves
<1>1. finder' = Shut(finder) /\ notebook' = Shut(notebook)
  BY DEF Review, ClosePanels
<1>2. Unasked \/ Want(p)
  BY DEF Review
<1>3. QED
  BY <1>1, <1>2, UnaskedMoves, WantMoves

LEMMA NotebookKeysMove ==
  ASSUME NavInv
  PROVE  /\ \A c : OpenNotebook(c) => Moves
         /\ NotebookKey => Moves
         /\ NotebookMark => Moves
         /\ NotebookEnter => Moves
<1>1. ASSUME NEW c, OpenNotebook(c) PROVE Moves
  <2>1. /\ Inert /\ Still /\ Unasked /\ finder' = finder /\ markers' = markers
        /\ notebook' = TurnedTo(notebook, c, c = "Attention")
    BY <1>1 DEF OpenNotebook
  <2>2. NotebookMoves
    BY <2>1 DEF NotebookMoves
  <2>3. QED
    BY <2>1, <2>2, UnaskedMoves, StillMoves DEF Moves, FinderMoves
<1>2. ASSUME NotebookKey PROVE Moves
  <2>1. Inert /\ Still /\ Unasked /\ finder' = finder /\ markers' = markers
    BY <1>2 DEF NotebookKey
  <2>2. NotebookMoves
    BY <1>2, <2>1 DEF NotebookKey, NotebookMoves
  <2>3. QED
    BY <2>1, <2>2, UnaskedMoves, StillMoves DEF Moves, FinderMoves
<1>3. ASSUME NotebookMark PROVE Moves
  <2>1. Inert /\ Still /\ Unasked /\ finder' = finder /\ notebook' = notebook
    BY <1>3 DEF NotebookMark, panelVars
  <2>2. NotebookMoves
    BY <1>3, <2>1 DEF NotebookMark, NotebookMoves
  <2>3. QED
    BY <2>1, <2>2, UnaskedMoves, StillMoves DEF Moves, FinderMoves
<1>4. ASSUME NotebookEnter PROVE Moves
  <2> DEFINE row == At(notebook.rows, notebook.index)
  <2>1. Inert /\ Still /\ markers' = markers
    BY <1>4 DEF NotebookEnter
  <2>2. \/ \E requests, native \in BOOLEAN : Review(row.person, requests, native)
        \/ Want(row.person) /\ PanelsClosed
    BY <1>4 DEF NotebookEnter
  <2> HIDE DEF row
  <2>3. finder' = Shut(finder) /\ notebook' = Shut(notebook) /\ AskMoves
    BY <2>1, <2>2, ReviewMoves, WantMoves DEF PanelsClosed, ClosePanels
  <2>4. QED
    BY <2>1, <2>3, StillMoves DEF Moves, NotebookMoves, FinderMoves
<1>5. QED
  BY <1>1, <1>2, <1>3, <1>4

LEMMA ClicksMove ==
  ASSUME NavInv, NEW h \in targets
  PROVE  /\ ClickPerson(h) => Moves
         /\ ClickFloor(h) => Moves
         /\ ClickTeam(h) => Moves
         /\ ClickRow(h) => Moves
<1>1. ASSUME ClickPerson(h) PROVE Moves
  <2>1. Inert /\ Still /\ markers' = markers
    BY <1>1 DEF ClickPerson
  <2>2. CASE h.do \in {"Inspect", "Team"} /\ Want(h.person) /\ PanelsClosed
    BY <2>1, <2>2, WantMoves, StillMoves
       DEF Moves, NotebookMoves, FinderMoves, PanelsClosed, ClosePanels
  <2>3. CASE /\ h.do = "Controls" /\ PanelsClosed /\ named' = named \cup {Target(Nobody, h.person)}
             /\ pending' = [pending EXCEPT !.person = h.person, !.control = "task"]
    <3>1. AskMoves
      BY <2>1, <2>3 DEF AskMoves, Still
    <3>2. QED
      BY <2>1, <2>3, <3>1, StillMoves DEF Moves, NotebookMoves, FinderMoves, PanelsClosed, ClosePanels
  <2>4. CASE \E requests, native \in BOOLEAN : Review(h.person, requests, native)
    <3>1. finder' = Shut(finder) /\ notebook' = Shut(notebook) /\ AskMoves
      BY <2>1, <2>4, ReviewMoves
    <3>2. QED
      BY <2>1, <3>1, StillMoves DEF Moves, NotebookMoves, FinderMoves
  <2>5. QED
    BY <1>1, <2>2, <2>3, <2>4 DEF ClickPerson
<1>2. ASSUME ClickFloor(h) PROVE Moves
  <2> DEFINE c == [selection EXCEPT !.floorId = h.floor, !.person = 1, !.personId = Nobody]
  <2>1. /\ Inert /\ Unasked /\ markers' = markers /\ PanelsClosed
        /\ \E v : Go(v, c)
    BY <1>2 DEF ClickFloor
  <2>2. SelectionInv /\ DOMAIN c = DOMAIN selection /\ c.floor \in Nat
    BY DEF NavInv, SelectionInv
  <2> HIDE DEF c
  <2>3. notebook' = Shut(notebook) /\ finder' = Shut(finder)
    BY <2>1 DEF PanelsClosed, ClosePanels
  <2>4. QED
    BY <2>1, <2>2, <2>3, SteeredMoves
<1>3. ASSUME ClickTeam(h) PROVE Moves
  <2> DEFINE c == [selection EXCEPT !.personId = h.person, !.person = 1]
             d == [selection EXCEPT !.personId = h.person, !.floorId = h.floor]
  <2>1. /\ Inert /\ Unasked /\ markers' = markers /\ notebook' = notebook /\ finder' = finder
        /\ Go(view, c) \/ Go(view, d)
    BY <1>3 DEF ClickTeam, panelVars
  <2>2. /\ SelectionInv /\ DOMAIN c = DOMAIN selection /\ c.floor \in Nat
        /\ DOMAIN d = DOMAIN selection /\ d.floor \in Nat
    BY DEF NavInv, SelectionInv
  <2> HIDE DEF c, d
  <2>3. QED
    BY <2>1, <2>2, SteeredMoves
<1>4. ASSUME ClickRow(h) PROVE Moves
  <2>1. Inert /\ Still /\ Unasked /\ finder' = finder
    BY <1>4 DEF ClickRow
  <2>2. CASE /\ h.do = "Select" /\ UNCHANGED markers
             /\ notebook' = [notebook EXCEPT !.index = SelectInSeq(notebook.rows, LAMBDA r : r.key = h.key)]
    <3>1. NotebookMoves
      BY <2>2 DEF NotebookMoves
    <3>2. QED
      BY <2>1, <3>1, UnaskedMoves, StillMoves DEF Moves, FinderMoves
  <2>3. CASE h.do = "Mark" /\ Mark(h.key) /\ UNCHANGED notebook
    <3>1. PICK i \in DOMAIN notebook.rows : notebook.rows[i].key = h.key
      BY <1>4 DEF ClickRow, Listed, ToSet
    <3>2. notebook.channel \in {"Attention", "Deliveries"}
      BY <2>3, <3>1 DEF NavInv, NotebookInv
    <3>3. NotebookMoves
      BY <2>3, <3>1, <3>2 DEF NotebookMoves
    <3>4. QED
      BY <2>1, <3>3, UnaskedMoves, StillMoves DEF Moves, FinderMoves
  <2>4. QED
    BY <1>4, <2>2, <2>3 DEF ClickRow
<1>5. QED
  BY <1>1, <1>2, <1>3, <1>4

LEMMA BarMoves == ASSUME NavInv, ClickBar PROVE Moves
<1>1. Inert /\ markers' = markers /\ named' = named
  BY DEF ClickBar
<1>2. SelectionInv /\ DOMAIN selection = DOMAIN selection /\ selection.floor \in Nat
  BY DEF NavInv, SelectionInv
<1>3. CASE Go("Cameras", selection) /\ PanelsClosed /\ UNCHANGED pending
  BY <1>1, <1>2, <1>3, SteeredMoves DEF Unasked, PanelsClosed, ClosePanels
<1>4. CASE (IF AnyOpen THEN Still ELSE Go(Out, selection)) /\ PanelsClosed /\ UNCHANGED pending
  <2>1. Unasked /\ notebook' = Shut(notebook) /\ finder' = Shut(finder)
    BY <1>1, <1>4 DEF Unasked, PanelsClosed, ClosePanels
  <2>2. CASE AnyOpen
    BY <1>1, <1>4, <2>1, <2>2, StillMoves, UnaskedMoves DEF Moves, NotebookMoves, FinderMoves
  <2>3. CASE ~AnyOpen
    BY <1>1, <1>2, <1>4, <2>1, <2>3, SteeredMoves
  <2>4. QED
    BY <2>2, <2>3
<1>5. CASE /\ Still /\ UNCHANGED pending
           /\ \/ ClosePanels(FinderOpened(finder), Shut(notebook), Shut(controls))
              \/ \E c \in {"Attention", "Deliveries"} :
                   ClosePanels(Shut(finder), TurnedTo(notebook, c, TRUE), Shut(controls))
              \/ ClosePanels(Shut(finder), Shut(notebook), [open |-> TRUE, on |-> Nobody])
  <2>1. NotebookMoves /\ FinderMoves
    BY <1>1, <1>5 DEF ClosePanels, NotebookMoves, FinderMoves
  <2>2. Unasked
    BY <1>1, <1>5 DEF Unasked
  <2>3. QED
    BY <1>1, <1>5, <2>1, <2>2, UnaskedMoves, StillMoves DEF Moves
<1>6. CASE Still /\ PanelsClosed /\ pending' = [pending EXCEPT !.control = "new"]
  <2>1. NotebookMoves /\ FinderMoves
    BY <1>1, <1>6 DEF PanelsClosed, ClosePanels, NotebookMoves, FinderMoves
  <2>2. QED
    BY <1>1, <1>6, <2>1, ControlMoves, StillMoves DEF Moves
<1>7. QED
  BY <1>3, <1>4, <1>5, <1>6 DEF ClickBar

LEMMA UserMoves == ASSUME NavInv, Press \/ Click PROVE Moves
<1>1. ASSUME Press PROVE Moves
  BY <1>1, SteeringMoves, PanelKeysMove, FinderKeysMove, NotebookKeysMove DEF Press
<1>2. ASSUME Click PROVE Moves
  BY <1>2, ClicksMove, BarMoves DEF Click
<1>3. QED
  BY <1>1, <1>2

-----------------------------------------------------------------------------
(* The records that a channel of the notebook lists.                       *)
Recordings(n, floor, v) ==
  {e \in notes : /\ n.all \/ floor \in {Nobody, e.floor}
                 /\ \/ n.channel = "Deliveries" /\ e.result
                    \/ n.channel = "Changes" /\ e.at > Baseline(v, e.floor)}

(* Each is a row, and nothing else is.                                     *)
LEMMA RowsAre ==
  ASSUME TowerInv, NEW n, NEW floor, NEW v, n.channel \in {"Deliveries", "Changes"}
  PROVE  /\ \A i \in DOMAIN Rows(n, floor, v) :
              \E e \in Recordings(n, floor, v) : Rows(n, floor, v)[i].key = <<"event", e.id>>
         /\ \A e \in Recordings(n, floor, v) :
              \E i \in DOMAIN Rows(n, floor, v) : Rows(n, floor, v)[i].key = <<"event", e.id>>
<1> DEFINE S == Recordings(n, floor, v)
           R == {r \in S \X S : Ahead(r[1], r[2])}
           rank == [e \in S |-> Cardinality({d \in S : Ahead(d, e)})]
           events == InOrder(S, rank)
           rows == [i \in DOMAIN events |-> RowOf(<<"event", events[i].id>>, events[i].by)]
<1>1. S \subseteq Notes /\ IsFiniteSet(S)
  <2>1. S \in SUBSET Notes
    BY DEF Recordings, TowerInv
  <2> HIDE DEF S
  <2>2. QED
    BY <2>1, NavigationAssumption, FS_Subset
<1>2. Rows(n, floor, v) = rows
  <2> DEFINE inScope(f) == n.all \/ floor \in {Nobody, f}
             listed == CASE n.channel = "Deliveries" -> {e \in notes : e.result}
                         [] n.channel = "Changes" -> {e \in notes : e.at > Baseline(v, e.floor)}
                         [] OTHER -> {}
             scoped == {e \in listed : inScope(e.floor)}
  <2>1. scoped = S
    <3>1. CASE n.channel = "Deliveries"
      BY <3>1 DEF Recordings
    <3>2. CASE n.channel = "Changes"
      BY <3>2 DEF Recordings
    <3>3. QED
      BY <3>1, <3>2
  <2> DEFINE listing == InOrder(scoped, [e \in scoped |-> Cardinality({d \in scoped : Ahead(d, e)})])
  <2>2. Rows(n, floor, v) = [i \in DOMAIN listing |-> RowOf(<<"event", listing[i].id>>, listing[i].by)]
    BY DEF Rows
  <2>3. listing = events
    <3> HIDE DEF scoped, S
    <3>1. QED
      BY <2>1
  <2> HIDE DEF listing, events
  <2>4. QED
    BY <2>2, <2>3
<1>3. Ranking(S, R, rank)
  <2>1. ASSUME NEW e \in S PROVE {d \in S : Ahead(d, e)} = UpTo(S, R, e)
    <3> HIDE DEF S
    <3>1. QED
      BY DEF UpTo
  <2>2. QED
    BY <2>1 DEF Ranking
<1>4. Linear(S, R)
  <2>1. \A d \in S : d.at \in Nat /\ d.id \in Nat
    BY <1>1, NavigationAssumption
  <2>2. \A d, e \in S : d.id = e.id => d = e
    BY <1>1, NavigationAssumption
  <2> HIDE DEF S
  <2>3. QED
    BY <2>1, <2>2 DEF Linear, Ahead
<1> HIDE DEF S, R, rank
<1>5. Distinct(S, rank)
  BY <1>1, <1>3, <1>4, RanksDiffer
<1>6. /\ Cardinality(S) \in Nat
      /\ events \in [1..Cardinality(S) -> S]
      /\ \A e \in S : rank[e] \in 1..Cardinality(S) /\ events[rank[e]] = e
  BY <1>1, <1>5, InOrderIs
<1> HIDE DEF events
<1>7. /\ DOMAIN rows = DOMAIN events
      /\ \A i \in DOMAIN events : rows[i].key = <<"event", events[i].id>>
  BY DEF RowOf
<1>8. \A i \in DOMAIN events : events[i] \in S
  BY <1>6
<1>9. ASSUME NEW e \in S PROVE \E i \in DOMAIN rows : rows[i].key = <<"event", e.id>>
  <2>1. rank[e] \in DOMAIN events /\ events[rank[e]] = e
    BY <1>6
  <2>2. rank[e] \in DOMAIN rows /\ rows[rank[e]].key = <<"event", e.id>>
    BY <1>7, <2>1
  <2>3. QED
    BY <2>2
<1> HIDE DEF rows
<1>10. \A i \in DOMAIN rows : \E e \in S : rows[i].key = <<"event", e.id>>
  BY <1>7, <1>8
<1>11. QED
  BY <1>2, <1>9, <1>10 DEF S

LEMMA OtherRowsAre ==
  ASSUME NEW n, NEW floor, NEW v, n.channel \notin {"Deliveries", "Changes"}
  PROVE  \A i \in DOMAIN Rows(n, floor, v) : Rows(n, floor, v)[i].key[1] = n.channel
<1> DEFINE inScope(f) == n.all \/ floor \in {Nobody, f}
           crew == Only(PeopleOf(OpenFloors),
                        {p \in InTower : inScope(FloorOf(p)) /\ (n.channel = "Attention" => p \in asking)})
<1>1. Rows(n, floor, v) = [i \in DOMAIN crew |-> RowOf(<<n.channel, crew[i]>>, crew[i])]
  BY DEF Rows
<1> HIDE DEF crew
<1>2. QED
  BY <1>1 DEF RowOf

-----------------------------------------------------------------------------
(* A frame, part by part.                                                  *)
FoundFirst == IF FoundFloor
          THEN [selection EXCEPT !.floorId = pending.find.floor, !.person = 1, !.personId = Nobody]
          ELSE selection
Chosen == Resolved(AtPerson(SyncOffice(FoundFirst, OpenFloors), OpenFloors, Wanted))
Seen == IF Wanted \in InTower THEN "Desk" ELSE IF FoundFloor THEN "Office" ELSE view
Reopened == IF FindLost THEN [finder EXCEPT !.open = TRUE, !.gone = TRUE] ELSE finder

LEMMA DrawIs ==
  ASSUME Draw
  PROVE  /\ selection' = Chosen /\ view' = Seen /\ known'.floors = Len(OpenFloors)
         /\ pending' = [person |-> Nobody, find |-> Nobody, control |-> "none"]
         /\ visits' = Visited(visits, Seen, Chosen.floorId)
         /\ \E roomy \in BOOLEAN :
              /\ finder' = IF Reopened.open THEN Searched(Reopened, roomy) ELSE Reopened
              /\ notebook' = IF notebook.open
                             THEN [Relisted(notebook, Rows(notebook, Chosen.floorId, visits')) EXCEPT !.roomy = roomy]
                             ELSE notebook
         /\ targets' = Offers(Seen, Chosen, phone', finder', notebook')
         /\ shown' = [view |-> Seen, floor |-> Chosen.floorId, person |-> Chosen.personId]
         /\ named' = {} /\ steered' = FALSE /\ stay' = Stayed(Seen, Chosen.floorId)
         /\ UNCHANGED <<staff, asking, notes, moment, markers>>
BY DEF Draw, FoundFirst, Chosen, Seen, Reopened, towerVars

(* The selection that a frame arrives at.                                  *)
LEMMA SyncTyped ==
  ASSUME TowerInv, NEW c, DOMAIN c = DOMAIN selection, c.floor \in Nat, SelectionInv
  PROVE  LET d == SyncOffice(c, OpenFloors)
         IN DOMAIN d = DOMAIN selection /\ d.floor \in Nat /\ d.floorId \in Floors \cup {Nobody}
<1> DEFINE floors == OpenFloors
           same == IF c.floorId = Nobody THEN 0 ELSE Position(floors, c.floorId)
           i == IF same > 0 THEN same ELSE Within(c.floor, Len(floors))
<1>1. floors \in Seq(Floors)
  BY OpenFloorsAre
<1>2. SyncOffice(c, floors) = IF floors = <<>> THEN [c EXCEPT !.floor = 1, !.floorId = Nobody]
                              ELSE [c EXCEPT !.floor = i, !.floorId = floors[i]]
  BY DEF SyncOffice
<1> HIDE DEF floors
<1>3. same \in 0..Len(floors) /\ Len(floors) \in Nat
  BY <1>1, PositionIs
<1>4. CASE floors = <<>>
  BY <1>2, <1>4 DEF SelectionInv, floors
<1>5. CASE floors # <<>>
  <2>1. Len(floors) # 0
    BY <1>1, <1>5
  <2>2. i \in 1..Len(floors)
    BY <1>3, <2>1 DEF Within
  <2> HIDE DEF i
  <2>3. floors[i] \in Floors /\ i \in Nat
    BY <1>1, <2>2
  <2>4. QED
    BY <1>2, <1>5, <2>3 DEF SelectionInv, floors
<1>6. QED
  BY <1>4, <1>5

LEMMA FloorOfIs == ASSUME NEW p \in InTower PROVE FloorOf(p) \in Floors /\ p \in ToSet(staff[FloorOf(p)])
<1>1. \E f \in Floors : p \in ToSet(staff[f])
  BY DEF InTower
<1>2. QED
  BY <1>1 DEF FloorOf

LEMMA ChosenTyped ==
  ASSUME NavInv
  PROVE  /\ DOMAIN Chosen = {"floor", "floorId", "person", "personId"}
         /\ Chosen.floor \in Nat /\ Chosen.floorId \in Floors \cup {Nobody}
<1> DEFINE c == SyncOffice(FoundFirst, OpenFloors)
           d == AtPerson(c, OpenFloors, Wanted)
<1>1. TowerInv /\ SelectionInv /\ DOMAIN selection = {"floor", "floorId", "person", "personId"}
  BY DEF NavInv, SelectionInv
<1>2. DOMAIN FoundFirst = DOMAIN selection /\ FoundFirst.floor \in Nat
  BY <1>1 DEF FoundFirst, SelectionInv
<1>3. DOMAIN c = DOMAIN selection /\ c.floor \in Nat /\ c.floorId \in Floors \cup {Nobody}
  BY <1>1, <1>2, SyncTyped
<1> HIDE DEF c
<1>4. DOMAIN d = DOMAIN selection /\ d.floor \in Nat /\ d.floorId \in Floors \cup {Nobody}
  <2>1. CASE Wanted \notin InTower
    BY <1>3, <2>1 DEF AtPerson
  <2>2. CASE Wanted \in InTower
    <3>1. FloorOf(Wanted) \in Floors
      BY <2>2, FloorOfIs
    <3>2. Position(OpenFloors, FloorOf(Wanted)) \in Nat
      BY <1>1, OpenFloorsAre, PositionIs
    <3>3. QED
      BY <1>1, <2>2, <3>1, <3>2 DEF AtPerson
  <2>3. QED
    BY <2>1, <2>2
<1>5. Chosen = Resolved(d)
  BY DEF Chosen, c
<1> HIDE DEF d
<1>6. QED
  BY <1>1, <1>4, <1>5 DEF Resolved

LEMMA DrawKeepsFinder == ASSUME NavInv, Draw PROVE FinderInv'
<1>1. PICK roomy \in BOOLEAN : finder' = IF Reopened.open THEN Searched(Reopened, roomy) ELSE Reopened
  BY DrawIs
<1>2. /\ DOMAIN Reopened = {"open", "gone", "roomy", "entries", "search", "matches", "index"}
      /\ Reopened.entries \in Seq(Places) /\ Reopened.matches \in Seq(Places)
  BY DEF NavInv, FinderInv, Reopened
<1>3. CASE ~Reopened.open
  BY <1>1, <1>2, <1>3 DEF FinderInv
<1>4. CASE Reopened.open
  <2> DEFINE f == [Reopened EXCEPT !.entries = Directory, !.roomy = roomy]
             keep == Found(Reopened)
  <2>1. finder' = Filtered(f, keep)
    BY <1>1, <1>4 DEF Searched
  <2>2. DOMAIN f = DOMAIN Reopened /\ f.entries = Directory
    BY <1>2
  <2> HIDE DEF f, keep
  <2>3. Directory \in Seq(Places)
    BY DirectoryTyped DEF NavInv
  <2>4. Matching(f.entries, f.search) \in Seq(Places)
    BY <2>2, <2>3, MatchingTyped
  <2>5. DOMAIN finder' = DOMAIN f /\ finder'.entries = f.entries /\ finder'.matches = Matching(f.entries, f.search)
    BY <1>2, <2>1, <2>2 DEF Filtered
  <2>6. QED
    BY <1>2, <2>2, <2>3, <2>4, <2>5 DEF FinderInv
<1>5. QED
  BY <1>3, <1>4

(* Only a notebook that is open offers to mark.                            *)
LEMMA OffersMark ==
  ASSUME NEW see, NEW c, NEW p, NEW f, NEW n, NEW h \in Offers(see, c, p, f, n), h.do = "Mark"
  PROVE  n.channel \in {"Attention", "Deliveries"}
<1> DEFINE rows == IF n.roomy THEN ToSet(n.rows) ELSE {}
           row == IF n.roomy THEN At(n.rows, n.index) ELSE Nobody
           floors == IF see = "Cameras" THEN ToSet(OpenFloors) ELSE {c.floorId} \ {Nobody}
           crew == UNION {ToSet(staff[g]) : g \in floors}
           person(do, who) == {Hit(do, Nobody, q, Nobody) : q \in who \ {Nobody}}
           listed == {IF t.person = Nobody THEN Hit("EnterFloor", t.floor, Nobody, Nobody)
                      ELSE Hit("Inspect", Nobody, t.person, Nobody) : t \in ToSet(f.matches)}
           selects == {Hit("Select", Nobody, Nobody, r.key) : r \in rows}
           marks == IF n.channel \in {"Attention", "Deliveries"} THEN {Hit("Mark", Nobody, Nobody, row.key)} ELSE {}
           reviews == IF n.channel = "Attention" THEN person("Review", {row.person}) ELSE {}
           doors == {Hit(do, g, Nobody, Nobody) : do \in {"SelectFloor", "EnterFloor"}, g \in floors}
           desks == {Hit("SelectDesks", FloorOf(q), q, Nobody) : q \in crew}
           tasks == IF see # "Desk" THEN {}
                    ELSE UNION {person(do, {c.personId}) : do \in {"Review", "Controls", "Team"}}
<1>1. ASSUME NEW do, NEW who, NEW k \in person(do, who) PROVE k.do = do
  BY DEF Hit
<1>2. \A k \in listed : k.do \in {"EnterFloor", "Inspect"}
  BY DEF Hit
<1>3. \A k \in selects : k.do = "Select"
  BY DEF Hit
<1>4. \A k \in marks : n.channel \in {"Attention", "Deliveries"}
  OBVIOUS
<1>5. \A k \in doors : k.do \in {"SelectFloor", "EnterFloor"}
  BY DEF Hit
<1>6. \A k \in desks : k.do = "SelectDesks"
  BY DEF Hit
<1>7. \A k \in reviews : k.do = "Review"
  BY <1>1
<1>8. \A k \in tasks : k.do \in {"Review", "Controls", "Team"}
  <2> HIDE DEF person
  <2>1. QED
    BY <1>1
<1>9. \/ h \in selects \cup (IF row = Nobody THEN {} ELSE person("Inspect", {row.person}) \cup reviews \cup marks)
      \/ h \in IF ~f.roomy THEN {} ELSE listed
      \/ h \in person("Inspect", ToSet(p.list))
      \/ h \in {}
      \/ h \in doors \cup person("Inspect", crew) \cup person("SelectTeam", crew) \cup desks \cup tasks
  <2>1. CASE n.open
    BY <2>1 DEF Offers
  <2>2. CASE ~n.open /\ f.open
    BY <2>2 DEF Offers
  <2>3. CASE ~n.open /\ ~f.open /\ modal
    BY <2>3 DEF Offers
  <2>4. CASE ~n.open /\ ~f.open /\ ~modal /\ p.open
    BY <2>4 DEF Offers
  <2>5. CASE ~n.open /\ ~f.open /\ ~modal /\ ~p.open
    BY <2>5 DEF Offers
  <2>6. QED
    BY <2>1, <2>2, <2>3, <2>4, <2>5
<1> HIDE DEF person, listed, selects, marks, reviews, doors, desks, tasks
<1>10. QED
  BY <1>1, <1>2, <1>3, <1>4, <1>5, <1>6, <1>7, <1>8, <1>9

LEMMA DrawKeepsNotebook == ASSUME NavInv, Draw PROVE NotebookInv'
<1>1. PICK roomy \in BOOLEAN :
        notebook' = IF notebook.open
                    THEN [Relisted(notebook, Rows(notebook, Chosen.floorId, visits')) EXCEPT !.roomy = roomy]
                    ELSE notebook
  BY DrawIs
<1> DEFINE rows == Rows(notebook, Chosen.floorId, visits')
<1>2. markers' = markers
  BY DrawIs
<1>3. \A h \in targets' : h.do = "Mark" => notebook'.channel \in {"Attention", "Deliveries"}
  <2>1. targets' = Offers(Seen, Chosen, phone', finder', notebook')
    BY DrawIs
  <2>2. QED
    BY <2>1, OffersMark
<1>4. CASE ~notebook.open
  <2>1. notebook' = notebook
    BY <1>1, <1>4
  <2>2. QED
    BY <1>2, <1>3, <2>1 DEF NavInv, NotebookInv
<1>5. CASE notebook.open
  <2>1. /\ DOMAIN notebook' = DOMAIN notebook /\ notebook'.rows = rows
        /\ notebook'.channel = notebook.channel
    BY <1>1, <1>5 DEF Relisted, NavInv, NotebookInv
  <2>2. CASE notebook.channel = "Deliveries"
    <3>1. \A e \in Recordings(notebook, Chosen.floorId, visits') : <<"event", e.id>> \in DeliveryKeys
      BY <2>2 DEF Recordings, DeliveryKeys, NavInv, TowerInv
    <3>2. \A i \in DOMAIN rows :
            \E e \in Recordings(notebook, Chosen.floorId, visits') : rows[i].key = <<"event", e.id>>
      BY <2>2, RowsAre DEF NavInv
    <3>3. \A i \in DOMAIN rows : rows[i].key \in DeliveryKeys
      <4> HIDE DEF rows
      <4>1. QED
        BY <3>1, <3>2
    <3> HIDE DEF rows
    <3>4. QED
      BY <1>2, <1>3, <2>1, <2>2, <3>3 DEF NavInv, NotebookInv
  <2>3. CASE notebook.channel # "Deliveries"
    <3>1. notebook.channel = "Attention" => \A i \in DOMAIN rows : rows[i].key[1] = "Attention"
      BY OtherRowsAre
    <3> HIDE DEF rows
    <3>2. QED
      BY <1>2, <1>3, <2>1, <2>3, <3>1 DEF NavInv, NotebookInv
  <2>4. QED
    BY <2>2, <2>3
<1>6. QED
  BY <1>4, <1>5

LEMMA DrawKeepsVisits == ASSUME NavInv, Draw PROVE VisitInv'
<1>1. /\ visits' = Visited(visits, Seen, Chosen.floorId) /\ stay' = Stayed(Seen, Chosen.floorId)
  BY DrawIs
<1>2. Chosen.floorId \in Floors \cup {Nobody} /\ Nobody \notin Nat /\ Nobody \notin Floors /\ moment \in Nat
  BY ChosenTyped, NavigationAssumption DEF Floors, NavInv, TowerInv
<1> DEFINE floor == Chosen.floorId
<1>3. VisitInv
  BY DEF NavInv
<1>4. CASE Seen = "Cameras"
  <2>1. /\ visits' = [visits EXCEPT !.at = Nobody]
        /\ stay' = [floor |-> Nobody, at |-> stay.at,
                    ends |-> IF stay.floor = Nobody THEN stay.ends ELSE [stay.ends EXCEPT ![stay.floor] = stay.at]]
    BY <1>1, <1>4 DEF Visited, Stayed
  <2>2. QED
    BY <1>2, <1>3, <2>1 DEF VisitInv
<1>5. CASE Seen # "Cameras" /\ floor = Nobody
  <2>1. /\ visits' = visits
        /\ stay' = [floor |-> stay.floor, at |-> stay.at, ends |-> stay.ends]
    BY <1>1, <1>5 DEF Visited, Stayed
  <2>2. QED
    BY <1>3, <2>1 DEF VisitInv
<1>6. CASE Seen # "Cameras" /\ floor # Nobody
  <2> DEFINE last == [visits.last EXCEPT ![floor] = moment]
             base == [visits.base EXCEPT ![floor] = IF visits.at = floor THEN @ ELSE visits.last[floor]]
             ends == IF stay.floor \in {Nobody, floor} THEN stay.ends ELSE [stay.ends EXCEPT ![stay.floor] = stay.at]
  <2>1. /\ visits' = [last |-> last, base |-> base, at |-> floor]
        /\ stay' = [floor |-> floor, at |-> moment, ends |-> ends]
    BY <1>1, <1>6 DEF Visited, Stayed
  <2>2. floor \in Floors
    BY <1>2, <1>6
  <2>3. /\ last \in [Floors -> Nat] /\ base \in [Floors -> Nat \cup {Nobody}] /\ ends \in [Floors -> Nat]
    BY <1>2, <1>3, <2>2 DEF VisitInv
  <2>4. /\ last[floor] = moment /\ base[floor] = ends[floor]
        /\ \A f \in Floors \ {floor} : ends[f] = last[f]
    BY <1>2, <1>3, <2>2 DEF VisitInv
  <2> HIDE DEF last, base, ends, floor
  <2>5. QED
    BY <1>2, <2>1, <2>2, <2>3, <2>4 DEF VisitInv
<1>7. QED
  BY <1>4, <1>5, <1>6

LEMMA DrawKeeps == ASSUME NavInv, Draw PROVE NavInv'
<1>1. TowerInv'
  BY DrawIs DEF NavInv, TowerInv
<1>2. AskInv'
  BY DrawIs DEF AskInv
<1>3. SelectionInv'
  <2>1. known'.floors \in Nat
    BY DrawIs, OpenFloorsAre DEF NavInv
  <2>2. QED
    BY <2>1, DrawIs, ChosenTyped DEF SelectionInv
<1>4. QED
  BY <1>1, <1>2, <1>3, DrawKeepsFinder, DrawKeepsNotebook, DrawKeepsVisits DEF NavInv

LEMMA BeyondKeeps == ASSUME NavInv, Beyond PROVE NavInv'
<1>1. UNCHANGED Keyboard /\ TowerInv'
  <2>1. ASSUME NEW p \in People, NEW f \in Floors, Arrive(p, f) PROVE UNCHANGED Keyboard /\ TowerInv'
    BY <2>1 DEF Arrive, NavInv, TowerInv
  <2>2. ASSUME NEW p \in People, Leave(p) PROVE UNCHANGED Keyboard /\ TowerInv'
    <3>1. p \in InTower /\ staff' = [staff EXCEPT ![FloorOf(p)] = Only(@, ToSet(@) \ {p})]
      BY <2>2 DEF Leave
    <3>2. FloorOf(p) \in Floors /\ staff[FloorOf(p)] \in Seq(People)
      BY <3>1, FloorOfIs DEF NavInv, TowerInv
    <3>3. Only(staff[FloorOf(p)], ToSet(staff[FloorOf(p)]) \ {p}) \in Seq(People)
      BY <3>2, OnlyIs
    <3>4. QED
      BY <2>2, <3>1, <3>2, <3>3 DEF Leave, NavInv, TowerInv
  <2>3. ASSUME NEW p \in People, Ask(p) PROVE UNCHANGED Keyboard /\ TowerInv'
    BY <2>3 DEF Ask, NavInv, TowerInv
  <2>4. ASSUME NEW n \in Notes, Recorded(n) PROVE UNCHANGED Keyboard /\ TowerInv'
    BY <2>4 DEF Recorded, NavInv, TowerInv
  <2>5. ASSUME ClockTick PROVE UNCHANGED Keyboard /\ TowerInv'
    BY <2>5 DEF ClockTick, NavInv, TowerInv
  <2>6. QED
    BY <2>1, <2>2, <2>3, <2>4, <2>5 DEF Beyond
<1>2. UNCHANGED <<view, selection, pending, finder, notebook, known, targets, visits, shown, stay, markers, named, steered>>
  BY <1>1 DEF Keyboard, panelVars, frameVars
<1>3. QED
  BY <1>1, <1>2 DEF NavInv, NotebookInv, FinderInv, AskInv, SelectionInv, VisitInv

LEMMA NavInitially == NavInit => NavInv
<1> SUFFICES ASSUME NavInit PROVE NavInv
  OBVIOUS
<1>1. TowerInv
  <2>1. staff \in [Floors -> {<<>>} \cup {<<p>> : p \in People}]
    BY DEF NavInit
  <2>2. {<<>>} \cup {<<p>> : p \in People} \subseteq Seq(People)
    <3>1. <<>> \in Seq(People) /\ \A p \in People : <<p>> \in Seq(People)
      OBVIOUS
    <3>2. QED
      BY <3>1
  <2>3. QED
    BY <2>1, <2>2 DEF NavInit, TowerInv
<1>2. NotebookInv
  BY DEF NavInit, NotebookInv
<1>3. FinderInv
  BY DEF NavInit, FinderInv
<1>4. AskInv
  BY DEF NavInit, AskInv
<1>5. SelectionInv
  BY DEF NavInit, SelectionInv
<1>6. VisitInv
  <2>1. Nobody \notin Floors
    BY NavigationAssumption DEF Floors
  <2>2. QED
    BY <2>1 DEF NavInit, VisitInv
<1>7. QED
  BY <1>1, <1>2, <1>3, <1>4, <1>5, <1>6 DEF NavInv

LEMMA NavStep == NavInv /\ [NavNext]_navVars => NavInv'
<1> SUFFICES ASSUME NavInv, [NavNext]_navVars PROVE NavInv'
  OBVIOUS
<1>1. CASE Beyond
  BY <1>1, BeyondKeeps
<1>2. CASE Press \/ Click
  BY <1>2, UserMoves, MovesKeep
<1>3. CASE Draw
  BY <1>3, DrawKeeps
<1>4. CASE UNCHANGED navVars
  <2>1. UNCHANGED <<staff, notes, moment, view, selection, pending, finder, notebook, known, targets, visits,
                    shown, stay, markers, named, steered>>
    BY <1>4 DEF navVars, towerVars, panelVars, frameVars
  <2>2. QED
    BY <2>1 DEF NavInv, TowerInv, NotebookInv, FinderInv, AskInv, SelectionInv, VisitInv
<1>5. QED
  BY <1>1, <1>2, <1>3, <1>4 DEF NavNext

(* The inductive invariant of the way through the tower.                   *)
THEOREM NavInvariance == NavSpec => []NavInv
<1>1. QED
  BY NavInitially, NavStep, PTL DEF NavSpec

(* A marker is filed with its own kind, whatever is clicked between two    *)
(* frames (workboard.rs, Mark).                                            *)
THEOREM MarkersFiledCorrect == NavSpec => []MarkersFiled
<1>1. NavInv => MarkersFiled
  BY DEF NavInv, NotebookInv, MarkersFiled, DeliveryKeys
<1>2. QED
  BY <1>1, NavInvariance, PTL

-----------------------------------------------------------------------------
(* Between two frames the notebook's rows are only emptied, and nothing of *)
(* the last frame changes.                                                 *)
LEMMA BetweenFrames ==
  ASSUME NavInv, Beyond \/ Press \/ Click \/ UNCHANGED navVars
  PROVE  /\ UNCHANGED <<shown, visits>> /\ notebook'.rows \in {<<>>, notebook.rows}
         /\ named # {} /\ named' = {} => steered'
<1>1. CASE Beyond \/ UNCHANGED navVars
  <2>1. UNCHANGED <<shown, visits, notebook, named>>
    BY <1>1 DEF Beyond, Arrive, Leave, Ask, Recorded, ClockTick, Keyboard, navVars, panelVars, frameVars
  <2>2. QED
    BY <2>1
<1>2. CASE Press \/ Click
  <2>1. Moves
    BY <1>2, UserMoves
  <2>2. UNCHANGED <<shown, visits>>
    BY <2>1 DEF Moves, Inert, frameVars
  <2>3. notebook'.rows \in {<<>>, notebook.rows}
    BY <2>1 DEF Moves, NotebookMoves, Shut, TurnedTo, NavInv, NotebookInv
  <2>4. ASSUME named # {}, named' = {} PROVE steered'
    <3>1. CASE \E t \in Places : /\ t # Nobody /\ pending' = [pending EXCEPT !.find = t]
                                 /\ \/ t.person = Nobody /\ steered' = TRUE /\ named' = named \ Sought
                                    \/ t.person # Nobody /\ steered' = steered /\ named' = (named \ Sought) \cup {t}
      BY <2>4, <3>1
    <3>2. CASE \E p : named' = named \cup {Target(Nobody, p)}
      BY <2>4, <3>2
    <3>3. CASE /\ named' = named \ Sought
               /\ IF pending.find = Nobody THEN ~steered' => ~steered ELSE steered' = TRUE
      BY <2>4, <3>3 DEF Sought
    <3>4. QED
      BY <2>1, <2>4, <3>1, <3>2, <3>3 DEF Moves, AskMoves
  <2>5. QED
    BY <2>2, <2>3, <2>4
<1>3. QED
  BY <1>1, <1>2

(* What SinceLastVisit says of a step.                                     *)
SinceStep ==
  /\ notebook'.open /\ notebook'.channel = "Changes" /\ visits'.at # Nobody
  /\ visits' # visits \/ notebook'.rows \notin {<<>>, notebook.rows}
  => \A n \in notes :
       n.floor = visits'.at =>
         (n.at > stay'.ends[n.floor] <=> \E r \in ToSet(notebook'.rows) : r.key = <<"event", n.id>>)

LEMMA FrameListsChanges == ASSUME NavInv, Draw PROVE SinceStep
<1> SUFFICES ASSUME notebook'.open, notebook'.channel = "Changes", visits'.at # Nobody,
                    NEW n \in notes, n.floor = visits'.at
             PROVE  n.at > stay'.ends[n.floor] <=> \E r \in ToSet(notebook'.rows) : r.key = <<"event", n.id>>
  BY DEF SinceStep
<1> DEFINE floor == Chosen.floorId
           rows == Rows(notebook, floor, visits')
<1>1. PICK roomy \in BOOLEAN :
        notebook' = IF notebook.open THEN [Relisted(notebook, rows) EXCEPT !.roomy = roomy] ELSE notebook
  BY DrawIs
<1>2. notebook.open /\ notebook'.rows = rows /\ notebook'.channel = notebook.channel
  BY <1>1 DEF Relisted, NavInv, NotebookInv
<1>3. n \in Notes /\ n.floor \in Floors
  BY NavigationAssumption DEF NavInv, TowerInv
<1>4. Baseline(visits', n.floor) = stay'.ends[n.floor]
  <2>1. VisitInv' /\ Nobody \notin Nat
    BY DrawKeeps, NavigationAssumption DEF NavInv
  <2>2. visits'.base[n.floor] = stay'.ends[n.floor] /\ stay'.ends[n.floor] \in Nat
    BY <1>3, <2>1 DEF VisitInv
  <2>3. QED
    BY <2>1, <2>2 DEF Baseline
<1>5. floor \in {Nobody, n.floor}
  <2>1. visits' = Visited(visits, Seen, floor)
    BY DrawIs
  <2>2. Seen = "Cameras" => visits'.at = Nobody
    BY <2>1 DEF Visited, NavInv, VisitInv
  <2>3. Seen # "Cameras" /\ floor # Nobody => visits'.at = floor
    BY <2>1 DEF Visited
  <2>4. QED
    BY <2>2, <2>3
<1>6. \A e : e \in Recordings(notebook, floor, visits') <=>
             /\ e \in notes /\ (notebook.all \/ floor \in {Nobody, e.floor})
             /\ e.at > Baseline(visits', e.floor)
  BY <1>2 DEF Recordings
<1>7. n \in Recordings(notebook, floor, visits') <=> n.at > stay'.ends[n.floor]
  BY <1>4, <1>5, <1>6
<1>8. /\ \A i \in DOMAIN rows : \E e \in Recordings(notebook, floor, visits') : rows[i].key = <<"event", e.id>>
      /\ \A e \in Recordings(notebook, floor, visits') : \E i \in DOMAIN rows : rows[i].key = <<"event", e.id>>
  BY <1>2, RowsAre DEF NavInv
<1>9. \A e \in Recordings(notebook, floor, visits') : e.id = n.id => e = n
  BY <1>3, NavigationAssumption DEF Recordings, NavInv, TowerInv
<1> HIDE DEF rows, floor
<1>10. (\E r \in ToSet(rows) : r.key = <<"event", n.id>>) <=> n \in Recordings(notebook, floor, visits')
  <2>1. ASSUME NEW r \in ToSet(rows), r.key = <<"event", n.id>> PROVE n \in Recordings(notebook, floor, visits')
    <3>1. PICK i \in DOMAIN rows : rows[i] = r
      BY DEF ToSet
    <3>2. PICK e \in Recordings(notebook, floor, visits') : rows[i].key = <<"event", e.id>>
      BY <1>8
    <3>3. e.id = n.id
      BY <2>1, <3>1, <3>2
    <3>4. QED
      BY <1>9, <3>3
  <2>2. ASSUME n \in Recordings(notebook, floor, visits') PROVE \E r \in ToSet(rows) : r.key = <<"event", n.id>>
    <3>1. PICK i \in DOMAIN rows : rows[i].key = <<"event", n.id>>
      BY <1>8, <2>2
    <3>2. rows[i] \in ToSet(rows)
      BY DEF ToSet
    <3>3. QED
      BY <3>1, <3>2
  <2>3. QED
    BY <2>1, <2>2
<1>11. QED
  BY <1>2, <1>7, <1>10

(* "Since your visit" lists what is dated after the last frame of the      *)
(* visit before, and nothing else (visit_baselines, refresh).              *)
THEOREM SinceLastVisitCorrect == NavSpec => SinceLastVisit
<1>1. NavInv /\ [NavNext]_navVars => [SinceStep]_navVars
  <2> SUFFICES ASSUME NavInv, [NavNext]_navVars PROVE [SinceStep]_navVars
    OBVIOUS
  <2>1. CASE Draw
    BY <2>1, FrameListsChanges
  <2>2. CASE Beyond \/ Press \/ Click \/ UNCHANGED navVars
    BY <2>2, BetweenFrames DEF SinceStep
  <2>3. QED
    BY <2>1, <2>2 DEF NavNext
<1>2. QED
  BY <1>1, NavInvariance, PTL DEF NavSpec, SinceLastVisit, SinceStep

-----------------------------------------------------------------------------
(* A frame that was asked for somebody in the tower opens the desk.        *)
LEMMA FrameOpens ==
  ASSUME NavInv, Draw, Wanted \in InTower
  PROVE  shown'.view = "Desk" /\ shown'.person = Wanted
<1> DEFINE f == FloorOf(Wanted)
           crew == staff[f]
           c == SyncOffice(FoundFirst, OpenFloors)
           d == AtPerson(c, OpenFloors, Wanted)
<1>1. f \in Floors /\ Wanted \in ToSet(crew) /\ crew \in Seq(People)
  BY FloorOfIs DEF NavInv, TowerInv
<1>2. Wanted \in People /\ Wanted # Nobody /\ f # Nobody
  BY <1>1, NavigationAssumption DEF ToSet, Floors
<1>3. d = [floor |-> Position(OpenFloors, f), floorId |-> f, person |-> Position(crew, Wanted), personId |-> Wanted]
  BY DEF AtPerson
<1>4. Position(crew, Wanted) \in 1..Len(crew) /\ crew[Position(crew, Wanted)] = Wanted
  BY <1>1, PositionIs
<1>5. Chosen = Resolved(d)
  BY DEF Chosen
<1> HIDE DEF f, crew
<1>6. Chosen.personId = At(crew, Position(crew, Wanted))
  <2> DEFINE same == Position(crew, Wanted)
  <2>1. d.floorId = f /\ d.personId = Wanted /\ DOMAIN d = {"floor", "floorId", "person", "personId"}
    BY <1>3
  <2> HIDE DEF d
  <2>2. f # Nobody /\ staff[f] = crew
    BY <1>2 DEF f, crew
  <2>3. same > 0
    <3> HIDE DEF same
    <3>1. same \in 1..Len(crew) /\ Len(crew) \in Nat
      BY <1>1, <1>4 DEF same
    <3>2. QED
      BY <3>1
  <2> HIDE DEF same
  <2>4. Chosen = [d EXCEPT !.person = same, !.personId = At(crew, same)]
    BY <1>2, <1>5, <2>1, <2>2, <2>3 DEF Resolved, same
  <2>5. QED
    BY <2>1, <2>4 DEF same
<1>7. Chosen.personId = Wanted
  BY <1>1, <1>4, <1>6 DEF At
<1>8. QED
  BY <1>7, DrawIs DEF Seen

(* A frame that was asked for nobody who is there keeps the selected       *)
(* person, on the selected floor.                                          *)
LEMMA FrameStays ==
  ASSUME NavInv, Draw, Wanted \notin InTower, ~FoundFloor,
         selection.floorId \in Floors, selection.personId \in ToSet(staff[selection.floorId])
  PROVE  shown' = [view |-> view, floor |-> selection.floorId, person |-> selection.personId]
<1> DEFINE f == selection.floorId
           p == selection.personId
           floors == OpenFloors
           c == SyncOffice(selection, floors)
<1>1. staff[f] \in Seq(People) /\ p \in People /\ f # Nobody /\ p # Nobody
  BY NavigationAssumption DEF NavInv, TowerInv, ToSet, Floors
<1>2. floors \in Seq(Floors) /\ f \in ToSet(floors)
  <2>1. staff[f] # <<>>
    BY DEF ToSet
  <2>2. QED
    BY <2>1, OpenFloorsAre DEF NavInv
<1>3. Position(floors, f) \in 1..Len(floors) /\ floors[Position(floors, f)] = f /\ floors # <<>>
  <2>1. Position(floors, f) \in 1..Len(floors) /\ floors[Position(floors, f)] = f
    BY <1>2, PositionIs
  <2>2. QED
    BY <1>2, <2>1
<1>4. DOMAIN selection = {"floor", "floorId", "person", "personId"}
  BY DEF NavInv, SelectionInv
<1>5. Chosen = Resolved(c) /\ Seen = view
  BY DEF Chosen, AtPerson, FoundFirst, Seen
<1> HIDE DEF floors
<1>6. c.floorId = f /\ c.personId = p /\ DOMAIN c = DOMAIN selection
  BY <1>1, <1>3, <1>4 DEF SyncOffice
<1>7. Position(staff[f], p) \in 1..Len(staff[f]) /\ staff[f][Position(staff[f], p)] = p
  BY <1>1, PositionIs
<1> HIDE DEF c, f, p
<1>8. Chosen.floorId = f /\ Chosen.personId = At(staff[f], Position(staff[f], p))
  BY <1>1, <1>4, <1>5, <1>6, <1>7 DEF Resolved
<1>9. Chosen.personId = p
  BY <1>1, <1>7, <1>8 DEF At
<1>10. QED
  BY <1>5, <1>8, <1>9, DrawIs DEF f, p

(* What FrameShowsChosen says of a step.                                   *)
ChosenStep ==
  shown' # shown \/ (named # {} /\ named' = {} /\ ~steered') =>
    LET opened == shown'.view = "Desk" /\ \E t \in named : t.person = shown'.person
    IN IF named # {} /\ \A t \in named : StillThere(t) THEN opened
       ELSE opened \/ steered \/ Unmoved

LEMMA FrameShows == ASSUME NavInv, Draw PROVE ChosenStep
<1> DEFINE opened == shown'.view = "Desk" /\ \E t \in named : t.person = shown'.person
<1>1. AskInv /\ TowerInv /\ Nobody \notin People
  BY NavigationAssumption DEF NavInv
<1>2. InTower \subseteq People
  BY <1>1 DEF TowerInv, InTower, ToSet
<1>3. FoundPerson => pending.find.person \in InTower /\ pending.find \in named
  <2> SUFFICES ASSUME FoundPerson PROVE pending.find.person \in InTower /\ pending.find \in named
    OBVIOUS
  <2>1. pending.find \in Places /\ pending.find.person # Nobody /\ pending.find \in named
    BY <1>1 DEF FoundPerson, AskInv
  <2>2. pending.find.floor \in Floors
    BY <2>1 DEF Places
  <2>3. QED
    BY <2>1, <2>2 DEF FoundPerson, InTower
<1>4. Wanted \in InTower => opened
  <2> SUFFICES ASSUME Wanted \in InTower PROVE opened
    OBVIOUS
  <2>1. shown'.view = "Desk" /\ shown'.person = Wanted
    BY FrameOpens
  <2>2. \E t \in named : t.person = Wanted
    <3>1. CASE FoundPerson
      BY <1>3, <3>1 DEF Wanted
    <3>2. CASE ~FoundPerson
      <4>1. Wanted = pending.person /\ Wanted # Nobody
        BY <1>1, <1>2, <3>2 DEF Wanted
      <4>2. Target(Nobody, Wanted) \in named /\ Target(Nobody, Wanted).person = Wanted
        BY <1>1, <4>1 DEF AskInv, Target
      <4>3. QED
        BY <4>2
    <3>3. QED
      BY <3>1, <3>2
  <2>3. QED
    BY <2>1, <2>2
<1>5. ASSUME named # {}, \A t \in named : StillThere(t) PROVE Wanted \in InTower
  <2>1. PICK t \in named : TRUE
    BY <1>5
  <2>2. CASE FoundPerson
    BY <1>3, <2>2 DEF Wanted
  <2>3. CASE ~FoundPerson
    <3>1. ~(pending.find # Nobody /\ t = pending.find /\ t.person # Nobody)
      <4> SUFFICES ASSUME pending.find # Nobody, t = pending.find, t.person # Nobody PROVE FALSE
        OBVIOUS
      <4>1. StillThere(t) /\ t.floor \in Floors /\ Nobody \notin Floors
        BY <1>1, <1>5, NavigationAssumption DEF AskInv, Places, Floors
      <4>2. t.floor = FloorOf(t.person) /\ t.person \in ToSet(staff[t.floor])
        BY <4>1, FloorOfIs DEF StillThere
      <4>3. QED
        BY <2>3, <4>2 DEF FoundPerson
    <3>2. Target(Nobody, pending.person) \in named
      BY <1>1, <3>1 DEF AskInv
    <3>3. pending.person \in InTower
      BY <1>5, <3>2 DEF StillThere, Target
    <3>4. QED
      BY <2>3, <3>3 DEF Wanted
  <2>4. QED
    BY <2>2, <2>3
<1>6. ASSUME Wanted \notin InTower, ~steered PROVE Unmoved
  <2> SUFFICES ASSUME shown # Nobody
               PROVE  /\ shown'.view = shown.view
                      /\ (\E f \in Floors : f = shown.floor /\ shown.person \in ToSet(staff[f])) => shown' = shown
    BY DEF Unmoved
  <2>1. ~FoundFloor
    <3> SUFFICES ASSUME pending.find # Nobody, pending.find.person = Nobody PROVE FALSE
      BY DEF FoundFloor
    <3>1. pending.find.floor \in Floors /\ Nobody \notin Floors
      BY <1>1, NavigationAssumption DEF AskInv, Places, Floors
    <3>2. pending.find \in named
      BY <1>1, <1>6 DEF AskInv
    <3>3. QED
      BY <1>1, <3>1, <3>2 DEF AskInv
  <2>2. /\ view = shown.view /\ selection.floorId = shown.floor /\ selection.personId = shown.person
        /\ shown = [view |-> shown.view, floor |-> shown.floor, person |-> shown.person]
    BY <1>6 DEF NavInv, SelectionInv
  <2>3. shown'.view = shown.view
    BY <1>6, <2>1, <2>2, DrawIs DEF Seen
  <2>4. ASSUME NEW f \in Floors, f = shown.floor, shown.person \in ToSet(staff[f]) PROVE shown' = shown
    BY <1>6, <2>1, <2>2, <2>4, FrameStays
  <2>5. QED
    BY <2>3, <2>4
<1>7. QED
  BY <1>4, <1>5, <1>6 DEF ChosenStep

(* A frame shows who was asked for by name, or nobody new; and without     *)
(* that, a selection that was not steered stays (Ui::draw).                *)
THEOREM FrameShowsChosenCorrect == NavSpec => FrameShowsChosen
<1>1. NavInv /\ [NavNext]_navVars => [ChosenStep]_navVars
  <2> SUFFICES ASSUME NavInv, [NavNext]_navVars PROVE [ChosenStep]_navVars
    OBVIOUS
  <2>1. CASE Draw
    BY <2>1, FrameShows
  <2>2. CASE Beyond \/ Press \/ Click \/ UNCHANGED navVars
    BY <2>2, BetweenFrames DEF ChosenStep
  <2>3. QED
    BY <2>1, <2>2 DEF NavNext
<1>2. QED
  BY <1>1, NavInvariance, PTL DEF NavSpec, FrameShowsChosen, ChosenStep

=============================================================================
