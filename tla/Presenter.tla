------------------------------ MODULE Presenter ------------------------------
(***************************************************************************)
(* How a frame reaches the terminal (theywork-tui, main.rs: the end of     *)
(* run, TerminalImagePresenter, present_composed_frame; frame_schedule.rs; *)
(* theywork-terminal-image, ImageSurface): text is written as a difference *)
(* to what was written before, around and over an image that moves, is     *)
(* throttled, and goes when graphics are given up; consoles and the source *)
(* screen use the terminal in between.                                     *)
(*                                                                         *)
(* The terminal is one row.  A frame is applied as a whole: its bytes wait *)
(* in FrameOutput and are written at once.  Its size does not change while *)
(* one is composed.                                                        *)
(***************************************************************************)
EXTENDS Naturals, Sequences

CONSTANTS
  Widths,    \* columns the terminal may have
  Areas,     \* where the art may be: sets of columns
  Arts,      \* what it may show
  Protocols, \* of "kitty", "sixel" (iTerm2 behaves as Sixel), "off"
  Actions,   \* what a frame offers to click on
  SlowLimit, \* slow frames after which graphics are given up (3)
  Nothing

ASSUME PresenterAssumption ==
  /\ Widths \subseteq Nat /\ SlowLimit \in Nat /\ Protocols \subseteq {"kitty", "sixel", "off"}
  /\ Nothing \notin Actions /\ Nothing \notin Arts

VARIABLES
  width,     \* columns of the terminal
  screen,    \* text and pixels of each column
  buffer,    \* Terminal: the cells it drew last, for its next difference
  presenter, \* TerminalImagePresenter and its ImageSurface
  clearing,  \* clear_before_frame
  slow,      \* slow_frames
  giveUp,    \* fallback_pending
  hits,      \* presented_hits: actions on offer, or Nothing
  drawn,     \* ghost: the frame on the screen, or Nothing
  blanked    \* ghost: the screen was cleared and the text not painted again

presenterVars == <<width, screen, buffer, presenter, clearing, slow, giveUp, hits, drawn, blanked>>

Space == "space"
Glyphs == {Space, "x"}
HalfBlock == "half"  \* art, in the text that stands for it

Blank(n) == [c \in 1..n |-> [text |-> Space, pixel |-> Nothing]]
Cell(glyph, skip) == [glyph |-> glyph, skip |-> skip]
Cells(text, skipped) == [c \in DOMAIN text |-> Cell(text[c], c \in skipped)]

(* What the UI may draw: text, and art in the columns of an area that hold *)
(* no text of their own.                                                   *)
Frames(n) ==
  {[text |-> text, area |-> {}, art |-> Nothing, actions |-> a] :
     text \in [1..n -> Glyphs], a \in Actions}
  \cup UNION {{[text |-> text, area |-> area, art |-> art, actions |-> a] :
                 text \in {t \in [1..n -> Glyphs \cup {HalfBlock}] :
                             \A c \in 1..n : t[c] = HalfBlock => c \in area},
                 art \in Arts, a \in Actions} :
              area \in {area \in Areas : area \subseteq 1..n}}

(* PixelFrame: the area, its pixels and the text cells within.             *)
Pixels(frame) ==
  IF frame.area = {} THEN Nothing
  ELSE [area |-> frame.area, art |-> frame.art,
        natives |-> [c \in {c \in frame.area : frame.text[c] # HalfBlock} |-> frame.text[c]]]

(* Nothing is none of the things it stands for the absence of.             *)
ASSUME NothingAssumption ==
  /\ \A n \in Widths : \A frame \in Frames(n) :
       /\ Nothing # frame /\ (frame.area # {} => Nothing # Pixels(frame))
       /\ \A skipped \in SUBSET (1..n) : Nothing # Cells(frame.text, skipped)
  /\ \A id \in {1, 2}, look \in Arts \cup {Space} : Nothing # [id |-> id, look |-> look]

PresenterInit ==
  /\ width \in Widths /\ screen = Blank(width)
  /\ buffer = Cells([c \in 1..width |-> Space], {})
  /\ \E protocol \in Protocols :
       presenter = [surface |-> protocol, columns |-> width, id |-> 1, area |-> {},
                    frame |-> Nothing, text |-> Nothing, changed |-> FALSE, complete |-> FALSE]
  /\ clearing = FALSE /\ slow = 0 /\ giveUp = FALSE
  /\ hits = Nothing /\ drawn = Nothing /\ blanked = FALSE

-----------------------------------------------------------------------------
(* The terminal.  Text replaces the pixels of Sixel and stands above those *)
(* of Kitty (z=-1).                                                        *)
Written(s, p, columns, text) ==
  [c \in DOMAIN s |->
     IF c \in columns
     THEN [text |-> text[c], pixel |-> IF p.surface = "kitty" THEN s[c].pixel ELSE Nothing]
     ELSE s[c]]

Erased(s, p, columns) == Written(s, p, columns, [c \in columns |-> Space])

Placed(s, p, pixels) ==
  [c \in DOMAIN s |->
     IF c \notin pixels.area THEN s[c]
     ELSE [text |-> IF p.surface = "kitty" THEN s[c].text ELSE Space,
           pixel |-> [id |-> p.id,
                      look |-> IF c \in DOMAIN pixels.natives THEN Space ELSE pixels.art]]]

(* ImageSurface::clear: Kitty deletes the image by its ID, Sixel erases    *)
(* its rectangle.                                                          *)
Retired(s, p) ==
  IF p.area = {} THEN s
  ELSE IF p.surface = "kitty"
  THEN [c \in DOMAIN s |-> IF s[c].pixel # Nothing /\ s[c].pixel.id = 3 - p.id
                           THEN [s[c] EXCEPT !.pixel = Nothing] ELSE s[c]]
  ELSE Erased(s, p, p.area)

(* What is seen in a column.                                               *)
Look(c) ==
  IF screen[c].text = Space /\ screen[c].pixel # Nothing THEN screen[c].pixel.look
  ELSE screen[c].text

-----------------------------------------------------------------------------
(* present, without an image.                                              *)
Removed(p) ==
  IF p.surface = "off" THEN [p EXCEPT !.complete = TRUE, !.changed = FALSE]
  ELSE [p EXCEPT !.complete = TRUE, !.changed = p.area # {}, !.area = {}, !.frame = Nothing,
                 !.text = IF p.area # {} THEN Nothing ELSE @]

(* An image that differs only in its pixels waits for its time.            *)
Throttled(p, pixels, late) ==
  /\ ~late /\ p.area = pixels.area /\ p.frame # Nothing
  /\ p.frame # Nothing => p.frame.natives = pixels.natives

(* present: the presenter, the screen and whether an image is visible.     *)
Shown(s, p, pixels, late) ==
  IF pixels = Nothing
  THEN [p |-> Removed(p), s |-> Retired(s, p), visible |-> FALSE]
  ELSE IF p.frame = pixels \/ Throttled(p, pixels, late)
  THEN [p |-> [p EXCEPT !.complete = p.frame = pixels, !.changed = FALSE],
        s |-> s, visible |-> TRUE]
  ELSE [p |-> [p EXCEPT !.complete = TRUE, !.changed = TRUE, !.area = pixels.area, !.frame = pixels, !.id = 3 - @],
        s |-> Placed(Erased(Retired(s, p), p, pixels.area), p, pixels), visible |-> TRUE]

(* Wrong: what the image erased is taken for written.                      *)
RepaintedNever(before, shown, pixels, next) == {}

(* Columns whose old text says nothing: there is none, or an image came or *)
(* went there.                                                             *)
Repainted(before, shown, pixels, next) ==
  {c \in DOMAIN next :
     \/ shown.text = Nothing
     \/ shown.changed /\ c \in before.area \cup (IF pixels = Nothing THEN {} ELSE pixels.area)}

(* present_composed_frame.                                                 *)
Composed(s, p, frame, late) ==
  LET pixels == Pixels(frame)
      shown == Shown(s, p, pixels, late)
      skipped == IF shown.visible THEN frame.area \ DOMAIN pixels.natives ELSE {}
      next == Cells(frame.text, skipped)
      again == Repainted(p, shown.p, pixels, next)
      updates == {c \in DOMAIN next \ skipped :
                    c \in again \/ (shown.p.text # Nothing => next[c] # shown.p.text[c])}
  IN [p |-> [shown.p EXCEPT !.text = next], cached |-> shown.p.text # Nothing,
      s |-> Written(shown.s, p, updates, frame.text)]

(* resize.                                                                 *)
Fitted(p, n) ==
  IF p.surface = "off" \/ p.columns = n THEN p
  ELSE [p EXCEPT !.columns = n, !.area = {}, !.frame = Nothing, !.text = Nothing]

(* Graphics are given up: the image is removed and there is no other.      *)
GivenUp(p) == IF giveUp THEN [Removed(p) EXCEPT !.surface = "off"] ELSE p

(* Wrong: the pace of animation holds back what the user is to click on.   *)
ForcedNever(offered, frame) == FALSE

(* Actions that changed are not held back.                                 *)
Forced(offered, frame) == offered # frame.actions

(* Text alone, as a difference to what the terminal drew last.             *)
TextDrawn(s, old, frame) ==
  Written(s, presenter, {c \in DOMAIN s : Cell(frame.text[c], FALSE) # old[c]}, frame.text)

(* One round of the loop: give up graphics if told to, clear, resize, draw *)
(* and compose; what was drawn can be clicked on once it is presented.     *)
Frame(frame, late) ==
  LET wiped == clearing \/ giveUp \/ Len(buffer) # width
      offered == IF giveUp \/ Len(buffer) # width THEN Nothing ELSE hits
      before == Fitted(GivenUp(presenter), width)
      images == before.surface # "off"
      base == IF wiped THEN Blank(width) ELSE screen
      old == IF wiped THEN Cells([c \in 1..width |-> Space], {}) ELSE buffer
      new == IF images THEN Composed(base, before, frame, late \/ Forced(offered, frame))
             ELSE [p |-> before, s |-> TextDrawn(base, old, frame), cached |-> FALSE]
  IN /\ screen' = new.s /\ presenter' = new.p
     /\ buffer' = Cells(frame.text, IF images THEN 1..width ELSE {})
     /\ hits' = IF ~images \/ new.p.complete THEN frame.actions ELSE offered
     /\ clearing' = FALSE /\ drawn' = frame
     /\ blanked' = (new.cached /\ (wiped \/ blanked))
     /\ \E costly \in BOOLEAN : slow' = IF images /\ costly THEN slow + 1 ELSE 0
     /\ giveUp' = (slow' >= SlowLimit)
     /\ UNCHANGED width

(* The terminal keeps what fits.  It is resized once between two frames:   *)
(* what it keeps through a narrower size and back nobody here can know.    *)
Resize(n) ==
  /\ n # width /\ Len(buffer) = width /\ width' = n
  /\ screen' = [c \in 1..n |-> IF c <= width THEN screen[c] ELSE [text |-> Space, pixel |-> Nothing]]
  /\ drawn' = Nothing
  /\ UNCHANGED <<buffer, presenter, clearing, slow, giveUp, hits, blanked>>

(* The image is taken away before another program or screen is shown; the  *)
(* next frame, in the same round, begins by clearing.                      *)
Yield ==
  /\ ~clearing /\ clearing' = TRUE
  /\ presenter' = Removed(presenter)
  /\ hits' = Nothing /\ drawn' = Nothing
  /\ UNCHANGED <<width, slow, giveUp, blanked>>

(* Outcome::Console: another program has had the terminal.                 *)
Handoff == Yield /\ screen' = Blank(width) /\ UNCHANGED buffer

(* UiCommand::Sources: the connection screen has been drawn over all of it.*)
Sources ==
  /\ Yield
  /\ buffer' = Cells([c \in 1..width |-> "x"], {})
  /\ screen' = [c \in 1..width |-> [text |-> "x", pixel |-> Nothing]]

(* next_frame is only ever set for Sixel.                                  *)
Pace == IF presenter.surface = "sixel" THEN BOOLEAN ELSE {TRUE}

PresenterNext ==
  \/ \E frame \in Frames(width), late \in Pace : Frame(frame, late)
  \/ \E n \in Widths : Resize(n)
  \/ Handoff \/ Sources

PresenterSpec == PresenterInit /\ [][PresenterNext]_presenterVars

-----------------------------------------------------------------------------
Art(c) == presenter.area # {} /\ c \in drawn.area /\ drawn.text[c] = HalfBlock

(* Every column shows what the frame put there: its text, or its art, for  *)
(* which an earlier one may stand while the image waits for its time.      *)
Restored ==
  drawn # Nothing =>
    \A c \in 1..width :
      IF Art(c) THEN Look(c) = drawn.art \/ (~presenter.complete /\ Look(c) \in Arts)
      ELSE Look(c) = drawn.text[c]

(* Whatever images came, moved, waited and went, and whenever graphics     *)
(* were given up or the size changed, the screen shows the frame that was  *)
(* drawn last: no label an image erased is missing, no label or pixel is   *)
(* left over (present_composed_frame repaints what image_changed names).   *)
(* Left out: a terminal that was cleared under a text taken for written.   *)
ScreenShowsFrame == ~blanked => Restored

(* "Restore the office even if spawning fails" (main.rs, handoff_console): *)
(* the frame after a console or the source screen shows the office again.  *)
OfficeRestored == Restored

(* What a click does is what the frame on the screen offers, or nothing:   *)
(* presented_hits is never older than the actions drawn, even when a frame *)
(* was held back to keep the pace of the terminal.                         *)
ClicksAsShown == hits # Nothing /\ drawn # Nothing => hits = drawn.actions

=============================================================================
