------------------------------- MODULE Frame -------------------------------
(***************************************************************************)
(* Drawing a frame and showing it (ui/render.rs, ssh/screen.rs): Lua draws *)
(* through clipping contexts into a cleared buffer of cells, the rows with *)
(* another fingerprint than in the last frame are sent, each from its      *)
(* first column.  A style is a colour or none, and bold; background and    *)
(* dim are handled like them.  The terminal is external: it puts a wide    *)
(* character on two columns, one without width on none, and what does not  *)
(* fit into a row goes on in the next.                                     *)
(***************************************************************************)
EXTENDS Integers, Sequences, SequencesExt, FiniteSetsExt

CONSTANTS
  Width, Height,
  Wide, Joined,  \* characters: two columns, none; all others take one
  Texts,         \* what is printed: sequences of characters
  Styles,        \* records of colour and bold
  Digest,        \* style -> the digits of the 16 bits that are kept of its hash
  Regions,       \* arguments of ctx:sub
  Spots,         \* positions in a region, columns and rows count from 0
  Lengths,       \* widths and heights of what is drawn
  MaxDraws       \* bound: calls that draw

ASSUME FrameAssumption == Width \in Nat \ {0} /\ Height \in Nat \ {0} /\ MaxDraws \in Nat
ASSUME DrawingAssumption ==
  /\ Texts \subseteq Seq(STRING) /\ Styles \subseteq [colour : STRING, bold : BOOLEAN]
  /\ Regions \subseteq [x : Nat, y : Nat, w : Nat, h : Nat]
  /\ Spots \subseteq [x : Nat, y : Nat] /\ Lengths \subseteq Nat

VARIABLES
  buffer,        \* the frame that is drawn: row -> column -> cell
  last,          \* the frame the next diff is made against
  sent,          \* history: each row as it was sent last
  terminal,      \* what the terminal shows: row -> column -> glyph
  hurt,          \* rows of the terminal that another row ran into
  frame,         \* where the refresh task stands
  draws          \* calls so far

frameVars == <<buffer, last, sent, terminal, hurt, frame, draws>>

Rows == 0..(Height - 1)
Columns == 0..(Width - 1)

\* WIDE_CHAR_SPACER: the cell is covered by the wide character before it.
Spacer == "spacer"
Marks == {" ", "-", "|", "+", "#", "."}
ASSUME WidthAssumption == Wide # Joined /\ {Wide, Joined} \cap (Marks \cup {Spacer}) = {}

None == "none"
Plain == [colour |-> None, bold |-> FALSE]
Cell(c, style) == [char |-> c, colour |-> style.colour, bold |-> style.bold]
Blank == Cell(" ", Plain)
\* Few digits: styles may share them, and styles differ in how many they have.
ASSUME DigestAssumption == Digest \in [Styles \cup {Plain} -> Seq(STRING)]
Empty == [y \in Rows |-> [x \in Columns |-> Blank]]

FrameInit ==
  /\ buffer = Empty /\ last = Empty
  \* the alternate screen, cleared
  /\ terminal = Empty /\ sent = Empty /\ hurt = {}
  /\ frame = "idle" /\ draws = 0

Least(a, b) == IF a <= b THEN a ELSE b
Monus(a, b) == IF a >= b THEN a - b ELSE 0

-----------------------------------------------------------------------------
(* Contexts and the buffer                                                 *)

Full == [x |-> 0, y |-> 0, w |-> Width, h |-> Height]
Sub(ctx, x, y, w, h) ==
  [x |-> ctx.x + Least(x, ctx.w), y |-> ctx.y + Least(y, ctx.h),
   w |-> Least(w, Monus(ctx.w, x)), h |-> Least(h, Monus(ctx.h, y))]
Contexts == {Full} \cup {Sub(Full, r.x, r.y, r.w, r.h) : r \in Regions}
Inside(ctx, x, y) == x < ctx.w /\ y < ctx.h

\* cells: what is set, <<column, row>> -> cell; the rest is out of bounds.
Sets(b, cells) ==
  [y \in Rows |-> [x \in Columns |->
     IF <<x, y>> \in DOMAIN cells THEN cells[<<x, y>>] ELSE b[y][x]]]
Same(places, c, style) == [p \in places |-> Cell(c, style)]

Fill(b, x, y, w, h, c, style) ==
  Sets(b, Same((x..(x + w - 1)) \X (y..(y + h - 1)), c, style))
HLine(b, x, y, len, style) == Fill(b, x, y, len, 1, "-", style)
VLine(b, x, y, len, style) == Fill(b, x, y, 1, len, "|", style)

\* draw_box: corners and edges; too small a box is not drawn.
DrawBox(b, x, y, w, h, style) ==
  LET right == x + w - 1
      low == y + h - 1
      edges == HLine(HLine(b, x, y, w, style), x, low, w, style)
      sides == VLine(VLine(edges, x, y, h, style), right, y, h, style)
  IN IF w < 2 \/ h < 2 THEN b
     ELSE Sets(sides, Same({x, right} \X {y, low}, "+", style))

\* filled: the share of w that the value makes
Gauge(b, x, y, w, filled, style) ==
  Fill(Fill(b, x, y, w, 1, ".", style), x, y, Least(filled, w), 1, "#", style)

\* Bars are as high as the values; a bar is a character.
Sparkline(b, x, y, bars, style) ==
  Sets(b, [p \in (x..(x + Len(bars) - 1)) \X {y} |-> Cell(bars[p[1] - x + 1], style)])

CharWidth(c) == CASE c = Wide -> 2 [] c = Joined -> 0 [] OTHER -> 1
\* The columns of a text: the first and perhaps the second of each character.
TextWidth(text) == Cardinality({p \in (DOMAIN text) \X {1, 2} : p[2] <= CharWidth(text[p[1]])})

\* Each character goes to the column after those before it; what is past the
\* last column and what has no width is left out.
PrintText(b, x, y, text, style) ==
  LET column(i) == x + TextWidth(SubSeq(text, 1, i - 1))
      over(p) == {i \in DOMAIN text : column(i) <= p[1] /\ p[1] < column(i) + CharWidth(text[i])}
      cell(p, i) == Cell(IF p[1] = column(i) THEN text[i] ELSE Spacer, style)
  IN Sets(b, [p \in {q \in Columns \X {y} : over(q) # {}} |->
                cell(p, CHOOSE i \in over(p) : TRUE)])

\* The label takes as many columns as it has characters.
Meter(b, x, y, w, filled, label, style) ==
  LET gauge == Monus(w, Len(label) + 1) IN
  Gauge(PrintText(b, x, y, label, style), x + Len(label) + 1, y, gauge,
        Least(filled, gauge), style)

\* ctx:print clips by the columns a text takes.
Clip(text, width) ==
  SubSeq(text, 1, Max({n \in 0..Len(text) : TextWidth(SubSeq(text, 1, n)) <= width}))

\* ctx:fill takes any character.
Fillings == {" ", Wide, Joined}
\* The calls of a context, where right columns and lower rows of it remain.
Drawings(bx, by, right, lower, style) ==
  {PrintText(buffer, bx, by, Clip(text, right), style) : text \in Texts}
  \cup {Fill(buffer, bx, by, Least(w, right), Least(h, lower), c, style) :
          w \in Lengths, h \in Lengths, c \in Fillings}
  \cup {HLine(buffer, bx, by, Least(n, right), style) : n \in Lengths}
  \cup {VLine(buffer, bx, by, Least(n, lower), style) : n \in Lengths}
  \cup {DrawBox(buffer, bx, by, Least(w, right), Least(h, lower), style) :
          w \in Lengths, h \in Lengths}
  \cup {Gauge(buffer, bx, by, Least(w, right), n, style) : w \in Lengths, n \in Lengths}
  \cup {Sparkline(buffer, bx, by, SubSeq(<<"#", ".">>, 1, Least(2, right)), style)}
  \cup {Meter(buffer, bx, by, Least(w, right), 1, text, style) : w \in Lengths, text \in Texts}

\* A spot inside the context.
Drawn(ctx, x, y, style) == Drawings(ctx.x + x, ctx.y + y, ctx.w - x, ctx.h - y, style)

ClearContext(ctx) == Fill(buffer, ctx.x, ctx.y, ctx.w, ctx.h, " ", Plain)

-----------------------------------------------------------------------------
(* From cells to the terminal                                              *)

\* The character and the digits of each cell, one after the other: rows that
\* differ may have one fingerprint.
Fingerprint(row) == FlattenSeq([i \in 1..Width |->
  LET cell == row[i - 1] IN <<cell.char>> \o Digest[[colour |-> cell.colour, bold |-> cell.bold]]])

\* row_to_ansi: bold turns everything off before it changes; a cell without
\* colour does not turn the colour before it off.
Pen(row, x) ==
  LET starts == {k \in 1..x : row[k].bold # row[k - 1].bold} \cup {0}
      coloured == {k \in Max(starts)..x : row[k].colour # None}
  IN IF coloured = {} THEN None ELSE row[Max(coloured)].colour

\* Spacers are not sent.  Where the terminal puts the character of a cell:
Sent(row) == {x \in Columns : row[x].char # Spacer}
Spread(row) == {p \in Sent(row) \X {1, 2} : p[2] <= CharWidth(row[p[1]].char)}
At(row, x) == Cardinality({p \in Spread(row) : p[1] < x})

\* What a row shows: each character on its columns, blanks after the last.  One
\* without width changes the look of the one before it, of which nothing is said.
Shown(row) == [x \in Columns |->
  LET here == {k \in Sent(row) : At(row, k) = x /\ CharWidth(row[k].char) > 0}
      before == {k \in Sent(row) : At(row, k) = x - 1 /\ CharWidth(row[k].char) = 2}
      glyph(k, c) == [char |-> c, colour |-> Pen(row, k), bold |-> row[k].bold]
  IN IF here # {} THEN glyph(Max(here), row[Max(here)].char)
     ELSE IF before # {} THEN glyph(Max(before), Spacer) ELSE Blank]
Overflows(row) == Cardinality(Spread(row)) > Width

\* diff_ansi, row after row
Changed == {y \in Rows : Fingerprint(buffer[y]) # Fingerprint(last[y])}
\* A row that overflows runs into the next one, and from the lowest one the
\* terminal scrolls.  A row that is sent after that is mended.
RunsInto(y) == IF y = Height - 1 THEN Rows ELSE {y + 1}
HurtAfter(changed) ==
  (hurt \ changed) \cup
  {y \in Rows : \E z \in changed :
     y \in RunsInto(z) /\ Overflows(buffer[z]) /\ (y \in changed => y <= z)}

-----------------------------------------------------------------------------
(* render_screen_with_tags                                                 *)

BeginFrame ==
  /\ frame = "idle"
  /\ frame' = "drawing"
  /\ buffer' = Empty
  /\ UNCHANGED <<last, sent, terminal, hurt, draws>>

\* on_tick draws.
Draw ==
  /\ frame \in {"drawing", "again"}
  /\ draws < MaxDraws
  /\ draws' = draws + 1
  /\ \E ctx \in Contexts :
       \/ buffer' = ClearContext(ctx)
       \/ \E p \in Spots, style \in Styles :
            /\ Inside(ctx, p.x, p.y)
            /\ buffer' \in Drawn(ctx, p.x, p.y, style)
  /\ UNCHANGED <<last, sent, terminal, hurt, frame>>

\* on_tick failed; it is called again with the old arguments, on what it left.
FailFirst ==
  /\ frame = "drawing"
  /\ frame' = "again"
  /\ UNCHANGED <<buffer, last, sent, terminal, hurt, draws>>

\* Variant: the skipped frame is taken for the last one.
SkipAndKeep ==
  /\ frame = "again"
  /\ frame' = "idle"
  /\ last' = buffer
  /\ UNCHANGED <<buffer, sent, terminal, hurt, draws>>
\* It failed again: the frame is skipped.
SkipFrame ==
  /\ frame = "again"
  /\ frame' = "idle"
  /\ UNCHANGED <<buffer, last, sent, terminal, hurt, draws>>

SendFrame ==
  /\ frame \in {"drawing", "again"}
  /\ frame' = "idle"
  /\ last' = buffer
  /\ LET changed == Changed IN
       /\ sent' = [y \in Rows |-> IF y \in changed THEN buffer[y] ELSE sent[y]]
       /\ terminal' = [y \in Rows |-> IF y \in changed THEN Shown(buffer[y]) ELSE terminal[y]]
       /\ hurt' = HurtAfter(changed)
  /\ UNCHANGED <<buffer, draws>>

FrameNext == BeginFrame \/ Draw \/ FailFirst \/ SkipFrame \/ SendFrame

-----------------------------------------------------------------------------
(* Properties                                                              *)

Glyphs == {Wide, Joined, Spacer} \cup Marks \cup UNION {ToSet(text) : text \in Texts}
Cells == [char : Glyphs, colour : {s.colour : s \in Styles \cup {Plain}}, bold : BOOLEAN]

\* Cells have a character, or a spacer, and a style.
FrameTypeOK ==
  /\ {buffer, last, sent} \subseteq [Rows -> [Columns -> Cells]]
  /\ frame \in {"idle", "drawing", "again"} /\ draws \in 0..MaxDraws
  /\ hurt \subseteq Rows

\* Every wide character has its spacer, every spacer its character, and every
\* other character a width.
Whole(row) ==
  \A x \in Columns :
    /\ row[x].char # Joined
    /\ row[x].char = Wide => x + 1 \in Columns /\ row[x + 1].char = Spacer
    /\ row[x].char = Spacer => x - 1 \in Columns /\ row[x - 1].char = Wide

\* Sending only some rows shows the frame, as far as fingerprints tell rows
\* apart.  What was sent of a row, however many frames ago, has the fingerprint
\* of that row in the last frame, and if its wide characters are whole it
\* stands on the terminal as it was drawn, unless a row above that was not
\* whole ran into it since.  A cell without colour may have that of a cell
\* before it, and a spacer has the style of its character.  Of the last column
\* nothing is said: terminals differ in whether the erasure after the row
\* takes it.  (print, row_fingerprint, row_to_ansi, diff_ansi, and skipped
\* frames.)
FrameIsShown ==
  \A y \in Rows :
    /\ Fingerprint(sent[y]) = Fingerprint(last[y])
    /\ Whole(sent[y]) /\ y \notin hurt => \A x \in 0..(Width - 2) :
         /\ terminal[y][x].char = sent[y][x].char
         /\ sent[y][x].char = Spacer \/ terminal[y][x].bold = sent[y][x].bold
         /\ \/ sent[y][x].char = Spacer \/ terminal[y][x].colour = sent[y][x].colour
            \/ /\ sent[y][x].colour = None
               /\ \E k \in 0..(x - 1) : sent[y][k].colour = terminal[y][x].colour
=============================================================================
