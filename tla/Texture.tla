------------------------------- MODULE Texture -------------------------------
(***************************************************************************)
(* The images of gravityon on the processor's side                         *)
(* (src/gravityon/gravityon.c): made from RGBA bytes, drawn on with the    *)
(* 5x7 font, reduced to a chain of mipmaps, sampled through a sampler,     *)
(* saved as BMP files and loaded from them.                                *)
(*                                                                         *)
(* One client with one image at a time.  A call is one step that leaves    *)
(* its outcome in `call`, and the client takes it (Return) before the next *)
(* one.  A pixel is <<r, g, b, a>>.  Texture coordinates and levels of     *)
(* detail are whole numbers of DEN-ths, and a sample is exact, scaled by   *)
(* DEN^3 (by DEN^2 in a level): the rounding of floats is left out, and so *)
(* are the formats other than R8G8B8A8, the PPM and PNG files.             *)
(***************************************************************************)
EXTENDS Integers, Sequences, FiniteSets, SequencesExt, FiniteSetsExt

CONSTANTS
  Widths, Heights,    \* of the images made
  Shades,             \* the values of their red
  MIP_LEVELS,         \* the length of GravMipInfo's arrays, 16
  DEN,                \* coordinates are in DEN-ths
  Coords, Lods,       \* the coordinates (one image too far) and levels of detail sampled
  Texts,              \* the texts drawn, each a number: see TextOf
  Places, Scales      \* where (x = y) and how large

ASSUME TextureAssumption ==
  /\ Widths \cup Heights \cup {MIP_LEVELS, DEN} \subseteq Nat \ {0}
  /\ Shades \subseteq 0..255

VARIABLES
  image,              \* the GravImage, or NoImage
  mips,               \* the levels of GravMipInfo; its level 0 is the image's memory
  disk,               \* the BMP file, or NoFile
  call,               \* the last call: its name, outcome and what it gave
  made,               \* history: the picture the mipmaps were made from
  shown,              \* history: the picture the file was made from
  drawn               \* bound: one text is drawn

textureVars == <<image, mips, disk, call, made, shown, drawn>>

NoImage == [w |-> 0, h |-> 0, px |-> <<>>]
NoFile == [size |-> -1]
Idle == [op |-> "none"]
Outcome(op, result) == [op |-> op, result |-> result]
At(level, x, y) == level.px[y * level.w + x + 1]
X(k, w) == (k - 1) % w            \* where the k-th pixel is
Y(k, w) == (k - 1) \div w
Opaque(p) == [p EXCEPT ![4] = 255]

(* The client's pictures: of one colour but for a corner or a diagonal.    *)
Colours == {<<s, 255 - s, 9, s>> : s \in Shades}
Motifs(w, h) == {{w}, {k \in 1..(w * h) : X(k, w) = Y(k, w)}}
Pictures ==
  UNION {{[w |-> w, h |-> h, px |-> [k \in 1..(w * h) |-> IF k \in m THEN c ELSE d]] :
            m \in Motifs(w, h), c \in Colours, d \in {<<0, 255, 9, 128>>}} : w \in Widths, h \in Heights}

TextureInit ==
  /\ image = NoImage /\ mips = <<>> /\ disk = NoFile /\ call = Idle
  /\ made = NoImage /\ shown = NoImage /\ drawn = FALSE

----------------------------------------------------------------------------
(* Files.  A BMP file is what its 54 bytes of header say and the bytes of  *)
(* the rows; a file cut short has a size and fewer bytes than they need.   *)
HEADER == 54
Stride(w, bpp) == IF bpp = 24 THEN ((w * 3 + 3) \div 4) * 4 ELSE w * 4
\* The k-th byte of a row: blue, green, red, and zeros up to whole words.
SavedByte(img, y, k) == IF k <= img.w * 3 THEN At(img, (k - 1) \div 3, y)[3 - ((k - 1) % 3)] ELSE 0
\* Mutant: the rows are not padded to whole words.
SavedRowUnpadded(img, y) == [k \in 1..(img.w * 3) |-> SavedByte(img, y, k)]
SavedRow(img, y) == [k \in 1..Stride(img.w, 24) |-> SavedByte(img, y, k)]

\* gravSaveImageBMP: the rows from the top, so the height is negative.
Bitmap(img) ==
  LET n == Len(SavedRow(img, 0))
      data == [k \in 1..(img.h * n) |-> SavedRow(img, (k - 1) \div n)[((k - 1) % n) + 1]]
  IN  [size |-> HEADER + Len(data), w |-> img.w, h |-> -img.h, bpp |-> 24, compr |-> 0,
       dib |-> 40, data |-> data]
CutTo(file, size) ==
  [file EXCEPT !.size = size, !.data = SubSeq(@, 1, size - HEADER)]

\* gravLoadImageBMP: the guards in their order, then the rows.
LoadResult(f) ==
  CASE f.size < HEADER -> "io"
    [] f.size >= HEADER /\ (\/ f.dib < 40 \/ f.compr \notin {0, 3} \/ f.bpp \notin {24, 32}
                            \/ f.w <= 0) -> "invalid"
    [] f.size >= HEADER /\ f.dib >= 40 /\ f.compr \in {0, 3} /\ f.bpp \in {24, 32} /\ f.w > 0 ->
         IF HEADER + Stride(f.w, f.bpp) * (IF f.h < 0 THEN -f.h ELSE f.h) > f.size THEN "io"
         ELSE IF f.h = 0 THEN "invalid" ELSE "success"
\* The three or four bytes of a pixel: blue, green, red and alpha.
LoadedPixel(f, h, x, y) ==
  LET row == IF f.h > 0 THEN h - 1 - y ELSE y
      byte(k) == f.data[row * Stride(f.w, f.bpp) + x * (f.bpp \div 8) + k]
  IN  <<byte(3), byte(2), byte(1), IF f.bpp = 24 THEN 255 ELSE byte(4)>>
Loaded(f) ==
  LET h == IF f.h < 0 THEN -f.h ELSE f.h
  IN  [w |-> f.w, h |-> h, px |-> [k \in 1..(f.w * h) |-> LoadedPixel(f, h, X(k, f.w), Y(k, f.w))]]

\* Another program's file: 32 bits to a pixel, the rows from the bottom.
ForeignBitmap(img) ==
  LET byte(k) == LET n == (k + 3) \div 4
                 IN  At(img, X(n, img.w), img.h - 1 - Y(n, img.w))[<<3, 2, 1, 4>>[((k - 1) % 4) + 1]]
      n == img.w * img.h * 4
  IN  [size |-> HEADER + n, w |-> img.w, h |-> img.h, bpp |-> 32, compr |-> 3, dib |-> 40,
       data |-> [k \in 1..n |-> byte(k)]]

(* Its return values are not looked at: a write the disk has no room for   *)
(* leaves a shorter file and is a success all the same.                    *)
SaveImageBMP ==
  /\ call = Idle /\ image # NoImage /\ mips = <<>>      \* bound
  /\ \/ /\ call' = Outcome("save", "io")             \* fopen fails
        /\ UNCHANGED <<disk, shown>>
     \/ LET file == Bitmap(image)
        IN  \E size \in {0, HEADER, file.size - 1, file.size} :
          /\ disk' = IF size < HEADER THEN [size |-> size] ELSE CutTo(file, size)
          /\ shown' = [image EXCEPT !.px = [p \in DOMAIN @ |-> Opaque(@[p])]]
          /\ call' = Outcome("save", "success")
  /\ UNCHANGED <<image, mips, made, drawn>>

OtherProgramSaves ==
  /\ call = Idle /\ image = NoImage /\ disk = NoFile
  /\ \E pic \in Pictures :
       LET f == ForeignBitmap(pic)
       IN  /\ disk' \in {f, [f EXCEPT !.compr = 1], [f EXCEPT !.bpp = 8], [f EXCEPT !.dib = 12],
                         [f EXCEPT !.h = 0]}
           /\ shown' = pic
  /\ UNCHANGED <<image, mips, call, made, drawn>>

LoadImageBMP ==
  /\ call = Idle /\ image = NoImage
  /\ LET result == IF disk = NoFile THEN "io" ELSE LoadResult(disk)
     IN  /\ call' = Outcome("load", result)
         /\ image' = IF result = "success" THEN Loaded(disk) ELSE image
  /\ UNCHANGED <<mips, disk, made, shown, drawn>>

\* Bound: once there is a file, images are loaded.
CreateImageFromRGBA ==
  /\ call = Idle /\ image = NoImage /\ disk = NoFile
  /\ image' \in Pictures
  /\ UNCHANGED <<mips, disk, call, made, shown, drawn>>

\* A client destroys the mipmaps, whose level 0 is the image's memory, first.
DestroyImage ==
  /\ call = Idle /\ image # NoImage /\ mips = <<>>
  /\ image' = NoImage
  /\ UNCHANGED <<mips, disk, call, made, shown, drawn>>

Return ==
  /\ call # Idle /\ call' = Idle
  /\ UNCHANGED <<image, mips, disk, made, shown, drawn>>

----------------------------------------------------------------------------
(* Text.  Three characters of the font: one byte to a column, its lowest   *)
(* bit on top.                                                             *)
FONT_W == 5
FONT_H == 7
FONT_GAP == 1
FONT5x7 == [c \in {" ", "?", "i"} |->
              CASE c = " " -> <<0, 0, 0, 0, 0>>
                [] c = "?" -> <<2, 1, 81, 9, 6>>
                [] c = "i" -> <<0, 68, 125, 64, 0>>]
Drawn(ch) == IF ch \in DOMAIN FONT5x7 THEN ch ELSE "?"
On(ch, col, row) == (FONT5x7[Drawn(ch)][col + 1] \div 2^row) % 2 = 1
CharW(scale) == (FONT_W + FONT_GAP) * scale
CharH(scale) == (FONT_H + FONT_GAP) * scale

TextOf(n) == IF n = 1 THEN <<"i", "i", "cr", "lf", "i">> ELSE <<"ctrl", "i", "?", "lf", "i", "i">>

NoColour == <<>>      \* bgColor = NULL
Foreground == <<200, 100, 50, 255>>
Background == <<0, 0, 0, 128>>

\* Mutant: a character that just fits is folded.
CharPlacedEarly(w, x, scale, d, ch) ==
  LET wraps == d.cx + CharW(scale) >= w
      cx == IF wraps THEN x ELSE d.cx
      cy == IF wraps THEN d.cy + CharH(scale) ELSE d.cy
  IN  CASE ch = "lf" -> [d EXCEPT !.cx = x, !.cy = @ + CharH(scale)]
        [] ch = "cr" -> d
        [] OTHER -> [cx |-> cx + CharW(scale), cy |-> cy,
                     calls |-> Append(d.calls, [x |-> cx, y |-> cy, ch |-> ch])]

\* gravDrawText's loop: the calls of gravDrawChar it makes.
CharPlaced(w, x, scale, d, ch) ==
  LET wraps == d.cx + CharW(scale) > w
      cx == IF wraps THEN x ELSE d.cx
      cy == IF wraps THEN d.cy + CharH(scale) ELSE d.cy
  IN  CASE ch = "lf" -> [d EXCEPT !.cx = x, !.cy = @ + CharH(scale)]
        [] ch = "cr" -> d
        [] OTHER -> [cx |-> cx + CharW(scale), cy |-> cy,
                     calls |-> Append(d.calls, [x |-> cx, y |-> cy, ch |-> ch])]
CharsPlaced(w, x, y, text, scale) ==
  FoldLeft(LAMBDA d, ch : CharPlaced(w, x, scale, d, ch),
           [cx |-> x, cy |-> y, calls |-> <<>>], text).calls

\* What the calls leave of the pixel k, the later over the earlier.
\* font_put_pixel leaves out what is outside the image.
PixelDrawn(img, k, calls, bg, scale) ==
  LET col(i) == (X(k, img.w) - calls[i].x) \div scale
      row(i) == (Y(k, img.w) - calls[i].y) \div scale
      on(i) == On(calls[i].ch, col(i), row(i))
      here == {i \in DOMAIN calls : /\ col(i) \in 0..(FONT_W - 1) /\ row(i) \in 0..(FONT_H - 1)
                                    /\ bg # NoColour \/ on(i)}
  IN  IF here = {} THEN img.px[k] ELSE IF bg = NoColour \/ on(Max(here)) THEN Foreground ELSE bg

TextDrawn(img, x, y, text, bg, scale) ==
  LET calls == CharsPlaced(img.w, x, y, text, scale)
  IN  [k \in DOMAIN img.px |-> PixelDrawn(img, k, calls, bg, scale)]

MeasureTextWidth(text, scale) ==
  LET m == FoldLeft(LAMBDA a, ch : IF ch = "lf" THEN [cur |-> 0, max |-> Max({a.cur, a.max})]
                                   ELSE [a EXCEPT !.cur = @ + CharW(scale)],
                    [cur |-> 0, max |-> 0], text)
  IN  Max({m.cur, m.max})
MeasureTextHeight(text, scale) ==
  (1 + Cardinality({i \in DOMAIN text : text[i] = "lf"})) * CharH(scale)

DrawText ==
  /\ call = Idle /\ image # NoImage /\ ~drawn
  /\ \E n \in Texts, at \in Places, scale \in Scales, bg \in {NoColour, Background} :
       /\ image' = [image EXCEPT !.px = TextDrawn(image, at, at, TextOf(n), bg, scale)]
       /\ call' = [op |-> "text", text |-> TextOf(n), at |-> at, scale |-> scale, bg |-> bg]
  /\ drawn' = TRUE
  /\ UNCHANGED <<mips, disk, made, shown>>

----------------------------------------------------------------------------
(* Mipmaps: each level half the one before, a texel the mean, cut off, of  *)
(* the up to four texels there.                                            *)
Half(n) == IF n > 1 THEN n \div 2 ELSE 1
Reduced(l) ==
  LET texel(x, y, c) == IF x < l.w /\ y < l.h THEN At(l, x, y)[c] ELSE 0
      sum(x, y, c) == texel(x, y, c) + texel(x + 1, y, c) + texel(x, y + 1, c) + texel(x + 1, y + 1, c)
      samples == (IF l.w > 1 THEN 2 ELSE 1) * (IF l.h > 1 THEN 2 ELSE 1)
  IN  [w |-> Half(l.w), h |-> Half(l.h),
       px |-> [k \in 1..(Half(l.w) * Half(l.h)) |->
                 [c \in 1..4 |-> sum(2 * X(k, Half(l.w)), 2 * Y(k, Half(l.w)), c) \div samples]]]

Levels(img) ==
  LET upTo[n \in 1..MIP_LEVELS] ==
        IF n = 1 THEN <<img>>
        ELSE LET chain == upTo[n - 1]
             IN  IF Last(chain).w > 1 \/ Last(chain).h > 1 THEN Append(chain, Reduced(Last(chain)))
                 ELSE chain
  IN  upTo[MIP_LEVELS]

\* The memory of level 0 is the image's own, so it shows what is drawn later.
Level(k) == IF k = 1 THEN image ELSE mips[k]

\* Without memory for a level the ones before it are freed.
\* Bound: of images that no file has to do with.
GenerateMipmaps ==
  /\ call = Idle /\ image # NoImage /\ mips = <<>> /\ disk = NoFile
  /\ \/ /\ mips' = Levels(image) /\ made' = image /\ call' = Outcome("mips", "success")
     \/ /\ image.w > 1 \/ image.h > 1
        /\ call' = Outcome("mips", "out of memory")
        /\ UNCHANGED <<mips, made>>
  /\ UNCHANGED <<image, disk, shown, drawn>>

DestroyMipmaps ==
  /\ call = Idle /\ mips # <<>>
  /\ mips' = <<>>
  /\ UNCHANGED <<image, disk, call, made, shown, drawn>>

----------------------------------------------------------------------------
(* Sampling.                                                               *)
Clamp(n, low, high) == IF n < low THEN low ELSE IF n > high THEN high ELSE n
apply_wrap(t, mode) ==
  CASE mode = "clamp" -> Clamp(t, 0, DEN)
    [] mode = "mirrored" -> IF (t \div DEN) % 2 = 1 THEN DEN - (t % DEN) ELSE t % DEN
    [] mode = "repeat" -> t % DEN

\* Mutant: the texel after the last is the first.
BilinearRepeated(l, fu, fv, c) ==
  LET x0 == (fu * (l.w - 1)) \div DEN
      y0 == (fv * (l.h - 1)) \div DEN
      tx == fu * l.w - x0 * DEN
      ty == fv * (l.h - 1) - y0 * DEN
      row(y) == At(l, x0, y)[c] * (DEN - tx) + At(l, (x0 + 1) % l.w, y)[c] * tx
  IN  row(y0) * (DEN - ty) + row(Min({y0 + 1, l.h - 1})) * ty

\* gravSampleTexture, bilinear: between the texels around the point.
Bilinear(l, fu, fv, c) ==
  LET x0 == (fu * (l.w - 1)) \div DEN
      y0 == (fv * (l.h - 1)) \div DEN
      x1 == Min({x0 + 1, l.w - 1})
      y1 == Min({y0 + 1, l.h - 1})
      tx == fu * (l.w - 1) - x0 * DEN
      ty == fv * (l.h - 1) - y0 * DEN
      top == At(l, x0, y0)[c] * (DEN - tx) + At(l, x1, y0)[c] * tx
      bottom == At(l, x0, y1)[c] * (DEN - tx) + At(l, x1, y1)[c] * tx
  IN  top * (DEN - ty) + bottom * ty

\* Nearest: rounded, half up.
NearestTo(f, n) == Clamp((2 * f * (n - 1) + DEN) \div (2 * DEN), 0, n - 1)

Sample(l, s, u, v) ==
  LET fu == apply_wrap(u, s.wrapU)
      fv == apply_wrap(v, s.wrapV)
  IN  [c \in 1..4 |->
         IF s.filter = "nearest" THEN At(l, NearestTo(fu, l.w), NearestTo(fv, l.h))[c] * DEN * DEN
         ELSE Bilinear(l, fu, fv, c)]

\* gravSampleTextureLod: between the two levels around the level of detail.
SampleLod(s, u, v, lod) ==
  LET l == Clamp(lod, 0, (Len(mips) - 1) * DEN)
      k == l \div DEN + 1
      t == l % DEN
      a == Sample(Level(k), s, u, v)
  IN  IF t = 0 \/ k >= Len(mips) THEN [c \in 1..4 |-> a[c] * DEN]
      ELSE LET b == Sample(Level(k + 1), s, u, v)
           IN  [c \in 1..4 |-> a[c] * DEN + (b[c] - a[c]) * t]

\* gravCreateSampler's; the anisotropic filter is the bilinear one.
Wraps == {<<"repeat", "mirrored">>, <<"clamp", "mirrored">>, <<"mirrored", "repeat">>}
Samplers == {[filter |-> f, wrapU |-> w[1], wrapV |-> w[2]] : f \in {"nearest", "bilinear"}, w \in Wraps}

SampleTextureLod ==
  /\ call = Idle /\ mips # <<>>
  /\ \E s \in Samplers, u, v \in {n - DEN : n \in Coords}, lod \in Lods :
       call' = [op |-> "sample", s |-> s, u |-> u, v |-> v, lod |-> lod,
                colour |-> SampleLod(s, u, v, lod)]
  /\ UNCHANGED <<image, mips, disk, made, shown, drawn>>

TextureNext ==
  \/ CreateImageFromRGBA \/ DestroyImage \/ SaveImageBMP \/ OtherProgramSaves \/ LoadImageBMP
  \/ DrawText \/ GenerateMipmaps \/ DestroyMipmaps \/ SampleTextureLod \/ Return

TextureSpec == TextureInit /\ [][TextureNext]_textureVars

----------------------------------------------------------------------------
(* Loading gives the picture that was saved, whichever way up the file has *)
(* its rows and however many bytes a pixel takes, or fails; it does not    *)
(* fail on a whole file.  So a save that ran out of disk, which is taken   *)
(* for a success, is found out before a wrong picture is shown.            *)
LoadedAsSaved ==
  call.op = "load" =>
    IF call.result = "success" THEN image = shown
    ELSE \/ disk = NoFile
         \/ /\ disk # ForeignBitmap(shown)
            /\ disk.size # Bitmap(shown).size \/ disk.bpp # 24

(* Where a text goes, without its loop: a character belongs to the line    *)
(* after as many line feeds as there are before it; a line is folded       *)
(* every PerRow characters, or before each when not one fits.              *)
Shown(text) == {i \in DOMAIN text : text[i] \notin {"lf", "cr"}}
LineOf(text, i) == Cardinality({j \in 1..(i - 1) : text[j] = "lf"})
LineLen(text, n) == Cardinality({j \in Shown(text) : LineOf(text, j) = n})
Place(text, i) == Cardinality({j \in Shown(text) : j < i /\ LineOf(text, j) = LineOf(text, i)})
PerRow(w, x, scale) == IF w < x THEN 0 ELSE (w - x) \div CharW(scale)
Rows(n, per) == IF n = 0 THEN 1 ELSE IF per = 0 THEN n + 1 ELSE (n + per - 1) \div per
TopOf(text, i, per) ==
  MapThenSumSet(LAMBDA n : Rows(LineLen(text, n), per), 0..(LineOf(text, i) - 1))
    + (IF per = 0 THEN Place(text, i) + 1 ELSE Place(text, i) \div per)
LeftOf(text, i, per) == IF per = 0 THEN 0 ELSE Place(text, i) % per

CornerOf(t, w, i) ==
  LET per == PerRow(w, t.at, t.scale)
  IN  <<t.at + LeftOf(t.text, i, per) * CharW(t.scale),
        t.at + TopOf(t.text, i, per) * CharH(t.scale)>>

Laid(t) ==
  LET corner == [i \in Shown(t.text) |-> CornerOf(t, image.w, i)]
      dot(i, p) == <<(X(p, image.w) - corner[i][1]) \div t.scale,
                     (Y(p, image.w) - corner[i][2]) \div t.scale>>
  IN  \A p \in DOMAIN image.px :
        LET here == {i \in Shown(t.text) :
                       dot(i, p)[1] \in 0..(FONT_W - 1) /\ dot(i, p)[2] \in 0..(FONT_H - 1)}
        IN  IF here = {} THEN image'.px[p] = image.px[p]
            ELSE \E i \in here :
                   /\ here = {i}
                   /\ image'.px[p] = IF On(t.text[i], dot(i, p)[1], dot(i, p)[2]) THEN Foreground
                                     ELSE IF t.bg # NoColour THEN t.bg ELSE image.px[p]

Measured(t) ==
  (\A i \in Shown(t.text) : Place(t.text, i) < PerRow(image.w, t.at, t.scale)) =>
    \A p \in DOMAIN image.px : image'.px[p] # image.px[p] =>
      /\ X(p, image.w) \in t.at..(t.at + MeasureTextWidth(t.text, t.scale) - 1)
      /\ Y(p, image.w) \in t.at..(t.at + MeasureTextHeight(t.text, t.scale) - 1)

(* After gravDrawText every pixel shows the one character that its place   *)
(* in the text puts there, whole characters on each row, or what it showed *)
(* before: no character is drawn over another, over the edge of the image  *)
(* or over the background of a transparent text.  And a text no row of     *)
(* which has to be folded stays within the width and the height that       *)
(* gravMeasureTextWidth and gravMeasureTextHeight give for it.             *)
TextAsLaidOut == [][call'.op = "text" => Laid(call') /\ Measured(call')]_textureVars

PowerOfTwo(n) == \E k \in 0..8 : n = 2^k
ChainOfMeans ==
  /\ Len(mips) = MIP_LEVELS \/ (Last(mips).w = 1 /\ Last(mips).h = 1)
  /\ \A k \in 2..Len(mips) :
       LET l == mips[k]
           bw == made.w \div l.w
           bh == made.h \div l.h
           part(p) == {q \in DOMAIN made.px : /\ X(q, made.w) \div bw = X(p, l.w)
                                              /\ Y(q, made.w) \div bh = Y(p, l.w)}
       IN  /\ l.w = Max({made.w \div 2^(k - 1), 1}) /\ l.h = Max({made.h \div 2^(k - 1), 1})
           /\ PowerOfTwo(made.w) /\ PowerOfTwo(made.h) =>
                \A p \in DOMAIN l.px, c \in 1..4 :
                  LET sum == MapThenSumSet(LAMBDA q : made.px[q][c], part(p))
                  IN  /\ l.px[p][c] * bw * bh <= sum
                      /\ sum < (l.px[p][c] + k - 1) * bw * bh + 1

Texels(k, c) == {Level(k).px[p][c] : p \in DOMAIN Level(k).px}
SampleOfTexels ==
  LET l == Clamp(call.lod, 0, (Len(mips) - 1) * DEN)
      k == l \div DEN + 1
      of == Texels(k, 1) \cup (IF l % DEN = 0 THEN {} ELSE Texels(k + 1, 1))
      x == apply_wrap(call.u, call.s.wrapU) * (Level(k).w - 1)
      y == apply_wrap(call.v, call.s.wrapV) * (Level(k).h - 1)
  IN  /\ call.colour[1] >= Min(of) * DEN^3 /\ call.colour[1] <= Max(of) * DEN^3
      /\ l % DEN = 0 /\ x % DEN = 0 /\ y % DEN = 0 =>
           \A c \in 1..4 : call.colour[c] = At(Level(k), x \div DEN, y \div DEN)[c] * DEN^3

SameInEveryPeriod ==
  LET period(mode) == IF mode = "mirrored" THEN 2 * DEN ELSE DEN
  IN  /\ call.s.wrapU # "clamp" =>
           call.colour = SampleLod(call.s, call.u - period(call.s.wrapU), call.v, call.lod)
      /\ call.s.wrapV = "mirrored" =>
           call.colour = SampleLod(call.s, call.u, -call.v, call.lod)

(* Filtering invents nothing.  The chain of mipmaps ends in a single texel *)
(* or with the arrays, each level has the halved sides, and a texel of     *)
(* level k is the mean of the part of the picture it stands for, up to the *)
(* cutting off of k means, where the sides are powers of two.  A sample    *)
(* lies between the darkest and the lightest of the texels of the two      *)
(* levels it is taken from, on a texel of a single level it is that texel, *)
(* whichever the filter, and it is the same one period further, a period   *)
(* being the image or, mirrored, the image and its mirror image, which     *)
(* also makes the sides of 0 alike.                                        *)
FilteredAsPicture ==
  /\ call = Outcome("mips", "success") => ChainOfMeans
  /\ call.op = "sample" => SampleOfTexels /\ SameInEveryPeriod
=============================================================================
