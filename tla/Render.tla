-------------------------------- MODULE Render --------------------------------
(***************************************************************************)
(* Command buffers of gravityon, their submission to the software          *)
(* backend, and its tiled rasteriser (src/gravityon/gravityon.c).          *)
(*                                                                         *)
(* One client records commands and submits them; gravSubmitCommandBuffer   *)
(* is one step per command.  A draw of solid triangles on a device of two  *)
(* threads or more starts workers; each worker rasterises one triangle on  *)
(* one tile per step, in any interleaving, and creating one may fail.      *)
(*                                                                         *)
(* Vertices are whole numbers in half pixels, as the pixel centres are,    *)
(* with one depth per triangle; shaders, perspective and multisampling are *)
(* left out.  A viewport is the offset of its corner.  A pixel holds the    *)
(* last triangle written to it and, when that one was blended, the one     *)
(* below it: enough for the order of the writes to show.                   *)
(***************************************************************************)
EXTENDS Integers, Sequences, FiniteSets, SequencesExt

CONSTANTS
  Width, Height,      \* of the framebuffer's images
  TileSize,           \* pipeline->tileSize
  THREADS,            \* device->threadCount
  CAPACITY,           \* maxCommands of the command buffer
  Script,             \* the commands tried at each place of a recording
  MAX_SUBMITS,        \* bound: how many submissions
  Vertices,           \* the vertex buffer: <<x, y, depth>>
  Indices             \* the index buffer

ASSUME SizeAssumption ==
  /\ {Width, Height, TileSize, THREADS, CAPACITY} \subseteq Nat \ {0}
  /\ CAPACITY <= Len(Script)
  /\ TileSize >= 8

VARIABLES
  recording, cmds,    \* the command buffer
  query,              \* the occlusion query: active, available
  pc, i, st,          \* gravSubmitCommandBuffer: where, which command, RastState
  color, depth,       \* the framebuffer's images
  tris,               \* the triangles of the draw in progress
  next,               \* per worker created: its next <<tile, triangle>>
  before,             \* history: the images before the draw
  submits             \* counts submissions, up to MAX_SUBMITS

vars == <<recording, cmds, query, pc, i, st, color, depth, tris, next, before,
          submits>>

Pixels == (0..(Width - 1)) \X (0..(Height - 1))
NoRestart == -1       \* UINT32_MAX, the index of a primitive restart
Everything == [x |-> 0, y |-> 0, w |-> Width, h |-> Height]
Far == 9              \* a depth behind every vertex

\* memset(&state, 0): nothing bound.
NoState == [pipeline |-> <<>>, fb |-> FALSE, vb |-> FALSE, ib |-> FALSE,
            vp |-> <<0, 0>>, sc |-> [x |-> 0, y |-> 0, w |-> 0, h |-> 0]]
Images == [color |-> color, depth |-> depth]

Init ==
  /\ recording = FALSE /\ cmds = <<>>
  /\ query = [active |-> FALSE, available |-> FALSE]
  /\ pc = "idle" /\ i = 0 /\ st = NoState
  /\ color = [p \in Pixels |-> <<>>]
  /\ depth = [p \in Pixels |-> 0]
  /\ tris = <<>> /\ next = <<>>
  /\ before = Images
  /\ submits = 0

-----------------------------------------------------------------------------
(* Recording *)

Client ==
  /\ pc = "idle"
  /\ UNCHANGED <<query, pc, i, st, color, depth, tris, next, before, submits>>

\* gravBeginCommandBuffer, gravEndCommandBuffer, gravResetCommandBuffer
Begin == Client /\ ~ recording /\ recording' = TRUE /\ cmds' = <<>>
End == Client /\ recording /\ recording' = FALSE /\ UNCHANGED cmds
Reset == Client /\ recording' = FALSE /\ cmds' = <<>>

\* gravCmd*: one command more, unless the buffer is full.
Record ==
  /\ Client
  /\ recording /\ Len(cmds) < CAPACITY
  /\ \E c \in Script[Len(cmds) + 1] : cmds' = Append(cmds, c)
  /\ UNCHANGED recording

-----------------------------------------------------------------------------
(* Triangles *)

\* The places of a sequence ix where a triangle of three starts: every one in a
\* strip, every third in a list, without those that hold a restart.
At(ix, k) == <<ix[k], ix[k + 1], ix[k + 2]>>
Whole(pl, ix, k) == pl.restart => \A v \in 1..3 : At(ix, k)[v] # NoRestart
Starts(pl, ix) ==
  SelectSeq([k \in 1..Len(ix) |-> k],
            LAMBDA k : k + 2 <= Len(ix) /\ (pl.strip \/ k % 3 = 1) /\ Whole(pl, ix, k))
Turned(t) == <<t[1], t[3], t[2]>>

\* execute_draw: the triangles of the vertices ix.  In a strip, every second one
\* since the last place skipped is turned.
Primitives(pl, ix) ==
  LET at == Starts(pl, ix)
      Since[k \in 1..Len(ix)] ==
        IF k = 1 THEN 0 ELSE IF ~ Whole(pl, ix, k - 1) THEN 0 ELSE Since[k - 1] + 1
  IN [m \in DOMAIN at |-> IF pl.strip /\ Since[at[m]] % 2 = 1 THEN Turned(At(ix, at[m]))
                          ELSE At(ix, at[m])]

\* ndc_to_screen, and twice the area of triangle a, b, c with its sign.
Screen(s, v) == <<Vertices[v][1] + 2 * s.vp[1], Vertices[v][2] + 2 * s.vp[2]>>
Area(a, b, c) == (b[1] - a[1]) * (c[2] - a[2]) - (b[2] - a[2]) * (c[1] - a[1])

Inside(r, p) ==
  /\ r.x <= p[1] /\ p[1] < r.x + r.w
  /\ r.y <= p[2] /\ p[2] < r.y + r.h

\* rasterize_triangle: the pixels of triangle t inside a region.
Covered(s, t, region) ==
  LET a == Screen(s, t[1] + 1)
      b == Screen(s, t[2] + 1)
      c == Screen(s, t[3] + 1)
      area == Area(a, b, c)
      sign == IF area < 0 THEN -1 ELSE 1
      Centre(p) == <<2 * p[1] + 1, 2 * p[2] + 1>>
  IN IF area = 0 \/ (s.pipeline.cullBack /\ area >= 0) THEN {}
     ELSE {p \in Pixels :
             /\ Inside(s.sc, p) /\ Inside(region, p)
             /\ sign * Area(b, c, Centre(p)) >= 0
             /\ sign * Area(c, a, Centre(p)) >= 0
             /\ sign * Area(a, b, Centre(p)) >= 0}

\* GRAV_COMPARE_LESS, and what write_pixel_rgba8 makes of a pixel.
depth_test(z, buffer) == z < buffer
Blended(s, pixel, t) ==
  IF s.pipeline.blend /\ pixel # <<>> THEN <<Last(pixel), t>> ELSE <<t>>

\* What a triangle does to the pixels it covers and does not fail on.
Rasterized(img, s, t, region) ==
  LET z == Vertices[t[1] + 1][3]
      hit == {p \in Covered(s, t, region) : s.pipeline.depthTest => depth_test(z, img.depth[p])}
  IN [color |-> [p \in Pixels |-> IF p \in hit THEN Blended(s, img.color[p], t) ELSE img.color[p]],
      depth |-> [p \in Pixels |-> IF p \in hit /\ s.pipeline.depthTest THEN z ELSE img.depth[p]]]

\* All triangles, one after the other, on the whole image.
Sequential(img, s, ts) == FoldLeft(LAMBDA a, t : Rasterized(a, s, t, Everything), img, ts)

-----------------------------------------------------------------------------
(* Tiles *)

TilesAlong(size) == (size + TileSize - 1) \div TileSize
TilesX == TilesAlong(Width)
TileCount == TilesX * TilesAlong(Height)
Least(a, b) == IF a < b THEN a ELSE b
Workers == Least(THREADS, TileCount)

Region(tile) ==
  LET x == (tile % TilesX) * TileSize
      y == (tile \div TilesX) * TileSize
  IN [x |-> x, y |-> y, w |-> Least(TileSize, Width - x), h |-> Least(TileSize, Height - y)]

\* The tiles of the workers that could not be created.
Unassigned(created) == {t \in 0..(TileCount - 1) : t % Workers >= created}

-----------------------------------------------------------------------------
(* Submission *)

Submitting == UNCHANGED <<recording, cmds, submits>>
Draws == UNCHANGED <<tris, next, before>>

\* gravSubmitCommandBuffer refuses a buffer that is still recorded.
Submit ==
  /\ pc = "idle" /\ ~ recording
  /\ submits < MAX_SUBMITS /\ submits' = submits + 1
  /\ pc' = "run" /\ i' = 1 /\ st' = NoState
  /\ UNCHANGED <<recording, cmds>> /\ Draws
  /\ UNCHANGED <<query, color, depth>>

Done ==
  /\ pc = "run" /\ i > Len(cmds)
  /\ pc' = "idle" /\ i' = 0 /\ st' = NoState
  /\ Submitting /\ Draws
  /\ UNCHANGED <<query, color, depth>>

\* The next command is one of this type; it is done in this step.
Command(type) ==
  /\ pc = "run" /\ i <= Len(cmds) /\ cmds[i].type = type
  /\ i' = i + 1
  /\ Submitting /\ Draws
Now == cmds[i]

\* CMD_BEGIN_RENDER_PASS
BeginRenderPass ==
  /\ Command("begin_pass")
  /\ st' = [st EXCEPT !.fb = TRUE, !.vp = <<Now.area.x, Now.area.y>>, !.sc = Now.area]
  /\ color' = IF Now.clear THEN [p \in Pixels |-> <<>>] ELSE color
  /\ depth' = IF Now.clear THEN [p \in Pixels |-> Far] ELSE depth
  /\ UNCHANGED <<query, pc>>

\* CMD_BIND_PIPELINE brings its own viewport and scissor.
BindPipeline ==
  /\ Command("bind_pipeline")
  /\ st' = [st EXCEPT !.pipeline = Now.pipeline, !.vp = Now.pipeline.vp, !.sc = Now.pipeline.sc]
  /\ UNCHANGED <<query, pc, color, depth>>

\* CMD_BIND_VERTEX_BUFFER, CMD_BIND_INDEX_BUFFER, CMD_SET_VIEWPORT, CMD_SET_SCISSOR
BindBuffers ==
  /\ Command("bind_buffers")
  /\ st' = [st EXCEPT !.vb = TRUE, !.ib = TRUE]
  /\ UNCHANGED <<query, pc, color, depth>>
SetViewport ==
  /\ Command("viewport")
  /\ st' = [st EXCEPT !.vp = Now.vp]
  /\ UNCHANGED <<query, pc, color, depth>>
SetScissor ==
  /\ Command("scissor")
  /\ st' = [st EXCEPT !.sc = Now.sc]
  /\ UNCHANGED <<query, pc, color, depth>>

\* CMD_CLEAR_COLOR_IMAGE
ClearColorImage ==
  /\ Command("clear_image")
  /\ color' = [p \in Pixels |-> <<>>]
  /\ UNCHANGED <<query, pc, st, depth>>

\* CMD_BEGIN_QUERY, CMD_END_QUERY
BeginQuery ==
  /\ Command("begin_query")
  /\ query' = [active |-> TRUE, available |-> FALSE]
  /\ UNCHANGED <<pc, st, color, depth>>
EndQuery ==
  /\ Command("end_query")
  /\ query' = [active |-> FALSE, available |-> TRUE]
  /\ UNCHANGED <<pc, st, color, depth>>

\* What a draw command enumerates: vertices, or those of its indices.
Enumerated(c) ==
  [k \in 1..c.count |-> IF c.type = "draw" THEN c.first + k - 1 ELSE Indices[c.first + k]]
DrawTriangles ==
  IF /\ st.pipeline # <<>> /\ st.fb /\ st.vb
     /\ Now.type = "draw_indexed" => st.ib
     /\ Now.count >= 3
  THEN Primitives(st.pipeline, Enumerated(Now)) ELSE <<>>

IsDraw == pc = "run" /\ i <= Len(cmds) /\ Now.type \in {"draw", "draw_indexed"}

\* CMD_DRAW, CMD_DRAW_INDEXED without workers: nothing bound, one thread or
\* one tile.
DrawHere ==
  /\ IsDraw /\ (Workers < 2 \/ DrawTriangles = <<>>)
  /\ LET img == Sequential(Images, st, DrawTriangles)
     IN color' = img.color /\ depth' = img.depth
  /\ i' = i + 1
  /\ Submitting /\ Draws
  /\ UNCHANGED <<query, pc, st>>

\* With workers: rasterize_triangles_tiled.
DrawTiled ==
  /\ IsDraw /\ Workers >= 2 /\ DrawTriangles # <<>>
  /\ tris' = DrawTriangles
  /\ before' = Images
  /\ next' = <<>>
  /\ pc' = "create"
  /\ Submitting
  /\ UNCHANGED <<query, i, st, color, depth>>

CreateWorker ==
  /\ pc = "create"
  /\ next' = Append(next, <<Len(next), 1>>)
  /\ pc' = IF Len(next') = Workers THEN "join" ELSE "create"
  /\ Submitting
  /\ UNCHANGED <<query, i, st, color, depth, tris, before>>

CreateFails ==
  /\ pc = "create"
  /\ pc' = "join"
  /\ Submitting
  /\ UNCHANGED <<query, i, st, color, depth, tris, next, before>>

\* MUTANT: the step to the next tile is the number of workers created so far.
StrideCreated == Len(next)
Stride == Workers

\* rasterize_tile_range: worker w draws its next triangle on its tile.
Worker(w) ==
  /\ pc \in {"create", "join"}
  /\ next[w][1] < TileCount
  /\ LET tile == next[w][1]
         n == next[w][2]
         img == Rasterized(Images, st, tris[n], Region(tile))
     IN /\ color' = img.color /\ depth' = img.depth
        /\ next' = [next EXCEPT ![w] = IF n < Len(tris) THEN <<tile, n + 1>>
                                       ELSE <<tile + Stride, 1>>]
  /\ Submitting
  /\ UNCHANGED <<query, pc, i, st, tris, before>>

\* All created workers are joined; the caller draws what they leave.
Join ==
  /\ pc = "join" /\ \A w \in DOMAIN next : next[w][1] >= TileCount
  /\ LET Tile(img, t) == FoldLeft(LAMBDA a, tri : Rasterized(a, st, tri, Region(t)), img, tris)
         left == SetToSortSeq(Unassigned(Len(next)), LAMBDA a, b : a < b)
         img == IF Len(next) < Workers THEN FoldLeft(Tile, Images, left) ELSE Images
     IN color' = img.color /\ depth' = img.depth
  /\ pc' = "drawn"
  /\ Submitting
  /\ UNCHANGED <<query, i, st, tris, next, before>>

\* The draw returns: its triangles and workers are freed.
Drawn ==
  /\ pc = "drawn"
  /\ pc' = "run" /\ i' = i + 1
  /\ tris' = <<>> /\ next' = <<>>
  /\ before' = [color |-> [p \in Pixels |-> <<>>], depth |-> [p \in Pixels |-> Far]]
  /\ Submitting
  /\ UNCHANGED <<query, st, color, depth>>

-----------------------------------------------------------------------------
Next ==
  \/ Begin \/ End \/ Reset \/ Record
  \/ Submit \/ Done
  \/ BeginRenderPass \/ BindPipeline \/ BindBuffers \/ SetViewport \/ SetScissor
  \/ ClearColorImage \/ BeginQuery \/ EndQuery
  \/ DrawHere \/ DrawTiled \/ CreateWorker \/ CreateFails
  \/ \E w \in DOMAIN next : Worker(w)
  \/ Join \/ Drawn

Spec == Init /\ [][Next]_vars

-----------------------------------------------------------------------------
(* Properties *)

\* A strip with restarts is its runs between two restarts: in each, every
\* second triangle is turned (gravityon.c:1266-1278).
ByRuns(pl, ix) ==
  LET restarts == {k \in DOMAIN ix : pl.restart /\ ix[k] = NoRestart}
      run(k) == IF \E r \in restarts : r < k
                  THEN CHOOSE r \in restarts : r < k /\ \A q \in restarts : q < k => q <= r
                  ELSE 0
      at == SelectSeq([k \in 1..Len(ix) |-> k],
                      LAMBDA k : k + 2 <= Len(ix) /\ restarts \cap (k..(k + 2)) = {})
  IN [m \in DOMAIN at |-> IF (at[m] - run(at[m])) % 2 = 0 THEN Turned(At(ix, at[m]))
                          ELSE At(ix, at[m])]

\* The tiles of a draw, worked on by any number of threads in any order, by
\* those that could be created and by the caller, give the picture that drawing
\* the triangles one after the other gives (README.md:123-126 of gravityon;
\* gravityon.c:1100-1183): no tile is left out or drawn twice, the order of the
\* triangles is kept on every pixel, and those of a strip are those of its runs.
TiledAsSequential ==
  pc = "drawn" =>
    /\ st.pipeline.strip => tris = ByRuns(st.pipeline, Enumerated(Now))
    /\ Images = Sequential(before, st, tris)
=============================================================================
