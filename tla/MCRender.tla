------------------------------- MODULE MCRender -------------------------------
(***************************************************************************)
(* A framebuffer of 9 by 9 pixels in four tiles, two threads, and the      *)
(* commands of one render pass.                                            *)
(***************************************************************************)
EXTENDS Render
Full == [x |-> 0, y |-> 0, w |-> 9, h |-> 9]
Part == [x |-> 2, y |-> 0, w |-> 5, h |-> 9]
Strip == [strip |-> TRUE, restart |-> TRUE, cullBack |-> FALSE, blend |-> TRUE,
          depthTest |-> FALSE, vp |-> <<0, 0>>, sc |-> Full]
List == [strip |-> FALSE, restart |-> TRUE, cullBack |-> TRUE, blend |-> FALSE,
         depthTest |-> TRUE, vp |-> <<0, 0>>, sc |-> Full]
MCVertices == <<<<0, 0, 2>>, <<0, 18, 1>>, <<18, 0, 3>>, <<18, 18, 1>>, <<2, 0, 0>>, <<12, 18, 1>>>>
MCIndices == <<0, 1, 2, 3, -1, 5, 3, 1>>
Pass(clear) == [type |-> "begin_pass", area |-> Full, clear |-> clear]
MCScript ==
  <<{Pass(TRUE), Pass(FALSE)},
    {[type |-> "bind_pipeline", pipeline |-> Strip], [type |-> "bind_pipeline", pipeline |-> List]},
    {[type |-> "bind_buffers"]},
    {[type |-> "scissor", sc |-> Part], [type |-> "viewport", vp |-> <<1, -1>>],
     [type |-> "begin_query"]},
    {[type |-> "draw", first |-> 0, count |-> 6], [type |-> "draw", first |-> 4, count |-> 2],
     [type |-> "draw_indexed", first |-> 0, count |-> 8]},
    {[type |-> "end_query"], [type |-> "clear_image"], [type |-> "draw", first |-> 1, count |-> 3]}>>
=============================================================================
