----------------------------- MODULE MCSmpteSender -----------------------------
(***************************************************************************)
(* An interlaced frame of nine lines with a picture of four rows, and      *)
(* audio frames of none, of one and of several packets on a line.          *)
(***************************************************************************)
EXTENDS SmpteSender

Small == [Row("small", "292M", 4, 4, 6, 9, 2, 7, 2997) EXCEPT !.map = 0]
SmallAudios ==
  { << >>, << <<1, "data">> >>, << <<2, "control">> >>,
    << <<1, "data">>, <<1, "data">>, <<2, "data">>, <<2, "control">>, <<6, "data">> >> }
=============================================================================
