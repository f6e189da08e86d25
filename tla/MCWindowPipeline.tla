------------------------- MODULE MCWindowPipeline -------------------------
(* Model-checking instance of WindowPipeline. *)
EXTENDS WindowPipeline

AllCommands == {"setup", "teardown"}
=============================================================================
