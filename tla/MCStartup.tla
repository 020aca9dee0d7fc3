----------------------------- MODULE MCStartup -----------------------------
(* Sizes of the connection pool for checking Startup: a negative one, none, *)
(* and an ordinary one.                                                     *)
EXTENDS Startup

MCMinSizes == {-1, 0, 2}
=============================================================================
