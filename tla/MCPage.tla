------------------------------- MODULE MCPage -------------------------------
(* PageFeed with a few frames and keystrokes and a queue that can be full.   *)
EXTENDS PageFeed
=============================================================================
