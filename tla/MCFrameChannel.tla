--------------------------- MODULE MCFrameChannel ---------------------------
(* Two threads, each free to send, receive or abort at any moment.           *)
EXTENDS FrameChannel
=============================================================================
