--------------------------- MODULE MCOwpValidator ---------------------------
(* A validator with a small budget against every header over two requests. *)
EXTENDS OwpValidator

MCLimits == [messages |-> 8, bytes |-> 2]

MCFrames ==
    [type : MessageTypes, sid : {SessionIdent}, req : 0..2, len : {0},
     envelope : {"ok"}]
    \cup [type : {"ReadReply", "DataChunk"}, sid : {SessionIdent}, req : 1..2,
          len : 1..3, envelope : {"ok"}]
    \cup [type : {"Cancel"}, sid : {0, SessionIdent + 1}, req : {1}, len : {0},
          envelope : {"ok"}]
    \cup [type : {"Cancel"}, sid : {SessionIdent}, req : {1}, len : {0},
          envelope : Envelopes]
=============================================================================
