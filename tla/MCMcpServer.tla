---------------------------- MODULE MCMcpServer ----------------------------
(* An instance of McpServer for TLC: three requests of every kind, a       *)
(* call standing for a list too, with and without a key or an id where     *)
(* that changes what is done.                                              *)
EXTENDS McpServer

S(kind, hasId, key) == [kind |-> kind, hasId |-> hasId, key |-> key]
MCShapes ==
    { S("initialize", TRUE, TRUE), S("initialize", TRUE, FALSE),
      S("initialized", FALSE, TRUE), S("initialized", TRUE, TRUE),
      S("unknown", FALSE, TRUE), S("call", TRUE, FALSE),
      S("call", TRUE, TRUE), S("call", FALSE, TRUE),
      S("open", FALSE, TRUE), S("delete", FALSE, TRUE),
      S("delete", FALSE, FALSE), S("garbled", FALSE, TRUE),
      S("binary", FALSE, TRUE) }
=============================================================================
