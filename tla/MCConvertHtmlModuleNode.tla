---------------------- MODULE MCConvertHtmlModuleNode ----------------------
(* A small instance of ConvertHtmlModuleNode for TLC: main.js. *)
EXTENDS ConvertHtmlModuleNode

CONSTANTS u1, u2, p1, p2

ImageThenPdf ==
  <<[kind |-> "image", url |-> u1, path |-> p1, margin |-> "number"],
    [kind |-> "pdf", url |-> u2, path |-> p2, margin |-> "number"]>>
=============================================================================
