------------------------- MODULE MCConvertHtmlModule -------------------------
(* Small instances of ConvertHtmlModule for TLC. *)
EXTENDS ConvertHtmlModule

CONSTANTS u1, u2, p1, p2

\* main.cpp: an image, then a PDF; here of two pages, so that they differ.
ImageThenPdf ==
  <<[kind |-> "image", url |-> u1, path |-> p1, margin |-> "number"],
    [kind |-> "pdf", url |-> u2, path |-> p2, margin |-> "number"]>>

\* Before them a PDF with a margin that std::stod cannot read.
BadPdfFirst ==
  <<[kind |-> "pdf", url |-> u2, path |-> p2, margin |-> "garbage"]>> \o ImageThenPdf
=============================================================================
