----------------------------- MODULE MCSessionDay -----------------------------
(* A full day, a holiday and a half day. *)
EXTENDS SessionDay

Opens     == <<3, 17, 31>>
Closes    == <<10, 24, 35>>
Midnights == <<17, 31, 45>>
=============================================================================
