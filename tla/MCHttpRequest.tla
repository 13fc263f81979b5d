--------------------------- MODULE MCHttpRequest ----------------------------
(* The numbers of tries of the code. *)
EXTENDS HttpRequest
=============================================================================
