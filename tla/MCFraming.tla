------------------------------ MODULE MCFraming ------------------------------
(* Framing with two-octet headers of base 2 and a preface a body may hold.  *)
EXTENDS Framing

MCPreface == <<1, 0>>
=============================================================================
