--------------------------- MODULE MCAdjudication ---------------------------
(* Instances of Adjudication for TLC. *)
EXTENDS Adjudication

=============================================================================
