---------------------------- MODULE MCOrderFiles ----------------------------
(* Instances of OrderFiles for TLC. *)
EXTENDS OrderFiles, TLC

CONSTANTS o1, a, b, readable, broken, scanned

(* What the parser makes of each content.                                  *)
MCParseStatus ==
  [pdf \in Pdf |-> CASE pdf = readable -> "READY"
                     [] pdf = broken   -> "FAILED"
                     [] OTHER          -> "OCR_REQUIRED"]

(* One order has two files, the others one.                                *)
MCRequests == [o \in Orders |-> IF o = o1 THEN {{a, b}} ELSE {{a}}]

=============================================================================
