--------------------------- MODULE MCVideoWorker ---------------------------
(* Two sizes, two encoders, and a display that changes twice: to another size
   while a stream runs, and again before or after it has recovered.  The sizes
   are alike, so the display starts with one of them. *)
EXTENDS VideoWorker

CONSTANTS small, large

MCInit == Init /\ display = small
MCSpec == MCInit /\ [][Next]_vars /\ Fairness
=============================================================================
