---------------------------- MODULE MCBenchmarkTrial ----------------------------
(* A TLC instance of Campaign. *)
EXTENDS Campaign

(* No warm-up and a warm-up that ends within the window and the cooldown;  *)
(* limits of nothing, below and above the data, and none.                  *)
MCSettings ==
  {[warmup |-> 0, limit |-> NoLimit], [warmup |-> 2, limit |-> NoLimit],
   [warmup |-> 0, limit |-> 0], [warmup |-> 3, limit |-> 5]}

Position == 0 .. MaxStream - 1

(* Timestamps that go up, back and up again, the first two records equal.  *)
MCCaptures == {[p \in Position |-> 1000 * (IF p = 0 THEN 4 ELSE (4 * p) % 7)]}

(* A slow record among fast ones, and one that may be either.              *)
MCInference ==
  [p \in Position |-> CASE p = 0 -> {1, 9} [] p = 2 -> {12} [] OTHER -> {p}]

===============================================================================
