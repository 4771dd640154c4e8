------------------------------ MODULE MCRunView ------------------------------
(* One page and one run, with two requests; see MCRunView.cfg.               *)
EXTENDS RunView

CONSTANTS r1, r2

TwoRequests == {r1, r2}
=============================================================================
