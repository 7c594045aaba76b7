--------------------------- MODULE MCStripeCheckout ---------------------------
(* Instances of StripeCheckout for TLC.                                    *)
EXTENDS StripeCheckout, TLC

\* Handlers are interchangeable, and so are sessions.
Symmetry == Permutations(Handlers) \cup Permutations(Sessions)
===============================================================================
