--------------------------- MODULE MCPaymentService ---------------------------
(* Instances of PaymentService for TLC.                                    *)
EXTENDS PaymentService, TLC

\* Requests are interchangeable, and so are two workers of the same job.
Symmetry == Permutations(Requests) \cup Permutations(Dispatchers)

\* So are payments.
PaymentSymmetry == Permutations(Payments) \cup Permutations(Requests)
===============================================================================
