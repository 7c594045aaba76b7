----------------------------- MODULE MCListPaging -----------------------------
(* Instances of ListPaging for TLC.                                        *)
EXTENDS ListPaging

\* Limits around zero, the default and the maximum.
AskedLimits == {-1, 0, 1, 3, 4}
===============================================================================
