--------------------------- MODULE MCWebhookIntake ---------------------------
(* Instances of WebhookIntake for TLC.                                     *)
EXTENDS WebhookIntake

\* Clocks that agree, as far apart as the tolerance allows, and further.
AnyClocks == MinAge..MaxAge
===============================================================================
