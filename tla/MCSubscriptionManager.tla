----------------------- MODULE MCSubscriptionManager -----------------------
(* Two subscribers and two notifiers, which send more than the buffer can  *)
(* take.                                                                   *)
EXTENDS SubscriptionManager

CONSTANTS n1, n2

MCMaxEvents == (n1 :> 2) @@ (n2 :> 1)
=============================================================================
