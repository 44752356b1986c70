--------------------------- MODULE MCInboxArrivals ---------------------------
(* Finite instances of InboxArrivals: a moved message and a delivery, or two *)
(* moved messages.                                                           *)
EXTENDS InboxArrivals
=============================================================================
