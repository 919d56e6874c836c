--------------------------- MODULE ResultStream ---------------------------
(***************************************************************************)
(* What a table function that reads a remote result promises the engine:   *)
(* the rows the driver sends, numbered 1, 2, ... in the order it sends     *)
(* them, are handed over in that order, each once, and the scan finishes   *)
(* only when every one of them has been handed over.  A scan that is       *)
(* closed before it finishes, by an error or by an interrupt, promises     *)
(* nothing more than that.                                                 *)
(***************************************************************************)
EXTENDS Naturals, Sequences

VARIABLES
  sent,       \* rows the driver has sent
  delivered,  \* rows the engine has been given, in order
  status      \* "closed", "open" or "finished"

vars == <<sent, delivered, status>>

Init ==
  /\ sent = 0
  /\ delivered = <<>>
  /\ status = "closed"

Open ==
  /\ status = "closed"
  /\ status' = "open"
  /\ UNCHANGED <<sent, delivered>>

Send ==
  /\ status = "open"
  /\ sent' \in Nat
  /\ sent' > sent
  /\ UNCHANGED <<delivered, status>>

Deliver ==
  /\ status = "open"
  /\ \E n \in 1 .. sent - Len(delivered) :
       delivered' = [i \in 1 .. Len(delivered) + n |-> i]
  /\ UNCHANGED <<sent, status>>

Finish ==
  /\ status = "open"
  /\ Len(delivered) = sent
  /\ status' = "finished"
  /\ UNCHANGED <<sent, delivered>>

Close ==
  /\ status # "closed"
  /\ status' = "closed"
  /\ sent' = 0
  /\ delivered' = <<>>

Next == Open \/ Send \/ Deliver \/ Finish \/ Close

Spec == Init /\ [][Next]_vars

=============================================================================
