----------------------------- MODULE RequestLife -----------------------------
(***************************************************************************)
(* What an interactive request promises its caller, handle by handle: it   *)
(* is pending once begun, ends with one report at most, and is over with   *)
(* it, except for an inhibition, which is then held until it is closed or  *)
(* the portal that holds it goes away.  A portal that goes away takes      *)
(* everything with it.  The caller is told of a report a little later; to  *)
(* close a request keeps it from ending with a report, but does not take   *)
(* back a report that is due.                                              *)
(***************************************************************************)
EXTENDS Naturals, Sequences

CONSTANTS Inhibits, OpenURIs

Handles == Inhibits \cup OpenURIs
Success == 0
Other == 2
Codes == 0..2

VARIABLES
  life,      \* of each handle, where it is in its life
  reported,  \* of each handle, the report its life ended with, if any
  due        \* the handles whose report the caller is still to be told of

Init ==
  /\ life = [h \in Handles |-> "unused"]
  /\ reported = [h \in Handles |-> <<>>]
  /\ due = {}

Begin(h) ==
  /\ life[h] = "unused"
  /\ life' = [life EXCEPT ![h] = "pending"]
  /\ UNCHANGED <<reported, due>>

\* The portal's answer, or the failure of the call.
Complete(h, code) ==
  /\ life[h] = "pending"
  /\ life' = [life EXCEPT ![h] = "over"]
  /\ reported' = [reported EXCEPT ![h] = <<code>>]
  /\ due' = due \cup {h}

Hold(h) ==
  /\ life[h] = "pending"
  /\ life' = [life EXCEPT ![h] = "held"]
  /\ reported' = [reported EXCEPT ![h] = <<Success>>]
  /\ due' = due \cup {h}

\* The caller is told.
Tell(h) ==
  /\ h \in due
  /\ due' = due \ {h}
  /\ UNCHANGED <<life, reported>>

Close(h) ==
  /\ life[h] \in {"pending", "held"}
  /\ life' = [life EXCEPT ![h] = "over"]
  /\ UNCHANGED <<reported, due>>

\* The portal is gone: what was pending is reported, what was held just ends.
LoseAll ==
  /\ life' = [h \in Handles |-> IF life[h] \in {"pending", "held"} THEN "over" ELSE life[h]]
  /\ reported' = [h \in Handles |-> IF life[h] = "pending" THEN <<Other>> ELSE reported[h]]
  /\ due' = due \cup {h \in Handles : life[h] = "pending"}

Next ==
  \/ \E h \in Handles : Begin(h) \/ Tell(h) \/ Close(h)
  \/ \E h \in Handles, code \in Codes : Complete(h, code)
  \/ \E h \in Inhibits : Hold(h)
  \/ LoseAll

Spec == Init /\ [][Next]_<<life, reported, due>>

=============================================================================
