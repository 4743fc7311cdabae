-------------------------- MODULE MCPortalRequests --------------------------
(***************************************************************************)
(* PortalRequests for TLC.  Every configuration names one Inhibit and at   *)
(* most one OpenURI handle and one alternative path: each hazard involves  *)
(* one request, or a request and someone else's message.  Answers stand    *)
(* for "granted" (0) and "anything else" (1); no code distinguishes 1 and  *)
(* 2.  The property here is what a comment of the code says and the code   *)
(* does not keep.                                                          *)
(***************************************************************************)
EXTENDS PortalRequests

GrantOrRefuse == {0, 1}

\* What a replaced portal had not answered is never answered: a request reported
\* as lost with the old instance is not one the new instance has, or answers.
ReplacedNeverAnswered ==
  \A h \in Handles :
    (\E i \in DOMAIN Emitted(h) : Emitted(h)[i].by = "replaced")
      => stage[h] \notin {"open", "held", "answered"}


=============================================================================
