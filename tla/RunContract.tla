---------------------------- MODULE RunContract ----------------------------
(***************************************************************************)
(* What the workflow runtime promises the callers of QueryService about a  *)
(* run, whatever steps, tools, faults and crashes are behind it.           *)
(***************************************************************************)
EXTENDS RunView

VARIABLE view

Init == view = Created

Next == /\ view' \in Views
        /\ \/ Coordinated(view, view')
           \/ Decided(view, view')
           \/ Cancelled(view, view')
           \/ Recovered(view, view')

Spec == Init /\ [][Next]_view
=============================================================================
