----------------------------- MODULE Lifecycle ------------------------------
(***************************************************************************)
(* What a rig slot promises to whoever looks at its state: /api/status, the *)
(* router, Ensure, the federation and the hub client all read it and none   *)
(* of them sees the process behind it.                                      *)
(*                                                                         *)
(* Until it is asked to stop, a slot goes from stopped to starting, and     *)
(* then round starting, healthy and crashed.  Asking is for good.  What is  *)
(* under way at that moment may still be reported, late, after the stopper  *)
(* has written "stopped", but that ends after MaxLate reports, and a launch *)
(* that was under way is not left standing at "starting".  Supervisor       *)
(* implements this.                                                        *)
(***************************************************************************)
EXTENDS Naturals

CONSTANTS
  Slot,     \* the slots
  MaxLate   \* reports that may follow a request to stop

VARIABLES
  shown,  \* the state that others read
  asked,  \* has the slot been asked to stop?
  late,   \* once it has: how many reports are still to come
  over    \* the slots that nobody supervises any more

vars == <<shown, asked, late, over>>

Follows == {<<"stopped", "starting">>, <<"starting", "healthy">>,
            <<"starting", "crashed">>, <<"healthy", "crashed">>,
            <<"crashed", "starting">>}

Init ==
  /\ shown = [i \in Slot |-> "stopped"]
  /\ asked = [i \in Slot |-> FALSE]
  /\ late  = [i \in Slot |-> 0]
  /\ over  = {}

\* The supervisor reports a new state of the slot.
Report(i, s) ==
  /\ ~asked[i] /\ i \notin over
  /\ <<shown[i], s>> \in Follows
  /\ shown' = [shown EXCEPT ![i] = s]
  /\ UNCHANGED <<asked, late, over>>

\* It reports what it was doing when it was asked to stop; the report that a
\* launch begins is never the last.
ReportLate(i, s) ==
  /\ asked[i] /\ i \notin over
  /\ late[i] > (IF s = "starting" THEN 1 ELSE 0)
  /\ s # "stopped"
  /\ shown' = [shown EXCEPT ![i] = s]
  /\ late'  = [late EXCEPT ![i] = @ - 1]
  /\ UNCHANGED <<asked, over>>

AskToStop(i) ==
  /\ ~asked[i]
  /\ asked' = [asked EXCEPT ![i] = TRUE]
  /\ \E n \in 0 .. MaxLate : late' = [late EXCEPT ![i] = n]
  /\ UNCHANGED <<shown, over>>

MarkStopped(i) ==
  /\ asked[i]
  /\ shown' = [shown EXCEPT ![i] = "stopped"]
  /\ UNCHANGED <<asked, late, over>>

\* The supervisor returns, when it has nothing more to report.
Return(i) ==
  /\ asked[i] /\ i \notin over /\ late[i] = 0
  /\ over' = over \cup {i}
  /\ UNCHANGED <<shown, asked, late>>

Next ==
  \E i \in Slot :
    \/ AskToStop(i) \/ MarkStopped(i) \/ Return(i)
    \/ \E s \in {"starting", "healthy", "crashed"} : Report(i, s) \/ ReportLate(i, s)

Spec == Init /\ [][Next]_vars
=============================================================================
