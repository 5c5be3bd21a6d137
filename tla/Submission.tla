----------------------------- MODULE Submission -----------------------------
(***************************************************************************)
(* What a caller of the SDK's submit_* functions may rely on.  A batch of   *)
(* transactions is handed over; some of them take effect, at any time, also *)
(* after the call has returned; and one report comes back.  A transaction   *)
(* reported as a success has taken effect.  Nothing is promised about one   *)
(* reported as an error.  Every keeper operation counts its run by this     *)
(* report.                                                                  *)
(***************************************************************************)
VARIABLES effective,    \* transactions that have taken effect
          report        \* {} until the call returns, then {set of successes}

Init ==
  /\ effective = {}
  /\ report = {}

TakeEffect ==
  /\ \E t \in effective' : t \notin effective /\ effective' = effective \cup {t}
  /\ UNCHANGED report

Report ==
  /\ report = {}
  /\ \E S \in SUBSET effective : report' = {S}
  /\ UNCHANGED effective

Next == TakeEffect \/ Report

Spec == Init /\ [][Next]_<<effective, report>>
=============================================================================
