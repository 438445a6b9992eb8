--------------------------- MODULE TaskScheduling --------------------------
(***************************************************************************)
(* What an async executor promises, whatever its implementation: a task    *)
(* that has been woken is polled, and polled once per wake-up it has not   *)
(* yet been polled for.                                                    *)
(***************************************************************************)
CONSTANT Tasks

VARIABLE ready  \* woken tasks that have not been polled since

Init == ready \subseteq Tasks

Wake(t) == ready' = ready \cup {t}

Run(t) == t \in ready /\ ready' = ready \ {t}

Next == \E t \in Tasks : Wake(t) \/ Run(t)

Spec == Init /\ [][Next]_ready

FairSpec == Spec /\ \A t \in Tasks : WF_ready(Run(t))

=============================================================================
