-------------------------- MODULE MCLimitedScheduler --------------------------
(* Two outside callers and up to two workers on each of the two levels. *)
EXTENDS LimitedScheduler, TLC

CONSTANTS c1, c2, w0, w1, t1, t2

MCFirst == (0 :> w0) @@ (1 :> w1)

\* Callers are alike, and so are the threads made later.
SchedulerSymmetry == Permutations(Clients) \cup Permutations({t1, t2})
=============================================================================
