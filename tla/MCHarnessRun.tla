---------------------------- MODULE MCHarnessRun ----------------------------
EXTENDS HarnessRun, TLC
CONSTANTS d1, d2, m1, a, b, r1
MCDriver == {d1, d2}
MCMaintainer == {m1}
MCEvent == {a, b}
MCRef == {NoRef, r1}
MCEveryEnd == {"failed", "cancelled", "unknown", "timed_out"}
\* An adapter that never cancels on its own account.
MCFailedOnly == {"failed"}
MCOneEvent == {a}
MCNoRef == {NoRef}
\* The replica of d2 lacks the run's target, and d1's adapter lacks Resume.
MCOnlyD1 == {d1}
MCNoDriver == {}
\* Drivers (all configured alike) and events are interchangeable.
MCSymmetry == Permutations(MCDriver) \cup Permutations(MCEvent)
=============================================================================
