----------------------------- MODULE MCLinkMonitor -----------------------------
(* Instances of LinkMonitor for TLC. *)
EXTENDS LinkMonitor

\* A sender whose clock agrees, and one that sets no emitted_at.
Punctual == {0}
Unset == {0, None}
=============================================================================
