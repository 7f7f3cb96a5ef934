--------------------------- MODULE MCServerSession ---------------------------
(* Model values for the run of ServerSession.  No handler is told from       *)
(* another by anything but its name, so what eventually holds of one holds   *)
(* of each.                                                                  *)
EXTENDS ServerSession
CONSTANTS h1, h2, ip1, p1

\* The first error of a handler's goroutines returns its lease.
ErrorReleasesLease == ErrorReleasesLeaseOf(h1)

\* The goroutines of a handler that ends come to their end too.
GoroutinesEnd == GoroutinesEndOf(h1)
=============================================================================
