-------------------------- MODULE ConnectionHandle --------------------------
(***************************************************************************)
(* What the client's connection to the DNS configuration service promises *)
(* (spec 4.3, and ConnectionRefcount in section 3): a process-wide handle  *)
(* that is open exactly while some logical acquire has not been released.  *)
(* acquire() opens the handle if it is closed and counts one more holder; *)
(* release() counts one fewer, and the last release closes it.  An        *)
(* acquire that fails (no service) changes nothing.                       *)
(***************************************************************************)
EXTENDS Naturals

VARIABLES
  handle,     \* "closed" or "open"
  refs        \* outstanding acquires

vars == << handle, refs >>

Init == handle = "closed" /\ refs = 0

Acquire ==
  /\ refs' = refs + 1
  /\ handle' = "open"

Release ==
  /\ refs > 0
  /\ refs' = refs - 1
  /\ handle' = IF refs' = 0 THEN "closed" ELSE "open"

Spec == Init /\ [][Acquire \/ Release]_vars

=============================================================================
