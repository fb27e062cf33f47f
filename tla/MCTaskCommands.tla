--------------------------- MODULE MCTaskCommands ---------------------------
(* Instances of TaskCommands for TLC. *)
EXTENDS TaskCommands, TLC

CONSTANTS opener, reopener, a, b, other, stranger, u1, u2, r0, r1, r2, k1, k2

\* opener and reopener ask for a session with one key, a and b for a task with
\* one key; other sends a different request with that key, stranger is another
\* user who sends the request of a and b with it.
Key == (opener :> k2) @@ (reopener :> k2) @@ (a :> k1) @@ (b :> k1) @@ (other :> k1) @@ (stranger :> k1)
Request == (opener :> r0) @@ (reopener :> r0) @@ (a :> r1) @@ (b :> r1) @@ (other :> r2) @@ (stranger :> r1)
User == (opener :> u1) @@ (reopener :> u1) @@ (a :> u1) @@ (b :> u1) @@ (other :> u1) @@ (stranger :> u2)
FirstSession == (a :> 1) @@ (b :> 1) @@ (other :> 1) @@ (stranger :> 1)

\* Requests that are each other's retry may change places.
Retries == Permutations({a, b}) \cup Permutations({opener, reopener})
=============================================================================
