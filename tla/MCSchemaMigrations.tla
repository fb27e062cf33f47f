-------------------------- MODULE MCSchemaMigrations --------------------------
(* A small database: a message that was the user's, one that was the         *)
(* assistant's, and one that may have been either's.                         *)
EXTENDS SchemaMigrations

CONSTANTS asked, answered, either

SomeRoles == [m \in {asked, answered, either} |->
                 CASE m = asked -> {"user"}
                   [] m = answered -> {"assistant"}
                   [] OTHER -> {"user", "assistant"}]
=============================================================================
