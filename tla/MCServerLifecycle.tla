------------------------- MODULE MCServerLifecycle -------------------------
(* Module ServerLifecycle on a small instance, checked with TLC. *)
EXTENDS ServerLifecycle

\* Three descriptors, two of them with the value of a type byte, and one body: a byte
\* that is also the type of a quit record.
MCFds    == {5, C, Q}
MCBodies == {<<Q>>}
=============================================================================
