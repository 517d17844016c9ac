------------------------------ MODULE MCStudio ------------------------------
EXTENDS Studio

\* A preset of one schema, and an import of one beside a text.
MCSources ==
  { [p \in {"a.capnp"} |-> "x"], [p \in {"a.capnp", "notes.txt"} |-> "x"] }
=============================================================================
