------------------------------ MODULE MCEngine ------------------------------
EXTENDS Engine

\* One compile with a generator.
MCJobs == {<<"compiler", "cpp">>}
=============================================================================
