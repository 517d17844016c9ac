----------------------------- MODULE MCLauncher -----------------------------
EXTENDS Launcher

\* A directory, a file in it and a file beside it.
MCEntries == <<"d", "d/f", "g">>
MCAncestors == [e \in Items |-> IF e = "d/f" THEN {"d"} ELSE {}]

\* The trees a generator may leave: complete ones, partial ones, and ones with
\* an entry the check pass refuses.
Tree(d, f, g) == [e \in Items |-> IF e = "d" THEN d ELSE IF e = "g" THEN g ELSE f]
MCShapes ==
  { Tree("directory", "file", "file"), Tree("directory", "file", "absent"),
    Tree("directory", "absent", "file"), Tree("absent", "absent", "absent"),
    Tree("directory", "symlink", "file"), Tree("directory", "file", "other"),
    Tree("absent", "absent", "symlink") }
=============================================================================
