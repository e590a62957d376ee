------------------------------- MODULE MCVfs -------------------------------
EXTENDS Vfs
CONSTANTS p1, p2, p3
TwoParts == <<p1, p2>>
ThreeParts == <<p1, p2, p3>>
\* /home typed with and without its final slash, and a directory below /mnt/p1.
MCPartMounts == {[path |-> Home, normal |-> FALSE], Text(<<"mnt", p1, "d">>)}
MCOpenPaths == {<<"x">>, <<"home", "x">>, <<"mnt", p1, "x">>, <<"mnt", p1, "d", "x">>}
\* Addresses are interchangeable, and so are tasks.
Symm == Permutations(Sb) \cup Permutations(Disk) \cup Permutations(Task)
=============================================================================
