------------------------------- MODULE MCTools -------------------------------
(* Small instances of Tools for TLC. *)
EXTENDS ToolsHistory, TLC

CONSTANTS p1, p2, n1, n2, n3, r, s, v, w, e

MCProc == {p1, p2}
EitherProc == Permutations(MCProc)
MCBase == {n1, n2, n3}

File(b) == [base |-> b, k |-> 0]
Zip(kind, records) == [kind |-> kind, records |-> records]
Tree(f) == [n \in Name |-> IF n.k = 0 /\ n.base \in DOMAIN f THEN f[n.base] ELSE None]

\* Two archives that share a path, one of them in the old format, and a third file
\* that is missing or was never closed.
Two == (n1 :> Zip("zip64", r :> v)) @@ (n2 :> Zip("zip32", (r :> w) @@ (s :> e)))
MCFiles == {Tree(Two), Tree(Two @@ (n3 :> Zip("broken", (r :> v) @@ (s :> w))))}

Job(inputs, output) == [inputs |-> inputs, output |-> output]
FixJob(input, output) == [input |-> input, output |-> output]

\* Over an input, to a third file, and from the third.
MCCatJobs == {Job(<<File(n1), File(n2)>>, File(n1)), Job(<<File(n2), File(n1)>>, File(n3)), Job(<<File(n3)>>, File(n2))}
MCFixJobs == {FixJob(File(n1), File(n1)), FixJob(File(n2), File(n2)), FixJob(File(n3), File(n3)), FixJob(File(n2), File(n3))}

=============================================================================
