-------------------------- MODULE MCSchemaRelease --------------------------
(***************************************************************************)
(* Instances of SchemaRelease for TLC.                                     *)
(***************************************************************************)
EXTENDS SchemaRelease, TLC

CONSTANTS p1, p2

\* the versions three bumps reach
MCVersions == {v \in (1 .. 4) \X (0 .. 3) : v[1] - 1 + v[2] <= 3}

\* the versions two bumps reach
MCFewVersions == {<<1, 0>>, <<1, 1>>, <<1, 2>>, <<2, 0>>, <<2, 1>>, <<3, 0>>}

Symmetry == Permutations({p1, p2})

=============================================================================
