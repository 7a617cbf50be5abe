--------------------- MODULE MCCollectionSchemeManager ----------------------
(* Small instance of CollectionSchemeManager for TLC: two schemes, two     *)
(* manifests, a clock of four ticks.                                       *)
EXTENDS CollectionSchemeManager, TLC

CONSTANTS s1, s2, d1, d2

MCIds == {s1, s2}
MCDMIds == {d1, d2}

MCScheme(a, b, d) == [start |-> a, stop |-> b, dm |-> d]

\* s1 runs from the start and may have its expiry moved (2 -> 3) or its
\* manifest changed (d1 -> d2) while enabled; s2 starts later and may have
\* its expiry moved (3 -> 2) while idle.  Either may be missing from a list.
MCSchemeLists ==
    {[i \in MCIds |-> IF i = s1 THEN x ELSE y] :
        x \in {None, MCScheme(0, 2, d1), MCScheme(0, 3, d1), MCScheme(0, 2, d2)},
        y \in {None, MCScheme(1, 3, d1), MCScheme(1, 2, d1)}}

\* d1 builds; d2 comes once valid and once failing to build.
MCManifests ==
    {[id |-> d1, valid |-> TRUE], [id |-> d2, valid |-> TRUE],
     [id |-> d2, valid |-> FALSE]}

=============================================================================
