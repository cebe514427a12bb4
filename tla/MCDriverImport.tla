--------------------------- MODULE MCDriverImport ----------------------------
(* DriverImport on small instances.                                        *)
EXTENDS DriverImport, TLC

\* Two rows about one code, with different statuses.
TwoRows ==
    LET row(status) == [code |-> CHOOSE c \in Codes : TRUE, status |-> status]
    IN {<<row("INACTIVE"), row("ACTIVE")>>}

Symmetry == Permutations(Requests)
=============================================================================
