------------------------------ MODULE MCStore ------------------------------
(* Instances of Store for TLC. *)
EXTENDS Store, TLC

CONSTANTS p1, p2, f1, b1, b2

Plain == [introducer |-> FALSE, autoAccept |-> FALSE, skipRemovals |-> FALSE, known |-> TRUE]
Introducer == [Plain EXCEPT !.introducer = TRUE]

KindsTrusted == {Plain, Introducer}

\* Nothing yet, or a folder shared with an introducer that sent its index.
Populated ==
    [EmptyCluster EXCEPT
        !.peer[p1] = Introducer, !.folders = {f1}, !.blocks = {b1, b2},
        !.infos = {Info(f1, Self, 1, 1, Self), Info(f1, p1, 1, 1, Self)},
        !.files = {File(f1, Self, "n1", 1, 1, {b1}), File(f1, p1, "n1", 2, 1, {b1, b2})}]
EitherStart == {EmptyCluster, Populated}

ConflictName == [n \in {"n1", "conflict"} |-> "conflict"]
Symmetry == Permutations({b1, b2})
=============================================================================
