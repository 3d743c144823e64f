--------------------------- MODULE MCSnapshotCache ---------------------------
(* Constants of the TLC runs of SnapshotCache: some words of Nsxv3Data, in *)
(* the order of their declaration, two of them words of one slice.         *)
EXTENDS SnapshotCache, TLC

Declared == <<"ManagementNodes.pointer", "ManagementNodes.length",
              "ExtractedActualValues", "LastSuccessfulDataFetch">>
MCWords == {Declared[i] : i \in 1..Len(Declared)}
MCReadOrder ==
    <<"LastSuccessfulDataFetch", "ManagementNodes.pointer", "ManagementNodes.length">>

AnyOrder == {}
DeclarationOrder ==
    {<<Declared[ij[1]], Declared[ij[2]]>> : ij \in {x \in (1..4) \X (1..4) : x[1] < x[2]}}

MCSymmetry == Permutations(Scrapes)
=============================================================================
