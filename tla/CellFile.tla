------------------------------ MODULE CellFile ------------------------------
(***************************************************************************)
(* A file as its users see it: a sequence of cells that can be overwritten *)
(* or extended at any position.                                            *)
(***************************************************************************)
EXTENDS Integers, Sequences

CONSTANT Zero   \* a NUL cell

Zeros(n) == [i \in 1..n |-> Zero]

\* The file f after the cells s are written at position o; a hole reads as zeros.
Overlay(f, o, s) ==
    IF s = <<>> THEN f
    ELSE IF Len(f) < o THEN f \o Zeros(o - Len(f)) \o s
    ELSE SubSeq(f, 1, o) \o s \o SubSeq(f, o + Len(s) + 1, Len(f))
=============================================================================
