--------------------------- MODULE MCSqliteArchive ---------------------------
(* Small instances of SqliteArchive for TLC. *)
EXTENDS SqliteArchive

CONSTANTS c1, c2, c3, p, q, x, y

Raw(chunks) == [lz4 |-> FALSE, chunks |-> chunks]
Lz4(chunks) == [lz4 |-> TRUE, chunks |-> chunks]

\* Two contents of two chunks, so that a mixture of them would show.
TwoChunks   == {Raw(<<x, x>>), Raw(<<y, y>>)}
Single      == {Raw(<<x>>)}
Singles     == {Raw(<<x>>), Raw(<<y>>)}
WithEmpty   == {Raw(<<x>>), Raw(<<>>)}
RawOrLz4    == {Raw(<<x>>), Lz4(<<>>)}

Both        == {c1, c2}
Three       == {c1, c2, c3}
First       == {c1}
=============================================================================
