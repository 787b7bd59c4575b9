---------------------------- MODULE MCTarArchive ----------------------------
(* Small instances of TarArchive for TLC. *)
EXTENDS TarArchiveRefinement

CONSTANTS a, b

Short(n)       == [prefix |-> "", name |-> n, last |-> ""]
Long(d, n, l)  == [prefix |-> d, name |-> n, last |-> l]
MCStr          == {"", "x", "y", "d", "1", "2"}
MCByte         == {a, b}

\* Two short paths and one no header can hold.
ShortPaths     == {Short("x"), Short("y")}
HugePath       == Long("d", "y", "1")
MCPaths        == {Short("x"), Short("y"), HugePath}
MCTooLong      == {HugePath}

\* Empty, less than a block, exactly one block.
MCContent      == {<<>>, <<a>>, <<b, b, b>>}

\* Part of a block, one block.
FewContents    == {<<a>>, <<b, b, b>>}

\* A path of which the last character is in no header field, and contents whose
\* size has one digit too many.
LongPaths      == {Short("x"), Long("d", "y", "1")}
BigContent     == {<<a>>, <<b, b, b, b>>}

\* An empty file, one that is not a tar file, a tar file of the V7 format, which
\* has no magic, and an archive followed by a foreign block.
MCFiles ==
    { <<>>,
      <<a, a, a>>,
      <<[name |-> "x", size |-> 1], Zero, Zero, a, Zero, Zero>>,
      <<[name |-> "x", size |-> 1], Magic, [prefix |-> ""], a, Zero, Zero, b, b, b>> }

\* A header whose size with its minus sign leads back to it.
MCMinus        == {-3}
MinusFiles     == {<<[name |-> "x", size |-> -3], Magic, [prefix |-> ""]>>}

\* The theorems about the file speak of these paths, contents and files, and not of
\* those the run of the long path has.
ASSUME WithinTheorems == Path = MCPaths => NoMinus /\ NoHeaderBehind /\ Fits /\ TornShows
ASSUME BeyondTheorems == Path = LongPaths => ~Fits

=============================================================================
