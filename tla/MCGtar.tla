------------------------------- MODULE MCGtar -------------------------------
(* Small instances of Gtar for TLC. *)
EXTENDS Gtar, TLC

CONSTANTS x, y

Text(s)       == <<s>>
Array(s)      == <<s, "f32", "ind">>
Frame(i, n)   == <<Text("frames"), Text(i), n>>

\* The same name in two frames, another in one of them.
FramePaths == {Frame("0", Array("a")), Frame("1", Array("a")), Frame("0", Array("b"))}

\* The same name in two groups, and a path with a leading slash next to the one its
\* record has.
AllPaths   == {Frame("0", Array("a")), <<Text("g")>> \o Frame("1", Array("a")),
               <<NoText, Text("a")>>, <<Text("a")>>}

\* Contents are only compared.
ContentsAlike == Permutations({x, y})
=============================================================================
