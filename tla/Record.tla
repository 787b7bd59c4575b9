------------------------------- MODULE Record -------------------------------
(***************************************************************************)
(* Records (src/src/Record.cpp): how a path is taken apart into a group, a *)
(* name, an index, a behavior, a format and a resolution, and put together *)
(* again.                                                                  *)
(*                                                                         *)
(* A path is a sequence of directories, what stands between its slashes;   *)
(* a directory is a sequence of pieces, what stands between its dots.  The *)
(* empty string is one empty piece, so that "/a" is <<NoText, <<"a">>>>.   *)
(***************************************************************************)
EXTENDS Sequences, Naturals

Format == {"f32", "f64", "i32", "i64", "u8", "u32", "u64"}
Resolution == {"text", "uni", "ind"}
Behavior == {"constant", "frames", "vars"}

NoText == <<"">>

-----------------------------------------------------------------------------
(* From a path to a record *)

\* Joining the directories of a group drops the empty ones it begins with.
Group(dirs) ==
    LET named == {i \in DOMAIN dirs : dirs[i] # NoText}
    IN  IF named = {} THEN <<>>
        ELSE SubSeq(dirs, CHOOSE i \in named : \A j \in named : i <= j, Len(dirs))

\* Mutant: the suffix is sought in names of two pieces too.
IsTypedOffByOne(dir) ==
    Len(dir) > 1 /\ dir[Len(dir)] \in Resolution \ {"text"} /\ dir[Len(dir) - 1] \in Format

\* The name ends in a format and a resolution that processName knows.
IsTyped(dir) ==
    Len(dir) > 2 /\ dir[Len(dir)] \in Resolution \ {"text"} /\ dir[Len(dir) - 1] \in Format

NameOf(dir) ==
    IF ~IsTyped(dir) THEN dir
    ELSE IF Len(dir) = 2 THEN NoText ELSE SubSeq(dir, 1, Len(dir) - 2)

\* Mutant: only the directories before the last three are the group.
LastThree(path) == IF Len(path) > 3 THEN Len(path) - 3 ELSE 0

\* How many directories of a path that is in no frame are its group.
GroupLength(path) == Len(path) - 1

\* Which of frames/<index>/<name> and vars/<name>/<index> the path ends in.
BehaviorOf(path) ==
    IF Len(path) > 2 /\ path[Len(path) - 2] \in {<<"frames">>, <<"vars">>}
    THEN path[Len(path) - 2][1]
    ELSE "constant"

\* Record(path)
RecordOf(path) ==
    LET n        == Len(path)
        behavior == BehaviorOf(path)
        dir      == path[IF behavior = "vars" THEN n - 1 ELSE n]
    IN  [group      |-> Group(SubSeq(path, 1, IF behavior = "constant" THEN GroupLength(path)
                                              ELSE n - 3)),
         name       |-> NameOf(dir),
         index      |-> CASE behavior = "frames" -> path[n - 1]
                          [] behavior = "vars"   -> path[n]
                          [] OTHER               -> NoText,
         behavior   |-> behavior,
         format     |-> IF IsTyped(dir) THEN dir[Len(dir) - 1] ELSE "u8",
         resolution |-> IF IsTyped(dir) THEN dir[Len(dir)] ELSE "text"]

-----------------------------------------------------------------------------
(* From a record to a path *)

FullName(r) ==
    IF r.resolution = "text" THEN r.name ELSE r.name \o <<r.format, r.resolution>>

\* Mutant: the index and the name of a continuous record swapped.
EndingSwapped(r) ==
    CASE r.behavior = "vars"   -> <<<<"vars">>, r.index, FullName(r)>>
      [] r.behavior = "frames" -> <<<<"frames">>, r.index, FullName(r)>>
      [] OTHER                 -> <<FullName(r)>>

\* What follows the group.
Ending(r) ==
    CASE r.behavior = "vars"   -> <<<<"vars">>, FullName(r), r.index>>
      [] r.behavior = "frames" -> <<<<"frames">>, r.index, FullName(r)>>
      [] OTHER                 -> <<FullName(r)>>

GetPath(r) == r.group \o Ending(r)

WithIndex(r, index) == [r EXCEPT !.index = index]
WithNullifiedIndex(r) == WithIndex(r, NoText)
=============================================================================
