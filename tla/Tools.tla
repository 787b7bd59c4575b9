-------------------------------- MODULE Tools --------------------------------
(***************************************************************************)
(* The command line tools (gtar/cat.py, copy.py and fix.py), run by        *)
(* several processes on the same files.  Both write a new archive under a  *)
(* name that was free and rename it to the output in the end; fix calls    *)
(* copy, which is cat with one input.                                      *)
(*                                                                         *)
(* Archives are zip files.  A name is a base and the number of underscores *)
(* added to it.  No file has two names, so that samefile compares names.   *)
(***************************************************************************)
EXTENDS Naturals, Sequences, FiniteSets, Functions

CONSTANTS
    Proc,       \* processes
    Base,       \* the names users give to files
    Path,       \* the paths of records
    Value,      \* their contents
    Empty,      \* empty contents, which is also what reading a missing path gives
    None,       \* no file, or nothing
    CatJobs,    \* what cat is asked to do: a set of records [inputs, output]
    FixJobs,    \* what fix is asked to do: a set of records [input, output]
    Apart,      \* nobody's output is used by another at the same time
    MaxTemps,   \* bound: the underscores a name can have
    MaxRuns,    \* bound: the number of times a tool is started
    InitialFiles \* what the files may be at first

Name    == [base : Base, k : 0..MaxTemps]
Given   == {n \in Name : n.k = 0}
Longer(n) == [n EXCEPT !.k = @ + 1]
Dict(T) == UNION {[S -> T] : S \in SUBSET Path}
Records == Dict(Value)
Archive == [kind : {"zip32", "zip64", "broken"}, records : Records]

\* The locals of cat.main and of fix.main.
CatLocals == [pc : {"name", "index", "copy", "rename", "finally"},
              inputs : Seq(Name), output : Name, temp : Name, next : Nat \ {0},
              recordFiles : Dict(Name), left : SUBSET Name, failing : BOOLEAN]
FixLocals == [pc : {"try", "name", "rebuild", "convert", "rename", "finally"},
              input : Name, output : Name, temp : Name, needsFix : BOOLEAN, failing : BOOLEAN]

ASSUME ToolsAssumption ==
    /\ Empty \in Value
    /\ Apart \in BOOLEAN
    /\ MaxTemps \in Nat \ {0} /\ MaxRuns \in Nat
    /\ None \notin Name \cup Archive \cup CatLocals \cup FixLocals
    /\ InitialFiles \subseteq [Name -> Archive \cup {None}]
    /\ \A job \in CatJobs : job.inputs \in Seq(Given) /\ job.output \in Given
    /\ \A job \in FixJobs : job.input \in Given /\ job.output \in Given

VARIABLES
    file,       \* [Name -> Archive, or None]
    cat,        \* the locals of each process's call of cat.main, or None
    handle,     \* the name that the file open for writing in cat.main has now, or None
    fix,        \* the locals of its call of fix.main, or None
    outcome,    \* how its last tool ended: "none", "done", "raised" or "died"
    runs        \* the number of times a tool was started

vars == <<file, cat, handle, fix, outcome, runs>>

Override(f, g) == [p \in DOMAIN f \cup DOMAIN g |-> IF p \in DOMAIN g THEN g[p] ELSE f[p]]
Exists(n) == file[n] # None
Readable(n) == Exists(n) /\ file[n].kind # "broken"

\* Two calls with the locals they begin with.
CatCall(inputs, output) ==
    [pc |-> "name", inputs |-> inputs, output |-> output, temp |-> output,
     next |-> 1, recordFiles |-> <<>>, left |-> {}, failing |-> FALSE]
FixCall(input, output) ==
    [pc |-> "try", input |-> input, output |-> output, temp |-> output,
     needsFix |-> FALSE, failing |-> FALSE]

Init ==
    /\ file \in InitialFiles
    /\ cat = [q \in Proc |-> None] /\ handle = [q \in Proc |-> None]
    /\ fix = [q \in Proc |-> None]
    /\ outcome = [q \in Proc |-> "none"]
    /\ runs = 0

\* The files process q was told to use, and the one it was told to make.
Uses(q) ==
    IF fix[q] # None THEN {fix[q].input, fix[q].output}
    ELSE IF cat[q] # None THEN Range(cat[q].inputs) \cup {cat[q].output} ELSE {}
Makes(q) == IF fix[q] # None THEN {fix[q].output} ELSE IF cat[q] # None THEN {cat[q].output} ELSE {}

Starts(q, used, made) ==
    /\ cat[q] = None /\ fix[q] = None
    /\ runs < MaxRuns
    /\ Apart => \A r \in Proc : made \notin Uses(r) /\ used \cap Makes(r) = {}
    /\ runs' = runs + 1
    /\ outcome' = [outcome EXCEPT ![q] = "none"]
    /\ UNCHANGED <<file, handle>>

StartCat(q, job) ==
    /\ Starts(q, Range(job.inputs), job.output)
    /\ cat' = [cat EXCEPT ![q] = CatCall(job.inputs, job.output)]
    /\ UNCHANGED fix

StartFix(q, job) ==
    /\ Starts(q, {job.input}, job.output)
    /\ fix' = [fix EXCEPT ![q] = FixCall(job.input, job.output)]
    /\ UNCHANGED cat

-----------------------------------------------------------------------------
(* cat.main *)

InCat(q, pc) == cat[q] # None /\ cat[q].pc = pc
CatGoes(q, c) == cat' = [cat EXCEPT ![q] = c]

\* cat.main returns, or raises: to the shell, or to fix.main.
CatEnds(q, raises) ==
    /\ CatGoes(q, None)
    /\ IF fix[q] = None
       THEN /\ outcome' = [outcome EXCEPT ![q] = IF raises THEN "raised" ELSE "done"]
            /\ UNCHANGED fix
       ELSE /\ fix' = [fix EXCEPT ![q].pc = IF raises THEN "finally" ELSE "rename", ![q].failing = raises]
            /\ UNCHANGED outcome

\* Mutant: the name given is taken as it is.
NeverTaken(n) == FALSE

\* os.path.exists
Taken(n) == Exists(n)

\* One turn of the loop that looks for a free name.
ChooseName(q) ==
    /\ InCat(q, "name")
    /\ IF Taken(cat[q].temp)
       THEN cat[q].temp.k < MaxTemps /\ CatGoes(q, [cat[q] EXCEPT !.temp = Longer(@)])
       ELSE CatGoes(q, [cat[q] EXCEPT !.pc = "index"])
    /\ UNCHANGED <<file, handle, fix, outcome, runs>>

\* Mutants: the record and not its file is remembered; the first input gives it.
RecordItself(map, records, input) == Override(map, records)
FirstWins(map, records, input) == Override([p \in DOMAIN records |-> input], map)

\* recordFiles[rec.getPath()] = input
LastWins(map, records, input) == Override(map, [p \in DOMAIN records |-> input])

\* The next input's records are listed; this is outside the try.
Index(q) ==
    LET c == cat[q]
        input == c.inputs[c.next]
    IN  /\ InCat(q, "index") /\ c.next <= Len(c.inputs)
        /\ IF Readable(input)
           THEN /\ CatGoes(q, [c EXCEPT !.next = @ + 1,
                                        !.recordFiles = LastWins(@, file[input].records, input)])
                /\ UNCHANGED <<fix, outcome>>
           ELSE CatEnds(q, TRUE)
        /\ UNCHANGED <<file, handle, runs>>

\* gtar.GTAR(tempName, 'w')
Create(q) ==
    LET c == cat[q]
    IN  /\ InCat(q, "index") /\ c.next > Len(c.inputs)
        /\ file' = [file EXCEPT ![c.temp] = [kind |-> "broken", records |-> <<>>]]
        /\ handle' = [handle EXCEPT ![q] = c.temp]
        /\ CatGoes(q, [c EXCEPT !.pc = "copy", !.left = Range(c.recordFiles)])
        /\ UNCHANGED <<fix, outcome, runs>>

\* It raises: before the file is there, or when it is.
CreateFails(q) ==
    LET c == cat[q]
    IN  /\ InCat(q, "index") /\ c.next > Len(c.inputs)
        /\ file' \in {file, [file EXCEPT ![c.temp] = [kind |-> "broken", records |-> <<>>]]}
        /\ CatGoes(q, [c EXCEPT !.pc = "finally", !.failing = TRUE])
        /\ UNCHANGED <<handle, fix, outcome, runs>>

\* The open file becomes archive a, if it still has a name.
Held(q) == file[handle[q]]
Puts(q, a) == file' = IF handle[q] = None THEN file ELSE [file EXCEPT ![handle[q]] = a]

\* One source is opened again and its records are copied.
CopySource(q, source) ==
    LET c     == cat[q]
        paths == {p \in DOMAIN c.recordFiles : c.recordFiles[p] = source}
        From(rs) == [p \in paths |-> IF p \in DOMAIN rs THEN rs[p] ELSE Empty]
    IN  /\ InCat(q, "copy") /\ source \in c.left
        /\ IF Readable(source)
           THEN /\ Puts(q, [Held(q) EXCEPT !.records = Override(@, From(file[source].records))])
                /\ CatGoes(q, [c EXCEPT !.left = @ \ {source}])
           ELSE /\ CatGoes(q, [c EXCEPT !.left = {}, !.failing = TRUE])
                /\ UNCHANGED file
        /\ UNCHANGED <<handle, fix, outcome, runs>>

\* A record cannot be read or written, and those before it have been copied.
CopyFails(q) ==
    LET c == cat[q]
    IN  /\ InCat(q, "copy") /\ c.left # {}
        /\ \E source \in c.left, S \in SUBSET DOMAIN c.recordFiles :
             LET paths == {p \in S : c.recordFiles[p] = source /\ Readable(source) /\ p \in DOMAIN file[source].records}
             IN  Puts(q, [Held(q) EXCEPT !.records = Override(@, Restrict(file[source].records, paths))])
        /\ CatGoes(q, [c EXCEPT !.left = {}, !.failing = TRUE])
        /\ UNCHANGED <<handle, fix, outcome, runs>>

\* The new archive is closed, after an exception too.
Closes(q) ==
    LET c == cat[q]
    IN  /\ InCat(q, "copy") /\ c.left = {}
        /\ handle' = [handle EXCEPT ![q] = None]
        /\ CatGoes(q, [c EXCEPT !.pc = IF c.failing THEN "finally" ELSE "rename"])
        /\ UNCHANGED <<fix, outcome, runs>>

CloseOut(q) ==
    /\ Closes(q)
    /\ Puts(q, [Held(q) EXCEPT !.kind = "zip64"])

\* ZipArchive::close does not look whether its directory was written.  When it was
\* not, nothing is raised, and cat goes on with an archive that does not open.
CloseOutFails(q) == Closes(q) /\ UNCHANGED file

\* os.rename: who has t open goes on with it under its new name.
Renames(t, o) ==
    /\ file' = [file EXCEPT ![o] = file[t], ![t] = None]
    /\ handle' = [r \in Proc |-> CASE handle[r] = t -> o [] handle[r] = o -> None [] OTHER -> handle[r]]

\* os.remove
Removes(t) ==
    /\ file' = [file EXCEPT ![t] = None]
    /\ handle' = [r \in Proc |-> IF handle[r] = t THEN None ELSE handle[r]]

\* os.path.samefile raises when a file is missing.
SamefileRaises(t, o) == ~Exists(t) \/ ~Exists(o)

RenameOutput(q) ==
    LET c == cat[q]
    IN  /\ InCat(q, "rename")
        /\ IF SamefileRaises(c.temp, c.output) \/ c.temp = c.output
           THEN UNCHANGED <<file, handle>> ELSE Renames(c.temp, c.output)
        /\ CatGoes(q, [c EXCEPT !.pc = "finally", !.failing = SamefileRaises(c.temp, c.output)])
        /\ UNCHANGED <<fix, outcome, runs>>

\* os.rename raises.
RenameFails(q) ==
    LET c == cat[q]
    IN  /\ InCat(q, "rename")
        /\ ~SamefileRaises(c.temp, c.output) /\ c.temp # c.output
        /\ CatGoes(q, [c EXCEPT !.pc = "finally", !.failing = TRUE])
        /\ UNCHANGED <<file, handle, fix, outcome, runs>>

\* Mutant: the name that was chosen is not looked for.
NothingLeft(t, o) == FALSE

\* There is a temporary file to remove.
Leftover(t, o) == Exists(t) /\ t # o

\* The finally clause.
CatFinally(q) ==
    LET c == cat[q]
    IN  /\ InCat(q, "finally")
        /\ IF Leftover(c.temp, c.output) /\ Exists(c.output)
           THEN Removes(c.temp) ELSE UNCHANGED <<file, handle>>
        /\ CatEnds(q, c.failing \/ (Leftover(c.temp, c.output) /\ ~Exists(c.output)))
        /\ UNCHANGED runs

-----------------------------------------------------------------------------
(* fix.main *)

InFix(q, pc) == fix[q] # None /\ fix[q].pc = pc /\ cat[q] = None
FixGoes(q, x) == fix' = [fix EXCEPT ![q] = x]
FixEnds(q, raises) ==
    /\ FixGoes(q, None)
    /\ outcome' = [outcome EXCEPT ![q] = IF raises THEN "raised" ELSE "done"]

\* If it ain't broke, don't fix it.
FixTry(q) ==
    LET x == fix[q]
    IN  /\ InFix(q, "try")
        /\ \/ /\ Readable(x.input) /\ x.input = x.output /\ file[x.input].kind = "zip64"
              /\ FixEnds(q, FALSE)
           \/ ~Exists(x.input) /\ FixEnds(q, TRUE)
           \/ /\ Exists(x.input)
              /\ ~ (Readable(x.input) /\ x.input = x.output /\ file[x.input].kind = "zip64")
              /\ FixGoes(q, [x EXCEPT !.pc = "name", !.needsFix = ~Readable(x.input)])
              /\ UNCHANGED outcome
        /\ UNCHANGED <<file, cat, handle, runs>>

FixChooseName(q) ==
    LET x == fix[q]
    IN  /\ InFix(q, "name")
        /\ IF Taken(x.temp) THEN x.temp.k < MaxTemps /\ FixGoes(q, [x EXCEPT !.temp = Longer(@)])
           ELSE FixGoes(q, [x EXCEPT !.pc = IF x.needsFix THEN "rebuild" ELSE "convert"])
        /\ UNCHANGED <<file, cat, handle, outcome, runs>>

\* zip -FF finds some of the records, and zip -d takes away some of those; or one of
\* them fails.
Rebuild(q) ==
    LET x == fix[q]
    IN  /\ InFix(q, "rebuild")
        /\ \/ /\ Exists(x.input)
              /\ \E S \in SUBSET DOMAIN file[x.input].records, kind \in {"zip32", "zip64"} :
                   file' = [file EXCEPT ![x.temp] =
                              [kind |-> kind, records |-> Restrict(file[x.input].records, S)]]
              /\ \E fails \in BOOLEAN :
                   FixGoes(q, [x EXCEPT !.pc = IF fails THEN "finally" ELSE "convert", !.failing = fails])
           \/ /\ FixGoes(q, [x EXCEPT !.pc = "finally", !.failing = TRUE])
              /\ UNCHANGED file
        /\ UNCHANGED <<cat, handle, outcome, runs>>

\* The rebuilt archive, or the input, is copied if it is not a zip64 one.
Convert(q) ==
    LET x     == fix[q]
        fixed == IF x.needsFix THEN x.temp ELSE x.input
    IN  /\ InFix(q, "convert")
        /\ \/ /\ Readable(fixed) /\ file[fixed].kind = "zip32"
              /\ CatGoes(q, CatCall(<<fixed>>, x.temp))
              /\ UNCHANGED fix
           \/ /\ ~ (Readable(fixed) /\ file[fixed].kind = "zip32")
              /\ FixGoes(q, [x EXCEPT !.pc = IF Readable(fixed) THEN "rename" ELSE "finally",
                                      !.failing = ~Readable(fixed)])
              /\ UNCHANGED cat
        /\ UNCHANGED <<file, handle, outcome, runs>>

FixRename(q) ==
    LET x == fix[q]
    IN  /\ InFix(q, "rename")
        /\ IF Leftover(x.temp, x.output) /\ Exists(x.output)
           THEN Renames(x.temp, x.output) ELSE UNCHANGED <<file, handle>>
        /\ FixGoes(q, [x EXCEPT !.pc = "finally", !.failing = Leftover(x.temp, x.output) /\ ~Exists(x.output)])
        /\ UNCHANGED <<cat, outcome, runs>>

FixRenameFails(q) ==
    LET x == fix[q]
    IN  /\ InFix(q, "rename")
        /\ Leftover(x.temp, x.output) /\ Exists(x.output)
        /\ FixGoes(q, [x EXCEPT !.pc = "finally", !.failing = TRUE])
        /\ UNCHANGED <<file, cat, handle, outcome, runs>>

FixFinally(q) ==
    LET x == fix[q]
    IN  /\ InFix(q, "finally")
        /\ IF Leftover(x.temp, x.output) /\ Exists(x.output)
           THEN Removes(x.temp) ELSE UNCHANGED <<file, handle>>
        /\ FixEnds(q, x.failing \/ (Leftover(x.temp, x.output) /\ ~Exists(x.output)))
        /\ UNCHANGED <<cat, runs>>

\* The process dies.
Die(q) ==
    /\ cat[q] # None \/ fix[q] # None
    /\ cat' = [cat EXCEPT ![q] = None] /\ fix' = [fix EXCEPT ![q] = None]
    /\ handle' = [handle EXCEPT ![q] = None]
    /\ outcome' = [outcome EXCEPT ![q] = "died"]
    /\ UNCHANGED <<file, runs>>

Step(q) ==
    \/ ChooseName(q) \/ Index(q) \/ Create(q) \/ CreateFails(q)
    \/ \E source \in Name : CopySource(q, source)
    \/ CopyFails(q)
    \/ CloseOut(q) \/ CloseOutFails(q)
    \/ RenameOutput(q) \/ RenameFails(q) \/ CatFinally(q)
    \/ FixTry(q) \/ FixChooseName(q) \/ Rebuild(q) \/ Convert(q)
    \/ FixRename(q) \/ FixRenameFails(q) \/ FixFinally(q)

Next ==
    \E q \in Proc :
        \/ \E job \in CatJobs : StartCat(q, job)
        \/ \E job \in FixJobs : StartFix(q, job)
        \/ Step(q) \/ Die(q)

Spec == Init /\ [][Next]_vars

-----------------------------------------------------------------------------
(* Properties *)

\* The types of the locals and the files (gtar/cat.py:41-75, gtar/fix.py:90-126).
TypeOK ==
    /\ file \in [Name -> Archive \cup {None}]
    /\ cat \in [Proc -> CatLocals \cup {None}]
    /\ handle \in [Proc -> Name \cup {None}]
    /\ fix \in [Proc -> FixLocals \cup {None}]
    /\ outcome \in [Proc -> {"none", "done", "raised", "died"}]
    /\ runs \in 0..MaxRuns
    /\ \A q \in Proc : cat[q] # None =>
         \A p \in DOMAIN cat[q].recordFiles : cat[q].recordFiles[p] \in Range(cat[q].inputs)
=============================================================================
