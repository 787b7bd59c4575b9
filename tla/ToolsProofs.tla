---------------------------- MODULE ToolsProofs ----------------------------
(***************************************************************************)
(* What holds of the tools for any processes, files, jobs and number of    *)
(* underscores: the types, always; and, when nobody's output is used by    *)
(* another at the same time, that outputs are whole, that cat makes its    *)
(* output, and that only deaths leave temporary files.                     *)
(***************************************************************************)
EXTENDS ToolsHistory, RecordLemmas

-----------------------------------------------------------------------------
(* Who owns which names *)

Active(q) == ~Idle(cat[q], fix[q])
Output(q) == IF fix[q] # None THEN fix[q].output ELSE cat[q].output

\* The names that q's files can have: those of its output, and what it was told to use.
Near(q, n) == n.base = Output(q).base \/ n \in Uses(q)

Separate == \A q, r \in Proc : q # r => Makes(q) \cap Uses(r) = {}
GivenNames(q) == Uses(q) \subseteq Given

-----------------------------------------------------------------------------
(* The names and the handle of one process *)

CatNames(q) == cat[q] # None =>
    /\ cat[q].output.base = Output(q).base /\ cat[q].temp.base = Output(q).base
    /\ cat[q].output.k <= cat[q].temp.k
    /\ \A i \in DOMAIN cat[q].inputs : Near(q, cat[q].inputs[i])
    /\ cat[q].temp # cat[q].output => Exists(cat[q].output)
    /\ fix[q] # None => fix[q].pc = "convert" /\ cat[q].output = fix[q].temp

FixNames(q) == fix[q] # None =>
    /\ fix[q].temp.base = fix[q].output.base
    /\ fix[q].temp # fix[q].output => Exists(fix[q].output)
    /\ fix[q].pc = "try" => fix[q].temp = fix[q].output
    /\ fix[q].pc # "convert" => cat[q] = None

HandleIs(q) == handle[q] = IF InCat(q, "copy") THEN cat[q].temp ELSE None

\* A tool writes to the output's own name only when there was no output.
OutputNew(q) == Active(q) =>
    /\ task[q].output = Output(q)
    /\ ~task[q].fresh => Exists(Output(q))
    /\ cat[q] # None /\ cat[q].pc # "name" /\ cat[q].temp = Output(q) => task[q].fresh
    /\ fix[q] # None /\ fix[q].pc \notin {"try", "name"} /\ fix[q].temp = Output(q) => task[q].fresh

-----------------------------------------------------------------------------
(* What the files of one process hold *)

\* i is the last input before next that has p.
IsLast(q, p, i) ==
    /\ p \in DOMAIN file[cat[q].inputs[i]].records
    /\ \A j \in 1..(cat[q].next - 1) : p \in DOMAIN file[cat[q].inputs[j]].records => j <= i

\* The inputs before next are in recordFiles.
Listed(q) ==
    /\ \A i \in 1..(cat[q].next - 1) :
         /\ i <= Len(cat[q].inputs)
         /\ Readable(cat[q].inputs[i])
         /\ DOMAIN file[cat[q].inputs[i]].records \subseteq DOMAIN cat[q].recordFiles
    /\ \A p \in DOMAIN cat[q].recordFiles : \E i \in 1..(cat[q].next - 1) :
         cat[q].recordFiles[p] = cat[q].inputs[i] /\ IsLast(q, p, i)

\* The records of the sources that are not left are copied.
Copied(q) ==
    file[cat[q].temp].records =
        [p \in {x \in DOMAIN cat[q].recordFiles : cat[q].recordFiles[x] \notin cat[q].left} |->
            file[cat[q].recordFiles[p]].records[p]]

CatData(q) == cat[q] # None =>
    /\ cat[q].pc = "name" => cat[q].next = 1 /\ cat[q].recordFiles = <<>>
    /\ cat[q].pc \in {"name", "index", "rename"} => cat[q].failing = FALSE
    /\ cat[q].pc \in {"name", "index", "copy"} => Fits(task[q], Merged(cat[q].inputs))
    /\ cat[q].pc \in {"index", "copy"} => Listed(q)
    /\ cat[q].pc = "index" => ~Exists(cat[q].temp)
    /\ cat[q].pc = "copy" =>
         /\ cat[q].next > Len(cat[q].inputs)
         /\ cat[q].temp \notin Range(cat[q].inputs)
         /\ cat[q].left \subseteq Range(cat[q].recordFiles)
         /\ Exists(cat[q].temp) /\ file[cat[q].temp].kind = "broken"
         /\ ~cat[q].failing => Copied(q)
    /\ cat[q].pc = "rename" => Made(q, file[cat[q].temp])
    /\ cat[q].pc = "finally" /\ ~cat[q].failing => Made(q, file[cat[q].output])

\* The task is to make what the input holds.
TakesInput(q) ==
    /\ Exists(fix[q].input)
    /\ task[q].records = file[fix[q].input].records
    /\ task[q].exact = Readable(fix[q].input)

FixData(q) == fix[q] # None =>
    /\ fix[q].pc = "try" /\ Exists(fix[q].input) => TakesInput(q)
    /\ fix[q].pc = "name" => TakesInput(q) /\ fix[q].needsFix = ~Readable(fix[q].input)
    /\ fix[q].pc = "rebuild" =>
         fix[q].needsFix /\ TakesInput(q) /\ ~Readable(fix[q].input) /\ ~Exists(fix[q].temp)
    /\ fix[q].pc = "convert" /\ cat[q] = None =>
         IF fix[q].needsFix
         THEN Readable(fix[q].temp) /\ Fits(task[q], file[fix[q].temp].records)
         ELSE ~Exists(fix[q].temp) /\ TakesInput(q) /\ Readable(fix[q].input)
    /\ fix[q].pc = "rename" /\ Exists(fix[q].temp) => Made(q, file[fix[q].temp])

-----------------------------------------------------------------------------
(* The inductive invariants *)

Shape(q) == /\ CatNames(q) /\ FixNames(q) /\ HandleIs(q) /\ OutputNew(q) /\ GivenNames(q)
            /\ CatData(q) /\ FixData(q)

\* Process q will rename or remove the temporary file n.
Holds(q, n) ==
    \/ cat[q] # None /\ cat[q].pc \in {"copy", "rename", "finally"} /\ n = cat[q].temp
    \/ fix[q] # None /\ fix[q].pc \in {"convert", "rename", "finally"} /\ n = fix[q].temp
NoStrays == ~died => \A n \in Name : n.k > 0 /\ Exists(n) => \E q \in Proc : Holds(q, n)

HandlesExist == \A q \in Proc : handle[q] # None => Exists(handle[q])
IInv == TypeOK /\ HandlesExist

TaskTyped == task \in [Proc -> Tasks \cup {None}] /\ \A q \in Proc : task[q] # None <=> Active(q)

Owned == /\ IInv /\ TaskTyped /\ Separate
         /\ \A q \in Proc : q \in unclosed => Active(q)
         /\ \A q \in Proc : Shape(q)

-----------------------------------------------------------------------------
(* Dictionaries *)

LEMMA DictOf ==
    ASSUME NEW T, NEW f \in Dict(T)
    PROVE  DOMAIN f \subseteq Path /\ f = [p \in DOMAIN f |-> f[p]] /\ \A p \in DOMAIN f : f[p] \in T
<1>1. PICK S \in SUBSET Path : f \in [S -> T]
  BY DEF Dict
<1>. QED
  BY <1>1

LEMMA MakesDict ==
    ASSUME NEW T, NEW S \in SUBSET Path, NEW f, f = [p \in S |-> f[p]], \A p \in S : f[p] \in T
    PROVE  f \in Dict(T)
<1>1. f \in [S -> T]
  OBVIOUS
<1>. QED
  BY <1>1 DEF Dict

LEMMA NoDict == ASSUME NEW T PROVE <<>> \in Dict(T)
<1>1. <<>> \in [{} -> T]
  OBVIOUS
<1>. QED
  BY <1>1 DEF Dict

LEMMA OverrideGives ==
    ASSUME NEW f, NEW g
    PROVE  /\ DOMAIN Override(f, g) = DOMAIN f \cup DOMAIN g
           /\ \A p \in DOMAIN f \cup DOMAIN g :
                Override(f, g)[p] = IF p \in DOMAIN g THEN g[p] ELSE f[p]
BY DEF Override

LEMMA OverrideIsDict ==
    ASSUME NEW T, NEW f \in Dict(T), NEW g \in Dict(T)
    PROVE  Override(f, g) \in Dict(T)
<1>1. DOMAIN f \cup DOMAIN g \in SUBSET Path
  BY DictOf
<1>2. \A p \in DOMAIN f \cup DOMAIN g : (IF p \in DOMAIN g THEN g[p] ELSE f[p]) \in T
  BY DictOf
<1>. QED
  BY <1>1, <1>2, MakesDict DEF Override

LEMMA RestrictIsDict ==
    ASSUME NEW T, NEW f \in Dict(T), NEW S \in SUBSET DOMAIN f
    PROVE  Restrict(f, S) \in Dict(T)
<1>1. S \in SUBSET Path /\ \A p \in S : f[p] \in T
  BY DictOf
<1>. QED
  BY <1>1, MakesDict DEF Restrict

-----------------------------------------------------------------------------
(* Types *)

LEMMA NamesAre ==
    ASSUME NEW n \in Name
    PROVE  /\ n.base \in Base /\ n.k \in 0..MaxTemps /\ n.k \in Nat
           /\ n = [base |-> n.base, k |-> n.k]
           /\ n.k < MaxTemps => Longer(n) \in Name
           /\ n.k < MaxTemps => Longer(n).base = n.base /\ Longer(n).k = n.k + 1
BY ToolsAssumption DEF Name, Longer

LEMMA SameName ==
    ASSUME NEW m \in Name, NEW n \in Name, m.base = n.base, m.k = n.k
    PROVE  m = n
BY DEF Name

LEMMA NoneIsNone ==
    /\ None \notin Name /\ None \notin Archive /\ None \notin CatLocals /\ None \notin FixLocals
    /\ None \notin Tasks
BY ToolsAssumption, TasksAssumption

\* The parts of the type invariant, each of which most actions leave alone.
FilesTyped ==
    /\ file \in [Name -> Archive \cup {None}]
    /\ handle \in [Proc -> Name \cup {None}]
    /\ HandlesExist
CatTyped ==
    /\ cat \in [Proc -> CatLocals \cup {None}]
    /\ \A q \in Proc : cat[q] # None =>
         \A p \in DOMAIN cat[q].recordFiles : cat[q].recordFiles[p] \in Range(cat[q].inputs)
FixTyped == fix \in [Proc -> FixLocals \cup {None}]
EndsTyped ==
    /\ outcome \in [Proc -> {"none", "done", "raised", "died"}]
    /\ runs \in 0..MaxRuns

LEMMA TypeParts == IInv <=> FilesTyped /\ CatTyped /\ FixTyped /\ EndsTyped
BY DEF IInv, TypeOK, FilesTyped, CatTyped, FixTyped, EndsTyped

LEMMA Together ==
    ASSUME FilesTyped', CatTyped', FixTyped', EndsTyped'
    PROVE  IInv'
BY DEF IInv, TypeOK, FilesTyped, CatTyped, FixTyped, EndsTyped

LEMMA CatOf ==
    ASSUME CatTyped, NEW q \in Proc, cat[q] # None
    PROVE  /\ cat[q] \in CatLocals
           /\ cat[q].inputs \in Seq(Name) /\ cat[q].output \in Name /\ cat[q].temp \in Name
           /\ cat[q].next \in Nat \ {0} /\ cat[q].recordFiles \in Dict(Name)
           /\ cat[q].left \in SUBSET Name /\ cat[q].failing \in BOOLEAN
           /\ cat[q].pc \in {"name", "index", "copy", "rename", "finally"}
           /\ Len(cat[q].inputs) \in Nat
           /\ \A i \in 1..Len(cat[q].inputs) : cat[q].inputs[i] \in Name
<1>1. cat[q] \in CatLocals
  BY DEF CatTyped
<1>2. cat[q].inputs \in Seq(Name)
  BY <1>1 DEF CatLocals
<1>. QED
  BY <1>1, <1>2 DEF CatLocals

LEMMA FixOf ==
    ASSUME FixTyped, NEW q \in Proc, fix[q] # None
    PROVE  /\ fix[q] \in FixLocals
           /\ fix[q].input \in Name /\ fix[q].output \in Name /\ fix[q].temp \in Name
           /\ fix[q].needsFix \in BOOLEAN /\ fix[q].failing \in BOOLEAN
           /\ fix[q].pc \in {"try", "name", "rebuild", "convert", "rename", "finally"}
BY DEF FixTyped, FixLocals

LEMMA FileOf ==
    ASSUME FilesTyped, NEW n \in Name, Exists(n)
    PROVE  /\ file[n] \in Archive /\ file[n].records \in Records
           /\ file[n].kind \in {"zip32", "zip64", "broken"}
BY DEF FilesTyped, Exists, Archive

\* A process's cat has new locals.
LEMMA CatGoesTypes ==
    ASSUME CatTyped, NEW q \in Proc, NEW c, CatGoes(q, c),
           \/ c = None
           \/ /\ c \in CatLocals
              /\ \A p \in DOMAIN c.recordFiles : c.recordFiles[p] \in Range(c.inputs)
    PROVE  CatTyped'
<1>1. cat' = [cat EXCEPT ![q] = c] /\ c \in CatLocals \cup {None}
  BY DEF CatGoes
<1>2. cat' \in [Proc -> CatLocals \cup {None}]
  BY <1>1 DEF CatTyped
<1>3. ASSUME NEW r \in Proc, cat'[r] # None, NEW p \in DOMAIN cat'[r].recordFiles
      PROVE  cat'[r].recordFiles[p] \in Range(cat'[r].inputs)
  <2>1. CASE r = q
    <3>1. cat'[r] = c
      BY <1>1, <2>1 DEF CatTyped
    <3>. QED
      BY <3>1, <1>3
  <2>2. CASE r # q
    <3>1. cat'[r] = cat[r]
      BY <1>1, <2>2 DEF CatTyped
    <3>. QED
      BY <3>1, <1>3 DEF CatTyped
  <2>. QED
    BY <2>1, <2>2
<1>. QED
  BY <1>2, <1>3 DEF CatTyped

LEMMA FixGoesTypes ==
    ASSUME FixTyped, NEW q \in Proc, NEW x, x \in FixLocals \cup {None}, FixGoes(q, x)
    PROVE  FixTyped'
BY DEF FixTyped, FixGoes

LEMMA CatEndsTypes ==
    ASSUME IInv, NEW q \in Proc, NEW raises \in BOOLEAN, CatEnds(q, raises), UNCHANGED runs
    PROVE  CatTyped' /\ FixTyped' /\ EndsTyped'
<1>1. CatTyped'
  BY CatGoesTypes, TypeParts DEF CatEnds
<1>2. FixTyped' /\ EndsTyped'
  <2>1. CASE fix[q] = None
    BY <2>1, TypeParts DEF CatEnds, FixTyped, EndsTyped
  <2>2. CASE fix[q] # None
    <3>. DEFINE to == IF raises THEN "finally" ELSE "rename"
                x  == [fix[q] EXCEPT !.pc = to, !.failing = raises]
    <3>1. fix[q] \in FixLocals
      BY <2>2, FixOf, TypeParts
    <3>2. x \in FixLocals
      BY <3>1 DEF FixLocals
    <3>3. fix' = [fix EXCEPT ![q] = x] /\ UNCHANGED <<outcome, runs>>
      BY <2>2 DEF CatEnds
    <3>. QED
      BY <3>2, <3>3, TypeParts DEF FixTyped, EndsTyped
  <2>. QED
    BY <2>1, <2>2
<1>. QED
  BY <1>1, <1>2

LEMMA FixEndsTypes ==
    ASSUME FixTyped, EndsTyped, NEW q \in Proc, NEW raises \in BOOLEAN, FixEnds(q, raises), UNCHANGED runs
    PROVE  FixTyped' /\ EndsTyped'
BY DEF FixEnds, FixGoes, FixTyped, EndsTyped

\* What may happen to files.
LEMMA PutsTypes ==
    ASSUME FilesTyped, NEW q \in Proc, NEW a,
           handle[q] # None => a \in Archive,
           Puts(q, a), handle' = handle \/ handle' = [handle EXCEPT ![q] = None]
    PROVE  FilesTyped'
<1>1. handle[q] # None => handle[q] \in Name
  BY DEF FilesTyped
<1>2. file' \in [Name -> Archive \cup {None}]
  BY <1>1 DEF FilesTyped, Puts
<1>3. handle' \in [Proc -> Name \cup {None}] /\ \A r \in Proc : handle'[r] \in {handle[r], None}
  BY DEF FilesTyped
<1>4. \A n \in Name : file[n] # None => file'[n] # None
  BY <1>1, NoneIsNone DEF FilesTyped, Puts
<1>5. \A r \in Proc : handle[r] # None => handle[r] \in Name /\ file[handle[r]] # None
  BY DEF FilesTyped, HandlesExist, Exists
<1>6. \A r \in Proc : handle'[r] # None => file'[handle'[r]] # None
  BY <1>3, <1>4, <1>5
<1>. QED
  BY <1>2, <1>3, <1>6 DEF FilesTyped, HandlesExist, Exists

LEMMA RenamesTypes ==
    ASSUME FilesTyped, NEW t \in Name, NEW o \in Name, t # o, Exists(t), Renames(t, o)
    PROVE  FilesTyped'
<1>1. file' \in [Name -> Archive \cup {None}]
  BY DEF FilesTyped, Renames, Exists
<1>2. handle' \in [Proc -> Name \cup {None}]
  BY DEF FilesTyped, Renames
<1>3. file'[o] # None /\ \A n \in Name \ {t, o} : file'[n] = file[n]
  BY DEF FilesTyped, Renames, Exists
<1>4. ASSUME NEW r \in Proc, handle'[r] # None
      PROVE  file'[handle'[r]] # None
  <2>1. handle'[r] = CASE handle[r] = t -> o [] handle[r] = o -> None [] OTHER -> handle[r]
    BY DEF Renames
  <2>2. CASE handle[r] = t
    BY <1>3, <2>1, <2>2
  <2>3. CASE handle[r] # t
    <3>1. handle[r] # o /\ handle'[r] = handle[r]
      BY <1>4, <2>1, <2>3
    <3>2. handle[r] \in Name /\ file[handle[r]] # None
      BY <1>4, <3>1 DEF FilesTyped, HandlesExist, Exists
    <3>. QED
      BY <1>3, <2>3, <3>1, <3>2
  <2>. QED
    BY <2>2, <2>3
<1>. QED
  BY <1>1, <1>2, <1>4 DEF FilesTyped, HandlesExist, Exists

LEMMA RemovesTypes ==
    ASSUME FilesTyped, NEW t \in Name, Removes(t)
    PROVE  FilesTyped'
<1>1. file' \in [Name -> Archive \cup {None}]
  BY DEF FilesTyped, Removes
<1>2. handle' \in [Proc -> Name \cup {None}]
  BY DEF FilesTyped, Removes
<1>3. \A n \in Name \ {t} : file'[n] = file[n]
  BY DEF FilesTyped, Removes
<1>4. \A r \in Proc : handle'[r] # None => handle'[r] = handle[r] /\ handle[r] # t
  BY DEF Removes
<1>. QED
  BY <1>1, <1>2, <1>3, <1>4 DEF FilesTyped, HandlesExist, Exists

LEMMA FilesUnchanged ==
    ASSUME FilesTyped, UNCHANGED <<file, handle>>
    PROVE  FilesTyped'
BY DEF FilesTyped, HandlesExist, Exists

LEMMA EndsUnchanged ==
    ASSUME EndsTyped, UNCHANGED <<outcome, runs>>
    PROVE  EndsTyped'
BY DEF EndsTyped

LEMMA CatUnchanged ==
    ASSUME CatTyped, UNCHANGED cat
    PROVE  CatTyped'
BY DEF CatTyped

LEMMA FixUnchanged ==
    ASSUME FixTyped, UNCHANGED fix
    PROVE  FixTyped'
BY DEF FixTyped

-----------------------------------------------------------------------------
(* Each action keeps the types *)

LEMMA InitTypes == Init => IInv
<1>. SUFFICES ASSUME Init PROVE IInv
  OBVIOUS
<1>1. file \in [Name -> Archive \cup {None}]
  BY ToolsAssumption DEF Init
<1>2. HandlesExist /\ handle \in [Proc -> Name \cup {None}]
  BY DEF Init, HandlesExist
<1>3. 0 \in 0..MaxRuns
  BY ToolsAssumption
<1>. QED
  BY <1>1, <1>2, <1>3 DEF Init, IInv, TypeOK

LEMMA StartTypes ==
    ASSUME IInv, NEW q \in Proc, NEW used, NEW made, Starts(q, used, made)
    PROVE  FilesTyped' /\ EndsTyped' /\ cat[q] = None /\ fix[q] = None
<1>1. FilesTyped'
  BY FilesUnchanged, TypeParts DEF Starts
<1>2. runs + 1 \in 0..MaxRuns
  BY TypeParts, ToolsAssumption DEF Starts, EndsTyped
<1>. QED
  BY <1>1, <1>2, TypeParts DEF Starts, EndsTyped

LEMMA CallTypes ==
    ASSUME NEW inputs \in Seq(Name), NEW output \in Name
    PROVE  CatCall(inputs, output) \in CatLocals
<1>1. <<>> \in Dict(Name)
  BY NoDict
<1>. QED
  BY <1>1 DEF CatCall, CatLocals

LEMMA GivenAre == Given \subseteq Name /\ \A n \in Given : n.k = 0
BY DEF Given

LEMMA GivenSequence ==
    ASSUME NEW s \in Seq(Given)
    PROVE  s \in Seq(Name) /\ Range(s) \subseteq Given
BY GivenAre DEF Range

LEMMA StartCatTypes ==
    ASSUME IInv, NEW q \in Proc, NEW job \in CatJobs, StartCat(q, job)
    PROVE  IInv'
<1>1. job.inputs \in Seq(Name) /\ job.output \in Name
  BY ToolsAssumption, GivenAre, GivenSequence
<1>2. CatCall(job.inputs, job.output) \in CatLocals
  BY <1>1, CallTypes
<1>3. DOMAIN CatCall(job.inputs, job.output).recordFiles = {}
  BY DEF CatCall
<1>4. CatGoes(q, CatCall(job.inputs, job.output))
  BY DEF StartCat, CatGoes
<1>5. CatTyped'
  BY <1>2, <1>3, <1>4, CatGoesTypes, TypeParts
<1>. QED
  BY <1>5, StartTypes, Together, TypeParts, FixUnchanged DEF StartCat

LEMMA StartFixTypes ==
    ASSUME IInv, NEW q \in Proc, NEW job \in FixJobs, StartFix(q, job)
    PROVE  IInv'
<1>1. job.input \in Name /\ job.output \in Name
  BY ToolsAssumption, GivenAre
<1>2. FixCall(job.input, job.output) \in FixLocals
  BY <1>1 DEF FixCall, FixLocals
<1>3. FixTyped'
  BY <1>2, TypeParts DEF StartFix, FixTyped
<1>. QED
  BY <1>3, StartTypes, Together, TypeParts, CatUnchanged DEF StartFix

\* The locals of cat with some of them changed.
LEMMA PcTypes ==
    ASSUME NEW c \in CatLocals, NEW to \in {"name", "index", "copy", "rename", "finally"}
    PROVE  /\ [c EXCEPT !.pc = to] \in CatLocals
           /\ \A fails \in BOOLEAN : [c EXCEPT !.pc = to, !.failing = fails] \in CatLocals
           /\ \A S \in SUBSET Name : [c EXCEPT !.pc = to, !.left = S] \in CatLocals
           /\ \A n \in Name : [c EXCEPT !.temp = n] \in CatLocals
           /\ \A S \in SUBSET Name : [c EXCEPT !.left = S] \in CatLocals
           /\ \A S \in SUBSET Name, fails \in BOOLEAN :
                [c EXCEPT !.left = S, !.failing = fails] \in CatLocals
BY DEF CatLocals

LEMMA ChooseNameTypes ==
    ASSUME IInv, NEW q \in Proc, ChooseName(q)
    PROVE  IInv'
<1>1. cat[q] # None /\ cat[q] \in CatLocals /\ cat[q].temp \in Name
  BY CatOf, TypeParts DEF ChooseName, InCat
<1>2. PICK c : /\ CatGoes(q, c) /\ c \in CatLocals
               /\ c.recordFiles = cat[q].recordFiles /\ c.inputs = cat[q].inputs
  <2>1. CASE Taken(cat[q].temp)
    <3>1. Longer(cat[q].temp) \in Name
      BY <1>1, <2>1, NamesAre DEF ChooseName
    <3>. DEFINE d == [cat[q] EXCEPT !.temp = Longer(@)]
    <3>2. d \in CatLocals
      BY <1>1, <3>1, PcTypes
    <3>3. d.recordFiles = cat[q].recordFiles /\ d.inputs = cat[q].inputs
      BY <1>1 DEF CatLocals
    <3>. QED
      BY <2>1, <3>2, <3>3 DEF ChooseName
  <2>2. CASE ~Taken(cat[q].temp)
    <3>. DEFINE d == [cat[q] EXCEPT !.pc = "index"]
    <3>1. d \in CatLocals
      BY <1>1, PcTypes
    <3>2. d.recordFiles = cat[q].recordFiles /\ d.inputs = cat[q].inputs
      BY <1>1 DEF CatLocals
    <3>. QED
      BY <2>2, <3>1, <3>2 DEF ChooseName
  <2>. QED
    BY <2>1, <2>2
<1>3. CatTyped'
  BY <1>1, <1>2, CatGoesTypes, TypeParts DEF CatTyped
<1>. QED
  BY <1>3, Together, TypeParts, FilesUnchanged, FixUnchanged, EndsUnchanged DEF ChooseName

\* One more input is listed.
LEMMA ListsTypes ==
    ASSUME FilesTyped, CatTyped, NEW q \in Proc, cat[q] # None, cat[q].next <= Len(cat[q].inputs),
           Readable(cat[q].inputs[cat[q].next])
    PROVE  LET input == cat[q].inputs[cat[q].next]
               map   == LastWins(cat[q].recordFiles, file[input].records, input)
           IN  /\ [cat[q] EXCEPT !.next = @ + 1, !.recordFiles = map] \in CatLocals
               /\ \A p \in DOMAIN map : map[p] \in Range(cat[q].inputs)
<1>. DEFINE c == cat[q]
            input == c.inputs[c.next]
            rs  == file[input].records
            map == LastWins(c.recordFiles, rs, input)
            d   == [c EXCEPT !.next = @ + 1, !.recordFiles = map]
<1>1. c \in CatLocals /\ c.inputs \in Seq(Name) /\ c.recordFiles \in Dict(Name)
      /\ c.next \in 1..Len(c.inputs) /\ c.next + 1 \in Nat \ {0}
  BY CatOf
<1>2. input \in Name /\ input \in Range(c.inputs)
  BY <1>1 DEF Range
<1>3. rs \in Dict(Value)
  <2>. HIDE DEF input
  <2>. QED
    BY <1>2, FileOf DEF Readable, Records, input
<1>4. [p \in DOMAIN rs |-> input] \in Dict(Name)
  <2>. HIDE DEF input, rs
  <2>1. DOMAIN rs \in SUBSET Path
    BY <1>3, DictOf
  <2>. QED
    BY <1>2, <2>1, MakesDict
<1>5. map \in Dict(Name)
  BY <1>1, <1>4, OverrideIsDict DEF LastWins
<1>6. \A p \in DOMAIN map : map[p] = input \/ (p \in DOMAIN c.recordFiles /\ map[p] = c.recordFiles[p])
  <2>. HIDE DEF rs, input
  <2>. QED
    BY DEF LastWins, Override
<1>7. d \in CatLocals
  <2>. HIDE DEF map
  <2>. QED
    BY <1>1, <1>5 DEF CatLocals
<1>8. \A p \in DOMAIN c.recordFiles : c.recordFiles[p] \in Range(c.inputs)
  BY DEF CatTyped
<1>9. \A p \in DOMAIN map : map[p] \in Range(c.inputs)
  <2>. HIDE DEF map, input
  <2>. QED
    BY <1>2, <1>6, <1>8
<1>. QED
  BY <1>7, <1>9

LEMMA IndexTypes ==
    ASSUME IInv, NEW q \in Proc, Index(q)
    PROVE  IInv'
<1>. DEFINE c == cat[q]
            input == c.inputs[c.next]
<1>1. c # None /\ c \in CatLocals /\ c.next <= Len(c.inputs)
  BY CatOf, TypeParts DEF Index, InCat
<1>2. FilesTyped'
  BY FilesUnchanged, TypeParts DEF Index
<1>3. CASE Readable(input)
  <2>. DEFINE map == LastWins(c.recordFiles, file[input].records, input)
              d   == [c EXCEPT !.next = @ + 1, !.recordFiles = map]
  <2>1. d \in CatLocals /\ \A p \in DOMAIN map : map[p] \in Range(c.inputs)
    BY <1>1, <1>3, ListsTypes, TypeParts
  <2>2. d.recordFiles = map /\ d.inputs = c.inputs
    <3>. HIDE DEF map
    <3>. QED
      BY <1>1 DEF CatLocals
  <2>3. CatGoes(q, d) /\ UNCHANGED <<fix, outcome, runs>>
    BY <1>3 DEF Index
  <2>4. CatTyped'
    <3>. HIDE DEF d, map
    <3>. QED
      BY <2>1, <2>2, <2>3, CatGoesTypes, TypeParts
  <2>. QED
    BY <1>2, <2>3, <2>4, Together, TypeParts, FixUnchanged, EndsUnchanged
<1>4. CASE ~Readable(input)
  <2>1. CatEnds(q, TRUE) /\ UNCHANGED runs
    BY <1>4 DEF Index
  <2>. QED
    BY <1>2, <2>1, CatEndsTypes, Together, TypeParts
<1>. QED
  BY <1>3, <1>4

LEMMA NewIsArchive == [kind |-> "broken", records |-> <<>>] \in Archive
BY NoDict DEF Archive, Records

LEMMA CreateTypes ==
    ASSUME IInv, NEW q \in Proc, Create(q)
    PROVE  IInv'
<1>. DEFINE c == cat[q]
            new == [kind |-> "broken", records |-> <<>>]
            d == [c EXCEPT !.pc = "copy", !.left = Range(c.recordFiles)]
<1>1. c # None /\ c \in CatLocals /\ c.temp \in Name /\ c.recordFiles \in Dict(Name)
  BY CatOf, TypeParts DEF Create, InCat
<1>2. Range(c.recordFiles) \in SUBSET Name
  BY <1>1, DictOf DEF Range
<1>3. d \in CatLocals
  BY <1>1, <1>2, PcTypes
<1>4. d.recordFiles = c.recordFiles /\ d.inputs = c.inputs
  BY <1>1 DEF CatLocals
<1>5. CatGoes(q, d) /\ file' = [file EXCEPT ![c.temp] = new] /\ handle' = [handle EXCEPT ![q] = c.temp]
  BY DEF Create
<1>6. CatTyped'
  <2>. HIDE DEF d
  <2>. QED
    BY <1>1, <1>3, <1>4, <1>5, CatGoesTypes, TypeParts DEF CatTyped
<1>7. FilesTyped'
  <2>1. new \in Archive /\ new # None
    BY NewIsArchive, NoneIsNone
  <2>. HIDE DEF new
  <2>2. file' \in [Name -> Archive \cup {None}] /\ handle' \in [Proc -> Name \cup {None}]
    BY <1>1, <1>5, <2>1, TypeParts DEF FilesTyped
  <2>3. \A n \in Name : file[n] # None => file'[n] # None
    BY <1>5, <2>1, TypeParts DEF FilesTyped
  <2>4. file'[c.temp] # None
    BY <1>1, <1>5, <2>1, TypeParts DEF FilesTyped
  <2>5. \A r \in Proc : handle'[r] = handle[r] \/ handle'[r] = c.temp
    BY <1>5, TypeParts DEF FilesTyped
  <2>6. \A r \in Proc : handle[r] # None => handle[r] \in Name /\ file[handle[r]] # None
    BY TypeParts DEF FilesTyped, HandlesExist, Exists
  <2>. QED
    BY <2>2, <2>3, <2>4, <2>5, <2>6 DEF FilesTyped, HandlesExist, Exists
<1>. QED
  BY <1>6, <1>7, Together, TypeParts, FixUnchanged, EndsUnchanged DEF Create

LEMMA CreateFailsTypes ==
    ASSUME IInv, NEW q \in Proc, CreateFails(q)
    PROVE  IInv'
<1>. DEFINE c == cat[q]
            new == [kind |-> "broken", records |-> <<>>]
            d == [c EXCEPT !.pc = "finally", !.failing = TRUE]
<1>1. c # None /\ c \in CatLocals /\ c.temp \in Name
  BY CatOf, TypeParts DEF CreateFails, InCat
<1>2. d \in CatLocals
  BY <1>1, PcTypes
<1>3. d.recordFiles = c.recordFiles /\ d.inputs = c.inputs
  BY <1>1 DEF CatLocals
<1>4. CatGoes(q, d) /\ file' \in {file, [file EXCEPT ![c.temp] = new]} /\ handle' = handle
  BY DEF CreateFails
<1>5. CatTyped'
  <2>. HIDE DEF d
  <2>. QED
    BY <1>1, <1>2, <1>3, <1>4, CatGoesTypes, TypeParts DEF CatTyped
<1>6. FilesTyped'
  <2>1. new \in Archive /\ new # None
    BY NewIsArchive, NoneIsNone
  <2>. HIDE DEF new
  <2>2. file' \in [Name -> Archive \cup {None}]
    BY <1>1, <1>4, <2>1, TypeParts DEF FilesTyped
  <2>3. \A n \in Name : file[n] # None => file'[n] # None
    BY <1>4, <2>1, TypeParts DEF FilesTyped
  <2>. QED
    BY <1>4, <2>2, <2>3, TypeParts DEF FilesTyped, HandlesExist, Exists
<1>. QED
  BY <1>5, <1>6, Together, TypeParts, FixUnchanged, EndsUnchanged DEF CreateFails

LEMMA HeldTypes ==
    ASSUME FilesTyped, NEW q \in Proc, handle[q] # None
    PROVE  /\ handle[q] \in Name
           /\ Held(q) \in Archive /\ Held(q).records \in Records
           /\ \A rs \in Records : [Held(q) EXCEPT !.records = rs] \in Archive
           /\ [Held(q) EXCEPT !.kind = "zip64"] \in Archive
<1>1. handle[q] \in Name /\ Exists(handle[q])
  BY DEF FilesTyped, HandlesExist
<1>2. Held(q) \in Archive
  BY <1>1, FileOf DEF Held
<1>. QED
  BY <1>1, <1>2 DEF Archive

\* The copied records, where From is that of CopySource.
CopiedFrom(q, source) ==
    LET paths == {p \in DOMAIN cat[q].recordFiles : cat[q].recordFiles[p] = source}
        rs    == file[source].records
    IN  [p \in paths |-> IF p \in DOMAIN rs THEN rs[p] ELSE Empty]

LEMMA CopiedFromTypes ==
    ASSUME IInv, NEW q \in Proc, cat[q] # None, NEW source \in Name, Readable(source)
    PROVE  CopiedFrom(q, source) \in Records
<1>. DEFINE paths == {p \in DOMAIN cat[q].recordFiles : cat[q].recordFiles[p] = source}
            rs    == file[source].records
<1>1. paths \in SUBSET Path
  BY CatOf, DictOf, TypeParts
<1>2. rs \in Dict(Value)
  BY FileOf, TypeParts DEF Readable, Records
<1>3. \A p \in paths : (IF p \in DOMAIN rs THEN rs[p] ELSE Empty) \in Value
  BY <1>2, DictOf, ToolsAssumption
<1>4. CopiedFrom(q, source) = [p \in paths |-> IF p \in DOMAIN rs THEN rs[p] ELSE Empty]
  BY DEF CopiedFrom
<1>. QED
  BY <1>1, <1>3, <1>4, MakesDict DEF Records

LEMMA CopySourceTypes ==
    ASSUME IInv, NEW q \in Proc, NEW source \in Name, CopySource(q, source)
    PROVE  IInv'
<1>. DEFINE c == cat[q]
<1>1. c # None /\ c \in CatLocals /\ c.left \in SUBSET Name
  BY CatOf, TypeParts DEF CopySource, InCat
<1>2. PICK d : /\ CatGoes(q, d) /\ d \in CatLocals
               /\ d.recordFiles = c.recordFiles /\ d.inputs = c.inputs
  <2>1. CASE Readable(source)
    <3>. DEFINE d == [c EXCEPT !.left = @ \ {source}]
    <3>1. d \in CatLocals
      BY <1>1, PcTypes
    <3>2. d.recordFiles = c.recordFiles /\ d.inputs = c.inputs
      BY <1>1 DEF CatLocals
    <3>. QED
      BY <2>1, <3>1, <3>2 DEF CopySource
  <2>2. CASE ~Readable(source)
    <3>. DEFINE d == [c EXCEPT !.left = {}, !.failing = TRUE]
    <3>1. d \in CatLocals
      BY <1>1, PcTypes
    <3>2. d.recordFiles = c.recordFiles /\ d.inputs = c.inputs
      BY <1>1 DEF CatLocals
    <3>. QED
      BY <2>2, <3>1, <3>2 DEF CopySource
  <2>. QED
    BY <2>1, <2>2
<1>3. CatTyped'
  BY <1>1, <1>2, CatGoesTypes, TypeParts DEF CatTyped
<1>4. FilesTyped'
  <2>1. CASE Readable(source)
    <3>. DEFINE a == [Held(q) EXCEPT !.records = Override(@, CopiedFrom(q, source))]
    <3>1. handle[q] # None => a \in Archive
      BY <1>1, <2>1, CopiedFromTypes, HeldTypes, OverrideIsDict, TypeParts DEF Records
    <3>2. Puts(q, a) /\ handle' = handle
      BY <2>1 DEF CopySource, CopiedFrom
    <3>. HIDE DEF a
    <3>. QED
      BY <3>1, <3>2, PutsTypes, TypeParts
  <2>2. CASE ~Readable(source)
    BY <2>2, FilesUnchanged, TypeParts DEF CopySource
  <2>. QED
    BY <2>1, <2>2
<1>. QED
  BY <1>3, <1>4, Together, TypeParts, FixUnchanged, EndsUnchanged DEF CopySource

LEMMA CopyFailsTypes ==
    ASSUME IInv, NEW q \in Proc, CopyFails(q)
    PROVE  IInv'
<1>. DEFINE c == cat[q]
            d == [c EXCEPT !.left = {}, !.failing = TRUE]
<1>1. c # None /\ c \in CatLocals /\ c.left \in SUBSET Name
  BY CatOf, TypeParts DEF CopyFails, InCat
<1>2. d \in CatLocals
  BY <1>1, PcTypes
<1>3. d.recordFiles = c.recordFiles /\ d.inputs = c.inputs
  BY <1>1 DEF CatLocals
<1>4. CatGoes(q, d)
  BY DEF CopyFails
<1>5. CatTyped'
  <2>. HIDE DEF d
  <2>. QED
    BY <1>1, <1>2, <1>3, <1>4, CatGoesTypes, TypeParts DEF CatTyped
<1>6. PICK source \in c.left, S \in SUBSET DOMAIN c.recordFiles :
        LET paths == {p \in S : c.recordFiles[p] = source /\ Readable(source) /\ p \in DOMAIN file[source].records}
        IN  Puts(q, [Held(q) EXCEPT !.records = Override(@, Restrict(file[source].records, paths))])
  BY DEF CopyFails
<1>. DEFINE paths == {p \in S : c.recordFiles[p] = source /\ Readable(source) /\ p \in DOMAIN file[source].records}
            a     == [Held(q) EXCEPT !.records = Override(@, Restrict(file[source].records, paths))]
<1>7. handle[q] # None => a \in Archive
  <2>1. source \in Name
    BY <1>1, <1>6
  <2>2. Restrict(file[source].records, paths) \in Records
    <3>1. CASE Readable(source)
      <4>1. file[source].records \in Records
        BY <2>1, <3>1, FileOf, TypeParts DEF Readable
      <4>2. paths \in SUBSET DOMAIN file[source].records
        OBVIOUS
      <4>. QED
        BY <4>1, <4>2, RestrictIsDict DEF Records
    <3>2. CASE ~Readable(source)
      <4>1. paths = {}
        BY <3>2
      <4>. QED
        BY <4>1, MakesDict DEF Restrict, Records
    <3>. QED
      BY <3>1, <3>2
  <2>. HIDE DEF paths
  <2>. QED
    BY <2>2, HeldTypes, OverrideIsDict, TypeParts DEF Records
<1>8. Puts(q, a) /\ handle' = handle
  BY <1>6 DEF CopyFails
<1>9. FilesTyped'
  <2>. HIDE DEF a
  <2>. QED
    BY <1>7, <1>8, PutsTypes, TypeParts
<1>. QED
  BY <1>5, <1>9, Together, TypeParts, FixUnchanged, EndsUnchanged DEF CopyFails

LEMMA CloseOutTypes ==
    ASSUME IInv, NEW q \in Proc, CloseOut(q)
    PROVE  IInv'
<1>. DEFINE c == cat[q]
            a == [Held(q) EXCEPT !.kind = "zip64"]
            d == [c EXCEPT !.pc = IF c.failing THEN "finally" ELSE "rename"]
<1>1. c # None /\ c \in CatLocals
  BY CatOf, TypeParts DEF CloseOut, Closes, InCat
<1>2. d \in CatLocals
  BY <1>1, PcTypes
<1>3. d.recordFiles = c.recordFiles /\ d.inputs = c.inputs
  BY <1>1 DEF CatLocals
<1>4. CatGoes(q, d) /\ Puts(q, a) /\ handle' = [handle EXCEPT ![q] = None]
  BY DEF CloseOut, Closes
<1>5. CatTyped'
  <2>. HIDE DEF d
  <2>. QED
    BY <1>1, <1>2, <1>3, <1>4, CatGoesTypes, TypeParts DEF CatTyped
<1>6. handle[q] # None => a \in Archive
  BY HeldTypes, TypeParts
<1>7. FilesTyped'
  <2>. HIDE DEF a
  <2>. QED
    BY <1>4, <1>6, PutsTypes, TypeParts
<1>. QED
  BY <1>5, <1>7, Together, TypeParts, FixUnchanged, EndsUnchanged DEF CloseOut, Closes

LEMMA CloseOutFailsTypes ==
    ASSUME IInv, NEW q \in Proc, CloseOutFails(q)
    PROVE  IInv'
<1>. DEFINE c == cat[q]
            d == [c EXCEPT !.pc = IF c.failing THEN "finally" ELSE "rename"]
<1>1. c # None /\ c \in CatLocals
  BY CatOf, TypeParts DEF CloseOutFails, Closes, InCat
<1>2. d \in CatLocals
  BY <1>1, PcTypes
<1>3. d.recordFiles = c.recordFiles /\ d.inputs = c.inputs
  BY <1>1 DEF CatLocals
<1>4. CatGoes(q, d) /\ UNCHANGED file /\ handle' = [handle EXCEPT ![q] = None]
  BY DEF CloseOutFails, Closes
<1>5. CatTyped'
  <2>. HIDE DEF d
  <2>. QED
    BY <1>1, <1>2, <1>3, <1>4, CatGoesTypes, TypeParts DEF CatTyped
<1>6. FilesTyped'
  BY <1>4, TypeParts DEF FilesTyped, HandlesExist, Exists
<1>. QED
  BY <1>5, <1>6, Together, TypeParts, FixUnchanged, EndsUnchanged DEF CloseOutFails, Closes

LEMMA RenameOutputTypes ==
    ASSUME IInv, NEW q \in Proc, RenameOutput(q)
    PROVE  IInv'
<1>. DEFINE c == cat[q]
            d == [c EXCEPT !.pc = "finally", !.failing = SamefileRaises(c.temp, c.output)]
<1>1. c # None /\ c \in CatLocals /\ c.temp \in Name /\ c.output \in Name
  BY CatOf, TypeParts DEF RenameOutput, InCat
<1>2. d \in CatLocals
  BY <1>1, PcTypes DEF SamefileRaises
<1>3. d.recordFiles = c.recordFiles /\ d.inputs = c.inputs
  BY <1>1 DEF CatLocals
<1>4. CatGoes(q, d)
  BY DEF RenameOutput
<1>5. CatTyped'
  <2>. HIDE DEF d
  <2>. QED
    BY <1>1, <1>2, <1>3, <1>4, CatGoesTypes, TypeParts DEF CatTyped
<1>6. FilesTyped'
  BY <1>1, RenamesTypes, FilesUnchanged, TypeParts DEF RenameOutput, SamefileRaises
<1>. QED
  BY <1>5, <1>6, Together, TypeParts, FixUnchanged, EndsUnchanged DEF RenameOutput

LEMMA RenameFailsTypes ==
    ASSUME IInv, NEW q \in Proc, RenameFails(q)
    PROVE  IInv'
<1>. DEFINE c == cat[q]
            d == [c EXCEPT !.pc = "finally", !.failing = TRUE]
<1>1. c # None /\ c \in CatLocals
  BY CatOf, TypeParts DEF RenameFails, InCat
<1>2. d \in CatLocals
  BY <1>1, PcTypes
<1>3. d.recordFiles = c.recordFiles /\ d.inputs = c.inputs
  BY <1>1 DEF CatLocals
<1>4. CatGoes(q, d) /\ UNCHANGED <<file, handle, fix, outcome, runs>>
  BY DEF RenameFails
<1>5. CatTyped'
  <2>. HIDE DEF d
  <2>. QED
    BY <1>1, <1>2, <1>3, <1>4, CatGoesTypes, TypeParts DEF CatTyped
<1>. QED
  BY <1>4, <1>5, Together, TypeParts, FilesUnchanged, FixUnchanged, EndsUnchanged

LEMMA CatFinallyTypes ==
    ASSUME IInv, NEW q \in Proc, CatFinally(q)
    PROVE  IInv'
<1>1. cat[q].temp \in Name /\ cat[q].failing \in BOOLEAN
  BY CatOf, TypeParts DEF CatFinally, InCat
<1>2. FilesTyped'
  BY <1>1, RemovesTypes, FilesUnchanged, TypeParts DEF CatFinally
<1>. DEFINE raises == cat[q].failing \/ (Leftover(cat[q].temp, cat[q].output) /\ ~Exists(cat[q].output))
<1>3. CatEnds(q, raises) /\ UNCHANGED runs /\ raises \in BOOLEAN
  BY <1>1 DEF CatFinally, Leftover, Exists
<1>. HIDE DEF raises
<1>. QED
  BY <1>2, <1>3, CatEndsTypes, Together, TypeParts

LEMMA FixTryTypes ==
    ASSUME IInv, NEW q \in Proc, FixTry(q)
    PROVE  IInv'
<1>. DEFINE x == [fix[q] EXCEPT !.pc = "name", !.needsFix = ~Readable(fix[q].input)]
<1>1. fix[q] \in FixLocals
  BY FixOf, TypeParts DEF FixTry, InFix
<1>2. x \in FixLocals
  BY <1>1 DEF FixLocals, Readable, Exists
<1>3. UNCHANGED <<file, cat, handle, runs>>
  BY DEF FixTry
<1>4. FixEnds(q, FALSE) \/ FixEnds(q, TRUE) \/ (FixGoes(q, x) /\ UNCHANGED outcome)
  BY DEF FixTry
<1>. HIDE DEF x
<1>5. FixTyped' /\ EndsTyped'
  BY <1>2, <1>3, <1>4, FixEndsTypes, FixGoesTypes, EndsUnchanged, TypeParts
<1>. QED
  BY <1>3, <1>5, Together, TypeParts, FilesUnchanged, CatUnchanged

LEMMA FixChooseNameTypes ==
    ASSUME IInv, NEW q \in Proc, FixChooseName(q)
    PROVE  IInv'
<1>1. fix[q] \in FixLocals /\ fix[q].temp \in Name
  BY FixOf, TypeParts DEF FixChooseName, InFix
<1>2. Taken(fix[q].temp) => Longer(fix[q].temp) \in Name
  BY <1>1, NamesAre DEF FixChooseName
<1>3. PICK x : FixGoes(q, x) /\ x \in FixLocals
  <2>1. CASE Taken(fix[q].temp)
    <3>1. [fix[q] EXCEPT !.temp = Longer(@)] \in FixLocals
      BY <1>1, <1>2, <2>1 DEF FixLocals
    <3>. QED
      BY <2>1, <3>1 DEF FixChooseName
  <2>2. CASE ~Taken(fix[q].temp)
    <3>1. [fix[q] EXCEPT !.pc = IF fix[q].needsFix THEN "rebuild" ELSE "convert"] \in FixLocals
      BY <1>1 DEF FixLocals
    <3>. QED
      BY <2>2, <3>1 DEF FixChooseName
  <2>. QED
    BY <2>1, <2>2
<1>4. FixTyped'
  BY <1>3, FixGoesTypes, TypeParts
<1>. QED
  BY <1>4, Together, TypeParts, FilesUnchanged, CatUnchanged, EndsUnchanged DEF FixChooseName

LEMMA MadeTypes ==
    ASSUME FilesTyped, NEW n \in Name, NEW a \in Archive, file' = [file EXCEPT ![n] = a], UNCHANGED handle
    PROVE  FilesTyped'
<1>1. file' \in [Name -> Archive \cup {None}]
  BY DEF FilesTyped
<1>2. \A m \in Name : file[m] # None => file'[m] # None
  BY NoneIsNone DEF FilesTyped
<1>3. \A r \in Proc : handle[r] # None => handle[r] \in Name /\ file[handle[r]] # None
  BY DEF FilesTyped, HandlesExist, Exists
<1>. QED
  BY <1>1, <1>2, <1>3 DEF FilesTyped, HandlesExist, Exists

LEMMA RebuildTypes ==
    ASSUME IInv, NEW q \in Proc, Rebuild(q)
    PROVE  IInv'
<1>1. fix[q] \in FixLocals /\ fix[q].temp \in Name /\ fix[q].input \in Name
  BY FixOf, TypeParts DEF Rebuild, InFix
<1>2. PICK x : FixGoes(q, x) /\ x \in FixLocals
  <2>1. \A fails \in BOOLEAN :
          [fix[q] EXCEPT !.pc = IF fails THEN "finally" ELSE "convert", !.failing = fails] \in FixLocals
    BY <1>1 DEF FixLocals
  <2>2. [fix[q] EXCEPT !.pc = "finally", !.failing = TRUE] \in FixLocals
    BY <1>1 DEF FixLocals
  <2>. QED
    BY <2>1, <2>2 DEF Rebuild
<1>3. FixTyped'
  BY <1>2, FixGoesTypes, TypeParts
<1>4. FilesTyped'
  <2>1. CASE UNCHANGED file
    BY <2>1, FilesUnchanged, TypeParts DEF Rebuild
  <2>2. ASSUME Exists(fix[q].input), NEW S \in SUBSET DOMAIN file[fix[q].input].records,
               NEW kind \in {"zip32", "zip64"},
               file' = [file EXCEPT ![fix[q].temp] =
                          [kind |-> kind, records |-> Restrict(file[fix[q].input].records, S)]]
        PROVE  FilesTyped'
    <3>1. Restrict(file[fix[q].input].records, S) \in Records
      BY <1>1, <2>2, FileOf, TypeParts, RestrictIsDict DEF Records
    <3>2. [kind |-> kind, records |-> Restrict(file[fix[q].input].records, S)] \in Archive
      BY <3>1 DEF Archive
    <3>. QED
      BY <1>1, <2>2, <3>2, MadeTypes, TypeParts DEF Rebuild
  <2>. QED
    BY <2>1, <2>2 DEF Rebuild
<1>. QED
  BY <1>3, <1>4, Together, TypeParts, CatUnchanged, EndsUnchanged DEF Rebuild

LEMMA ConvertTypes ==
    ASSUME IInv, NEW q \in Proc, Convert(q)
    PROVE  IInv'
<1>. DEFINE x     == fix[q]
            fixed == IF x.needsFix THEN x.temp ELSE x.input
            y == [x EXCEPT !.pc = IF Readable(fixed) THEN "rename" ELSE "finally",
                           !.failing = ~Readable(fixed)]
<1>1. x \in FixLocals /\ x.temp \in Name /\ fixed \in Name
  BY FixOf, TypeParts DEF Convert, InFix
<1>2. CatCall(<<fixed>>, x.temp) \in CatLocals
  <2>1. <<fixed>> \in Seq(Name)
    BY <1>1
  <2>. QED
    BY <1>1, <2>1, CallTypes
<1>3. DOMAIN CatCall(<<fixed>>, x.temp).recordFiles = {}
  BY DEF CatCall
<1>4. y \in FixLocals
  BY <1>1 DEF FixLocals, Readable, Exists
<1>5. \/ CatGoes(q, CatCall(<<fixed>>, x.temp)) /\ UNCHANGED fix
      \/ FixGoes(q, y) /\ UNCHANGED cat
  BY DEF Convert
<1>6. CatTyped' /\ FixTyped'
  <2>. HIDE DEF y
  <2>. QED
    BY <1>2, <1>3, <1>4, <1>5, CatGoesTypes, FixGoesTypes, CatUnchanged, FixUnchanged, TypeParts
<1>. QED
  BY <1>6, Together, TypeParts, FilesUnchanged, EndsUnchanged DEF Convert

LEMMA FixRenameTypes ==
    ASSUME IInv, NEW q \in Proc, FixRename(q)
    PROVE  IInv'
<1>. DEFINE x == fix[q]
            y == [x EXCEPT !.pc = "finally", !.failing = Leftover(x.temp, x.output) /\ ~Exists(x.output)]
<1>1. x \in FixLocals /\ x.temp \in Name /\ x.output \in Name
  BY FixOf, TypeParts DEF FixRename, InFix
<1>2. y \in FixLocals
  BY <1>1 DEF FixLocals, Leftover, Exists
<1>3. FixTyped'
  BY <1>2, FixGoesTypes, TypeParts DEF FixRename
<1>4. FilesTyped'
  BY <1>1, RenamesTypes, FilesUnchanged, TypeParts DEF FixRename, Leftover
<1>. QED
  BY <1>3, <1>4, Together, TypeParts, CatUnchanged, EndsUnchanged DEF FixRename

LEMMA FixRenameFailsTypes ==
    ASSUME IInv, NEW q \in Proc, FixRenameFails(q)
    PROVE  IInv'
<1>. DEFINE y == [fix[q] EXCEPT !.pc = "finally", !.failing = TRUE]
<1>1. fix[q] \in FixLocals
  BY FixOf, TypeParts DEF FixRenameFails, InFix
<1>2. y \in FixLocals
  BY <1>1 DEF FixLocals
<1>3. FixTyped'
  BY <1>2, FixGoesTypes, TypeParts DEF FixRenameFails
<1>. QED
  BY <1>3, Together, TypeParts, FilesUnchanged, CatUnchanged, EndsUnchanged DEF FixRenameFails

LEMMA FixFinallyTypes ==
    ASSUME IInv, NEW q \in Proc, FixFinally(q)
    PROVE  IInv'
<1>1. fix[q].temp \in Name /\ fix[q].failing \in BOOLEAN
  BY FixOf, TypeParts DEF FixFinally, InFix
<1>2. FilesTyped'
  BY <1>1, RemovesTypes, FilesUnchanged, TypeParts DEF FixFinally
<1>. DEFINE raises == fix[q].failing \/ (Leftover(fix[q].temp, fix[q].output) /\ ~Exists(fix[q].output))
<1>3. FixEnds(q, raises) /\ UNCHANGED <<cat, runs>> /\ raises \in BOOLEAN
  BY <1>1 DEF FixFinally, Leftover, Exists
<1>. HIDE DEF raises
<1>. QED
  BY <1>2, <1>3, FixEndsTypes, CatUnchanged, Together, TypeParts

LEMMA DieTypes ==
    ASSUME IInv, NEW q \in Proc, Die(q)
    PROVE  IInv'
<1>1. CatTyped'
  BY CatGoesTypes, TypeParts DEF Die, CatGoes
<1>2. FixTyped' /\ EndsTyped'
  BY TypeParts DEF Die, FixTyped, EndsTyped
<1>3. FilesTyped'
  BY TypeParts DEF Die, FilesTyped, HandlesExist, Exists
<1>. QED
  BY <1>1, <1>2, <1>3, Together, TypeParts

LEMMA StutterTypes ==
    ASSUME IInv, UNCHANGED vars
    PROVE  IInv'
BY Together, TypeParts, FilesUnchanged, CatUnchanged, FixUnchanged, EndsUnchanged DEF vars

LEMMA NextTypes == IInv /\ [Next]_vars => IInv'
<1>. SUFFICES ASSUME IInv, [Next]_vars PROVE IInv'
  OBVIOUS
<1>1. CASE UNCHANGED vars
  BY <1>1, StutterTypes
<1>2. ASSUME NEW q \in Proc, Step(q)
      PROVE  IInv'
  BY <1>2, ChooseNameTypes, IndexTypes, CreateTypes, CreateFailsTypes, CopySourceTypes, CopyFailsTypes,
     CloseOutTypes, CloseOutFailsTypes, RenameOutputTypes, RenameFailsTypes, CatFinallyTypes, FixTryTypes,
     FixChooseNameTypes, RebuildTypes, ConvertTypes, FixRenameTypes, FixRenameFailsTypes, FixFinallyTypes
     DEF Step
<1>. QED
  BY <1>1, <1>2, StartCatTypes, StartFixTypes, DieTypes DEF Next

\* The files and the locals of the tools keep their types, and what a process writes to has
\* a name that exists, whatever they do to each other's files (gtar/cat.py:41-75,
\* gtar/fix.py:90-126).
THEOREM Typed == Spec => []TypeOK
<1>1. IInv => TypeOK
  BY DEF IInv
<1>. QED
  BY <1>1, InitTypes, NextTypes, PTL DEF Spec

-----------------------------------------------------------------------------
(* What one process changes is not what another looks at *)

TaskNext ==
    task' = [q \in Proc |-> IF Idle(cat'[q], fix'[q]) THEN None
                            ELSE IF Idle(cat[q], fix[q]) THEN Begun(q) ELSE task[q]]
UnclosedNext ==
    unclosed' = {q \in Proc : /\ ~Idle(cat'[q], fix'[q])
                              /\ q \in unclosed \/ CloseOutFails(q)}
HistoryNext == TaskNext /\ UnclosedNext
DiedNext == died' = (died \/ \E q \in Proc : outcome'[q] = "died")

SameHistory(r) == task'[r] = task[r] /\ (r \in unclosed' <=> r \in unclosed)

SameLocals(r) ==
    cat'[r] = cat[r] /\ fix'[r] = fix[r] /\ handle'[r] = handle[r] /\ SameHistory(r)

\* Process q changes its own locals, and files with the base of its output.
Frame(q) ==
    /\ \A r \in Proc \ {q} : SameLocals(r)
    /\ \A n \in Name : (Active(q) /\ n.base = Output(q).base) \/ file'[n] = file[n]

LEMMA OwnedParts ==
    ASSUME Owned, NEW q \in Proc
    PROVE  /\ FilesTyped /\ CatTyped /\ FixTyped
           /\ CatNames(q) /\ FixNames(q) /\ HandleIs(q) /\ OutputNew(q) /\ GivenNames(q)
           /\ CatData(q) /\ FixData(q)
           /\ Active(q) => task[q] \in Tasks
           /\ task[q] # None <=> Active(q)
BY TypeParts DEF Owned, Shape, TaskTyped

LEMMA OutputOf ==
    ASSUME Owned, NEW q \in Proc, Active(q)
    PROVE  /\ Output(q) \in Name /\ Output(q).k = 0 /\ Makes(q) = {Output(q)} /\ Output(q) \in Uses(q)
           /\ Uses(q) \subseteq Name /\ \A n \in Uses(q) : n.k = 0
<1>1. Makes(q) = {Output(q)} /\ Output(q) \in Uses(q)
  BY DEF Active, Idle, Output, Makes, Uses
<1>2. Uses(q) \subseteq Given
  BY OwnedParts DEF GivenNames
<1>. QED
  BY <1>1, <1>2, GivenAre

LEMMA OthersNames ==
    ASSUME Owned, NEW q \in Proc, NEW r \in Proc, q # r, Active(q), Active(r),
           NEW n \in Name, Near(r, n)
    PROVE  n.base # Output(q).base
<1>1. Makes(q) \cap Uses(r) = {}
  BY DEF Owned, Separate
<1>2. \A u \in Uses(r) : u.base # Output(q).base
  BY <1>1, OutputOf, SameName
<1>. QED
  BY <1>2, OutputOf DEF Near

\* The names of cat's locals are near, with those of the files that were listed.
LEMMA CatNear ==
    ASSUME Owned, NEW q \in Proc, cat[q] # None
    PROVE  /\ Active(q)
           /\ cat[q].temp \in Name /\ Near(q, cat[q].temp)
           /\ cat[q].output \in Name /\ Near(q, cat[q].output)
           /\ \A i \in 1..Len(cat[q].inputs) : cat[q].inputs[i] \in Name /\ Near(q, cat[q].inputs[i])
           /\ \A p \in DOMAIN cat[q].recordFiles : \E i \in 1..Len(cat[q].inputs) :
                cat[q].recordFiles[p] = cat[q].inputs[i]
<1>1. cat[q].temp \in Name /\ cat[q].output \in Name
  BY CatOf, OwnedParts
<1>2. cat[q].inputs \in Seq(Name) /\ DOMAIN cat[q].inputs = 1..Len(cat[q].inputs)
  <2>1. cat[q].inputs \in Seq(Name)
    BY CatOf, OwnedParts
  <2>. QED
    BY <2>1
<1>3. \A i \in 1..Len(cat[q].inputs) : cat[q].inputs[i] \in Name
  BY CatOf, OwnedParts
<1>4. CatNames(q) /\ CatTyped
  BY OwnedParts
<1>. QED
  BY <1>1, <1>2, <1>3, <1>4 DEF CatNames, CatTyped, Near, Active, Idle, Range

LEMMA FixNear ==
    ASSUME Owned, NEW q \in Proc, fix[q] # None
    PROVE  /\ Active(q) /\ Output(q) = fix[q].output
           /\ fix[q].temp \in Name /\ Near(q, fix[q].temp)
           /\ fix[q].output \in Name /\ Near(q, fix[q].output)
           /\ fix[q].input \in Name /\ Near(q, fix[q].input)
<1>1. FixNames(q) /\ fix[q].temp \in Name /\ fix[q].output \in Name /\ fix[q].input \in Name
  BY OwnedParts, FixOf
<1>. QED
  BY <1>1 DEF FixNames, Near, Active, Idle, Output, Uses

-----------------------------------------------------------------------------
(* When the files that are used are the same *)

InputsSame(q) == \A i \in 1..Len(cat[q].inputs) : file'[cat[q].inputs[i]] = file[cat[q].inputs[i]]

LEMMA MergedSame ==
    ASSUME NEW inputs \in Seq(Name), \A i \in 1..Len(inputs) : file'[inputs[i]] = file[inputs[i]]
    PROVE  Merged(inputs)' = Merged(inputs)
<1>1. DOMAIN inputs = 1..Len(inputs) /\ Len(inputs) \in Nat
  OBVIOUS
<1>2. Inputs(inputs)' = Inputs(inputs) /\ Inputs(inputs) \subseteq 1..Len(inputs)
  BY <1>1 DEF Inputs, Readable, Exists
<1>. DEFINE Holding(p)     == {i \in Inputs(inputs) : p \in DOMAIN file[inputs[i]].records}
            HoldingNext(p) == {i \in Inputs(inputs)' : p \in DOMAIN file'[inputs[i]].records}
            Last(S)        == CHOOSE i \in S : \A j \in S : j <= i
            paths1         == UNION {DOMAIN file[inputs[i]].records : i \in Inputs(inputs)}
            paths2         == UNION {DOMAIN file'[inputs[i]].records : i \in Inputs(inputs)'}
<1>3. ASSUME NEW p
      PROVE  HoldingNext(p) = Holding(p) /\ Holding(p) \subseteq 1..Len(inputs)
  BY <1>2
<1>4. paths2 = paths1 /\ \A p \in paths1 : Holding(p) # {}
  BY <1>2
<1>5. /\ Merged(inputs) = [p \in paths1 |-> file[inputs[Last(Holding(p))]].records[p]]
      /\ Merged(inputs)' = [p \in paths2 |-> file'[inputs[Last(HoldingNext(p))]].records[p]]
  BY DEF Merged
<1>6. ASSUME NEW p \in paths1
      PROVE  Last(Holding(p)) \in 1..Len(inputs)
  <2>. DEFINE S == Holding(p)
  <2>1. S \in SUBSET (1..Len(inputs)) /\ S # {}
    BY <1>3, <1>4
  <2>. HIDE DEF S
  <2>2. \E i \in S : \A j \in S : j <= i
    BY <1>1, <2>1, LastPosition
  <2>3. Last(S) \in S
    BY <2>2
  <2>. QED
    BY <2>1, <2>3 DEF S
<1>. HIDE DEF Holding, HoldingNext, Last, paths1, paths2
<1>7. \A p \in paths1 : file'[inputs[Last(HoldingNext(p))]] = file[inputs[Last(Holding(p))]]
  BY <1>3, <1>6
<1>. QED
  BY <1>4, <1>5, <1>7

LEMMA MergedInputsSame ==
    ASSUME CatTyped, NEW q \in Proc, cat[q] # None, InputsSame(q), cat'[q].inputs = cat[q].inputs
    PROVE  Merged(cat[q].inputs)' = Merged(cat[q].inputs)
<1>1. cat[q].inputs \in Seq(Name)
  BY CatOf
<1>. DEFINE inputs == cat[q].inputs
<1>2. inputs \in Seq(Name) /\ \A i \in 1..Len(inputs) : file'[inputs[i]] = file[inputs[i]]
  BY <1>1 DEF InputsSame
<1>. HIDE DEF inputs
<1>. QED
  BY <1>2, MergedSame DEF inputs

LEMMA ListedSame ==
    ASSUME CatTyped, NEW q \in Proc, cat[q] # None, Listed(q), InputsSame(q),
           cat'[q].inputs = cat[q].inputs, cat'[q].next = cat[q].next,
           cat'[q].recordFiles = cat[q].recordFiles
    PROVE  Listed(q)'
<1>. DEFINE before == 1..(cat[q].next - 1)
<1>1. \A i \in before : i \in 1..Len(cat[q].inputs)
  BY CatOf DEF Listed
<1>2. \A i \in before : file'[cat[q].inputs[i]] = file[cat[q].inputs[i]]
  BY <1>1 DEF InputsSame
<1>3. ASSUME NEW i \in before
      PROVE  /\ i <= Len(cat'[q].inputs)
             /\ Readable(cat[q].inputs[i])'
             /\ DOMAIN file'[cat'[q].inputs[i]].records \subseteq DOMAIN cat'[q].recordFiles
  BY <1>2 DEF Listed, Readable, Exists
<1>4. ASSUME NEW p, NEW i \in before, IsLast(q, p, i)
      PROVE  IsLast(q, p, i)'
  BY <1>2, <1>4 DEF IsLast
<1>5. ASSUME NEW p \in DOMAIN cat'[q].recordFiles
      PROVE  \E i \in before : cat'[q].recordFiles[p] = cat'[q].inputs[i] /\ IsLast(q, p, i)'
  BY <1>4 DEF Listed
<1>. QED
  BY <1>3, <1>5 DEF Listed

LEMMA CopiedSame ==
    ASSUME NEW q \in Proc, Copied(q), cat'[q].temp = cat[q].temp, cat'[q].left = cat[q].left,
           cat'[q].recordFiles = cat[q].recordFiles, file'[cat[q].temp] = file[cat[q].temp],
           \A p \in DOMAIN cat[q].recordFiles : file'[cat[q].recordFiles[p]] = file[cat[q].recordFiles[p]]
    PROVE  Copied(q)'
<1>. DEFINE done == {x \in DOMAIN cat[q].recordFiles : cat[q].recordFiles[x] \notin cat[q].left}
<1>1. \A p \in done : file'[cat[q].recordFiles[p]].records[p] = file[cat[q].recordFiles[p]].records[p]
  OBVIOUS
<1>2. [p \in done |-> file'[cat[q].recordFiles[p]].records[p]]
        = [p \in done |-> file[cat[q].recordFiles[p]].records[p]]
  BY <1>1
<1>3. file[cat[q].temp].records = [p \in done |-> file[cat[q].recordFiles[p]].records[p]]
  BY DEF Copied
<1>4. done = {x \in DOMAIN cat'[q].recordFiles : cat'[q].recordFiles[x] \notin cat'[q].left}
  OBVIOUS
<1>. HIDE DEF done
<1>5. file'[cat'[q].temp].records = [p \in done |-> file'[cat'[q].recordFiles[p]].records[p]]
  BY <1>2, <1>3
<1>. QED
  BY <1>4, <1>5 DEF Copied

LEMMA NearSame ==
    ASSUME NEW q \in Proc, cat'[q] = cat[q], fix'[q] = fix[q]
    PROVE  /\ Active(q)' <=> Active(q)
           /\ Output(q)' = Output(q) /\ Uses(q)' = Uses(q) /\ Makes(q)' = Makes(q)
           /\ \A n : Near(q, n)' <=> Near(q, n)
           /\ InCat(q, "copy")' <=> InCat(q, "copy")
BY DEF Active, Idle, Output, Uses, Makes, Near, InCat

\* A process of which neither the locals nor the files have changed.
LEMMA ShapeSame ==
    ASSUME Owned, NEW q \in Proc, SameLocals(q),
           \A n \in Name : Active(q) /\ Near(q, n) => file'[n] = file[n]
    PROVE  Shape(q)'
<1>1. /\ CatNames(q) /\ FixNames(q) /\ HandleIs(q) /\ OutputNew(q) /\ GivenNames(q)
      /\ CatData(q) /\ FixData(q) /\ CatTyped
  BY OwnedParts
<1>2. /\ cat'[q] = cat[q] /\ fix'[q] = fix[q] /\ handle'[q] = handle[q] /\ task'[q] = task[q]
      /\ q \in unclosed' <=> q \in unclosed
  BY DEF SameLocals, SameHistory
<1>3. Active(q) => file'[Output(q)] = file[Output(q)]
  BY OutputOf DEF Near
<1>4. cat[q] # None => /\ file'[cat[q].temp] = file[cat[q].temp]
                       /\ file'[cat[q].output] = file[cat[q].output]
                       /\ InputsSame(q)
                       /\ \A p \in DOMAIN cat[q].recordFiles :
                            file'[cat[q].recordFiles[p]] = file[cat[q].recordFiles[p]]
  BY CatNear DEF InputsSame
<1>5. fix[q] # None => /\ file'[fix[q].temp] = file[fix[q].temp]
                       /\ file'[fix[q].output] = file[fix[q].output]
                       /\ file'[fix[q].input] = file[fix[q].input]
  BY FixNear
<1>6. CatNames(q)'
  BY <1>1, <1>2, <1>4, NearSame DEF CatNames, Exists
<1>7. FixNames(q)'
  BY <1>1, <1>2, <1>5 DEF FixNames, Exists
<1>8. HandleIs(q)'
  BY <1>1, <1>2, NearSame DEF HandleIs
<1>9. OutputNew(q)'
  BY <1>1, <1>2, <1>3, NearSame DEF OutputNew, Exists
<1>10. GivenNames(q)'
  BY <1>1, <1>2, NearSame DEF GivenNames
<1>11. CatData(q)'
  <2>. SUFFICES ASSUME cat[q] # None
                PROVE  CatData(q)'
    BY <1>2 DEF CatData
  <2>1. Merged(cat[q].inputs)' = Merged(cat[q].inputs)
    BY <1>1, <1>2, <1>4, MergedInputsSame
  <2>2. Listed(q) => Listed(q)'
    BY <1>1, <1>2, <1>4, ListedSame
  <2>3. Copied(q) => Copied(q)'
    BY <1>2, <1>4, CopiedSame
  <2>. QED
    BY <1>1, <1>2, <1>4, <2>1, <2>2, <2>3 DEF CatData, Made, Exists
<1>12. FixData(q)'
  BY <1>1, <1>2, <1>5 DEF FixData, TakesInput, Made, Readable, Exists
<1>. QED
  BY <1>6, <1>7, <1>8, <1>9, <1>10, <1>11, <1>12 DEF Shape

LEMMA OthersShape ==
    ASSUME Owned, NEW q \in Proc, Frame(q), NEW r \in Proc, r # q
    PROVE  Shape(r)'
<1>1. \A n \in Name : Active(r) /\ Near(r, n) => file'[n] = file[n]
  BY OthersNames DEF Frame
<1>. QED
  BY <1>1, ShapeSame DEF Frame

-----------------------------------------------------------------------------
(* What an action of one process has to keep *)

\* Temporary files of which q has the name now, and did not before, are new.
Kept(q) == died' \/ \A n \in Name :
    n.k > 0 /\ file'[n] # None => Holds(q, n)' \/ (file[n] # None /\ ~Holds(q, n))

Changes(q) == \A n \in Name : n.k = 0 /\ file'[n] # file[n] =>
    Active(q) /\ n = Output(q) /\ (task[q].fresh \/ Made(q, file'[n]))

UseSame(q) == Uses(q)' \subseteq Uses(q) /\ Makes(q)' \subseteq Makes(q)

Own(q) == Frame(q) /\ Shape(q)' /\ UseSame(q) /\ Kept(q) /\ Changes(q)

\* A step of cat.main, after which its locals are d.
CatMove(q, d) ==
    /\ cat[q] # None /\ d \in CatLocals
    /\ d.inputs = cat[q].inputs /\ d.output = cat[q].output
    /\ CatGoes(q, d) /\ UNCHANGED fix

LEMMA OthersLocals ==
    ASSUME Owned, HistoryNext, NEW q \in Proc, NEW r \in Proc, r # q, cat'[r] = cat[r], fix'[r] = fix[r]
    PROVE  SameHistory(r)
<1>1. (task[r] # None <=> Active(r)) /\ (r \in unclosed => Active(r))
  BY OwnedParts DEF Owned
<1>2. ~CloseOutFails(r)
  <2>1. CASE InCat(r, "copy")
    <3>1. cat[r] \in CatLocals /\ cat[r].failing \in BOOLEAN
      BY <2>1, CatOf, OwnedParts DEF InCat
    <3>2. cat[r].pc = "copy"
      BY <2>1 DEF InCat
    <3>. DEFINE to == IF cat[r].failing THEN "finally" ELSE "rename"
    <3>3. [cat[r] EXCEPT !.pc = to].pc = to
      BY <3>1 DEF CatLocals
    <3>4. cat' = [cat EXCEPT ![r] = [cat[r] EXCEPT !.pc = to]] => cat'[r].pc = to
      BY <3>3, OwnedParts DEF CatTyped
    <3>. QED
      BY <3>2, <3>4 DEF CloseOutFails, Closes, CatGoes
  <2>. QED
    BY <2>1 DEF CloseOutFails, Closes
<1>3. task'[r] = task[r]
  BY <1>1 DEF HistoryNext, TaskNext, Active, Idle
<1>4. r \in unclosed' <=> r \in unclosed
  BY <1>1, <1>2 DEF HistoryNext, UnclosedNext, Active, Idle
<1>. QED
  BY <1>3, <1>4 DEF SameHistory

LEMMA CatMoves ==
    ASSUME Owned, HistoryNext, NEW q \in Proc, NEW d, CatMove(q, d)
    PROVE  /\ cat'[q] = d /\ d # None /\ fix'[q] = fix[q] /\ task'[q] = task[q]
           /\ q \in unclosed \/ CloseOutFails(q) => q \in unclosed'
           /\ \A r \in Proc \ {q} : cat'[r] = cat[r] /\ fix'[r] = fix[r] /\ SameHistory(r)
           /\ Output(q)' = Output(q) /\ Active(q) /\ Active(q)'
           /\ Uses(q)' = Uses(q) /\ Makes(q)' = Makes(q)
           /\ \A n : Near(q, n)' <=> Near(q, n)
           /\ UseSame(q)
<1>1. cat'[q] = d /\ d # None /\ \A r \in Proc \ {q} : cat'[r] = cat[r] /\ fix'[r] = fix[r]
  BY OwnedParts, NoneIsNone DEF CatMove, CatGoes, CatTyped
<1>2. fix'[q] = fix[q] /\ cat[q] # None /\ d.inputs = cat[q].inputs /\ d.output = cat[q].output
  BY DEF CatMove
<1>3. task'[q] = task[q] /\ (q \in unclosed \/ CloseOutFails(q) => q \in unclosed')
  BY <1>1, <1>2 DEF HistoryNext, TaskNext, UnclosedNext, Idle
<1>4. Output(q)' = Output(q) /\ Uses(q)' = Uses(q) /\ Makes(q)' = Makes(q) /\ Active(q) /\ Active(q)'
  BY <1>1, <1>2 DEF Output, Uses, Makes, Active, Idle
<1>. QED
  BY <1>1, <1>2, <1>3, <1>4, OthersLocals DEF Near, UseSame

\* Of the shape, what does not depend on where cat is.
LEMMA CatMoveShape ==
    ASSUME Owned, HistoryNext, NEW q \in Proc, NEW d, CatMove(q, d),
           Exists(Output(q)) => file'[Output(q)] # None,
           d.pc # "name" /\ d.temp = Output(q) => task[q].fresh
    PROVE  FixNames(q)' /\ FixData(q)' /\ GivenNames(q)' /\ OutputNew(q)'
<1>1. CatNames(q) /\ FixNames(q) /\ GivenNames(q) /\ OutputNew(q) /\ cat[q] # None
  BY OwnedParts DEF CatMove
<1>2. /\ cat'[q] = d /\ d # None /\ fix'[q] = fix[q] /\ task'[q] = task[q]
      /\ Output(q)' = Output(q) /\ Active(q) /\ Uses(q)' = Uses(q)
  BY CatMoves
<1>3. fix[q] # None => fix[q].pc = "convert" /\ Output(q) = fix[q].output
  BY <1>1 DEF CatNames, Output
<1>4. FixNames(q)'
  BY <1>1, <1>2, <1>3 DEF FixNames, Exists
<1>5. FixData(q)'
  BY <1>2, <1>3 DEF FixData
<1>6. OutputNew(q)'
  BY <1>1, <1>2, <1>3 DEF OutputNew, Exists
<1>. QED
  BY <1>1, <1>2, <1>4, <1>5, <1>6 DEF GivenNames

\* Only file t has changed, which is a temporary file, or the output where there was none.
LEMMA OneChanged ==
    ASSUME Owned, NEW q \in Proc, Active(q), NEW t \in Name, t.base = Output(q).base,
           t = Output(q) => task[q].fresh,
           \A n \in Name \ {t} : file'[n] = file[n]
    PROVE  /\ \A n \in Name : (Active(q) /\ n.base = Output(q).base) \/ file'[n] = file[n]
           /\ Changes(q)
<1>1. ASSUME t.k = 0
      PROVE  t = Output(q)
  BY <1>1, OutputOf, SameName
<1>. QED
  BY <1>1 DEF Changes

LEMMA NoneChanged ==
    ASSUME NEW q \in Proc, UNCHANGED file
    PROVE  /\ \A n \in Name : (Active(q) /\ n.base = Output(q).base) \/ file'[n] = file[n]
           /\ Changes(q)
BY DEF Changes

LEMMA FrameOf ==
    ASSUME NEW q \in Proc,
           \A r \in Proc \ {q} : cat'[r] = cat[r] /\ fix'[r] = fix[r] /\ SameHistory(r),
           \A r \in Proc \ {q} : handle'[r] = handle[r],
           \A n \in Name : (Active(q) /\ n.base = Output(q).base) \/ file'[n] = file[n]
    PROVE  Frame(q)
BY DEF Frame, SameLocals

LEMMA OwnShape ==
    ASSUME NEW q \in Proc, CatNames(q)', FixNames(q)', HandleIs(q)', OutputNew(q)', GivenNames(q)',
           CatData(q)', FixData(q)', Frame(q), UseSame(q), Kept(q), Changes(q)
    PROVE  Own(q)
BY DEF Own, Shape

-----------------------------------------------------------------------------
(* The actions of cat.main *)

LEMMA OldOutput ==
    ASSUME Owned, NEW q \in Proc, Active(q), ~task[q].fresh
    PROVE  Exists(Output(q))
BY OwnedParts DEF OutputNew

LEMMA ChooseNameOwn ==
    ASSUME Owned, HistoryNext, NEW q \in Proc, ChooseName(q)
    PROVE  Own(q)
<1>1. cat[q] # None /\ cat[q].pc = "name" /\ cat[q] \in CatLocals /\ cat[q].temp \in Name
  BY CatOf, OwnedParts DEF ChooseName, InCat
<1>2. UNCHANGED <<file, handle, fix, outcome>>
  BY DEF ChooseName
<1>3. PICK d : /\ CatMove(q, d) /\ d.next = cat[q].next /\ d.recordFiles = cat[q].recordFiles
               /\ d.failing = cat[q].failing
               /\ \/ /\ Exists(cat[q].temp) /\ cat[q].temp.k < MaxTemps
                     /\ d.pc = "name" /\ d.temp = Longer(cat[q].temp)
                  \/ ~Exists(cat[q].temp) /\ d.pc = "index" /\ d.temp = cat[q].temp
  <2>1. CASE Taken(cat[q].temp)
    <3>. DEFINE d == [cat[q] EXCEPT !.temp = Longer(@)]
    <3>1. Longer(cat[q].temp) \in Name
      BY <1>1, <2>1, NamesAre DEF ChooseName
    <3>2. d \in CatLocals
      BY <1>1, <3>1, PcTypes
    <3>3. /\ d.next = cat[q].next /\ d.recordFiles = cat[q].recordFiles /\ d.inputs = cat[q].inputs
          /\ d.output = cat[q].output /\ d.pc = cat[q].pc /\ d.temp = Longer(cat[q].temp)
          /\ d.failing = cat[q].failing
      BY <1>1 DEF CatLocals
    <3>4. CatGoes(q, d) /\ cat[q].temp.k < MaxTemps
      BY <2>1 DEF ChooseName
    <3>. HIDE DEF d
    <3>. QED
      BY <1>1, <1>2, <2>1, <3>2, <3>3, <3>4 DEF CatMove, Taken
  <2>2. CASE ~Taken(cat[q].temp)
    <3>. DEFINE d == [cat[q] EXCEPT !.pc = "index"]
    <3>2. d \in CatLocals
      BY <1>1, PcTypes
    <3>3. /\ d.next = cat[q].next /\ d.recordFiles = cat[q].recordFiles /\ d.inputs = cat[q].inputs
          /\ d.output = cat[q].output /\ d.pc = "index" /\ d.temp = cat[q].temp
          /\ d.failing = cat[q].failing
      BY <1>1 DEF CatLocals
    <3>4. CatGoes(q, d)
      BY <2>2 DEF ChooseName
    <3>. HIDE DEF d
    <3>. QED
      BY <1>1, <1>2, <2>2, <3>2, <3>3, <3>4 DEF CatMove, Taken
  <2>. QED
    BY <2>1, <2>2
<1>4. CatNames(q) /\ HandleIs(q) /\ CatData(q) /\ FixNames(q) /\ CatTyped
  BY OwnedParts
<1>5. /\ cat'[q] = d /\ d # None /\ fix'[q] = fix[q] /\ task'[q] = task[q]
      /\ Output(q)' = Output(q) /\ Active(q) /\ \A n : Near(q, n)' <=> Near(q, n)
      /\ UseSame(q)
      /\ \A r \in Proc \ {q} : cat'[r] = cat[r] /\ fix'[r] = fix[r] /\ SameHistory(r)
  BY <1>3, CatMoves
<1>6. d.inputs = cat[q].inputs /\ d.output = cat[q].output
  BY <1>3 DEF CatMove
<1>7. d.pc # "name" /\ d.temp = Output(q) => task[q].fresh
  BY <1>3, <1>5, OldOutput
<1>8. FixNames(q)' /\ FixData(q)' /\ GivenNames(q)' /\ OutputNew(q)'
  BY <1>2, <1>3, <1>7, CatMoveShape DEF Exists
<1>9. CatNames(q)'
  <2>1. d.temp.base = cat[q].temp.base /\ d.temp.k >= cat[q].temp.k /\ cat[q].output.k \in Nat
        /\ d.temp.k \in Nat /\ cat[q].temp.k \in Nat
    BY <1>1, <1>3, <1>4, NamesAre, CatOf
  <2>2. d.temp # d.output => Exists(d.output)
    BY <1>1, <1>3, <1>4, <1>6 DEF CatNames
  <2>. QED
    BY <1>1, <1>2, <1>4, <1>5, <1>6, <2>1, <2>2 DEF CatNames, Exists
<1>10. HandleIs(q)'
  BY <1>1, <1>2, <1>3, <1>4, <1>5 DEF HandleIs, InCat
<1>11. CatData(q)'
  <2>1. cat[q].next = 1 /\ cat[q].recordFiles = <<>> /\ cat[q].failing = FALSE
        /\ Fits(task[q], Merged(cat[q].inputs))
    BY <1>1, <1>4 DEF CatData
  <2>2. Merged(cat[q].inputs)' = Merged(cat[q].inputs)
    BY <1>1, <1>2, <1>4, <1>5, <1>6, MergedInputsSame DEF InputsSame
  <2>3. Listed(q)'
    BY <1>3, <1>5, <2>1 DEF Listed
  <2>. QED
    BY <1>2, <1>3, <1>5, <2>1, <2>2, <2>3 DEF CatData, Exists
<1>12. Kept(q)
  BY <1>1, <1>2, <1>3, <1>5 DEF Kept, Holds
<1>. QED
  BY <1>2, <1>5, <1>8, <1>9, <1>10, <1>11, <1>12, NoneChanged, FrameOf, OwnShape

\* Listing one more input.
LEMMA IndexLists ==
    ASSUME Owned, NEW q \in Proc, cat[q] # None, Listed(q), cat[q].next <= Len(cat[q].inputs),
           Readable(cat[q].inputs[cat[q].next]),
           UNCHANGED file, cat'[q].inputs = cat[q].inputs, cat'[q].next = cat[q].next + 1,
           cat'[q].recordFiles = LastWins(cat[q].recordFiles, file[cat[q].inputs[cat[q].next]].records,
                                          cat[q].inputs[cat[q].next])
    PROVE  Listed(q)'
<1>1. PICK n \in Nat \ {0} : n = cat[q].next /\ cat[q].next + 1 - 1 = n
  <2>1. cat[q].next \in Nat \ {0}
    BY CatOf, OwnedParts
  <2>. QED
    BY <2>1
<1>. DEFINE input == cat[q].inputs[n]
            rs    == file[input].records
            map   == cat[q].recordFiles
            new   == cat'[q].recordFiles
<1>2. DOMAIN new = DOMAIN map \cup DOMAIN rs
      /\ \A p \in DOMAIN map \cup DOMAIN rs : new[p] = IF p \in DOMAIN rs THEN input ELSE map[p]
  <2>1. new = LastWins(map, rs, input)
    BY <1>1
  <2>. HIDE DEF rs, input, map, new
  <2>. QED
    BY <2>1 DEF LastWins, Override
<1>6. 1..(cat'[q].next - 1) = 1..n
  <2>1. cat'[q].next = n + 1 /\ n \in Nat
    BY <1>1
  <2>2. cat'[q].next - 1 = n
    BY <2>1
  <2>. QED
    BY <2>2
<1>3. \A i \in 1..n : i \in 1..(n - 1) \/ i = n
  BY <1>1
<1>4. ASSUME NEW i \in 1..n
      PROVE  /\ i <= Len(cat'[q].inputs)
             /\ Readable(cat[q].inputs[i])'
             /\ DOMAIN file'[cat'[q].inputs[i]].records \subseteq DOMAIN new
  <2>1. CASE i = n
    BY <1>1, <1>2, <2>1 DEF Readable, Exists
  <2>2. CASE i \in 1..(n - 1)
    <3>1. i <= Len(cat[q].inputs) /\ Readable(cat[q].inputs[i])
          /\ DOMAIN file[cat[q].inputs[i]].records \subseteq DOMAIN map
      BY <1>1, <2>2 DEF Listed
    <3>. QED
      BY <1>2, <3>1 DEF Readable, Exists
  <2>. QED
    BY <1>3, <2>1, <2>2
<1>5. ASSUME NEW p \in DOMAIN new
      PROVE  \E i \in 1..n : new[p] = cat'[q].inputs[i] /\ IsLast(q, p, i)'
  <2>1. CASE p \in DOMAIN rs
    <3>1. n \in 1..n /\ \A j \in 1..n : j <= n
      BY <1>1
    <3>2. IsLast(q, p, n)'
      <4>1. p \in DOMAIN file[cat[q].inputs[n]].records
        BY <2>1
      <4>. HIDE DEF new, map, rs, input
      <4>2. p \in DOMAIN file'[cat'[q].inputs[n]].records
        BY <4>1
      <4>3. \A j \in 1..(cat'[q].next - 1) : p \in DOMAIN file'[cat'[q].inputs[j]].records => j <= n
        BY <3>1, <1>6
      <4>. QED
        BY <4>2, <4>3 DEF IsLast
    <3>3. new[p] = cat'[q].inputs[n]
      <4>1. new[p] = input
        <5>. HIDE DEF rs, input, map, new
        <5>. QED
          BY <1>2, <2>1
      <4>. QED
        BY <4>1
    <3>. HIDE DEF new
    <3>4. new[p] = cat'[q].inputs[n] /\ IsLast(q, p, n)'
      BY <3>2, <3>3
    <3>. QED
      BY <3>1, <3>4
  <2>2. CASE p \notin DOMAIN rs
    <3>1. p \in DOMAIN map /\ new[p] = map[p]
      BY <1>2, <2>2
    <3>2. PICK i \in 1..(n - 1) : map[p] = cat[q].inputs[i] /\ IsLast(q, p, i)
      BY <1>1, <3>1 DEF Listed
    <3>3. i \in 1..n
      BY <1>1
    <3>4. IsLast(q, p, i)'
      <4>1. ASSUME NEW j \in 1..n, p \in DOMAIN file[cat[q].inputs[j]].records
            PROVE  j <= i
        <5>1. j # n
          BY <2>2, <4>1
        <5>2. j \in 1..(n - 1) /\ 1..(cat[q].next - 1) = 1..(n - 1)
          BY <1>1, <1>3, <5>1
        <5>. QED
          BY <3>2, <4>1, <5>2 DEF IsLast
      <4>2. p \in DOMAIN file'[cat'[q].inputs[i]].records
        BY <3>2 DEF IsLast
      <4>. HIDE DEF new, map, rs, input
      <4>3. \A j \in 1..(cat'[q].next - 1) : p \in DOMAIN file'[cat'[q].inputs[j]].records => j <= i
        BY <1>6, <4>1
      <4>. QED
        BY <4>2, <4>3 DEF IsLast
    <3>. QED
      BY <3>1, <3>2, <3>3, <3>4
  <2>. QED
    BY <2>1, <2>2
<1>. HIDE DEF map, rs, input
<1>. QED
  BY <1>4, <1>5, <1>6 DEF Listed

\* When cat.main has ended, q is idle or back in fix.main.
LEMMA CatEndsOwn ==
    ASSUME Owned, HistoryNext, NEW q \in Proc, NEW raises \in BOOLEAN, cat[q] # None, CatEnds(q, raises),
           handle'[q] = None, \A r \in Proc \ {q} : handle'[r] = handle[r],
           Exists(Output(q)) => file'[Output(q)] # None,
           fix[q] # None /\ ~raises => Made(q, file'[fix[q].temp]),
           \A n \in Name : (Active(q) /\ n.base = Output(q).base) \/ file'[n] = file[n],
           Changes(q),
           \A n \in Name : n.k > 0 /\ file'[n] # None =>
               \/ file[n] # None /\ ~Holds(q, n)
               \/ fix[q] # None /\ n = fix[q].temp
    PROVE  Own(q)
<1>1. /\ CatNames(q) /\ FixNames(q) /\ OutputNew(q) /\ GivenNames(q) /\ CatTyped /\ FixTyped
  BY OwnedParts
<1>2. cat'[q] = None /\ \A r \in Proc \ {q} : cat'[r] = cat[r] /\ fix'[r] = fix[r]
  BY <1>1 DEF CatEnds, CatGoes, CatTyped, FixTyped
<1>3. \A r \in Proc \ {q} : SameHistory(r)
  BY <1>2, OthersLocals
<1>4. Frame(q)
  BY <1>2, <1>3, FrameOf
<1>5. CatNames(q)' /\ CatData(q)' /\ HandleIs(q)'
  BY <1>2 DEF CatNames, CatData, HandleIs, InCat
<1>6. CASE fix[q] = None
  <2>1. fix'[q] = None
    BY <1>6 DEF CatEnds
  <2>2. FixNames(q)' /\ FixData(q)' /\ OutputNew(q)'
    BY <1>2, <2>1 DEF FixNames, FixData, OutputNew, Active, Idle
  <2>3. GivenNames(q)' /\ UseSame(q)
    BY <1>2, <2>1 DEF GivenNames, UseSame, Uses, Makes
  <2>4. Kept(q)
    BY <1>6 DEF Kept
  <2>. QED
    BY <1>4, <1>5, <2>2, <2>3, <2>4, OwnShape
<1>7. CASE fix[q] # None
  <2>1. fix[q] \in FixLocals /\ fix[q].pc = "convert"
    BY <1>1, <1>7, FixOf DEF CatNames
  <2>. DEFINE to == IF raises THEN "finally" ELSE "rename"
              x  == [fix[q] EXCEPT !.pc = to, !.failing = raises]
  <2>2. /\ x.pc = to /\ x.input = fix[q].input /\ x.output = fix[q].output /\ x.temp = fix[q].temp
        /\ x \in FixLocals
    BY <2>1 DEF FixLocals
  <2>3. fix'[q] = x
    BY <1>1, <1>7 DEF CatEnds, FixTyped
  <2>4. x # None
    BY <2>2, NoneIsNone
  <2>. HIDE DEF x
  <2>5. task'[q] = task[q] /\ (q \in unclosed => q \in unclosed')
    BY <1>2, <1>7, <2>3, <2>4 DEF HistoryNext, TaskNext, UnclosedNext, Idle
  <2>6. /\ Output(q)' = Output(q) /\ Active(q)' /\ Active(q)
        /\ Uses(q)' = Uses(q) /\ Makes(q)' = Makes(q) /\ Output(q) = fix[q].output
    BY <1>2, <1>7, <2>2, <2>3, <2>4 DEF Output, Uses, Makes, Active, Idle
  <2>7. FixNames(q)'
    BY <1>1, <1>2, <1>7, <2>1, <2>2, <2>3, <2>6 DEF FixNames, Exists
  <2>8. FixData(q)'
    BY <1>2, <1>7, <2>2, <2>3, <2>5 DEF FixData, Made
  <2>9. OutputNew(q)'
    BY <1>1, <1>2, <1>7, <2>1, <2>2, <2>3, <2>5, <2>6 DEF OutputNew, Exists
  <2>10. GivenNames(q)' /\ UseSame(q)
    BY <1>1, <2>6 DEF GivenNames, UseSame
  <2>11. Kept(q)
    <3>1. \A n : n = fix[q].temp => Holds(q, n)'
      BY <2>2, <2>3, <2>4 DEF Holds
    <3>. QED
      BY <3>1 DEF Kept
  <2>. QED
    BY <1>4, <1>5, <2>7, <2>8, <2>9, <2>10, <2>11, OwnShape
<1>. QED
  BY <1>6, <1>7

LEMMA IndexOwn ==
    ASSUME Owned, HistoryNext, NEW q \in Proc, Index(q)
    PROVE  Own(q)
<1>. DEFINE input == cat[q].inputs[cat[q].next]
<1>1. cat[q] # None /\ cat[q].pc = "index" /\ cat[q] \in CatLocals /\ cat[q].next <= Len(cat[q].inputs)
  BY CatOf, OwnedParts DEF Index, InCat
<1>2. UNCHANGED <<file, handle>>
  BY DEF Index
<1>3. CatNames(q) /\ HandleIs(q) /\ CatData(q) /\ CatTyped /\ OutputNew(q)
  BY OwnedParts
<1>4. handle'[q] = None
  BY <1>1, <1>2, <1>3 DEF HandleIs, InCat
<1>5. CASE ~Readable(input)
  <2>1. CatEnds(q, TRUE)
    BY <1>5 DEF Index
  <2>2. \A n \in Name : n.k > 0 /\ file'[n] # None =>
               \/ file[n] # None /\ ~Holds(q, n)
               \/ fix[q] # None /\ n = fix[q].temp
    BY <1>1, <1>2 DEF Holds
  <2>. QED
    BY <1>1, <1>2, <1>4, <2>1, <2>2, CatEndsOwn, NoneChanged DEF Exists
<1>6. CASE Readable(input)
  <2>. DEFINE map == LastWins(cat[q].recordFiles, file[input].records, input)
              d   == [cat[q] EXCEPT !.next = @ + 1, !.recordFiles = map]
  <2>1. CatGoes(q, d) /\ UNCHANGED fix
    BY <1>6 DEF Index
  <2>2. d \in CatLocals
    BY <1>1, <1>6, ListsTypes, OwnedParts
  <2>3. /\ d.inputs = cat[q].inputs /\ d.output = cat[q].output /\ d.temp = cat[q].temp
        /\ d.pc = "index" /\ d.failing = cat[q].failing
        /\ d.next = cat[q].next + 1 /\ d.recordFiles = map
    <3>. HIDE DEF map
    <3>. QED
      BY <1>1 DEF CatLocals
  <2>. HIDE DEF d
  <2>4. CatMove(q, d)
    BY <1>1, <2>1, <2>2, <2>3 DEF CatMove
  <2>5. /\ cat'[q] = d /\ d # None /\ fix'[q] = fix[q] /\ task'[q] = task[q]
        /\ Output(q)' = Output(q) /\ Active(q) /\ \A n : Near(q, n)' <=> Near(q, n)
        /\ UseSame(q)
        /\ \A r \in Proc \ {q} : cat'[r] = cat[r] /\ fix'[r] = fix[r] /\ SameHistory(r)
    BY <2>4, CatMoves
  <2>6. FixNames(q)' /\ FixData(q)' /\ GivenNames(q)' /\ OutputNew(q)'
    BY <1>1, <1>2, <1>3, <2>3, <2>4, CatMoveShape DEF Exists, OutputNew, Active, Idle
  <2>7. CatNames(q)' /\ HandleIs(q)'
    BY <1>1, <1>2, <1>3, <2>3, <2>5 DEF CatNames, HandleIs, InCat, Exists
  <2>8. CatData(q)'
    <3>1. Merged(cat[q].inputs)' = Merged(cat[q].inputs)
      BY <1>1, <1>2, <1>3, <2>3, <2>5, MergedInputsSame DEF InputsSame
    <3>2. Listed(q)
      BY <1>1, <1>3 DEF CatData
    <3>3. Listed(q)'
      BY <1>1, <1>2, <1>6, <2>3, <2>5, <3>2, IndexLists
    <3>. QED
      BY <1>1, <1>2, <1>3, <2>3, <2>5, <3>1, <3>3 DEF CatData, Exists
  <2>9. Kept(q)
    BY <1>1, <1>2, <2>3, <2>5 DEF Kept, Holds
  <2>. QED
    BY <1>2, <2>5, <2>6, <2>7, <2>8, <2>9, NoneChanged, FrameOf, OwnShape
<1>. QED
  BY <1>5, <1>6

\* A step of cat.main after which it will rename or remove the temporary file.
LEMMA CatMoveOwn ==
    ASSUME Owned, HistoryNext, NEW q \in Proc, NEW d, CatMove(q, d), d.temp = cat[q].temp,
           cat[q].pc # "name", d.pc \in {"copy", "rename", "finally"},
           \A r \in Proc \ {q} : handle'[r] = handle[r],
           \A n \in Name : (Active(q) /\ n.base = Output(q).base) \/ file'[n] = file[n],
           Changes(q), Exists(Output(q)) => file'[Output(q)] # None,
           Exists(cat[q].output) => file'[cat[q].output] # None,
           \A n \in Name : n.k > 0 /\ file'[n] # None => file[n] # None \/ n = cat[q].temp,
           HandleIs(q)', CatData(q)'
    PROVE  Own(q)
<1>1. CatNames(q) /\ OutputNew(q) /\ cat[q] # None /\ CatTyped
  BY OwnedParts DEF CatMove
<1>2. /\ cat'[q] = d /\ d # None /\ fix'[q] = fix[q] /\ task'[q] = task[q]
      /\ Output(q)' = Output(q) /\ Active(q) /\ \A n : Near(q, n)' <=> Near(q, n)
      /\ UseSame(q)
      /\ \A r \in Proc \ {q} : cat'[r] = cat[r] /\ fix'[r] = fix[r] /\ SameHistory(r)
  BY CatMoves
<1>3. d.inputs = cat[q].inputs /\ d.output = cat[q].output
  BY DEF CatMove
<1>4. FixNames(q)' /\ FixData(q)' /\ GivenNames(q)' /\ OutputNew(q)'
  BY <1>1, <1>2, CatMoveShape DEF OutputNew
<1>5. CatNames(q)'
  BY <1>1, <1>2, <1>3 DEF CatNames, Exists
<1>6. Kept(q)
  BY <1>1, <1>2 DEF Kept, Holds
<1>. QED
  BY <1>2, <1>4, <1>5, <1>6, FrameOf, OwnShape

LEMMA CreateOwn ==
    ASSUME Owned, HistoryNext, NEW q \in Proc, Create(q)
    PROVE  Own(q)
<1>. DEFINE d == [cat[q] EXCEPT !.pc = "copy", !.left = Range(cat[q].recordFiles)]
            t == cat[q].temp
<1>1. /\ cat[q] # None /\ cat[q].pc = "index" /\ cat[q] \in CatLocals
      /\ cat[q].next > Len(cat[q].inputs) /\ t \in Name /\ cat[q].recordFiles \in Dict(Name)
  BY CatOf, OwnedParts DEF Create, InCat
<1>2. CatGoes(q, d) /\ UNCHANGED <<fix, outcome>> /\ handle' = [handle EXCEPT ![q] = t]
      /\ file' = [file EXCEPT ![t] = [kind |-> "broken", records |-> <<>>]]
  BY DEF Create
<1>3. CatNames(q) /\ CatData(q) /\ CatTyped /\ FilesTyped /\ OutputNew(q)
  BY OwnedParts
<1>4. Range(cat[q].recordFiles) \in SUBSET Name
  BY <1>1, DictOf DEF Range
<1>5. d \in CatLocals
  BY <1>1, <1>4, PcTypes
<1>6. /\ d.inputs = cat[q].inputs /\ d.output = cat[q].output /\ d.temp = t /\ d.pc = "copy"
      /\ d.next = cat[q].next /\ d.recordFiles = cat[q].recordFiles /\ d.failing = cat[q].failing
      /\ d.left = Range(cat[q].recordFiles)
  BY <1>1 DEF CatLocals
<1>. HIDE DEF d
<1>7. CatMove(q, d)
  BY <1>1, <1>2, <1>5, <1>6 DEF CatMove
<1>8. cat'[q] = d /\ d # None /\ fix'[q] = fix[q] /\ task'[q] = task[q] /\ Active(q)
  BY <1>7, CatMoves
<1>9. /\ handle'[q] = t /\ \A r \in Proc \ {q} : handle'[r] = handle[r]
      /\ file'[t] = [kind |-> "broken", records |-> <<>>] /\ \A n \in Name \ {t} : file'[n] = file[n]
      /\ file'[t] # None
  BY <1>1, <1>2, <1>3, NewIsArchive, NoneIsNone DEF FilesTyped
<1>10. Listed(q) /\ ~Exists(t)
  BY <1>1, <1>3 DEF CatData
<1>11. \A i \in 1..Len(cat[q].inputs) : cat[q].inputs[i] # t /\ cat[q].inputs[i] \in Name
  <2>1. \A i \in 1..Len(cat[q].inputs) : i \in 1..(cat[q].next - 1)
    <3>1. cat[q].next \in Nat /\ Len(cat[q].inputs) \in Nat
      BY <1>1, <1>3, CatOf
    <3>. QED
      BY <1>1, <3>1
  <2>. QED
    BY <1>1, <1>10, <2>1, CatNear DEF Listed, Readable
<1>12. InputsSame(q)
  BY <1>9, <1>11 DEF InputsSame
<1>13. \A n \in Name : file[n] # None => file'[n] # None
  BY <1>9
<1>14. CatData(q)'
  <2>1. Merged(cat[q].inputs)' = Merged(cat[q].inputs)
    BY <1>1, <1>3, <1>6, <1>8, <1>12, MergedInputsSame
  <2>2. Listed(q)'
    BY <1>1, <1>3, <1>6, <1>8, <1>10, <1>12, ListedSame
  <2>3. t \notin Range(cat[q].inputs)
    <3>1. cat[q].inputs \in Seq(Name)
      BY <1>1, <1>3, CatOf
    <3>2. DOMAIN cat[q].inputs = 1..Len(cat[q].inputs)
      BY <3>1
    <3>. QED
      BY <1>11, <3>2 DEF Range
  <2>4. Copied(q)'
    <3>1. {x \in DOMAIN cat[q].recordFiles : cat[q].recordFiles[x] \notin Range(cat[q].recordFiles)} = {}
      BY DEF Range
    <3>2. file'[t].records = <<>>
      BY <1>9
    <3>3. <<>> = [p \in {} |-> file'[cat'[q].recordFiles[p]].records[p]]
      OBVIOUS
    <3>4. {x \in DOMAIN cat'[q].recordFiles : cat'[q].recordFiles[x] \notin cat'[q].left} = {}
      BY <1>6, <1>8, <3>1
    <3>. QED
      BY <1>6, <1>8, <3>2, <3>3, <3>4 DEF Copied
  <2>5. cat[q].failing = FALSE /\ Fits(task[q], Merged(cat[q].inputs))
    BY <1>1, <1>3 DEF CatData
  <2>6. file'[t].kind = "broken" /\ d.left \subseteq Range(d.recordFiles)
    BY <1>6, <1>9
  <2>. QED
    BY <1>1, <1>6, <1>8, <1>9, <2>1, <2>2, <2>3, <2>4, <2>5, <2>6 DEF CatData, Exists
<1>15. HandleIs(q)'
  BY <1>6, <1>8, <1>9 DEF HandleIs, InCat
<1>16. /\ Changes(q)
       /\ \A n \in Name : (Active(q) /\ n.base = Output(q).base) \/ file'[n] = file[n]
  <2>1. t.base = Output(q).base /\ (t = Output(q) => task[q].fresh)
    BY <1>1, <1>3, <1>8 DEF CatNames, OutputNew
  <2>. QED
    BY <1>1, <1>8, <1>9, <2>1, OneChanged
<1>17. Output(q) \in Name /\ cat[q].output \in Name
  BY <1>1, <1>8, OutputOf, CatNear
<1>. HIDE DEF t
<1>. QED
  BY <1>1, <1>6, <1>7, <1>9, <1>13, <1>14, <1>15, <1>16, <1>17, CatMoveOwn DEF Exists, t

LEMMA CreateFailsOwn ==
    ASSUME Owned, HistoryNext, NEW q \in Proc, CreateFails(q)
    PROVE  Own(q)
<1>. DEFINE d == [cat[q] EXCEPT !.pc = "finally", !.failing = TRUE]
            t == cat[q].temp
            new == [kind |-> "broken", records |-> <<>>]
<1>1. /\ cat[q] # None /\ cat[q].pc = "index" /\ cat[q] \in CatLocals /\ t \in Name
      /\ CatGoes(q, d) /\ UNCHANGED <<fix, handle>>
      /\ file' \in {file, [file EXCEPT ![t] = new]}
  BY CatOf, OwnedParts DEF CreateFails, InCat
<1>2. CatNames(q) /\ HandleIs(q) /\ OutputNew(q) /\ FilesTyped
  BY OwnedParts
<1>3. d \in CatLocals
  BY <1>1, PcTypes
<1>4. d.inputs = cat[q].inputs /\ d.output = cat[q].output /\ d.temp = t /\ d.pc = "finally" /\ d.failing = TRUE
  BY <1>1 DEF CatLocals
<1>. HIDE DEF d
<1>5. CatMove(q, d)
  BY <1>1, <1>3, <1>4 DEF CatMove
<1>6. cat'[q] = d /\ d # None /\ Active(q)
  BY <1>5, CatMoves
<1>7. new # None
  BY NewIsArchive, NoneIsNone
<1>. HIDE DEF new
<1>8. /\ \A n \in Name \ {t} : file'[n] = file[n]
      /\ \A n \in Name : file[n] # None => file'[n] # None
  BY <1>1, <1>2, <1>7 DEF FilesTyped
<1>9. CatData(q)' /\ HandleIs(q)'
  BY <1>1, <1>2, <1>4, <1>6 DEF CatData, HandleIs, InCat
<1>10. /\ Changes(q)
       /\ \A n \in Name : (Active(q) /\ n.base = Output(q).base) \/ file'[n] = file[n]
  <2>1. t.base = Output(q).base /\ (t = Output(q) => task[q].fresh)
    BY <1>1, <1>2, <1>6 DEF CatNames, OutputNew
  <2>. QED
    BY <1>1, <1>6, <1>8, <2>1, OneChanged
<1>11. Output(q) \in Name /\ cat[q].output \in Name
  BY <1>1, <1>6, OutputOf, CatNear
<1>12. \A n \in Name : n.k > 0 /\ file'[n] # None => file[n] # None \/ n = t
  BY <1>8
<1>. QED
  BY <1>1, <1>4, <1>5, <1>8, <1>9, <1>10, <1>11, <1>12, CatMoveOwn DEF Exists

\* What a cat that copies knows.
LEMMA Copying ==
    ASSUME Owned, NEW q \in Proc, cat[q] # None, cat[q].pc = "copy"
    PROVE  /\ cat[q] \in CatLocals /\ CatTyped /\ FilesTyped /\ Active(q)
           /\ CatNames(q) /\ OutputNew(q) /\ Listed(q)
           /\ handle[q] = cat[q].temp /\ cat[q].temp \in Name
           /\ cat[q].temp.base = Output(q).base /\ (cat[q].temp = Output(q) => task[q].fresh)
           /\ Fits(task[q], Merged(cat[q].inputs))
           /\ cat[q].next > Len(cat[q].inputs)
           /\ cat[q].left \subseteq Range(cat[q].recordFiles)
           /\ Exists(cat[q].temp) /\ file[cat[q].temp].kind = "broken"
           /\ ~cat[q].failing => Copied(q)
           /\ cat[q].temp \notin Range(cat[q].inputs)
           /\ \A i \in 1..Len(cat[q].inputs) :
                cat[q].inputs[i] \in Name \ {cat[q].temp} /\ Readable(cat[q].inputs[i])
           /\ \A p \in DOMAIN cat[q].recordFiles :
                /\ cat[q].recordFiles[p] \in Name \ {cat[q].temp}
                /\ Readable(cat[q].recordFiles[p])
                /\ p \in DOMAIN file[cat[q].recordFiles[p]].records
<1>1. /\ cat[q] \in CatLocals /\ CatTyped /\ FilesTyped /\ CatNames(q) /\ OutputNew(q)
      /\ HandleIs(q) /\ CatData(q)
  BY CatOf, OwnedParts
<1>2. handle[q] = cat[q].temp /\ cat[q].temp \in Name /\ Active(q)
  BY <1>1, CatNear DEF HandleIs, InCat
<1>3. /\ Listed(q) /\ Fits(task[q], Merged(cat[q].inputs)) /\ cat[q].next > Len(cat[q].inputs)
      /\ cat[q].left \subseteq Range(cat[q].recordFiles)
      /\ cat[q].temp \notin Range(cat[q].inputs)
      /\ Exists(cat[q].temp) /\ file[cat[q].temp].kind = "broken"
      /\ (~cat[q].failing => Copied(q))
  BY <1>1 DEF CatData
<1>4. cat[q].temp.base = Output(q).base /\ (cat[q].temp = Output(q) => task[q].fresh)
  BY <1>1, <1>2 DEF CatNames, OutputNew
<1>5. /\ cat[q].next \in Nat /\ Len(cat[q].inputs) \in Nat
      /\ DOMAIN cat[q].inputs = 1..Len(cat[q].inputs)
  <2>1. cat[q].inputs \in Seq(Name) /\ cat[q].next \in Nat
    BY <1>1, CatOf
  <2>. QED
    BY <2>1
<1>6. \A i \in 1..Len(cat[q].inputs) :
        cat[q].inputs[i] \in Name \ {cat[q].temp} /\ Readable(cat[q].inputs[i])
  <2>1. \A i \in 1..Len(cat[q].inputs) : i \in 1..(cat[q].next - 1)
    BY <1>3, <1>5
  <2>2. \A i \in 1..Len(cat[q].inputs) : cat[q].inputs[i] # cat[q].temp
    BY <1>3, <1>5 DEF Range
  <2>. QED
    BY <1>3, <2>1, <2>2, CatNear DEF Listed
<1>7. ASSUME NEW p \in DOMAIN cat[q].recordFiles
      PROVE  /\ cat[q].recordFiles[p] \in Name \ {cat[q].temp}
             /\ Readable(cat[q].recordFiles[p])
             /\ p \in DOMAIN file[cat[q].recordFiles[p]].records
  <2>1. PICK i \in 1..(cat[q].next - 1) : cat[q].recordFiles[p] = cat[q].inputs[i] /\ IsLast(q, p, i)
    BY <1>3 DEF Listed
  <2>2. i \in 1..Len(cat[q].inputs)
    BY <1>3, <1>5 DEF Listed
  <2>. QED
    BY <1>6, <2>1, <2>2 DEF IsLast
<1>. QED
  BY <1>1, <1>2, <1>3, <1>4, <1>6, <1>7

\* What is copied changes nothing but the new archive.
LEMMA CopyGoesOwn ==
    ASSUME Owned, HistoryNext, NEW q \in Proc, NEW d, cat[q] # None, cat[q].pc = "copy", CatMove(q, d),
           d.pc = "copy", d.temp = cat[q].temp, d.next = cat[q].next,
           d.recordFiles = cat[q].recordFiles, d.left \subseteq cat[q].left, UNCHANGED handle,
           \A n \in Name \ {cat[q].temp} : file'[n] = file[n],
           file'[cat[q].temp] # None, file'[cat[q].temp].kind = "broken",
           ~d.failing => Copied(q)'
    PROVE  Own(q)
<1>. DEFINE t == cat[q].temp
<1>1. cat'[q] = d /\ d # None /\ fix'[q] = fix[q] /\ task'[q] = task[q] /\ Active(q)
  BY CatMoves
<1>2. d.inputs = cat[q].inputs /\ d.output = cat[q].output
  BY DEF CatMove
<1>3. InputsSame(q)
  BY Copying DEF InputsSame
<1>4. \A n \in Name : file[n] # None => file'[n] # None
  OBVIOUS
<1>5. CatData(q)'
  <2>1. Merged(cat[q].inputs)' = Merged(cat[q].inputs)
    BY <1>1, <1>2, <1>3, MergedInputsSame, Copying
  <2>2. Listed(q)'
    BY <1>1, <1>2, <1>3, ListedSame, Copying
  <2>3. /\ Fits(task[q], Merged(cat[q].inputs)) /\ cat[q].next > Len(cat[q].inputs)
        /\ cat[q].left \subseteq Range(cat[q].recordFiles) /\ cat[q].temp \notin Range(cat[q].inputs)
    BY Copying
  <2>. QED
    BY <1>1, <1>2, <2>1, <2>2, <2>3 DEF CatData, Exists
<1>6. HandleIs(q)'
  BY <1>1, Copying DEF HandleIs, InCat
<1>7. /\ Changes(q)
      /\ \A n \in Name : (Active(q) /\ n.base = Output(q).base) \/ file'[n] = file[n]
  <2>1. /\ t \in Name /\ t.base = Output(q).base /\ (t = Output(q) => task[q].fresh)
        /\ \A n \in Name \ {t} : file'[n] = file[n]
    BY Copying
  <2>. HIDE DEF t
  <2>. QED
    BY <1>1, <2>1, OneChanged
<1>8. Output(q) \in Name /\ cat[q].output \in Name
  BY <1>1, OutputOf, CatNear
<1>9. \A n \in Name : n.k > 0 /\ file'[n] # None => file[n] # None \/ n = cat[q].temp
  OBVIOUS
<1>. QED
  BY <1>4, <1>5, <1>6, <1>7, <1>8, <1>9, CatMoveOwn DEF Exists

LEMMA CopySourceOwn ==
    ASSUME Owned, HistoryNext, NEW q \in Proc, NEW source \in Name, CopySource(q, source)
    PROVE  Own(q)
<1>. DEFINE t == cat[q].temp
<1>1. cat[q] # None /\ cat[q].pc = "copy" /\ source \in cat[q].left /\ UNCHANGED <<handle, fix>>
  BY DEF CopySource, InCat
<1>2. /\ cat[q] \in CatLocals /\ FilesTyped /\ handle[q] = t /\ t \in Name
      /\ Exists(t) /\ file[t].kind = "broken"
  BY <1>1, Copying
<1>3. cat[q].left \in SUBSET Name
  BY <1>1, CatOf, Copying
<1>4. CASE ~Readable(source)
  <2>. DEFINE d == [cat[q] EXCEPT !.left = {}, !.failing = TRUE]
  <2>1. CatGoes(q, d) /\ UNCHANGED file
    BY <1>4 DEF CopySource
  <2>2. d \in CatLocals
    BY <1>2, PcTypes
  <2>3. /\ d.inputs = cat[q].inputs /\ d.output = cat[q].output /\ d.temp = cat[q].temp /\ d.pc = cat[q].pc
        /\ d.next = cat[q].next /\ d.recordFiles = cat[q].recordFiles /\ d.failing = TRUE /\ d.left = {}
    BY <1>2 DEF CatLocals
  <2>. HIDE DEF d
  <2>4. CatMove(q, d)
    BY <1>1, <2>1, <2>2, <2>3 DEF CatMove
  <2>. QED
    BY <1>1, <1>2, <2>1, <2>3, <2>4, CopyGoesOwn DEF Exists
<1>5. CASE Readable(source)
  <2>. DEFINE d    == [cat[q] EXCEPT !.left = @ \ {source}]
              rf   == cat[q].recordFiles
              from == CopiedFrom(q, source)
              a    == [Held(q) EXCEPT !.records = Override(@, from)]
  <2>1. CatGoes(q, d) /\ Puts(q, a)
    BY <1>5 DEF CopySource, CopiedFrom
  <2>2. d \in CatLocals
    BY <1>2, <1>3, PcTypes
  <2>3. /\ d.inputs = cat[q].inputs /\ d.output = cat[q].output /\ d.temp = cat[q].temp /\ d.pc = cat[q].pc
        /\ d.next = cat[q].next /\ d.recordFiles = rf /\ d.failing = cat[q].failing
        /\ d.left = cat[q].left \ {source}
    BY <1>2 DEF CatLocals
  <2>. HIDE DEF d, from
  <2>4. CatMove(q, d)
    BY <1>1, <2>1, <2>2, <2>3 DEF CatMove
  <2>5. file[t] \in Archive /\ t # None
    BY <1>2, FileOf, NoneIsNone
  <2>6. a \in Archive /\ a.records = Override(file[t].records, from) /\ a.kind = "broken"
    <3>1. from \in Records
      BY <1>1, <1>3, <1>5, CopiedFromTypes DEF from, Owned
    <3>2. Override(file[t].records, from) \in Records
      BY <2>5, <3>1, OverrideIsDict DEF Records, Archive
    <3>. QED
      BY <1>2, <2>5, <3>2 DEF Archive, Held
  <2>. HIDE DEF a
  <2>7. file' = [file EXCEPT ![t] = a]
    BY <1>2, <2>1, <2>5 DEF Puts
  <2>8. file'[t] = a /\ a # None /\ \A n \in Name \ {t} : file'[n] = file[n]
    BY <1>2, <2>6, <2>7, NoneIsNone DEF FilesTyped
  <2>9. ASSUME ~d.failing
        PROVE  Copied(q)'
    <3>. DEFINE done  == {x \in DOMAIN rf : rf[x] \notin cat[q].left}
                done2 == {x \in DOMAIN rf : rf[x] \notin d.left}
                paths == {x \in DOMAIN rf : rf[x] = source}
                old   == file[t].records
    <3>1. old = [p \in done |-> file[rf[p]].records[p]]
      BY <1>1, <2>3, <2>9, Copying DEF Copied
    <3>2. DOMAIN from = paths /\ \A p \in paths : from[p] = file[source].records[p]
      BY <1>1, Copying DEF from, CopiedFrom
    <3>3. done2 = done \cup paths
      BY <1>1, <2>3
    <3>4. \A p \in DOMAIN rf : file'[rf[p]] = file[rf[p]]
      BY <1>1, <2>8, Copying
    <3>. HIDE DEF done, done2, rf, old
    <3>5. DOMAIN old = done /\ \A p \in done : old[p] = file[rf[p]].records[p]
      BY <3>1
    <3>6. \A p \in done2 : (IF p \in DOMAIN from THEN from[p] ELSE old[p]) = file'[rf[p]].records[p]
      BY <3>2, <3>3, <3>4, <3>5 DEF done
    <3>7. Override(old, from) = [p \in done2 |-> file'[rf[p]].records[p]]
      <4>1. DOMAIN old \cup DOMAIN from = done2
        BY <3>2, <3>3, <3>5
      <4>. QED
        BY <3>6, <4>1 DEF Override
    <3>8. cat'[q] = d
      BY <2>4, CatMoves
    <3>9. file'[d.temp].records = [p \in {x \in DOMAIN d.recordFiles : d.recordFiles[x] \notin d.left} |->
                                     file'[d.recordFiles[p]].records[p]]
      BY <2>3, <2>6, <2>8, <3>7 DEF done2, old
    <3>. QED
      BY <3>8, <3>9 DEF Copied
  <2>. QED
    BY <1>1, <2>3, <2>4, <2>6, <2>8, <2>9, CopyGoesOwn
<1>. QED
  BY <1>4, <1>5

LEMMA CopyFailsOwn ==
    ASSUME Owned, HistoryNext, NEW q \in Proc, CopyFails(q)
    PROVE  Own(q)
<1>. DEFINE t == cat[q].temp
            d == [cat[q] EXCEPT !.left = {}, !.failing = TRUE]
<1>1. cat[q] # None /\ cat[q].pc = "copy" /\ UNCHANGED <<handle, fix>> /\ CatGoes(q, d)
  BY DEF CopyFails, InCat
<1>2. /\ cat[q] \in CatLocals /\ FilesTyped /\ handle[q] = t /\ t \in Name
      /\ Exists(t) /\ file[t].kind = "broken"
  BY <1>1, Copying
<1>3. d \in CatLocals
  BY <1>2, PcTypes
<1>4. /\ d.inputs = cat[q].inputs /\ d.output = cat[q].output /\ d.temp = cat[q].temp /\ d.pc = cat[q].pc
      /\ d.next = cat[q].next /\ d.recordFiles = cat[q].recordFiles /\ d.failing = TRUE /\ d.left = {}
  BY <1>2 DEF CatLocals
<1>. HIDE DEF d
<1>5. CatMove(q, d)
  BY <1>1, <1>3, <1>4 DEF CatMove
<1>6. file[t] \in Archive /\ t # None
  BY <1>2, FileOf, NoneIsNone
<1>7. PICK rs : file' = [file EXCEPT ![t] = [file[t] EXCEPT !.records = rs]]
  BY <1>2, <1>6 DEF CopyFails, Puts, Held
<1>8. file'[t] = [file[t] EXCEPT !.records = rs] /\ \A n \in Name \ {t} : file'[n] = file[n]
  BY <1>2, <1>7 DEF FilesTyped
<1>9. file'[t].kind = "broken"
  BY <1>2, <1>6, <1>8 DEF Archive
<1>10. file'[t] # None
  <2>1. IInv'
    BY CopyFailsTypes DEF Owned
  <2>2. file' \in [Name -> Archive \cup {None}] /\ HandlesExist' /\ handle'[q] = t
    BY <1>1, <1>2, <2>1 DEF IInv, TypeOK
  <2>. QED
    BY <1>6, <2>2 DEF HandlesExist, Exists
<1>. QED
  BY <1>1, <1>4, <1>5, <1>8, <1>9, <1>10, CopyGoesOwn

\* Once the last source is copied, the new archive has all records of all inputs.
LEMMA ListedIsMerged ==
    ASSUME Owned, NEW q \in Proc, cat[q] # None, Listed(q), cat[q].next > Len(cat[q].inputs)
    PROVE  Merged(cat[q].inputs) =
             [p \in DOMAIN cat[q].recordFiles |-> file[cat[q].recordFiles[p]].records[p]]
<1>. DEFINE ins     == cat[q].inputs
            rf      == cat[q].recordFiles
            Holding(p) == {i \in Inputs(ins) : p \in DOMAIN file[ins[i]].records}
            Last(S) == CHOOSE i \in S : \A j \in S : j <= i
            paths   == UNION {DOMAIN file[ins[i]].records : i \in Inputs(ins)}
<1>1. ins \in Seq(Name) /\ cat[q].next \in Nat
  BY CatOf, OwnedParts
<1>2. DOMAIN ins = 1..Len(ins) /\ Len(ins) \in Nat
  BY <1>1
<1>3. 1..(cat[q].next - 1) = 1..Len(ins)
  BY <1>1, <1>2 DEF Listed
<1>4. Inputs(ins) = 1..Len(ins)
  BY <1>2, <1>3 DEF Inputs, Listed
<1>5. ASSUME NEW p \in DOMAIN rf
      PROVE  rf[p] = ins[Last(Holding(p))] /\ p \in paths
  <2>1. PICK i \in 1..Len(ins) : rf[p] = ins[i] /\ IsLast(q, p, i)
    BY <1>3 DEF Listed
  <2>2. /\ p \in DOMAIN file[ins[i]].records
        /\ \A j \in 1..Len(ins) : p \in DOMAIN file[ins[j]].records => j <= i
    BY <1>3, <2>1 DEF IsLast
  <2>3. i \in Holding(p) /\ \A j \in Holding(p) : j <= i
    BY <1>4, <2>2
  <2>4. Holding(p) \subseteq Nat
    BY <1>4
  <2>5. p \in paths
    BY <1>4, <2>2
  <2>. DEFINE S == Holding(p)
  <2>6. S \subseteq Nat /\ i \in S /\ \A j \in S : j <= i
    BY <2>3, <2>4
  <2>. HIDE DEF S
  <2>7. Last(S) \in S /\ \A j \in S : j <= Last(S)
    BY <2>6
  <2>. HIDE DEF Last
  <2>8. Last(S) = i
    <3>1. Last(S) \in Nat /\ i \in Nat /\ i <= Last(S) /\ Last(S) <= i
      BY <2>6, <2>7
    <3>. QED
      BY <3>1
  <2>. QED
    BY <2>1, <2>5, <2>8 DEF S
<1>6. paths = DOMAIN rf
  <2>1. \A i \in 1..Len(ins) : DOMAIN file[ins[i]].records \subseteq DOMAIN rf
    BY <1>3 DEF Listed
  <2>. QED
    BY <1>4, <1>5, <2>1
<1>7. Merged(ins) = [p \in paths |-> file[ins[Last(Holding(p))]].records[p]]
  BY DEF Merged
<1>. HIDE DEF Holding, Last, paths, ins, rf
<1>. QED
  BY <1>5, <1>6, <1>7 DEF ins, rf

LEMMA CloseOutOwn ==
    ASSUME Owned, HistoryNext, NEW q \in Proc, CloseOut(q)
    PROVE  Own(q)
<1>. DEFINE t  == cat[q].temp
            to == IF cat[q].failing THEN "finally" ELSE "rename"
            d  == [cat[q] EXCEPT !.pc = to]
<1>1. /\ cat[q] # None /\ cat[q].pc = "copy" /\ cat[q].left = {} /\ UNCHANGED fix /\ CatGoes(q, d)
      /\ handle' = [handle EXCEPT ![q] = None]
  BY DEF CloseOut, Closes, InCat
<1>2. /\ cat[q] \in CatLocals /\ FilesTyped /\ handle[q] = t /\ t \in Name
      /\ Exists(t) /\ file[t].kind = "broken" /\ cat[q].failing \in BOOLEAN
  BY <1>1, CatOf, Copying
<1>3. d \in CatLocals
  BY <1>2, PcTypes
<1>4. /\ d.inputs = cat[q].inputs /\ d.output = cat[q].output /\ d.temp = t /\ d.pc = to
      /\ d.recordFiles = cat[q].recordFiles /\ d.failing = cat[q].failing
  BY <1>2 DEF CatLocals
<1>. HIDE DEF d
<1>5. CatMove(q, d)
  BY <1>1, <1>3, <1>4 DEF CatMove
<1>6. file[t] \in Archive /\ t # None
  BY <1>2, FileOf, NoneIsNone
<1>. DEFINE a == [file[t] EXCEPT !.kind = "zip64"]
<1>7. a \in Archive /\ a.kind = "zip64" /\ a.records = file[t].records
  BY <1>6 DEF Archive
<1>8. file' = [file EXCEPT ![t] = a]
  BY <1>2, <1>6 DEF CloseOut, Puts, Held
<1>. HIDE DEF a
<1>9. file'[t] = a /\ a # None /\ \A n \in Name \ {t} : file'[n] = file[n]
  BY <1>2, <1>7, <1>8, NoneIsNone DEF FilesTyped
<1>10. cat'[q] = d /\ d # None /\ fix'[q] = fix[q] /\ task'[q] = task[q] /\ Active(q)
  BY <1>5, CatMoves
<1>11. HandleIs(q)' /\ \A r \in Proc \ {q} : handle'[r] = handle[r]
  <2>1. handle'[q] = None /\ \A r \in Proc \ {q} : handle'[r] = handle[r]
    BY <1>1, <1>2 DEF FilesTyped
  <2>. QED
    BY <1>4, <1>10, <2>1 DEF HandleIs, InCat
<1>12. ASSUME ~d.failing
       PROVE  Complete(task[q], a)
  <2>1. Copied(q) /\ Listed(q) /\ cat[q].next > Len(cat[q].inputs) /\ Fits(task[q], Merged(cat[q].inputs))
    BY <1>1, <1>4, <1>12, Copying
  <2>2. Merged(cat[q].inputs) =
          [p \in DOMAIN cat[q].recordFiles |-> file[cat[q].recordFiles[p]].records[p]]
    BY <1>1, <2>1, ListedIsMerged
  <2>3. {x \in DOMAIN cat[q].recordFiles : cat[q].recordFiles[x] \notin cat[q].left}
          = DOMAIN cat[q].recordFiles
    BY <1>1
  <2>4. a.records = Merged(cat[q].inputs)
    BY <1>7, <2>1, <2>2, <2>3 DEF Copied
  <2>. QED
    BY <1>7, <1>9, <2>1, <2>4 DEF Complete
<1>13. CatData(q)'
  BY <1>2, <1>4, <1>9, <1>10, <1>12 DEF CatData, Made
<1>14. /\ Changes(q)
       /\ \A n \in Name : (Active(q) /\ n.base = Output(q).base) \/ file'[n] = file[n]
  <2>1. /\ t \in Name /\ t.base = Output(q).base /\ (t = Output(q) => task[q].fresh)
        /\ \A n \in Name \ {t} : file'[n] = file[n]
    BY <1>1, <1>9, Copying
  <2>. HIDE DEF t
  <2>. QED
    BY <1>10, <2>1, OneChanged
<1>15. Output(q) \in Name /\ cat[q].output \in Name
  BY <1>1, <1>10, OutputOf, CatNear
<1>16. \A n \in Name : file[n] # None => file'[n] # None
  BY <1>9
<1>17. d.pc \in {"copy", "rename", "finally"} /\ cat[q].pc # "name"
       /\ \A n \in Name : n.k > 0 /\ file'[n] # None => file[n] # None \/ n = cat[q].temp
  BY <1>1, <1>4, <1>9
<1>. HIDE DEF t, to
<1>. QED
  BY <1>4, <1>5, <1>11, <1>13, <1>14, <1>15, <1>16, <1>17, CatMoveOwn DEF Exists, t

\* When the close fails, what will be renamed does not open.
LEMMA CloseOutFailsOwn ==
    ASSUME Owned, HistoryNext, NEW q \in Proc, CloseOutFails(q)
    PROVE  Own(q)
<1>. DEFINE t  == cat[q].temp
            to == IF cat[q].failing THEN "finally" ELSE "rename"
            d  == [cat[q] EXCEPT !.pc = to]
<1>1. /\ cat[q] # None /\ cat[q].pc = "copy" /\ UNCHANGED <<file, fix>> /\ CatGoes(q, d)
      /\ handle' = [handle EXCEPT ![q] = None]
  BY DEF CloseOutFails, Closes, InCat
<1>2. /\ cat[q] \in CatLocals /\ FilesTyped /\ t \in Name
      /\ Exists(t) /\ file[t].kind = "broken" /\ cat[q].failing \in BOOLEAN
  BY <1>1, CatOf, Copying
<1>3. d \in CatLocals
  BY <1>2, PcTypes
<1>4. /\ d.inputs = cat[q].inputs /\ d.output = cat[q].output /\ d.temp = t /\ d.pc = to
      /\ d.failing = cat[q].failing
  BY <1>2 DEF CatLocals
<1>. HIDE DEF d
<1>5. CatMove(q, d)
  BY <1>1, <1>3, <1>4 DEF CatMove
<1>6. cat'[q] = d /\ d # None /\ q \in unclosed'
  BY <1>5, CatMoves
<1>7. HandleIs(q)' /\ \A r \in Proc \ {q} : handle'[r] = handle[r]
  <2>1. handle'[q] = None /\ \A r \in Proc \ {q} : handle'[r] = handle[r]
    BY <1>1, <1>2 DEF FilesTyped
  <2>. QED
    BY <1>4, <1>6, <2>1 DEF HandleIs, InCat
<1>8. CatData(q)'
  <2>1. Made(q, file[t])'
    BY <1>1, <1>2, <1>4, <1>6 DEF Made, Exists
  <2>. QED
    BY <1>1, <1>2, <1>4, <1>6, <2>1 DEF CatData, Made
<1>9. d.pc \in {"copy", "rename", "finally"}
  BY <1>4
<1>. HIDE DEF t, to
<1>. QED
  BY <1>1, <1>4, <1>5, <1>7, <1>8, <1>9, NoneChanged, CatMoveOwn DEF Exists, t

-----------------------------------------------------------------------------
(* Renaming and removing a temporary file *)

LEMMA HandlesStay ==
    ASSUME Owned, NEW q \in Proc, Active(q), handle[q] = None,
           NEW t \in Name, NEW o \in Name, t.base = Output(q).base, o.base = Output(q).base,
           Renames(t, o) \/ Removes(t)
    PROVE  handle' = handle
<1>1. ASSUME NEW r \in Proc
      PROVE  handle[r] # t /\ handle[r] # o
  <2>1. CASE r = q
    BY <2>1, NoneIsNone
  <2>2. CASE r # q
    <3>1. CASE handle[r] = None
      BY <3>1, NoneIsNone
    <3>2. CASE handle[r] # None
      <4>1. cat[r] # None /\ handle[r] = cat[r].temp
        BY <3>2, OwnedParts DEF HandleIs, InCat
      <4>2. handle[r].base # Output(q).base
        BY <2>2, <4>1, CatNear, OthersNames
      <4>. QED
        BY <4>2
    <3>. QED
      BY <3>1, <3>2
  <2>. QED
    BY <2>1, <2>2
<1>2. handle = [r \in Proc |-> handle[r]]
  BY OwnedParts DEF FilesTyped, Owned, IInv, TypeOK
<1>. QED
  BY <1>1, <1>2 DEF Renames, Removes

LEMMA LongerThanOutput ==
    ASSUME Owned, NEW q \in Proc, Active(q), NEW t \in Name, NEW o \in Name,
           t.base = Output(q).base, o.base = Output(q).base, o.k <= t.k, t # o
    PROVE  t.k > 0 /\ t # Output(q)
<1>1. t.k \in Nat /\ o.k \in Nat /\ Output(q).k = 0
  BY NamesAre, OutputOf
<1>2. t.k # o.k
  BY SameName
<1>. QED
  BY <1>1, <1>2

LEMMA RenamesKeeps ==
    ASSUME Owned, NEW q \in Proc, Active(q), handle[q] = None,
           NEW t \in Name, NEW o \in Name, t.base = Output(q).base, o.base = Output(q).base,
           o.k <= t.k, t # o, Renames(t, o), Made(q, file[t])
    PROVE  /\ handle' = handle
           /\ file'[t] = None /\ file'[o] = file[t] /\ file'[o] # None
           /\ \A n \in Name \ {t, o} : file'[n] = file[n]
           /\ \A n \in Name : (Active(q) /\ n.base = Output(q).base) \/ file'[n] = file[n]
           /\ Changes(q)
           /\ Exists(Output(q)) => file'[Output(q)] # None
<1>1. handle' = handle
  BY HandlesStay
<1>2. file'[t] = None /\ file'[o] = file[t] /\ \A n \in Name \ {t, o} : file'[n] = file[n]
  BY OwnedParts DEF FilesTyped, Renames
<1>3. t.k > 0 /\ t # Output(q) /\ Output(q) \in Name /\ Output(q).k = 0
  BY LongerThanOutput, OutputOf
<1>4. file'[o] # None /\ Made(q, file'[o])
  BY <1>2 DEF Made, Complete
<1>5. Changes(q)
  <2>1. ASSUME NEW n \in Name, n.k = 0, file'[n] # file[n]
        PROVE  n = o /\ n = Output(q)
    <3>1. n = o
      BY <1>2, <1>3, <2>1
    <3>. QED
      BY <1>3, <2>1, <3>1, SameName
  <2>. QED
    BY <1>4, <2>1 DEF Changes
<1>. QED
  BY <1>1, <1>2, <1>3, <1>4, <1>5 DEF Exists

LEMMA RemovesKeeps ==
    ASSUME Owned, NEW q \in Proc, Active(q), handle[q] = None,
           NEW t \in Name, NEW o \in Name, t.base = Output(q).base, o.base = Output(q).base,
           o.k <= t.k, t # o, Removes(t)
    PROVE  /\ handle' = handle
           /\ file'[t] = None /\ \A n \in Name \ {t} : file'[n] = file[n]
           /\ \A n \in Name : (Active(q) /\ n.base = Output(q).base) \/ file'[n] = file[n]
           /\ Changes(q)
           /\ Exists(Output(q)) => file'[Output(q)] # None
<1>1. handle' = handle
  BY HandlesStay
<1>2. file'[t] = None /\ \A n \in Name \ {t} : file'[n] = file[n]
  BY OwnedParts DEF FilesTyped, Removes
<1>3. t.k > 0 /\ t # Output(q) /\ Output(q) \in Name
  BY LongerThanOutput, OutputOf
<1>4. /\ \A n \in Name : (Active(q) /\ n.base = Output(q).base) \/ file'[n] = file[n]
      /\ Changes(q)
  BY <1>2, <1>3, OneChanged
<1>. QED
  BY <1>1, <1>2, <1>3, <1>4 DEF Exists

LEMMA RenameOutputOwn ==
    ASSUME Owned, HistoryNext, NEW q \in Proc, RenameOutput(q)
    PROVE  Own(q)
<1>. DEFINE t == cat[q].temp
            o == cat[q].output
            d == [cat[q] EXCEPT !.pc = "finally", !.failing = SamefileRaises(t, o)]
<1>1. /\ cat[q] # None /\ cat[q].pc = "rename" /\ UNCHANGED fix /\ CatGoes(q, d)
      /\ IF SamefileRaises(t, o) \/ t = o THEN UNCHANGED <<file, handle>> ELSE Renames(t, o)
  BY DEF RenameOutput, InCat
<1>2. /\ cat[q] \in CatLocals /\ t \in Name /\ o \in Name /\ Active(q)
      /\ CatNames(q) /\ HandleIs(q) /\ CatData(q)
  BY <1>1, CatOf, CatNear, OwnedParts
<1>3. /\ Made(q, file[t]) /\ Exists(t) /\ Exists(o)
      /\ t.base = Output(q).base /\ o.base = Output(q).base /\ o.k <= t.k
      /\ handle[q] = None
  BY <1>1, <1>2 DEF CatData, CatNames, Made, Complete, Exists, HandleIs, InCat
<1>4. SamefileRaises(t, o) = FALSE
  BY <1>3 DEF SamefileRaises
<1>5. d \in CatLocals
  BY <1>2, <1>4, PcTypes
<1>6. /\ d.inputs = cat[q].inputs /\ d.output = o /\ d.temp = t /\ d.pc = "finally" /\ d.failing = FALSE
  BY <1>2, <1>4 DEF CatLocals
<1>. HIDE DEF d
<1>7. CatMove(q, d)
  BY <1>1, <1>5, <1>6 DEF CatMove
<1>8. cat'[q] = d /\ d # None /\ fix'[q] = fix[q] /\ task'[q] = task[q]
      /\ (q \in unclosed => q \in unclosed')
  BY <1>7, CatMoves
<1>9. /\ handle' = handle /\ file'[o] = file[t] /\ file'[o] # None
      /\ \A n \in Name \ {t, o} : file'[n] = file[n]
      /\ \A n \in Name : (Active(q) /\ n.base = Output(q).base) \/ file'[n] = file[n]
      /\ Changes(q)
      /\ Exists(Output(q)) => file'[Output(q)] # None
  <2>1. CASE t = o
    BY <1>1, <1>3, <2>1, NoneChanged DEF Exists
  <2>2. CASE t # o
    <3>1. Renames(t, o)
      BY <1>1, <1>4, <2>2
    <3>. HIDE DEF t, o
    <3>. QED
      BY <1>2, <1>3, <2>2, <3>1, RenamesKeeps
  <2>. QED
    BY <2>1, <2>2
<1>10. CatData(q)'
  BY <1>3, <1>6, <1>8, <1>9 DEF CatData, Made
<1>11. HandleIs(q)'
  BY <1>3, <1>6, <1>8, <1>9 DEF HandleIs, InCat
<1>12. \A n \in Name : n.k > 0 /\ file'[n] # None => file[n] # None \/ n = t
  BY <1>3, <1>9 DEF Exists
<1>. QED
  BY <1>1, <1>6, <1>7, <1>9, <1>10, <1>11, <1>12, CatMoveOwn

LEMMA RenameFailsOwn ==
    ASSUME Owned, HistoryNext, NEW q \in Proc, RenameFails(q)
    PROVE  Own(q)
<1>. DEFINE d == [cat[q] EXCEPT !.pc = "finally", !.failing = TRUE]
<1>1. /\ cat[q] # None /\ cat[q].pc = "rename" /\ UNCHANGED <<file, handle, fix>> /\ CatGoes(q, d)
      /\ cat[q] \in CatLocals /\ HandleIs(q)
  BY CatOf, OwnedParts DEF RenameFails, InCat
<1>2. d \in CatLocals
  BY <1>1, PcTypes
<1>3. /\ d.inputs = cat[q].inputs /\ d.output = cat[q].output /\ d.temp = cat[q].temp
      /\ d.pc = "finally" /\ d.failing = TRUE
  BY <1>1 DEF CatLocals
<1>. HIDE DEF d
<1>4. CatMove(q, d)
  BY <1>1, <1>2, <1>3 DEF CatMove
<1>5. cat'[q] = d /\ d # None
  BY <1>4, CatMoves
<1>6. CatData(q)' /\ HandleIs(q)'
  BY <1>1, <1>3, <1>5 DEF CatData, HandleIs, InCat
<1>. QED
  BY <1>1, <1>3, <1>4, <1>6, NoneChanged, CatMoveOwn DEF Exists

\* What the finally clause of a cat that has not failed leaves.
LEMMA CatFinallyKeeps ==
    ASSUME Owned, NEW q \in Proc, CatFinally(q)
    PROVE  /\ cat[q] # None /\ CatEnds(q, cat[q].failing) /\ cat[q].failing \in BOOLEAN
           /\ handle' = handle /\ handle[q] = None
           /\ \A n \in Name \ {cat[q].temp} : file'[n] = file[n]
           /\ file'[cat[q].output] = file[cat[q].output]
           /\ cat[q].temp # cat[q].output => file'[cat[q].temp] = None
           /\ \A n \in Name : (Active(q) /\ n.base = Output(q).base) \/ file'[n] = file[n]
           /\ Changes(q)
           /\ Exists(Output(q)) => file'[Output(q)] # None
           /\ ~cat[q].failing => Made(q, file'[cat[q].output])
<1>. DEFINE t == cat[q].temp
            o == cat[q].output
<1>1. /\ cat[q] # None /\ cat[q].pc = "finally"
      /\ IF Leftover(t, o) /\ Exists(o) THEN Removes(t) ELSE UNCHANGED <<file, handle>>
      /\ CatEnds(q, cat[q].failing \/ (Leftover(t, o) /\ ~Exists(o)))
  BY DEF CatFinally, InCat
<1>2. /\ t \in Name /\ o \in Name /\ Active(q) /\ cat[q].failing \in BOOLEAN
      /\ CatNames(q) /\ HandleIs(q) /\ CatData(q)
  BY <1>1, CatOf, CatNear, OwnedParts
<1>3. /\ t # o => Exists(o)
      /\ t.base = Output(q).base /\ o.base = Output(q).base /\ o.k <= t.k
      /\ handle[q] = None
      /\ ~cat[q].failing => Made(q, file[o])
  BY <1>1, <1>2 DEF CatData, CatNames, HandleIs, InCat
<1>4. CatEnds(q, cat[q].failing)
  BY <1>1, <1>2, <1>3 DEF Leftover
<1>5. CASE Leftover(t, o)
  <2>1. Removes(t) /\ t # o
    BY <1>1, <1>3, <1>5 DEF Leftover
  <2>. HIDE DEF t, o
  <2>2. /\ handle' = handle
        /\ file'[t] = None /\ \A n \in Name \ {t} : file'[n] = file[n]
        /\ \A n \in Name : (Active(q) /\ n.base = Output(q).base) \/ file'[n] = file[n]
        /\ Changes(q)
        /\ Exists(Output(q)) => file'[Output(q)] # None
    BY <1>2, <1>3, <2>1, RemovesKeeps
  <2>. QED
    BY <1>1, <1>2, <1>3, <1>4, <2>1, <2>2 DEF t, o
<1>6. CASE ~Leftover(t, o)
  <2>1. UNCHANGED <<file, handle>>
    BY <1>1, <1>6
  <2>. QED
    BY <1>1, <1>2, <1>3, <1>4, <1>6, <2>1, NoneChanged DEF Leftover, Exists
<1>. QED
  BY <1>5, <1>6

LEMMA CatFinallyOwn ==
    ASSUME Owned, HistoryNext, NEW q \in Proc, CatFinally(q)
    PROVE  Own(q)
<1>1. cat[q] # None /\ cat[q].temp \in Name /\ CatNames(q) /\ cat[q].pc = "finally" /\ Active(q)
  BY CatNear, OwnedParts DEF CatFinally, InCat
<1>2. fix[q] # None => cat[q].output = fix[q].temp
  BY <1>1 DEF CatNames
<1>3. ASSUME NEW n \in Name, n.k > 0, file'[n] # None, Holds(q, n)
      PROVE  fix[q] # None /\ n = fix[q].temp
  <2>1. CASE n # cat[q].temp
    BY <1>3, <2>1 DEF Holds
  <2>2. CASE n = cat[q].temp
    <3>1. n = cat[q].output
      BY <1>3, <2>2, CatFinallyKeeps
    <3>2. CASE fix[q] = None
      <4>1. n = Output(q)
        BY <3>1, <3>2 DEF Output
      <4>. QED
        BY <1>1, <1>3, <4>1, OutputOf
    <3>. QED
      BY <1>2, <3>1, <3>2
  <2>. QED
    BY <2>1, <2>2
<1>4. \A n \in Name : file'[n] # None => file[n] # None
  BY CatFinallyKeeps
<1>5. \A n \in Name : n.k > 0 /\ file'[n] # None =>
               \/ file[n] # None /\ ~Holds(q, n)
               \/ fix[q] # None /\ n = fix[q].temp
  BY <1>3, <1>4
<1>6. /\ CatEnds(q, cat[q].failing) /\ cat[q].failing \in BOOLEAN
      /\ handle'[q] = None /\ \A r \in Proc \ {q} : handle'[r] = handle[r]
      /\ Exists(Output(q)) => file'[Output(q)] # None
      /\ fix[q] # None /\ ~cat[q].failing => Made(q, file'[fix[q].temp])
      /\ \A n \in Name : (Active(q) /\ n.base = Output(q).base) \/ file'[n] = file[n]
      /\ Changes(q)
  BY <1>2, CatFinallyKeeps
<1>. QED
  BY <1>1, <1>5, <1>6, CatEndsOwn

-----------------------------------------------------------------------------
(* The actions of fix.main *)

\* A step of fix.main, after which its locals are x.
FixMove(q, x) ==
    /\ fix[q] # None /\ cat[q] = None /\ x \in FixLocals
    /\ x.input = fix[q].input /\ x.output = fix[q].output
    /\ FixGoes(q, x) /\ UNCHANGED <<cat, handle>>

LEMMA FixMoves ==
    ASSUME Owned, HistoryNext, NEW q \in Proc, NEW x, FixMove(q, x)
    PROVE  /\ fix'[q] = x /\ x # None /\ cat'[q] = None /\ task'[q] = task[q]
           /\ q \in unclosed => q \in unclosed'
           /\ \A r \in Proc \ {q} : cat'[r] = cat[r] /\ fix'[r] = fix[r] /\ SameHistory(r)
           /\ Output(q)' = Output(q) /\ Output(q) = fix[q].output /\ Active(q) /\ Active(q)'
           /\ Uses(q)' = Uses(q) /\ Makes(q)' = Makes(q)
           /\ UseSame(q)
<1>1. fix'[q] = x /\ x # None /\ cat'[q] = None
      /\ \A r \in Proc \ {q} : cat'[r] = cat[r] /\ fix'[r] = fix[r]
  BY OwnedParts, NoneIsNone DEF FixMove, FixGoes, FixTyped
<1>2. fix[q] # None /\ cat[q] = None /\ x.input = fix[q].input /\ x.output = fix[q].output
  BY DEF FixMove
<1>3. task'[q] = task[q] /\ (q \in unclosed \/ CloseOutFails(q) => q \in unclosed')
  BY <1>1, <1>2 DEF HistoryNext, TaskNext, UnclosedNext, Idle
<1>4. /\ Output(q)' = Output(q) /\ Output(q) = fix[q].output
      /\ Uses(q)' = Uses(q) /\ Makes(q)' = Makes(q) /\ Active(q) /\ Active(q)'
  BY <1>1, <1>2 DEF Output, Uses, Makes, Active, Idle
<1>. QED
  BY <1>1, <1>3, <1>4, OthersLocals DEF UseSame

LEMMA FixMoveOwn ==
    ASSUME Owned, HistoryNext, NEW q \in Proc, NEW x, FixMove(q, x),
           x.pc \notin {"try", "name"} /\ x.temp = Output(q) => task[q].fresh,
           \A n \in Name : (Active(q) /\ n.base = Output(q).base) \/ file'[n] = file[n],
           Changes(q), Exists(Output(q)) => file'[Output(q)] # None,
           \A n \in Name : n.k > 0 /\ file'[n] # None => Holds(q, n)' \/ (file[n] # None /\ ~Holds(q, n)),
           FixNames(q)', FixData(q)'
    PROVE  Own(q)
<1>1. HandleIs(q) /\ OutputNew(q) /\ GivenNames(q) /\ fix[q] # None /\ cat[q] = None /\ handle' = handle
  BY OwnedParts DEF FixMove
<1>2. /\ fix'[q] = x /\ x # None /\ cat'[q] = None /\ task'[q] = task[q]
      /\ \A r \in Proc \ {q} : cat'[r] = cat[r] /\ fix'[r] = fix[r] /\ SameHistory(r)
      /\ Output(q)' = Output(q) /\ Active(q)
      /\ Uses(q)' = Uses(q) /\ UseSame(q)
  BY FixMoves
<1>3. CatNames(q)' /\ CatData(q)'
  BY <1>2 DEF CatNames, CatData
<1>4. HandleIs(q)'
  BY <1>1, <1>2 DEF HandleIs, InCat
<1>5. OutputNew(q)'
  BY <1>1, <1>2 DEF OutputNew, Exists
<1>6. GivenNames(q)' /\ Kept(q)
  BY <1>1, <1>2 DEF GivenNames, Kept
<1>. QED
  BY <1>1, <1>2, <1>3, <1>4, <1>5, <1>6, FrameOf, OwnShape

LEMMA FixEndsOwn ==
    ASSUME Owned, HistoryNext, NEW q \in Proc, NEW raises \in BOOLEAN, fix[q] # None, cat[q] = None,
           FixEnds(q, raises), UNCHANGED <<cat, handle>>,
           \A n \in Name : (Active(q) /\ n.base = Output(q).base) \/ file'[n] = file[n],
           Changes(q),
           \A n \in Name : n.k > 0 /\ file'[n] # None => file[n] # None /\ ~Holds(q, n)
    PROVE  Own(q)
<1>1. FixTyped /\ HandleIs(q)
  BY OwnedParts
<1>2. fix'[q] = None /\ cat'[q] = None /\ \A r \in Proc \ {q} : cat'[r] = cat[r] /\ fix'[r] = fix[r]
  BY <1>1 DEF FixEnds, FixGoes, FixTyped
<1>3. Frame(q)
  BY <1>2, OthersLocals, FrameOf
<1>4. CatNames(q)' /\ CatData(q)' /\ HandleIs(q)'
  BY <1>1, <1>2 DEF CatNames, CatData, HandleIs, InCat
<1>5. FixNames(q)' /\ FixData(q)' /\ OutputNew(q)'
  BY <1>2 DEF FixNames, FixData, OutputNew, Active, Idle
<1>6. GivenNames(q)' /\ UseSame(q)
  BY <1>2 DEF GivenNames, UseSame, Uses, Makes
<1>7. Kept(q)
  BY DEF Kept
<1>. QED
  BY <1>3, <1>4, <1>5, <1>6, <1>7, OwnShape

LEMMA FixTryOwn ==
    ASSUME Owned, HistoryNext, NEW q \in Proc, FixTry(q)
    PROVE  Own(q)
<1>1. /\ fix[q] # None /\ cat[q] = None /\ fix[q].pc = "try" /\ fix[q] \in FixLocals
      /\ UNCHANGED <<file, cat, handle>> /\ FixNames(q) /\ FixData(q)
  BY FixOf, OwnedParts DEF FixTry, InFix
<1>2. \A n \in Name : ~Holds(q, n)
  BY <1>1 DEF Holds
<1>3. ASSUME NEW raises \in BOOLEAN, FixEnds(q, raises)
      PROVE  Own(q)
  BY <1>1, <1>2, <1>3, FixEndsOwn, NoneChanged
<1>4. CASE Exists(fix[q].input)
           /\ FixGoes(q, [fix[q] EXCEPT !.pc = "name", !.needsFix = ~Readable(fix[q].input)])
  <2>. DEFINE x == [fix[q] EXCEPT !.pc = "name", !.needsFix = ~Readable(fix[q].input)]
  <2>1. x \in FixLocals
    BY <1>1 DEF FixLocals, Readable, Exists
  <2>2. /\ x.pc = "name" /\ x.needsFix = ~Readable(fix[q].input)
        /\ x.input = fix[q].input /\ x.output = fix[q].output /\ x.temp = fix[q].temp
    BY <1>1 DEF FixLocals
  <2>3. FixGoes(q, x)
    BY <1>4
  <2>. HIDE DEF x
  <2>4. FixMove(q, x)
    BY <1>1, <2>1, <2>2, <2>3 DEF FixMove
  <2>5. fix'[q] = x /\ cat'[q] = None /\ task'[q] = task[q]
    BY <2>4, FixMoves
  <2>6. FixNames(q)'
    BY <1>1, <2>2, <2>5 DEF FixNames, Exists
  <2>7. FixData(q)'
    <3>1. TakesInput(q)
      BY <1>1, <1>4 DEF FixData
    <3>2. TakesInput(q)'
      BY <1>1, <2>2, <2>5, <3>1 DEF TakesInput, Readable, Exists
    <3>. QED
      BY <1>1, <2>2, <2>5, <3>2 DEF FixData, Readable, Exists
  <2>. QED
    BY <1>1, <1>2, <2>2, <2>4, <2>6, <2>7, FixMoveOwn, NoneChanged DEF Exists
<1>. QED
  BY <1>3, <1>4 DEF FixTry

LEMMA FixChooseNameOwn ==
    ASSUME Owned, HistoryNext, NEW q \in Proc, FixChooseName(q)
    PROVE  Own(q)
<1>1. /\ fix[q] # None /\ cat[q] = None /\ fix[q].pc = "name" /\ fix[q] \in FixLocals
      /\ UNCHANGED <<file, cat, handle>> /\ FixNames(q) /\ FixData(q)
      /\ fix[q].temp \in Name /\ fix[q].needsFix \in BOOLEAN
  BY FixOf, OwnedParts DEF FixChooseName, InFix
<1>2. \A n \in Name : ~Holds(q, n)
  BY <1>1 DEF Holds
<1>3. PICK x : /\ FixMove(q, x) /\ x.needsFix = fix[q].needsFix
               /\ \/ Exists(fix[q].temp) /\ x.pc = "name" /\ x.temp = Longer(fix[q].temp)
                     /\ fix[q].temp.k < MaxTemps
                  \/ /\ ~Exists(fix[q].temp) /\ x.temp = fix[q].temp
                     /\ x.pc = IF fix[q].needsFix THEN "rebuild" ELSE "convert"
  <2>1. CASE Exists(fix[q].temp)
    <3>. DEFINE x == [fix[q] EXCEPT !.temp = Longer(@)]
    <3>1. Longer(fix[q].temp) \in Name /\ fix[q].temp.k < MaxTemps
      BY <1>1, <2>1, NamesAre DEF FixChooseName, Taken
    <3>2. x \in FixLocals
      BY <1>1, <3>1 DEF FixLocals
    <3>3. /\ x.pc = "name" /\ x.needsFix = fix[q].needsFix
          /\ x.input = fix[q].input /\ x.output = fix[q].output /\ x.temp = Longer(fix[q].temp)
      BY <1>1 DEF FixLocals
    <3>4. FixGoes(q, x)
      BY <2>1 DEF FixChooseName, Taken
    <3>. HIDE DEF x
    <3>. QED
      BY <1>1, <2>1, <3>1, <3>2, <3>3, <3>4 DEF FixMove
  <2>2. CASE ~Exists(fix[q].temp)
    <3>. DEFINE to == IF fix[q].needsFix THEN "rebuild" ELSE "convert"
                x  == [fix[q] EXCEPT !.pc = to]
    <3>2. x \in FixLocals
      BY <1>1 DEF FixLocals
    <3>3. /\ x.pc = to /\ x.needsFix = fix[q].needsFix
          /\ x.input = fix[q].input /\ x.output = fix[q].output /\ x.temp = fix[q].temp
      BY <1>1 DEF FixLocals
    <3>4. FixGoes(q, x)
      BY <2>2 DEF FixChooseName, Taken
    <3>. HIDE DEF x
    <3>. QED
      BY <1>1, <2>2, <3>2, <3>3, <3>4 DEF FixMove
  <2>. QED
    BY <2>1, <2>2
<1>4. fix'[q] = x /\ cat'[q] = None /\ task'[q] = task[q] /\ Active(q) /\ Output(q) = fix[q].output
  BY <1>3, FixMoves
<1>5. x.input = fix[q].input /\ x.output = fix[q].output
  BY <1>3 DEF FixMove
<1>6. FixNames(q)'
  <2>1. x.temp.base = fix[q].temp.base
    BY <1>1, <1>3, NamesAre
  <2>. QED
    BY <1>1, <1>3, <1>4, <1>5, <2>1 DEF FixNames, Exists
<1>7. FixData(q)'
  <2>1. TakesInput(q) /\ fix[q].needsFix = ~Readable(fix[q].input)
    BY <1>1 DEF FixData
  <2>2. TakesInput(q)' /\ (Readable(fix[q].input)' <=> Readable(fix[q].input)) /\ UNCHANGED file
    BY <1>1, <1>4, <1>5, <2>1 DEF TakesInput, Readable, Exists
  <2>3. CASE Exists(fix[q].temp)
    BY <1>3, <1>4, <1>5, <2>1, <2>2, <2>3 DEF FixData, Readable, Exists
  <2>4. CASE ~Exists(fix[q].temp) /\ fix[q].needsFix
    BY <1>3, <1>4, <1>5, <2>1, <2>2, <2>4 DEF FixData, Exists
  <2>5. CASE ~Exists(fix[q].temp) /\ ~fix[q].needsFix
    BY <1>3, <1>4, <1>5, <2>1, <2>2, <2>5 DEF FixData, Exists
  <2>. QED
    BY <1>1, <2>3, <2>4, <2>5
<1>8. x.pc \notin {"try", "name"} /\ x.temp = Output(q) => task[q].fresh
  BY <1>3, <1>4, OldOutput
<1>. QED
  BY <1>1, <1>2, <1>3, <1>6, <1>7, <1>8, FixMoveOwn, NoneChanged DEF Exists

LEMMA RebuildOwn ==
    ASSUME Owned, HistoryNext, NEW q \in Proc, Rebuild(q)
    PROVE  Own(q)
<1>. DEFINE t == fix[q].temp
<1>1. /\ fix[q] # None /\ cat[q] = None /\ fix[q].pc = "rebuild" /\ fix[q] \in FixLocals
      /\ UNCHANGED <<cat, handle>> /\ FixNames(q) /\ FixData(q) /\ OutputNew(q)
      /\ t \in Name /\ fix[q].input \in Name /\ FilesTyped
  BY FixOf, OwnedParts DEF Rebuild, InFix
<1>2. \A n \in Name : ~Holds(q, n)
  BY <1>1 DEF Holds
<1>3. /\ Active(q) /\ Output(q) = fix[q].output /\ t.base = Output(q).base
      /\ t = Output(q) => task[q].fresh
  BY <1>1, FixNear DEF FixNames, OutputNew
<1>4. CASE /\ UNCHANGED file
           /\ FixGoes(q, [fix[q] EXCEPT !.pc = "finally", !.failing = TRUE])
  <2>. DEFINE x == [fix[q] EXCEPT !.pc = "finally", !.failing = TRUE]
  <2>1. /\ x \in FixLocals /\ x.pc = "finally"
        /\ x.input = fix[q].input /\ x.output = fix[q].output /\ x.temp = t
    BY <1>1 DEF FixLocals
  <2>2. FixGoes(q, x)
    BY <1>4
  <2>. HIDE DEF x
  <2>3. FixMove(q, x)
    BY <1>1, <2>1, <2>2 DEF FixMove
  <2>4. fix'[q] = x /\ cat'[q] = None /\ task'[q] = task[q]
    BY <2>3, FixMoves
  <2>5. FixNames(q)'
    BY <1>1, <1>4, <2>1, <2>4 DEF FixNames, Exists
  <2>6. FixData(q)'
    BY <2>1, <2>4 DEF FixData
  <2>. QED
    BY <1>2, <1>3, <1>4, <2>1, <2>3, <2>5, <2>6, FixMoveOwn, NoneChanged DEF Exists
<1>5. ASSUME Exists(fix[q].input), NEW S \in SUBSET DOMAIN file[fix[q].input].records,
             NEW kind \in {"zip32", "zip64"},
             file' = [file EXCEPT ![t] = [kind |-> kind, records |-> Restrict(file[fix[q].input].records, S)]],
             NEW fails \in BOOLEAN,
             FixGoes(q, [fix[q] EXCEPT !.pc = IF fails THEN "finally" ELSE "convert", !.failing = fails])
      PROVE  Own(q)
  <2>. DEFINE to == IF fails THEN "finally" ELSE "convert"
              x  == [fix[q] EXCEPT !.pc = to, !.failing = fails]
              a  == [kind |-> kind, records |-> Restrict(file[fix[q].input].records, S)]
  <2>1. /\ x \in FixLocals /\ x.pc = to /\ x.needsFix = fix[q].needsFix
        /\ x.input = fix[q].input /\ x.output = fix[q].output /\ x.temp = t
    BY <1>1 DEF FixLocals
  <2>2. FixGoes(q, x)
    BY <1>5
  <2>3. file[fix[q].input].records \in Records
    BY <1>1, <1>5, FileOf
  <2>4. Restrict(file[fix[q].input].records, S) \in Records
    BY <1>5, <2>3, RestrictIsDict DEF Records
  <2>5. a \in Archive /\ a.kind \in {"zip32", "zip64"}
        /\ a.records = Restrict(file[fix[q].input].records, S)
    BY <2>4 DEF Archive
  <2>6. file' = [file EXCEPT ![t] = a]
    BY <1>5
  <2>. HIDE DEF x, a
  <2>7. file'[t] = a /\ a # None /\ \A n \in Name \ {t} : file'[n] = file[n]
    BY <1>1, <2>5, <2>6, NoneIsNone DEF FilesTyped
  <2>8. FixMove(q, x)
    BY <1>1, <2>1, <2>2 DEF FixMove
  <2>9. fix'[q] = x /\ cat'[q] = None /\ task'[q] = task[q] /\ fix'[q] # None
    BY <2>8, FixMoves
  <2>10. \A n \in Name : file[n] # None => file'[n] # None
    BY <2>7
  <2>11. FixNames(q)'
    <3>1. fix[q].output \in Name
      BY <1>1, FixOf, OwnedParts
    <3>. QED
      BY <1>1, <2>1, <2>9, <2>10, <3>1 DEF FixNames, Exists
  <2>12. FixData(q)'
    <3>1. fix[q].needsFix /\ TakesInput(q) /\ ~Readable(fix[q].input)
      BY <1>1 DEF FixData
    <3>2. task[q].records = file[fix[q].input].records /\ task[q].exact = FALSE
      BY <3>1 DEF TakesInput, Readable
    <3>3. Fits(task[q], a.records)
      BY <2>5, <3>2 DEF Fits
    <3>4. Readable(t)'
      <4>1. fix'[q].temp = t
        BY <2>1, <2>9
      <4>. QED
        BY <2>5, <2>7, <4>1 DEF Readable, Exists
    <3>5. x.pc # "try" /\ x.pc # "name" /\ x.pc # "rebuild" /\ x.pc # "rename"
      BY <2>1
    <3>. QED
      BY <2>1, <2>7, <2>9, <3>1, <3>3, <3>4, <3>5 DEF FixData
  <2>13. /\ \A n \in Name : (Active(q) /\ n.base = Output(q).base) \/ file'[n] = file[n]
         /\ Changes(q)
    <3>. HIDE DEF t
    <3>. QED
      BY <1>1, <1>3, <2>7, OneChanged
  <2>14. \A n \in Name : n.k > 0 /\ file'[n] # None => Holds(q, n)' \/ (file[n] # None /\ ~Holds(q, n))
    <3>1. \A n : n = t => Holds(q, n)'
      BY <2>1, <2>9 DEF Holds
    <3>. QED
      BY <1>2, <2>7, <3>1
  <2>15. Exists(Output(q)) => file'[Output(q)] # None
    BY <1>3, <2>10, OutputOf DEF Exists
  <2>. QED
    BY <1>3, <2>1, <2>8, <2>11, <2>12, <2>13, <2>14, <2>15, FixMoveOwn
<1>. QED
  BY <1>4, <1>5 DEF Rebuild

LEMMA MergedOne ==
    ASSUME FilesTyped, NEW n \in Name, Readable(n)
    PROVE  Merged(<<n>>) = file[n].records
<1>. DEFINE ins     == <<n>>
            Holding(p) == {i \in Inputs(ins) : p \in DOMAIN file[ins[i]].records}
            paths   == UNION {DOMAIN file[ins[i]].records : i \in Inputs(ins)}
<1>1. Inputs(ins) = {1} /\ ins[1] = n
  BY DEF Inputs
<1>2. paths = DOMAIN file[n].records
  BY <1>1
<1>3. ASSUME NEW p \in paths
      PROVE  (CHOOSE i \in Holding(p) : \A j \in Holding(p) : j <= i) = 1
  <2>. DEFINE S == Holding(p)
  <2>1. S = {1}
    BY <1>1, <1>2
  <2>. HIDE DEF S
  <2>2. (CHOOSE i \in S : \A j \in S : j <= i) \in S
    BY <2>1
  <2>3. (CHOOSE i \in S : \A j \in S : j <= i) = 1
    BY <2>1, <2>2
  <2>. QED
    BY <2>3 DEF S
<1>4. Merged(ins) = [p \in paths |->
         file[ins[CHOOSE i \in Holding(p) : \A j \in Holding(p) : j <= i]].records[p]]
  BY DEF Merged
<1>5. file[n].records = [p \in DOMAIN file[n].records |-> file[n].records[p]]
  BY FileOf, DictOf DEF Readable, Records
<1>. HIDE DEF Holding, paths, ins
<1>6. Merged(ins) = [p \in paths |-> file[n].records[p]]
  BY <1>1, <1>3, <1>4
<1>. QED
  BY <1>2, <1>5, <1>6 DEF ins

LEMMA ConvertOwn ==
    ASSUME Owned, HistoryNext, NEW q \in Proc, Convert(q)
    PROVE  Own(q)
<1>. DEFINE t     == fix[q].temp
            fixed == IF fix[q].needsFix THEN t ELSE fix[q].input
<1>1. /\ fix[q] # None /\ cat[q] = None /\ fix[q].pc = "convert" /\ fix[q] \in FixLocals
      /\ UNCHANGED <<file, handle>> /\ FixNames(q) /\ FixData(q) /\ OutputNew(q) /\ HandleIs(q)
      /\ GivenNames(q) /\ t \in Name /\ fix[q].input \in Name /\ fixed \in Name
      /\ FilesTyped /\ CatTyped /\ fix[q].needsFix \in BOOLEAN
  BY FixOf, OwnedParts DEF Convert, InFix
<1>2. Active(q) /\ Output(q) = fix[q].output /\ Near(q, t) /\ Near(q, fixed) /\ t.base = Output(q).base
  BY <1>1, FixNear DEF FixNames
<1>3. /\ Readable(fixed) /\ Fits(task[q], file[fixed].records)
      /\ fix[q].needsFix \/ ~Exists(t)
  BY <1>1 DEF FixData, TakesInput, Fits
<1>4. CASE CatGoes(q, CatCall(<<fixed>>, t)) /\ UNCHANGED fix
  <2>. DEFINE d == CatCall(<<fixed>>, t)
  <2>1. /\ d.pc = "name" /\ d.inputs = <<fixed>> /\ d.output = t /\ d.temp = t
        /\ d.next = 1 /\ d.recordFiles = <<>> /\ d.failing = FALSE
    BY DEF CatCall
  <2>2. d \in CatLocals
    <3>1. <<fixed>> \in Seq(Name)
      BY <1>1
    <3>. QED
      BY <1>1, <3>1, CallTypes
  <2>3. CatGoes(q, d)
    BY <1>4
  <2>. HIDE DEF d, fixed, t
  <2>4. cat'[q] = d /\ d # None /\ fix'[q] = fix[q]
        /\ \A r \in Proc \ {q} : cat'[r] = cat[r] /\ fix'[r] = fix[r]
    BY <1>1, <1>4, <2>2, <2>3, NoneIsNone DEF CatGoes, CatTyped
  <2>5. task'[q] = task[q]
    BY <1>1, <2>4 DEF HistoryNext, TaskNext, Idle
  <2>6. Output(q)' = Output(q) /\ Active(q)' /\ Uses(q)' = Uses(q) /\ Makes(q)' = Makes(q)
        /\ \A n : Near(q, n)' <=> Near(q, n)
    BY <1>1, <2>4 DEF Output, Uses, Makes, Active, Idle, Near
  <2>7. Frame(q)
    BY <1>1, <2>4, OthersLocals, NoneChanged, FrameOf
  <2>8. CatNames(q)'
    <3>1. t.k <= t.k
      BY <1>1, NamesAre
    <3>2. \A i \in DOMAIN <<fixed>> : <<fixed>>[i] = fixed
      OBVIOUS
    <3>. QED
      BY <1>1, <1>2, <2>1, <2>4, <2>6, <3>1, <3>2 DEF CatNames, t
  <2>9. FixNames(q)' /\ FixData(q)' /\ HandleIs(q)' /\ GivenNames(q)' /\ UseSame(q)
    BY <1>1, <2>1, <2>4, <2>6 DEF FixNames, FixData, HandleIs, InCat, GivenNames, UseSame, Exists
  <2>10. OutputNew(q)'
    BY <1>1, <1>2, <2>1, <2>4, <2>5, <2>6 DEF OutputNew, Exists
  <2>11. CatData(q)'
    <3>1. Merged(<<fixed>>) = file[fixed].records
      BY <1>1, <1>3, MergedOne
    <3>2. <<fixed>> \in Seq(Name) /\ \A i \in 1..Len(<<fixed>>) : file'[<<fixed>>[i]] = file[<<fixed>>[i]]
      BY <1>1
    <3>3. cat'[q].inputs = <<fixed>>
      BY <2>1, <2>4
    <3>. DEFINE same == Merged(cat[q].inputs)'
    <3>4. same = Merged(<<fixed>>)
      <4>1. Merged(cat[q].inputs)' = Merged(<<fixed>>)
        BY <1>1, <3>3 DEF Merged, Inputs, Readable, Exists
      <4>. QED
        BY <4>1
    <3>5. Fits(task[q], Merged(cat[q].inputs)')
      BY <1>3, <3>1, <3>4
    <3>. QED
      BY <2>1, <2>4, <2>5, <3>5 DEF CatData
  <2>12. Kept(q)
    <3>1. \A n \in Name : Holds(q, n) => Holds(q, n)'
      BY <1>1, <2>4 DEF Holds
    <3>. QED
      BY <1>1, <3>1 DEF Kept
  <2>13. Changes(q)
    BY <1>1 DEF Changes
  <2>. QED
    BY <2>7, <2>8, <2>9, <2>10, <2>11, <2>12, <2>13, OwnShape
<1>5. CASE /\ ~ (Readable(fixed) /\ file[fixed].kind = "zip32")
           /\ FixGoes(q, [fix[q] EXCEPT !.pc = IF Readable(fixed) THEN "rename" ELSE "finally",
                                        !.failing = ~Readable(fixed)])
           /\ UNCHANGED cat
  <2>. DEFINE x == [fix[q] EXCEPT !.pc = "rename", !.failing = FALSE]
  <2>1. /\ x \in FixLocals /\ x.pc = "rename" /\ x.needsFix = fix[q].needsFix
        /\ x.input = fix[q].input /\ x.output = fix[q].output /\ x.temp = t
    BY <1>1 DEF FixLocals
  <2>2. FixGoes(q, x)
    BY <1>3, <1>5
  <2>. HIDE DEF x
  <2>3. FixMove(q, x)
    BY <1>1, <1>5, <2>1, <2>2 DEF FixMove
  <2>4. fix'[q] = x /\ cat'[q] = None /\ task'[q] = task[q] /\ x # None
    BY <2>3, FixMoves
  <2>5. FixNames(q)'
    BY <1>1, <2>1, <2>4 DEF FixNames, Exists
  <2>6. FixData(q)'
    <3>1. ASSUME Exists(t)
          PROVE  Complete(task[q], file[t])
      <4>1. fixed = t
        BY <1>3, <3>1
      <4>2. file[t].kind \in {"zip32", "zip64", "broken"}
        BY <1>1, <3>1, FileOf
      <4>. QED
        BY <1>3, <1>5, <3>1, <4>1, <4>2 DEF Complete, Readable, Exists
    <3>. QED
      BY <1>1, <2>1, <2>4, <3>1 DEF FixData, Made, Exists
  <2>7. x.pc \notin {"try", "name"} /\ x.temp = Output(q) => task[q].fresh
    BY <1>1, <1>2, <2>1 DEF OutputNew
  <2>8. \A n \in Name : Holds(q, n) => Holds(q, n)'
    BY <1>1, <2>1, <2>4 DEF Holds
  <2>9. \A n \in Name : n.k > 0 /\ file'[n] # None => Holds(q, n)' \/ (file[n] # None /\ ~Holds(q, n))
    BY <1>1, <2>8
  <2>. QED
    BY <1>1, <2>3, <2>5, <2>6, <2>7, <2>9, FixMoveOwn, NoneChanged DEF Exists
<1>. QED
  BY <1>4, <1>5 DEF Convert

LEMMA FixRenameOwn ==
    ASSUME Owned, HistoryNext, NEW q \in Proc, FixRename(q)
    PROVE  Own(q)
<1>. DEFINE t == fix[q].temp
            o == fix[q].output
            x == [fix[q] EXCEPT !.pc = "finally", !.failing = FALSE]
<1>1. /\ fix[q] # None /\ cat[q] = None /\ fix[q].pc = "rename" /\ fix[q] \in FixLocals
      /\ UNCHANGED cat /\ FixNames(q) /\ FixData(q) /\ OutputNew(q) /\ HandleIs(q)
      /\ t \in Name /\ o \in Name
  BY FixOf, OwnedParts DEF FixRename, InFix
<1>2. /\ Active(q) /\ Output(q) = o /\ t.base = Output(q).base /\ o.base = Output(q).base
      /\ t # o => Exists(o)
      /\ handle[q] = None
      /\ Exists(t) => Made(q, file[t])
  BY <1>1, FixNear DEF FixNames, FixData, HandleIs, InCat
<1>3. o.k <= t.k
  <2>1. o.k = 0 /\ t.k \in Nat
    BY <1>1, <1>2, OutputOf, NamesAre
  <2>. QED
    BY <2>1
<1>4. (Leftover(t, o) /\ ~Exists(o)) = FALSE
  BY <1>2 DEF Leftover
<1>5. FixGoes(q, x)
  BY <1>4 DEF FixRename
<1>6. x \in FixLocals /\ x.pc = "finally" /\ x.input = fix[q].input /\ x.output = o /\ x.temp = t
  BY <1>1 DEF FixLocals
<1>. HIDE DEF x
<1>7. /\ handle' = handle
      /\ \A n \in Name : n.k > 0 /\ file'[n] # None => file[n] # None
      /\ \A n \in Name : (Active(q) /\ n.base = Output(q).base) \/ file'[n] = file[n]
      /\ Changes(q)
      /\ Exists(Output(q)) => file'[Output(q)] # None
  <2>1. CASE Leftover(t, o)
    <3>1. Renames(t, o) /\ t # o /\ Made(q, file[t])
      BY <1>2, <2>1 DEF FixRename, Leftover
    <3>. HIDE DEF t, o
    <3>2. /\ handle' = handle
          /\ file'[t] = None /\ \A n \in Name \ {t, o} : file'[n] = file[n]
          /\ \A n \in Name : (Active(q) /\ n.base = Output(q).base) \/ file'[n] = file[n]
          /\ Changes(q)
          /\ Exists(Output(q)) => file'[Output(q)] # None
      BY <1>1, <1>2, <1>3, <3>1, RenamesKeeps
    <3>3. file[o] # None
      BY <1>2, <3>1 DEF Exists
    <3>. QED
      BY <3>2, <3>3
  <2>2. CASE ~Leftover(t, o)
    BY <2>2, NoneChanged DEF FixRename, Exists
  <2>. QED
    BY <2>1, <2>2
<1>8. FixMove(q, x)
  BY <1>1, <1>5, <1>6, <1>7 DEF FixMove
<1>9. fix'[q] = x /\ cat'[q] = None /\ task'[q] = task[q] /\ x # None
  BY <1>8, FixMoves
<1>10. FixNames(q)'
  BY <1>1, <1>2, <1>6, <1>7, <1>9 DEF FixNames, Exists
<1>11. FixData(q)'
  BY <1>6, <1>9 DEF FixData
<1>12. x.pc \notin {"try", "name"} /\ x.temp = Output(q) => task[q].fresh
  BY <1>1, <1>2, <1>6 DEF OutputNew
<1>13. \A n \in Name : Holds(q, n) => Holds(q, n)'
  BY <1>1, <1>6, <1>9 DEF Holds
<1>14. \A n \in Name : n.k > 0 /\ file'[n] # None => Holds(q, n)' \/ (file[n] # None /\ ~Holds(q, n))
  BY <1>7, <1>13
<1>. QED
  BY <1>7, <1>8, <1>10, <1>11, <1>12, <1>14, FixMoveOwn

LEMMA FixRenameFailsOwn ==
    ASSUME Owned, HistoryNext, NEW q \in Proc, FixRenameFails(q)
    PROVE  Own(q)
<1>. DEFINE x == [fix[q] EXCEPT !.pc = "finally", !.failing = TRUE]
<1>1. /\ fix[q] # None /\ cat[q] = None /\ fix[q].pc = "rename" /\ fix[q] \in FixLocals
      /\ UNCHANGED <<file, cat, handle>> /\ FixNames(q) /\ OutputNew(q) /\ FixGoes(q, x)
  BY FixOf, OwnedParts DEF FixRenameFails, InFix
<1>2. /\ x \in FixLocals /\ x.pc = "finally" /\ x.input = fix[q].input /\ x.output = fix[q].output
      /\ x.temp = fix[q].temp
  BY <1>1 DEF FixLocals
<1>. HIDE DEF x
<1>3. FixMove(q, x)
  BY <1>1, <1>2 DEF FixMove
<1>4. fix'[q] = x /\ cat'[q] = None /\ x # None /\ Active(q)
  BY <1>3, FixMoves
<1>5. FixNames(q)' /\ FixData(q)'
  BY <1>1, <1>2, <1>4 DEF FixNames, FixData, Exists
<1>6. x.pc \notin {"try", "name"} /\ x.temp = Output(q) => task[q].fresh
  BY <1>1, <1>2, <1>4 DEF OutputNew
<1>7. \A n \in Name : Holds(q, n) => Holds(q, n)'
  BY <1>1, <1>2, <1>4 DEF Holds
<1>8. \A n \in Name : n.k > 0 /\ file'[n] # None => Holds(q, n)' \/ (file[n] # None /\ ~Holds(q, n))
  BY <1>1, <1>7
<1>. QED
  BY <1>1, <1>3, <1>5, <1>6, <1>8, FixMoveOwn, NoneChanged DEF Exists

LEMMA FixFinallyOwn ==
    ASSUME Owned, HistoryNext, NEW q \in Proc, FixFinally(q)
    PROVE  Own(q)
<1>. DEFINE t == fix[q].temp
            o == fix[q].output
<1>1. /\ fix[q] # None /\ cat[q] = None /\ fix[q].pc = "finally"
      /\ UNCHANGED cat /\ FixNames(q) /\ HandleIs(q)
      /\ t \in Name /\ o \in Name /\ fix[q].failing \in BOOLEAN
  BY FixOf, OwnedParts DEF FixFinally, InFix
<1>2. /\ Active(q) /\ Output(q) = o /\ t.base = Output(q).base /\ o.base = Output(q).base
      /\ t # o => Exists(o)
      /\ handle[q] = None
  BY <1>1, FixNear DEF FixNames, HandleIs, InCat
<1>3. o.k = 0 /\ t.k \in Nat
  BY <1>1, <1>2, OutputOf, NamesAre
<1>4. FixEnds(q, fix[q].failing)
  BY <1>1, <1>2 DEF FixFinally, Leftover
<1>5. \A n \in Name : Holds(q, n) => n = t
  BY <1>1 DEF Holds
<1>6. /\ handle' = handle
      /\ \A n \in Name : n.k > 0 /\ file'[n] # None => file[n] # None /\ n # t
      /\ \A n \in Name : (Active(q) /\ n.base = Output(q).base) \/ file'[n] = file[n]
      /\ Changes(q)
  <2>1. CASE Leftover(t, o)
    <3>1. Removes(t) /\ t # o /\ o.k <= t.k
      BY <1>2, <1>3, <2>1 DEF FixFinally, Leftover
    <3>. HIDE DEF t, o
    <3>2. /\ handle' = handle
          /\ file'[t] = None /\ \A n \in Name \ {t} : file'[n] = file[n]
          /\ \A n \in Name : (Active(q) /\ n.base = Output(q).base) \/ file'[n] = file[n]
          /\ Changes(q)
      BY <1>1, <1>2, <3>1, RemovesKeeps
    <3>. QED
      BY <3>2
  <2>2. CASE ~Leftover(t, o)
    <3>1. UNCHANGED <<file, handle>>
      BY <2>2 DEF FixFinally
    <3>2. \A n \in Name : n.k > 0 /\ file[n] # None => n # t
      BY <1>3, <2>2 DEF Leftover, Exists
    <3>. QED
      BY <3>1, <3>2, NoneChanged
  <2>. QED
    BY <2>1, <2>2
<1>. QED
  BY <1>1, <1>4, <1>5, <1>6, FixEndsOwn

LEMMA DieOwn ==
    ASSUME Owned, HistoryNext, DiedNext, NEW q \in Proc, Die(q)
    PROVE  Own(q)
<1>1. CatTyped /\ FixTyped /\ FilesTyped /\ EndsTyped
  BY TypeParts, OwnedParts DEF Owned
<1>2. /\ cat'[q] = None /\ fix'[q] = None /\ handle'[q] = None /\ outcome'[q] = "died" /\ UNCHANGED file
      /\ \A r \in Proc \ {q} : cat'[r] = cat[r] /\ fix'[r] = fix[r] /\ handle'[r] = handle[r]
  BY <1>1 DEF Die, CatTyped, FixTyped, FilesTyped, EndsTyped
<1>3. Frame(q) /\ Changes(q)
  BY <1>2, OthersLocals, NoneChanged, FrameOf
<1>4. CatNames(q)' /\ CatData(q)' /\ HandleIs(q)' /\ FixNames(q)' /\ FixData(q)' /\ OutputNew(q)'
  BY <1>2 DEF CatNames, CatData, HandleIs, InCat, FixNames, FixData, OutputNew, Active, Idle
<1>5. GivenNames(q)' /\ UseSame(q)
  BY <1>2 DEF GivenNames, UseSame, Uses, Makes
<1>6. Kept(q)
  BY <1>2 DEF Kept, DiedNext
<1>. QED
  BY <1>3, <1>4, <1>5, <1>6, OwnShape

\* Every step of a process that runs.
LEMMA StepOwn ==
    ASSUME Owned, HistoryNext, DiedNext, NEW q \in Proc, Step(q) \/ Die(q)
    PROVE  Own(q) /\ Active(q)
<1>1. Active(q)
  BY DEF Step, Die, Active, Idle, InCat, InFix, ChooseName, Index, Create, CreateFails, CopySource,
         CopyFails, Closes, CloseOut, CloseOutFails, RenameOutput, RenameFails, CatFinally, FixTry,
         FixChooseName, Rebuild, Convert, FixRename, FixRenameFails, FixFinally
<1>. QED
  BY <1>1, ChooseNameOwn, IndexOwn, CreateOwn, CreateFailsOwn, CopySourceOwn, CopyFailsOwn,
     CloseOutOwn, CloseOutFailsOwn, RenameOutputOwn, RenameFailsOwn, CatFinallyOwn, FixTryOwn,
     FixChooseNameOwn, RebuildOwn, ConvertOwn, FixRenameOwn, FixRenameFailsOwn, FixFinallyOwn, DieOwn
     DEF Step

-----------------------------------------------------------------------------
(* Starting a tool *)

LEMMA MergedTypes ==
    ASSUME FilesTyped, NEW inputs \in Seq(Name)
    PROVE  Merged(inputs) \in Records
<1>. DEFINE Holding(p) == {i \in Inputs(inputs) : p \in DOMAIN file[inputs[i]].records}
            Last(S)  == CHOOSE i \in S : \A j \in S : j <= i
            paths    == UNION {DOMAIN file[inputs[i]].records : i \in Inputs(inputs)}
            gives    == [p \in paths |-> file[inputs[Last(Holding(p))]].records[p]]
<1>1. DOMAIN inputs = 1..Len(inputs) /\ Len(inputs) \in Nat
  OBVIOUS
<1>2. Inputs(inputs) \subseteq 1..Len(inputs)
  BY <1>1 DEF Inputs
<1>3. \A i \in Inputs(inputs) : file[inputs[i]].records \in Dict(Value)
  BY <1>1, <1>2, FileOf DEF Inputs, Readable, Records
<1>4. paths \in SUBSET Path
  BY <1>3, DictOf
<1>5. ASSUME NEW p \in paths
      PROVE  file[inputs[Last(Holding(p))]].records[p] \in Value
  <2>. DEFINE S == Holding(p)
  <2>1. S \in SUBSET (1..Len(inputs)) /\ S # {}
    BY <1>2
  <2>2. \A i \in S : i \in Inputs(inputs) /\ p \in DOMAIN file[inputs[i]].records
    OBVIOUS
  <2>. HIDE DEF S
  <2>3. \E i \in S : \A j \in S : j <= i
    BY <1>1, <2>1, LastPosition
  <2>4. Last(S) \in S
    BY <2>3
  <2>5. file[inputs[Last(S)]].records[p] \in Value
    <3>. DEFINE l == Last(S)
    <3>1. l \in Inputs(inputs) /\ p \in DOMAIN file[inputs[l]].records
      BY <2>2, <2>4
    <3>. HIDE DEF l
    <3>. QED
      BY <1>3, <3>1, DictOf DEF l
  <2>. QED
    BY <2>5 DEF S
<1>6. Merged(inputs) = gives
  BY DEF Merged
<1>. HIDE DEF Holding, Last, paths
<1>7. gives \in Dict(Value)
  BY <1>4, <1>5, MakesDict
<1>. QED
  BY <1>6, <1>7 DEF Records

\* What starting a tool for q has to give; the files of the others are not touched.
Starting(q) ==
    /\ Frame(q) /\ UNCHANGED <<file, handle>>
    /\ ~Active(q) /\ Active(q)'
    /\ task'[q] \in Tasks
    /\ Shape(q)'
    /\ \A r \in Proc \ {q} : Makes(q)' \cap Uses(r) = {} /\ Makes(r) \cap Uses(q)' = {}

LEMMA StartsOthers ==
    ASSUME Owned, HistoryNext, NEW q \in Proc, NEW used, NEW made, Starts(q, used, made),
           \A r \in Proc \ {q} : cat'[r] = cat[r] /\ fix'[r] = fix[r]
    PROVE  /\ Frame(q) /\ UNCHANGED <<file, handle>> /\ ~Active(q) /\ handle[q] = None
           /\ cat[q] = None /\ fix[q] = None
<1>1. cat[q] = None /\ fix[q] = None /\ UNCHANGED <<file, handle>>
  BY DEF Starts
<1>2. HandleIs(q)
  BY OwnedParts
<1>. QED
  BY <1>1, <1>2, OthersLocals, NoneChanged, FrameOf DEF Active, Idle, HandleIs, InCat

LEMMA StartCatStarts ==
    ASSUME Apart, Owned, HistoryNext, NEW q \in Proc, NEW job \in CatJobs, StartCat(q, job)
    PROVE  Starting(q)
<1>. DEFINE inputs == job.inputs
            output == job.output
            d      == CatCall(inputs, output)
<1>1. CatTyped /\ FixTyped /\ FilesTyped
  BY OwnedParts
<1>2. inputs \in Seq(Name) /\ Range(inputs) \subseteq Given /\ output \in Name /\ output \in Given
  BY ToolsAssumption, GivenAre, GivenSequence
<1>3. d \in CatLocals
  BY <1>2, CallTypes
<1>4. /\ d.pc = "name" /\ d.inputs = inputs /\ d.output = output /\ d.temp = output
      /\ d.next = 1 /\ d.recordFiles = <<>> /\ d.failing = FALSE
  BY DEF CatCall
<1>5. Starts(q, Range(inputs), output) /\ cat' = [cat EXCEPT ![q] = d] /\ UNCHANGED fix
  BY DEF StartCat
<1>. HIDE DEF d, inputs, output
<1>6. cat'[q] = d /\ d # None /\ \A r \in Proc \ {q} : cat'[r] = cat[r] /\ fix'[r] = fix[r]
  BY <1>1, <1>3, <1>5, NoneIsNone DEF CatTyped
<1>7. /\ Frame(q) /\ UNCHANGED <<file, handle>> /\ ~Active(q) /\ handle[q] = None
      /\ cat[q] = None /\ fix[q] = None
  BY <1>5, <1>6, StartsOthers
<1>8. /\ fix'[q] = None /\ Active(q)' /\ Output(q)' = output
      /\ Uses(q)' = Range(inputs) \cup {output} /\ Makes(q)' = {output}
  BY <1>4, <1>5, <1>6, <1>7 DEF Active, Idle, Output, Uses, Makes
<1>9. task'[q] = Task(inputs, output, TRUE)
  BY <1>4, <1>6, <1>7 DEF HistoryNext, TaskNext, Idle, Begun
<1>10. /\ task'[q] \in Tasks
       /\ task'[q].output = output /\ task'[q].fresh = ~Exists(output)
       /\ task'[q].records = Merged(inputs) /\ task'[q].exact = TRUE
  <2>1. Merged(inputs) \in Records
    BY <1>1, <1>2, MergedTypes
  <2>. QED
    BY <1>2, <1>9, <2>1 DEF Task, Tasks, Exists
<1>11. CatNames(q)'
  <2>1. output.k <= output.k
    BY <1>2, NamesAre
  <2>2. \A i \in DOMAIN inputs : inputs[i] \in Range(inputs)
    BY DEF Range
  <2>. QED
    BY <1>4, <1>6, <1>8, <2>1, <2>2 DEF CatNames, Near
<1>12. FixNames(q)' /\ FixData(q)' /\ HandleIs(q)'
  BY <1>4, <1>6, <1>7, <1>8 DEF FixNames, FixData, HandleIs, InCat
<1>13. OutputNew(q)'
  BY <1>4, <1>6, <1>7, <1>8, <1>10 DEF OutputNew, Exists
<1>14. GivenNames(q)'
  BY <1>2, <1>8 DEF GivenNames
<1>15. CatData(q)'
  <2>1. Merged(cat[q].inputs)' = Merged(inputs)
    <3>1. cat'[q].inputs = inputs /\ file' = file
      BY <1>4, <1>6, <1>7
    <3>. QED
      BY <3>1 DEF Merged, Inputs, Readable, Exists
  <2>2. Fits(task[q], Merged(cat[q].inputs))'
    BY <1>10, <2>1 DEF Fits
  <2>. QED
    BY <1>4, <1>6, <2>2 DEF CatData
<1>16. \A r \in Proc \ {q} : Makes(q)' \cap Uses(r) = {} /\ Makes(r) \cap Uses(q)' = {}
  <2>1. \A r \in Proc : output \notin Uses(r) /\ Range(inputs) \cap Makes(r) = {}
    BY <1>5 DEF Starts
  <2>2. \A r \in Proc : Makes(r) \subseteq Uses(r)
    BY DEF Makes, Uses
  <2>. QED
    BY <1>8, <2>1, <2>2
<1>. QED
  BY <1>7, <1>8, <1>10, <1>11, <1>12, <1>13, <1>14, <1>15, <1>16 DEF Starting, Shape

LEMMA StartFixStarts ==
    ASSUME Apart, Owned, HistoryNext, NEW q \in Proc, NEW job \in FixJobs, StartFix(q, job)
    PROVE  Starting(q)
<1>. DEFINE input  == job.input
            output == job.output
            x      == FixCall(input, output)
<1>1. CatTyped /\ FixTyped /\ FilesTyped
  BY OwnedParts
<1>2. input \in Name /\ input \in Given /\ output \in Name /\ output \in Given
  BY ToolsAssumption, GivenAre
<1>3. x \in FixLocals
  BY <1>2 DEF FixCall, FixLocals
<1>4. x.pc = "try" /\ x.input = input /\ x.output = output /\ x.temp = output
  BY DEF FixCall
<1>5. Starts(q, {input}, output) /\ fix' = [fix EXCEPT ![q] = x] /\ UNCHANGED cat
  BY DEF StartFix
<1>. HIDE DEF x, input, output
<1>6. fix'[q] = x /\ x # None /\ \A r \in Proc \ {q} : cat'[r] = cat[r] /\ fix'[r] = fix[r]
  BY <1>1, <1>3, <1>5, NoneIsNone DEF FixTyped
<1>7. /\ Frame(q) /\ UNCHANGED <<file, handle>> /\ ~Active(q) /\ handle[q] = None
      /\ cat[q] = None /\ fix[q] = None
  BY <1>5, <1>6, StartsOthers
<1>8. /\ cat'[q] = None /\ Active(q)' /\ Output(q)' = output
      /\ Uses(q)' = {input, output} /\ Makes(q)' = {output}
  BY <1>4, <1>5, <1>6, <1>7 DEF Active, Idle, Output, Uses, Makes
<1>9. task'[q] = IF Exists(input) /\ ~Readable(input)
                 THEN [Task(<<>>, output, FALSE) EXCEPT !.records = file[input].records]
                 ELSE Task(<<input>>, output, TRUE)
  BY <1>4, <1>6, <1>7, <1>8 DEF HistoryNext, TaskNext, Idle, Begun
<1>10. /\ task'[q] \in Tasks
       /\ task'[q].output = output /\ task'[q].fresh = ~Exists(output)
       /\ Exists(input) => /\ task'[q].records = file[input].records
                           /\ task'[q].exact = Readable(input)
  <2>1. CASE Exists(input) /\ ~Readable(input)
    <3>1. file[input].records \in Records
      BY <1>1, <1>2, <2>1, FileOf
    <3>2. task'[q] = [output |-> output, fresh |-> ~Exists(output), records |-> file[input].records,
                      exact |-> FALSE]
      BY <1>9, <2>1 DEF Task
    <3>3. task'[q] \in Tasks
      BY <1>2, <3>1, <3>2 DEF Tasks, Exists
    <3>4. Readable(input) = FALSE
      BY <2>1 DEF Readable, Exists
    <3>5. task'[q].output = output /\ task'[q].fresh = ~Exists(output)
      BY <3>2 DEF Exists
    <3>6. task'[q].records = file[input].records
      BY <3>2
    <3>7. task'[q].exact = FALSE
      BY <3>2
    <3>8. task'[q].exact = Readable(input)
      BY <3>4, <3>7
    <3>. QED
      BY <3>3, <3>5, <3>6, <3>8
  <2>2. CASE ~ (Exists(input) /\ ~Readable(input))
    <3>1. task'[q] = [output |-> output, fresh |-> ~Exists(output), records |-> Merged(<<input>>),
                      exact |-> TRUE]
      BY <1>9, <2>2 DEF Task
    <3>2. <<input>> \in Seq(Name)
      BY <1>2
    <3>3. Merged(<<input>>) \in Records
      BY <1>1, <3>2, MergedTypes
    <3>4. Exists(input) => Merged(<<input>>) = file[input].records /\ Readable(input) = TRUE
      BY <1>1, <1>2, <2>2, MergedOne DEF Readable, Exists
    <3>5. task'[q] \in Tasks
      BY <1>2, <3>1, <3>3 DEF Tasks, Exists
    <3>6. task'[q].output = output /\ task'[q].fresh = ~Exists(output)
      BY <3>1 DEF Exists
    <3>7. task'[q].exact = TRUE /\ task'[q].records = Merged(<<input>>)
      BY <3>1
    <3>8. Exists(input) => task'[q].exact = Readable(input) /\ task'[q].records = file[input].records
      BY <3>4, <3>7
    <3>. QED
      BY <3>5, <3>6, <3>8
  <2>. QED
    BY <2>1, <2>2
<1>11. CatNames(q)' /\ CatData(q)' /\ HandleIs(q)'
  BY <1>7, <1>8 DEF CatNames, CatData, HandleIs, InCat
<1>12. FixNames(q)'
  BY <1>4, <1>6, <1>8 DEF FixNames
<1>13. OutputNew(q)'
  BY <1>4, <1>6, <1>7, <1>8, <1>10 DEF OutputNew, Exists
<1>14. GivenNames(q)'
  BY <1>2, <1>8 DEF GivenNames
<1>15. FixData(q)'
  <2>1. Exists(fix[q].input)' => TakesInput(q)'
    BY <1>4, <1>6, <1>7, <1>10 DEF TakesInput, Readable, Exists
  <2>. QED
    BY <1>4, <1>6, <2>1 DEF FixData
<1>16. \A r \in Proc \ {q} : Makes(q)' \cap Uses(r) = {} /\ Makes(r) \cap Uses(q)' = {}
  <2>1. \A r \in Proc : output \notin Uses(r) /\ {input} \cap Makes(r) = {}
    BY <1>5 DEF Starts
  <2>2. \A r \in Proc : Makes(r) \subseteq Uses(r)
    BY DEF Makes, Uses
  <2>. QED
    BY <1>8, <2>1, <2>2
<1>. QED
  BY <1>7, <1>8, <1>10, <1>11, <1>12, <1>13, <1>14, <1>15, <1>16 DEF Starting, Shape

-----------------------------------------------------------------------------
(* What every step keeps *)

\* No file has a temporary name at first.
NoLeftovers == \A f \in InitialFiles : \A n \in Name : n.k > 0 => f[n] = None

LEMMA OwnKeeps ==
    ASSUME Owned, HistoryNext, NEW q \in Proc, Own(q), Active(q), IInv'
    PROVE  Owned'
<1>1. Frame(q) /\ Shape(q)' /\ UseSame(q)
  BY DEF Own
<1>2. \A r \in Proc : Shape(r)'
  BY <1>1, OthersShape
<1>3. \A r \in Proc \ {q} : Uses(r)' = Uses(r) /\ Makes(r)' = Makes(r) /\ (Active(r)' <=> Active(r))
                            /\ task'[r] = task[r]
                            /\ (r \in unclosed' <=> r \in unclosed)
  BY <1>1, NearSame DEF Frame, SameLocals, SameHistory
<1>4. Separate'
  BY <1>1, <1>3 DEF Owned, Separate, UseSame
<1>5. TaskTyped'
  <2>1. TaskTyped
    BY DEF Owned
  <2>2. task' = [r \in Proc |-> task'[r]]
    BY DEF HistoryNext, TaskNext
  <2>3. task'[q] = IF Active(q)' THEN task[q] ELSE None
    BY DEF HistoryNext, TaskNext, Active, Idle
  <2>4. task[q] \in Tasks /\ \A r \in Proc : task[r] \in Tasks \cup {None}
    BY <2>1, OwnedParts DEF TaskTyped
  <2>5. \A r \in Proc : task'[r] \in Tasks \cup {None} /\ (task'[r] # None <=> Active(r)')
    BY <1>3, <2>1, <2>3, <2>4, NoneIsNone DEF TaskTyped
  <2>. QED
    BY <2>2, <2>5 DEF TaskTyped
<1>6. \A r \in Proc : r \in unclosed' => Active(r)'
  BY DEF HistoryNext, UnclosedNext, Active, Idle
<1>. QED
  BY <1>2, <1>4, <1>5, <1>6 DEF Owned

LEMMA StartingKeeps ==
    ASSUME Owned, HistoryNext, NEW q \in Proc, Starting(q), IInv'
    PROVE  Owned'
<1>1. Frame(q) /\ Shape(q)' /\ Active(q)' /\ task'[q] \in Tasks
      /\ \A r \in Proc \ {q} : Makes(q)' \cap Uses(r) = {} /\ Makes(r) \cap Uses(q)' = {}
  BY DEF Starting
<1>2. \A r \in Proc : Shape(r)'
  BY <1>1, OthersShape
<1>3. \A r \in Proc \ {q} : Uses(r)' = Uses(r) /\ Makes(r)' = Makes(r) /\ (Active(r)' <=> Active(r))
                            /\ task'[r] = task[r]
                            /\ (r \in unclosed' <=> r \in unclosed)
  BY <1>1, NearSame DEF Frame, SameLocals, SameHistory
<1>4. Separate'
  BY <1>1, <1>3 DEF Owned, Separate
<1>5. TaskTyped'
  <2>1. TaskTyped
    BY DEF Owned
  <2>2. task' = [r \in Proc |-> task'[r]]
    BY DEF HistoryNext, TaskNext
  <2>3. \A r \in Proc : task'[r] \in Tasks \cup {None} /\ (task'[r] # None <=> Active(r)')
    BY <1>1, <1>3, <2>1, NoneIsNone DEF TaskTyped
  <2>. QED
    BY <2>2, <2>3 DEF TaskTyped
<1>6. \A r \in Proc : r \in unclosed' => Active(r)'
  BY DEF HistoryNext, UnclosedNext, Active, Idle
<1>. QED
  BY <1>2, <1>4, <1>5, <1>6 DEF Owned

LEMMA HoldsSame ==
    ASSUME NEW r \in Proc, SameLocals(r)
    PROVE  \A n : Holds(r, n)' <=> Holds(r, n)
BY DEF SameLocals, Holds

LEMMA OwnLeavesNoStrays ==
    ASSUME NoStrays, DiedNext, NEW q \in Proc, Own(q)
    PROVE  NoStrays'
<1>. SUFFICES ASSUME ~died', NEW n \in Name, n.k > 0, file'[n] # None
              PROVE  \E r \in Proc : Holds(r, n)'
  BY DEF NoStrays, Exists
<1>1. Holds(q, n)' \/ (file[n] # None /\ ~Holds(q, n))
  BY DEF Own, Kept
<1>2. CASE file[n] # None /\ ~Holds(q, n)
  <2>1. ~died
    BY DEF DiedNext
  <2>2. PICK r \in Proc : Holds(r, n)
    BY <1>2, <2>1 DEF NoStrays, Exists
  <2>3. r # q
    BY <1>2, <2>2
  <2>. QED
    BY <2>2, <2>3, HoldsSame DEF Own, Frame
<1>. QED
  BY <1>1, <1>2

LEMMA StartingLeavesNoStrays ==
    ASSUME NoStrays, DiedNext, NEW q \in Proc, Starting(q)
    PROVE  NoStrays'
<1>. SUFFICES ASSUME ~died', NEW n \in Name, n.k > 0, file'[n] # None
              PROVE  \E r \in Proc : Holds(r, n)'
  BY DEF NoStrays, Exists
<1>1. ~died /\ file[n] # None /\ ~Active(q)
  BY DEF DiedNext, Starting
<1>2. PICK r \in Proc : Holds(r, n)
  BY <1>1 DEF NoStrays, Exists
<1>3. r # q
  BY <1>1, <1>2 DEF Holds, Active, Idle
<1>. QED
  BY <1>2, <1>3, HoldsSame DEF Starting, Frame

LEMMA ObservedParts ==
    ASSUME ObservedNext
    PROVE  Next /\ HistoryNext /\ DiedNext
BY DEF ObservedNext, HistoryNext, TaskNext, UnclosedNext, DiedNext

\* Every step starts a tool, or is one of a process that runs.
LEMMA Steps ==
    ASSUME Apart, Owned, ObservedNext
    PROVE  \E q \in Proc : Starting(q) \/ (Own(q) /\ Active(q))
BY ObservedParts, StepOwn, StartCatStarts, StartFixStarts DEF Next

LEMMA Unchanged ==
    ASSUME Owned, UNCHANGED observed
    PROVE  Owned' /\ (NoStrays => NoStrays')
<1>1. /\ UNCHANGED vars /\ UNCHANGED <<file, cat, handle, fix, task, unclosed, died>>
  BY DEF vars, observed
<1>2. IInv'
  BY <1>1, StutterTypes DEF Owned
<1>3. \A q \in Proc : SameLocals(q)
  BY <1>1 DEF SameLocals, SameHistory
<1>4. \A q \in Proc : Shape(q)'
  BY <1>1, <1>3, ShapeSame
<1>5. Separate' /\ TaskTyped' /\ \A q \in Proc : q \in unclosed' => Active(q)'
  BY <1>1 DEF Owned, Separate, TaskTyped, Active, Idle, Makes, Uses
<1>6. NoStrays => NoStrays'
  BY <1>1 DEF NoStrays, Exists, Holds
<1>. QED
  BY <1>2, <1>4, <1>5, <1>6 DEF Owned

LEMMA OwnedInit == ObservedInit => Owned
<1>. SUFFICES ASSUME ObservedInit PROVE Owned
  OBVIOUS
<1>1. Init /\ task = [q \in Proc |-> None] /\ unclosed = {}
  BY DEF ObservedInit
<1>2. \A q \in Proc : cat[q] = None /\ fix[q] = None /\ handle[q] = None /\ task[q] = None
  BY <1>1 DEF Init
<1>3. IInv
  BY <1>1, InitTypes
<1>4. Separate /\ TaskTyped
  BY <1>1, <1>2 DEF Separate, TaskTyped, Makes, Uses, Active, Idle
<1>5. \A q \in Proc : Shape(q)
  BY <1>2 DEF Shape, CatNames, FixNames, HandleIs, InCat, OutputNew, GivenNames, CatData, FixData,
              Active, Idle, Uses
<1>. QED
  BY <1>1, <1>3, <1>4, <1>5 DEF Owned

LEMMA OwnedNext ==
    ASSUME Apart
    PROVE  Owned /\ [ObservedNext]_observed => Owned'
<1>. SUFFICES ASSUME Owned, [ObservedNext]_observed PROVE Owned'
  OBVIOUS
<1>1. CASE UNCHANGED observed
  BY <1>1, Unchanged
<1>2. CASE ObservedNext
  <2>1. IInv'
    BY <1>2, ObservedParts, NextTypes DEF Owned
  <2>2. PICK q \in Proc : Starting(q) \/ (Own(q) /\ Active(q))
    BY <1>2, Steps
  <2>. QED
    BY <1>2, <2>1, <2>2, ObservedParts, StartingKeeps, OwnKeeps
<1>. QED
  BY <1>1, <1>2

LEMMA NoStraysNext ==
    ASSUME Apart
    PROVE  Owned /\ NoStrays /\ [ObservedNext]_observed => NoStrays'
<1>. SUFFICES ASSUME Owned, NoStrays, [ObservedNext]_observed PROVE NoStrays'
  OBVIOUS
<1>1. CASE UNCHANGED observed
  BY <1>1, Unchanged
<1>2. CASE ObservedNext
  <2>1. PICK q \in Proc : Starting(q) \/ (Own(q) /\ Active(q))
    BY <1>2, Steps
  <2>. QED
    BY <1>2, <2>1, ObservedParts, StartingLeavesNoStrays, OwnLeavesNoStrays
<1>. QED
  BY <1>1, <1>2

\* A process changes its own outcome only.
LEMMA StepOutcome ==
    ASSUME NEW r \in Proc, Step(r)
    PROVE  outcome' = outcome \/ \E v : outcome' = [outcome EXCEPT ![r] = v]
<1>. DEFINE OneOutcome == outcome' = outcome \/ \E v : outcome' = [outcome EXCEPT ![r] = v]
<1>1. ASSUME NEW raises, CatEnds(r, raises) \/ FixEnds(r, raises)
      PROVE  OneOutcome
  BY <1>1 DEF CatEnds, FixEnds
<1>. HIDE DEF OneOutcome
<1>2. ASSUME outcome' = outcome
      PROVE  OneOutcome
  BY <1>2 DEF OneOutcome
<1>3. Index(r) \/ CatFinally(r) \/ FixTry(r) \/ FixFinally(r) => OneOutcome
  BY <1>1, <1>2 DEF Index, CatFinally, FixTry, FixFinally
<1>4. /\ ChooseName(r) \/ Create(r) \/ CreateFails(r) \/ CopyFails(r) => OneOutcome
      /\ CloseOut(r) \/ CloseOutFails(r) \/ RenameOutput(r) \/ RenameFails(r) => OneOutcome
  BY <1>2 DEF ChooseName, Create, CreateFails, CopyFails, Closes, CloseOut, CloseOutFails, RenameOutput, RenameFails
<1>5. FixChooseName(r) \/ Rebuild(r) \/ Convert(r) \/ FixRename(r) \/ FixRenameFails(r) => OneOutcome
  BY <1>2 DEF FixChooseName, Rebuild, Convert, FixRename, FixRenameFails
<1>6. \A source \in Name : CopySource(r, source) => OneOutcome
  BY <1>2 DEF CopySource
<1>7. OneOutcome
  BY <1>3, <1>4, <1>5, <1>6 DEF Step
<1>. QED
  BY <1>7 DEF OneOutcome

-----------------------------------------------------------------------------
(* Theorems *)

\* If nobody's output is used by another, a file the user has is only ever replaced in one
\* step, and by all that a tool was told to put there, whatever raises and whoever dies; or,
\* when the close of the new archive failed unnoticed, by one that does not open
\* (gtar/cat.py:44-71, gtar/fix.py:90-126, ZipArchive.cpp:103).
THEOREM OutputIsWhole ==
    ASSUME Apart
    PROVE  ObservedSpec => OutputWhole
<1>. DEFINE Whole == \A n \in Name : n.k = 0 /\ file'[n] # file[n] =>
                        \E q \in Proc : /\ task[q] # None /\ task[q].output = n
                                        /\ task[q].fresh \/ Made(q, file'[n])
<1>1. ASSUME Owned, ObservedNext
      PROVE  Whole
  <2>1. PICK q \in Proc : Starting(q) \/ (Own(q) /\ Active(q))
    BY <1>1, Steps
  <2>2. CASE Starting(q)
    BY <2>2 DEF Starting
  <2>3. CASE Own(q)
    <3>1. ASSUME NEW n \in Name, n.k = 0, file'[n] # file[n]
          PROVE  /\ task[q] # None /\ task[q].output = n
                 /\ task[q].fresh \/ Made(q, file'[n])
      BY <1>1, <2>3, <3>1, OwnedParts DEF Own, Changes, OutputNew
    <3>. QED
      BY <3>1
  <2>. QED
    BY <2>1, <2>2, <2>3
<1>2. Owned /\ [ObservedNext]_observed => [Whole]_observed
  BY <1>1
<1>. QED
  BY <1>2, OwnedInit, OwnedNext, PTL DEF ObservedSpec, OutputWhole

\* If nobody's output is used by another, when cat returns its output has every record of every
\* input, from the last that has it, or does not open because its close failed unnoticed
\* (gtar/cat.py:41-75, ZipArchive.cpp:103).
THEOREM CatMakesIt ==
    ASSUME Apart
    PROVE  ObservedSpec => CatMakesOutput
<1>. DEFINE Returns == \A q \in Proc :
                      cat[q] # None /\ fix[q] = None /\ outcome[q] = "none" /\ outcome'[q] = "done" =>
                        Made(q, file'[cat[q].output])
<1>1. ASSUME Owned, ObservedNext
      PROVE  Returns
  <2>. SUFFICES ASSUME NEW q \in Proc, cat[q] # None, fix[q] = None, outcome[q] = "none",
                       outcome'[q] = "done"
                PROVE  Made(q, file'[cat[q].output])
    OBVIOUS
  <2>1. outcome \in [Proc -> {"none", "done", "raised", "died"}]
    BY <1>1, TypeParts DEF Owned, EndsTyped
  <2>2. PICK r \in Proc : \/ \E job \in CatJobs : StartCat(r, job)
                          \/ \E job \in FixJobs : StartFix(r, job)
                          \/ Step(r) \/ Die(r)
    BY <1>1, ObservedParts DEF Next
  <2>3. r = q
    <3>1. outcome' = outcome \/ \E v : outcome' = [outcome EXCEPT ![r] = v]
      BY <2>2, StepOutcome DEF StartCat, StartFix, Starts, Die
    <3>. QED
      BY <2>1, <3>1
  <2>4. Step(q)
    BY <2>1, <2>2, <2>3 DEF StartCat, StartFix, Starts, Die
  <2>5. CatFinally(q)
    <3>1. outcome' # outcome
      OBVIOUS
    <3>2. ~ (FixTry(q) \/ FixChooseName(q) \/ Rebuild(q) \/ Convert(q) \/ FixRename(q) \/ FixRenameFails(q)
             \/ FixFinally(q))
      BY DEF FixTry, FixChooseName, Rebuild, Convert, FixRename, FixRenameFails, FixFinally, InFix
    <3>3. /\ ~ (ChooseName(q) \/ Create(q) \/ CreateFails(q) \/ CopyFails(q))
          /\ ~ (CloseOut(q) \/ CloseOutFails(q) \/ RenameOutput(q) \/ RenameFails(q))
      BY <3>1 DEF ChooseName, Create, CreateFails, CopyFails, Closes, CloseOut, CloseOutFails, RenameOutput,
                  RenameFails
    <3>4. \A source \in Name : ~CopySource(q, source)
      BY <3>1 DEF CopySource
    <3>5. ~Index(q)
      BY <2>1, <3>1 DEF Index, CatEnds
    <3>. QED
      BY <2>4, <3>2, <3>3, <3>4, <3>5 DEF Step
  <2>6. CatEnds(q, cat[q].failing) /\ (~cat[q].failing => Made(q, file'[cat[q].output]))
    BY <1>1, <2>5, CatFinallyKeeps
  <2>7. ~cat[q].failing
    BY <2>1, <2>6 DEF CatEnds
  <2>. QED
    BY <2>6, <2>7
<1>2. Owned /\ [ObservedNext]_observed => [Returns]_observed
  BY <1>1
<1>. QED
  BY <1>2, OwnedInit, OwnedNext, PTL DEF ObservedSpec, CatMakesOutput

\* No temporary file is left when nobody died, if there was none at first and nobody's output
\* is used by another: what raises removes or renames its own (gtar/cat.py:73-75,
\* gtar/fix.py:123-126).
THEOREM OnlyDeathsLeave ==
    ASSUME Apart, NoLeftovers
    PROVE  ObservedSpec => []NothingLeftOver
<1>1. ObservedInit => NoStrays
  BY DEF ObservedInit, Init, NoLeftovers, NoStrays, Exists
<1>2. Owned /\ NoStrays => NothingLeftOver
  BY DEF NoStrays, NothingLeftOver, Holds, Idle
<1>. QED
  BY <1>1, <1>2, OwnedInit, OwnedNext, NoStraysNext, PTL DEF ObservedSpec
=============================================================================
