---------------------------- MODULE ToolsHistory ----------------------------
(***************************************************************************)
(* What the tools promise about their outputs, stated with the records     *)
(* their inputs held when each tool was started.                           *)
(***************************************************************************)
EXTENDS Tools

Tasks == [output : Name, fresh : BOOLEAN, records : Records, exact : BOOLEAN]
ASSUME TasksAssumption == None \notin Tasks

\* History: what each tool that runs is to make, in which of them the close of a new
\* archive failed, and whether one died.
VARIABLES task, unclosed, died
observed == <<vars, task, unclosed, died>>

\* All records of a sequence of inputs: the last that has a path gives it.
Inputs(inputs) == {i \in DOMAIN inputs : Readable(inputs[i])}
Merged(inputs) ==
    [p \in UNION {DOMAIN file[inputs[i]].records : i \in Inputs(inputs)} |->
        LET holders == {i \in Inputs(inputs) : p \in DOMAIN file[inputs[i]].records}
        IN  file[inputs[CHOOSE i \in holders : \A j \in holders : j <= i]].records[p]]

Task(inputs, output, exact) ==
    [output |-> output, fresh |-> ~Exists(output), records |-> Merged(inputs), exact |-> exact]

Begun(q) ==
    IF cat'[q] # None THEN Task(cat'[q].inputs, cat'[q].output, TRUE)
    ELSE LET input == fix'[q].input
         IN  IF Exists(input) /\ ~Readable(input)
             THEN [Task(<<>>, fix'[q].output, FALSE) EXCEPT !.records = file[input].records]
             ELSE Task(<<input>>, fix'[q].output, TRUE)
Idle(c, x) == c = None /\ x = None

ObservedInit == Init /\ task = [q \in Proc |-> None] /\ unclosed = {} /\ died = FALSE
ObservedNext ==
    /\ Next
    /\ task' = [q \in Proc |-> IF Idle(cat'[q], fix'[q]) THEN None
                               ELSE IF Idle(cat[q], fix[q]) THEN Begun(q) ELSE task[q]]
    /\ unclosed' = {q \in Proc : /\ ~Idle(cat'[q], fix'[q])
                                 /\ q \in unclosed \/ CloseOutFails(q)}
    /\ died' = (died \/ \E q \in Proc : outcome'[q] = "died")
ObservedSpec == ObservedInit /\ [][ObservedNext]_observed

-----------------------------------------------------------------------------
\* The records and the archive that task t is to make; a rebuilt one may have lost records.
Fits(t, records) ==
    IF t.exact THEN records = t.records
    ELSE \E S \in SUBSET DOMAIN t.records : records = Restrict(t.records, S)
Complete(t, a) == a # None /\ a.kind = "zip64" /\ Fits(t, a.records)

\* Process q has made archive a: all of it, or what is left when its close failed.
Made(q, a) == Complete(task[q], a) \/ (q \in unclosed /\ a # None /\ a.kind = "broken")

\* "Output filename (can be the same as input)" (gtar/cat.py:38, gtar/fix.py:81): a
\* file the user has is only ever replaced in one step, and by all that a tool was told
\* to put there, whatever it reads or writes on the way raises, and whoever dies; unless
\* the close of the new archive failed unnoticed (ZipArchive.cpp:103), and then by an
\* archive that does not open, never by one that opens and has less.
OutputWhole ==
    [][\A n \in Name : n.k = 0 /\ file'[n] # file[n] =>
        \E q \in Proc : /\ task[q] # None /\ task[q].output = n
                        /\ task[q].fresh \/ Made(q, file'[n])]_observed

\* "records from the last input file take precedence" (gtar/cat.py:3): when cat
\* returns, the output has every record of every input, or does not open because its
\* close failed unnoticed (ZipArchive.cpp:103).
CatMakesOutput ==
    [][\A q \in Proc : cat[q] # None /\ fix[q] = None /\ outcome[q] = "none" /\ outcome'[q] = "done" =>
        Made(q, file'[cat[q].output])]_observed

\* OutputWhole as the documents have it, without the exception.  It does not hold: cat
\* renames an archive whose close failed over the user's file (gtar/cat.py:71-72).
OutputWholeAlways ==
    [][\A n \in Name : n.k = 0 /\ file'[n] # file[n] =>
        \E q \in Proc : /\ task[q] # None /\ task[q].output = n
                        /\ task[q].fresh \/ Complete(task[q], file'[n])]_observed

\* No temporary file is left when nobody died, tools that raised included
\* (gtar/cat.py:73-75, gtar/fix.py:123-126).
NothingLeftOver ==
    ~died /\ (\A q \in Proc : Idle(cat[q], fix[q])) => \A n \in Name : n.k > 0 => ~Exists(n)

\* "Output location for fixed zip archive" (gtar/fix.py:34): when fix returns, there
\* is a zip64 archive.  It does not hold when the input is one already.
FixMakesOutput ==
    [][\A q \in Proc : fix[q] # None /\ outcome[q] = "none" /\ outcome'[q] = "done" =>
        Complete(task[q], file'[fix[q].output])]_observed

\* A tool that raises makes no output where there was none.  It does not hold: an
\* exception leaves a readable archive with some of the records (gtar/cat.py:63-75).
RaisedMakesNothing ==
    [][\A q \in Proc : outcome[q] = "none" /\ outcome'[q] = "raised" /\ task[q].fresh =>
        file'[task[q].output] = None]_observed
=============================================================================
