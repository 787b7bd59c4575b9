----------------------------- MODULE SharedArray -----------------------------
(***************************************************************************)
(* The reference-counted arrays reads return (src/src/SharedArray.hpp): a  *)
(* handle points to a shim on the heap, which counts handles and owns the  *)
(* array.  Handles are the SharedArray and SharedPtr objects of a program; *)
(* a destroyed handle is one that points to nothing.                       *)
(***************************************************************************)
EXTENDS Naturals, FiniteSets

CONSTANTS
    Handle,         \* SharedArray objects
    Shim,           \* heap addresses of shims
    Null            \* no shim

ASSUME SharedArrayAssumption ==
    /\ Null \notin Shim
    /\ IsFiniteSet(Handle)

VARIABLES
    m_shim,     \* [Handle -> Shim or Null]
    m_count,    \* [Shim -> Nat], of the shims that are allocated
    live,       \* the allocated shims
    owned,      \* the shims with a target: m_target is not NULL
    misused,    \* an operation used a shim that was not allocated
    nullCopied  \* history: a handle of a shim without a target was copied

heap == <<m_count, live, owned, misused>>
vars == <<m_shim, heap, nullCopied>>

Holders(s) == {h \in Handle : m_shim[h] = s}

Init ==
    /\ m_shim = [h \in Handle |-> Null]
    /\ m_count = [s \in Shim |-> 0]
    /\ live = {} /\ owned = {}
    /\ misused = FALSE
    /\ nullCopied = FALSE

\* Mutant: the last handle but one frees the array.
TargetGoneEarly(s, count) == count <= 1

\* Does release delete a shim after its decrement?  It does when the target is
\* gone, which it takes to mean that this was the last handle.
TargetGone(s, count) == count = 0 \/ s \notin owned

\* release of a handle of shim s, whose count is `count' beforehand.
DropHandle(s, count) ==
    /\ m_count' = [m_count EXCEPT ![s] = count - 1]
    /\ live' = IF TargetGone(s, count - 1) THEN live \ {s} ELSE live
    /\ owned' = IF count - 1 = 0 THEN owned \ {s} ELSE owned

\* Once freed memory was used the program has no defined behaviour.
Defined == ~misused

\* SharedArray(target, length): a new shim.  The target may be null: readIndividual
\* wraps what it disowned, and that is null when the archive has no such record
\* (GTAR.hpp:246-254).
Construct(h, null) ==
    /\ Defined
    /\ m_shim[h] = Null
    /\ \E s \in Shim \ live :
         /\ m_shim' = [m_shim EXCEPT ![h] = s]
         /\ m_count' = [m_count EXCEPT ![s] = 1]
         /\ live' = live \cup {s}
         /\ owned' = IF null THEN owned \ {s} ELSE owned \cup {s}
    /\ UNCHANGED <<misused, nullCopied>>

\* Mutant: no increment.
NotIncremented(s) == m_count[s]

\* increment
Incremented(s) == m_count[s] + 1

\* The history of copies, once a handle that points to s is copied.
Copied(s) == nullCopied' = (nullCopied \/ s \in live \ owned)

\* SharedArray(rhs): one more handle of rhs's shim.
CopyConstruct(h, rhs) ==
    /\ Defined
    /\ m_shim[h] = Null /\ m_shim[rhs] \in Shim
    /\ m_shim' = [m_shim EXCEPT ![h] = m_shim[rhs]]
    /\ Copied(m_shim[rhs])
    /\ IF m_shim[rhs] \in live
       THEN /\ m_count' = [m_count EXCEPT ![m_shim[rhs]] = Incremented(m_shim[rhs])]
            /\ UNCHANGED <<live, owned, misused>>
       ELSE misused' = TRUE /\ UNCHANGED <<m_count, live, owned>>

\* The destructor, or release: one handle less, and its shim freed with the last.
Release(h) ==
    /\ Defined
    /\ m_shim[h] \in Shim
    /\ m_shim' = [m_shim EXCEPT ![h] = Null]
    /\ IF m_shim[h] \in live
       THEN DropHandle(m_shim[h], m_count[m_shim[h]]) /\ UNCHANGED misused
       ELSE misused' = TRUE /\ UNCHANGED <<m_count, live, owned>>
    /\ UNCHANGED nullCopied

\* Mutant: the destructor runs before the copy is made.
CountBeforeCopy(s, rhs) == m_count[s]

\* The count of s when operator= releases the left-hand side: the copy of a
\* right-hand side with the same shim has incremented it.
CountAfterCopy(s, rhs) == IF m_shim[rhs] = s THEN m_count[s] + 1 ELSE m_count[s]

\* h = rhs: copy rhs, swap with the copy, destroy the copy with h's old shim.
Assign(h, rhs) ==
    LET old == m_shim[h]
        new == m_shim[rhs]
    IN  /\ Defined
        /\ h # rhs
        /\ <<old, new>> # <<Null, Null>>
        /\ m_shim' = [m_shim EXCEPT ![h] = new]
        /\ Copied(new)
        /\ IF {old, new} \ {Null} \subseteq live
           THEN /\ m_count' = [s \in Shim |->
                     IF s = old THEN CountAfterCopy(s, rhs) - 1
                     ELSE IF s = new THEN Incremented(s) ELSE m_count[s]]
                /\ LET dropped == IF old = Null THEN 0 ELSE CountAfterCopy(old, rhs) - 1
                   IN  /\ live' = IF old # Null /\ TargetGone(old, dropped)
                                  THEN live \ {old} ELSE live
                       /\ owned' = IF old # Null /\ dropped = 0 THEN owned \ {old} ELSE owned
                /\ UNCHANGED misused
           ELSE misused' = TRUE /\ UNCHANGED <<m_count, live, owned>>

\* swap
Swap(h, target) ==
    /\ Defined
    /\ m_shim[h] # m_shim[target]
    /\ m_shim' = [m_shim EXCEPT ![h] = m_shim[target], ![target] = m_shim[h]]
    /\ UNCHANGED <<heap, nullCopied>>

\* disown: the array goes to the caller, the shim is freed.  readIndividual
\* disowns a handle it shares with nobody (GTAR.hpp:246-254).
Disown(h) ==
    /\ Defined
    /\ m_shim[h] \in Shim
    /\ Holders(m_shim[h]) = {h}
    /\ m_shim' = [m_shim EXCEPT ![h] = Null]
    /\ IF m_shim[h] \in live
       THEN live' = live \ {m_shim[h]} /\ owned' = owned \ {m_shim[h]} /\ UNCHANGED misused
       ELSE misused' = TRUE /\ UNCHANGED <<live, owned>>
    /\ UNCHANGED <<m_count, nullCopied>>

Next ==
    \/ \E h \in Handle, null \in BOOLEAN : Construct(h, null)
    \/ \E h, rhs \in Handle : CopyConstruct(h, rhs) \/ Assign(h, rhs) \/ Swap(h, rhs)
    \/ \E h \in Handle : Release(h) \/ Disown(h)

Spec == Init /\ [][Next]_vars

-----------------------------------------------------------------------------
(* Properties *)

\* The types, and that a target is owned by an allocated shim
\* (SharedArray.hpp:51-57, 250).
TypeOK ==
    /\ m_shim \in [Handle -> Shim \cup {Null}]
    /\ m_count \in [Shim -> Nat]
    /\ live \subseteq Shim /\ owned \subseteq live
    /\ misused \in BOOLEAN /\ nullCopied \in BOOLEAN

\* A handle uses a shim that was deleted, even one whose address has been allocated
\* again in between, only after a copy of a handle that wraps a null pointer: release
\* takes a missing target for a count of zero, so the first of two such handles frees
\* the shim of both (SharedArray.hpp:158-169, 174-182).
NoUseAfterFree == misused => nullCopied

\* Until a handle that wraps a null pointer is copied, a shim is allocated exactly
\* while some handle points to it, so nothing leaks and nothing dangles, and its count
\* is the number of its handles, whatever sequence of copies, assignments, swaps and
\* releases led there (SharedArray.hpp:34-49, 82-87, 119-126, 160-169).
CountIsHolders ==
    ~nullCopied =>
        /\ \A s \in Shim : s \in live <=> Holders(s) # {}
        /\ \A s \in live : m_count[s] = Cardinality(Holders(s))

\* "Destructor: decrement the reference count and deallocate if we are the last
\* owner of the pointer" (SharedArray.hpp:98-99): a shim is deleted only by the
\* handle that was alone in pointing to it, be its pointer null or not, as long as no
\* handle that wraps a null pointer has been copied.
FreedByLastOwner ==
    [][~nullCopied => \A s \in live \ live' : Cardinality(Holders(s)) = 1]_vars

\* The same comment as it stands.  It fails when a handle that wraps a null pointer is
\* copied, as the result of readIndividual may be (SharedArray.hpp:98-99, GTAR.hpp:254).
FreedByLastOwnerAlways ==
    [][\A s \in live \ live' : Cardinality(Holders(s)) = 1]_vars
=============================================================================
