----------------------------- MODULE BumpArena -----------------------------
(***************************************************************************)
(* The bump allocator that owns every IR node (src/cpp/bumparena.hpp,      *)
(* src/cpp/bumparena.cpp), and the moves that hand an arena from a builder *)
(* to the program it built (cps::Builder::build, DomTreeBuilder::build).   *)
(*                                                                         *)
(* An arena has a current Bumper and a vector of retired ones; only the    *)
(* chunks of the latter matter, since nothing is allocated in them again.  *)
(* Addresses are natural numbers and chunks lie where `new char[SIZE]` put *)
(* them.                                                                   *)
(***************************************************************************)
EXTENDS Integers, FiniteSets

CONSTANTS
    Arena,      \* BumpArena objects
    Chunk,      \* results of `new char[SIZE]`
    Start,      \* the address of each chunk
    SIZE,       \* Bumper::SIZE
    Request,    \* bound: the sizes that are asked for
    Null        \* nullptr

Align == 16     \* alignof(max_align_t) on x86-64

ASSUME ArenaAssumption ==
    /\ SIZE \in Nat \ {0} /\ SIZE % Align = 0
    /\ Start \in [Chunk -> Nat \ {0}]
    /\ \A c \in Chunk : Start[c] % Align = 0
    /\ \A c, d \in Chunk :
            c # d => Start[c] + SIZE <= Start[d] \/ Start[d] + SIZE <= Start[c]
    /\ Request \subseteq Nat
    /\ Null \notin Chunk

VARIABLES
    state,      \* of each BumpArena: "none", "live", "moved" from or "dead"
    start,      \* current_.start: a chunk, or Null
    free,       \* current_.free: an address
    retired,    \* the chunks of bumpers_
    heap,       \* of each chunk: "unused", "owned", "deleted" or "corrupt"
    objects,    \* history: the allocations whose arena is alive
    refused     \* history: the size last asked for, when the answer was nullptr

vars == <<state, start, free, retired, heap, objects, refused>>

Object == [arena : Arena, chunk : Chunk, at : Nat, size : Request]

Owned(a) == retired[a] \cup ({start[a]} \ {Null})

-----------------------------------------------------------------------------
(* Bumper::alloc on a bumper [start, free].                                *)

\* Mutant of Bump: rounded up.
BumpRoundingUp(f, size) == (f - size) + ((size - f) % Align)

\* The address the bump arrives at, rounded down for alignment.
Bump(f, size) == (f - size) - ((f - size) % Align)

\* Mutants of Fits: only the subtraction is checked; a full chunk is refused.
FitsUnlessWrapped(c, f, size) == f >= size

FitsStrictly(c, f, size) == f >= size /\ Bump(f, size) > Start[c]

Fits(c, f, size) == f >= size /\ Bump(f, size) >= Start[c]

Top(c) == Start[c] + SIZE

New(c) == heap[c] = "unused"

-----------------------------------------------------------------------------
Init ==
    /\ state = [a \in Arena |-> "none"]
    /\ start = [a \in Arena |-> Null]
    /\ free = [a \in Arena |-> 0]
    /\ retired = [a \in Arena |-> {}]
    /\ heap = [c \in Chunk |-> "unused"]
    /\ objects = {}
    /\ refused = {}

\* BumpArena::BumpArena
Create(a, c) ==
    /\ state[a] = "none" /\ New(c)
    /\ state' = [state EXCEPT ![a] = "live"]
    /\ start' = [start EXCEPT ![a] = c]
    /\ free' = [free EXCEPT ![a] = Top(c)]
    /\ heap' = [heap EXCEPT ![c] = "owned"]
    /\ UNCHANGED <<retired, objects, refused>>

Serve(a, c, f, size) ==
    /\ free' = [free EXCEPT ![a] = Bump(f, size)]
    /\ objects' = objects \cup
            {[arena |-> a, chunk |-> c, at |-> Bump(f, size), size |-> size]}
    /\ refused' = {}

\* alloc and alloc_array, when the current bumper has room.
AllocHere(a, size) ==
    /\ state[a] = "live"
    /\ Fits(start[a], free[a], size)
    /\ Serve(a, start[a], free[a], size)
    /\ UNCHANGED <<state, start, retired, heap>>

\* The bumper that has no room for the request.
Overflows(a, size) == state[a] = "live" /\ ~Fits(start[a], free[a], size)

\* Mutant of Retire: the new bumper is assigned over the old one.
RetireByAssignment(a, c) ==
    /\ New(c)
    /\ start' = [start EXCEPT ![a] = c]
    /\ heap' = [heap EXCEPT ![c] = "owned"]
    /\ UNCHANGED <<state, retired>>

\* The current bumper moves into bumpers_ and a new one takes its place.
Retire(a, c) ==
    /\ New(c)
    /\ retired' = [retired EXCEPT ![a] = Owned(a)]
    /\ start' = [start EXCEPT ![a] = c]
    /\ heap' = [heap EXCEPT ![c] = "owned"]
    /\ UNCHANGED state

\* alloc and alloc_array, when it has none: retry once, in a new bumper.
AllocNext(a, size, c) ==
    /\ Overflows(a, size)
    /\ Retire(a, c)
    /\ Fits(c, Top(c), size)
    /\ Serve(a, c, Top(c), size)

\* The retry fails too: nullptr, which the placement new of the callers uses
\* unchecked.
AllocFails(a, size, c) ==
    /\ Overflows(a, size)
    /\ Retire(a, c)
    /\ ~Fits(c, Top(c), size)
    /\ free' = [free EXCEPT ![a] = Top(c)]
    /\ refused' = {size}
    /\ UNCHANGED objects

\* Mutant of Move: a defaulted Bumper(Bumper&&), which leaves the source's start.
MoveKeepingStart(a, b) ==
    /\ state[a] = "live" /\ state[b] = "none"
    /\ state' = [state EXCEPT ![a] = "moved", ![b] = "live"]
    /\ start' = [start EXCEPT ![b] = start[a]]
    /\ free' = [free EXCEPT ![b] = free[a]]
    /\ retired' = [retired EXCEPT ![a] = {}, ![b] = retired[a]]
    /\ objects' = {IF o.arena = a THEN [o EXCEPT !.arena = b] ELSE o : o \in objects}
    /\ UNCHANGED <<heap, refused>>

\* The implicit move constructor: bumpers_ is emptied and Bumper(Bumper&&)
\* clears the source's start, but not its free.
Move(a, b) ==
    /\ state[a] = "live" /\ state[b] = "none"
    /\ state' = [state EXCEPT ![a] = "moved", ![b] = "live"]
    /\ start' = [start EXCEPT ![a] = Null, ![b] = start[a]]
    /\ free' = [free EXCEPT ![b] = free[a]]
    /\ retired' = [retired EXCEPT ![a] = {}, ![b] = retired[a]]
    /\ objects' = {IF o.arena = a THEN [o EXCEPT !.arena = b] ELSE o : o \in objects}
    /\ UNCHANGED <<heap, refused>>

\* ~Bumper for every bumper; deleting a chunk twice corrupts the heap.
Destroy(a) ==
    /\ state[a] \in {"live", "moved"}
    /\ state' = [state EXCEPT ![a] = "dead"]
    /\ heap' = [c \in Chunk |->
                    IF c \notin Owned(a) THEN heap[c]
                    ELSE IF heap[c] = "owned" THEN "deleted" ELSE "corrupt"]
    /\ start' = [start EXCEPT ![a] = Null]
    /\ retired' = [retired EXCEPT ![a] = {}]
    /\ objects' = {o \in objects : o.arena # a}
    /\ UNCHANGED <<free, refused>>

Next ==
    \E a \in Arena :
        \/ \E c \in Chunk : Create(a, c)
        \/ \E size \in Request : AllocHere(a, size)
        \/ \E size \in Request, c \in Chunk : AllocNext(a, size, c)
        \/ \E size \in Request, c \in Chunk : AllocFails(a, size, c)
        \/ \E b \in Arena : Move(a, b)
        \/ Destroy(a)

Spec == Init /\ [][Next]_vars

-----------------------------------------------------------------------------
TypeOK ==
    /\ state \in [Arena -> {"none", "live", "moved", "dead"}]
    /\ start \in [Arena -> Chunk \cup {Null}]
    /\ free \in [Arena -> Nat]
    /\ retired \in [Arena -> SUBSET Chunk]
    /\ heap \in [Chunk -> {"unused", "owned", "deleted", "corrupt"}]
    /\ objects \subseteq Object
    /\ refused \subseteq Request
    /\ \A a \in Arena : IF state[a] = "live"
                        THEN start[a] # Null
                        ELSE start[a] = Null /\ retired[a] = {}

\* A chunk that was allocated and not deleted has exactly one bumper that will
\* delete it, through retirements and moves: no leak, no double delete.
OwnedOnce ==
    /\ \A c \in Chunk : heap[c] = "owned" <=> \E a \in Arena : c \in Owned(a)
    /\ \A a, b \in Arena : a # b => Owned(a) \cap Owned(b) = {}
    /\ \A a \in Arena : start[a] \notin retired[a]
    /\ \A c \in Chunk : heap[c] # "corrupt"

\* No two objects overlap, whichever arenas, retirements and moves they come
\* from.
NoOverlap ==
    \A o, p \in objects :
        o = p \/ o.at + o.size <= p.at \/ p.at + p.size <= o.at

\* Every object is aligned for any type and lies inside a chunk that the arena
\* answering for it still owns.
ObjectsInOwnedChunks ==
    \A o \in objects :
        /\ o.at % Align = 0
        /\ o.chunk \in Owned(o.arena)
        /\ Start[o.chunk] <= o.at /\ o.at + o.size <= Start[o.chunk] + SIZE

\* One retry is enough: an allocation only fails when it could not fit any
\* chunk.
FailsOnlyIfHuge == \A size \in refused : size > SIZE
=============================================================================
