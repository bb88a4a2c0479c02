-------------------------- MODULE BumpArenaProofs --------------------------
(***************************************************************************)
(* Proofs about BumpArena for any number of arenas and chunks, any chunk   *)
(* size and any requests.                                                  *)
(***************************************************************************)
EXTENDS BumpArena, TLAPS

\* The current bumper's cursor stays inside its chunk.
CursorInChunk ==
    \A a \in Arena : state[a] = "live" =>
        Start[start[a]] <= free[a] /\ free[a] <= Top(start[a])

\* What was allocated in the current chunk lies above the cursor.
CursorBelowObjects ==
    \A o \in objects : o.chunk = start[o.arena] => free[o.arena] <= o.at

IInv == /\ TypeOK /\ OwnedOnce /\ ObjectsInOwnedChunks /\ NoOverlap
        /\ FailsOnlyIfHuge /\ CursorInChunk /\ CursorBelowObjects

-----------------------------------------------------------------------------
(* Arithmetic of the bump.                                                 *)

\* The bump reserves size bytes below f and is aligned.
LEMMA BumpReserves ==
    ASSUME NEW f \in Nat, NEW size \in Nat, f >= size
    PROVE  /\ Bump(f, size) \in Nat
           /\ Bump(f, size) + size <= f
           /\ Bump(f, size) % Align = 0
  BY SMT DEF Bump, Align

\* Rounding down does not pass an aligned address.
LEMMA RoundsToAligned ==
    ASSUME NEW x \in Nat, NEW s \in Nat, s <= x, s % 16 = 0
    PROVE  s <= x - (x % 16)
<1> DEFINE q == x \div 16  r == x % 16  p == s \div 16
<1>1. q \in Nat /\ r \in Nat /\ p \in Nat
  BY SMT
<1>2. x = 16 * q + r /\ r < 16 /\ s = 16 * p
  BY SMT
<1> HIDE DEF q, r, p
<1>3. s <= 16 * q
  BY <1>1, <1>2
<1>4. s <= x - r
  BY <1>1, <1>2, <1>3
<1> QED
  BY <1>4 DEF r

\* A new chunk has room for any request of at most SIZE bytes.
LEMMA EmptyChunkFits ==
    ASSUME NEW c \in Chunk, NEW size \in Request, size <= SIZE
    PROVE  Fits(c, Top(c), size)
<1>1. Start[c] \in Nat /\ SIZE \in Nat /\ size \in Nat /\ Start[c] % 16 = 0
  BY ArenaAssumption DEF Align
<1>2. Top(c) >= size /\ Top(c) - size \in Nat /\ Start[c] <= Top(c) - size
  BY <1>1 DEF Top
<1>3. Bump(Top(c), size) >= Start[c]
  <2> DEFINE x == Top(c) - size
  <2>1. Start[c] <= x - (x % 16)
    BY <1>1, <1>2, RoundsToAligned
  <2> QED
    BY <2>1, <1>1, <1>2 DEF Bump, Align, Top
<1> QED
  BY <1>2, <1>3 DEF Fits

-----------------------------------------------------------------------------
(* The inductive invariant, action by action.                              *)

\* No arena exists at first.
LEMMA InitInv == Init => IInv
  BY ArenaAssumption DEF Init, IInv, TypeOK, OwnedOnce, ObjectsInOwnedChunks, NoOverlap,
     FailsOnlyIfHuge, CursorInChunk, CursorBelowObjects, Owned, Object

\* Objects belong to live arenas: no other arena owns a chunk.
LEMMA OwnersLive ==
    ASSUME IInv, NEW o \in objects
    PROVE  /\ o.arena \in Arena /\ state[o.arena] = "live"
           /\ o.chunk \in Chunk /\ heap[o.chunk] = "owned"
           /\ o.at \in Nat /\ o.size \in Nat
<1>1. o \in Object
  BY DEF IInv, TypeOK
<1>2. o.arena \in Arena /\ o.chunk \in Chunk /\ o.at \in Nat /\ o.size \in Nat
  BY <1>1, ArenaAssumption DEF Object
<1>3. o.chunk \in Owned(o.arena)
  BY DEF IInv, ObjectsInOwnedChunks
<1>4. state[o.arena] = "live"
  BY <1>2, <1>3 DEF IInv, TypeOK, Owned
<1>5. heap[o.chunk] = "owned"
  BY <1>2, <1>3 DEF IInv, OwnedOnce
<1> QED
  BY <1>2, <1>4, <1>5

\* A new arena owns a chunk that nobody owned.
LEMMA CreateKeeps ==
    ASSUME IInv, NEW a \in Arena, NEW c \in Chunk, Create(a, c)
    PROVE  IInv'
<1> USE ArenaAssumption DEF IInv
<1>1. start[a] = Null /\ retired[a] = {} /\ c # Null
  BY DEF TypeOK, Create
<1>2. TypeOK'
  <2>1. Top(c) \in Nat
    BY DEF Top
  <2>2. /\ state' \in [Arena -> {"none", "live", "moved", "dead"}]
        /\ start' \in [Arena -> Chunk \cup {Null}]
        /\ free' \in [Arena -> Nat]
        /\ retired' \in [Arena -> SUBSET Chunk]
        /\ heap' \in [Chunk -> {"unused", "owned", "deleted", "corrupt"}]
        /\ objects' \subseteq Object
        /\ refused' \subseteq Request
    BY <2>1 DEF TypeOK, Create
  <2>3. \A b \in Arena : IF state'[b] = "live"
                         THEN start'[b] # Null
                         ELSE start'[b] = Null /\ retired'[b] = {}
    BY <1>1 DEF TypeOK, Create
  <2> QED
    BY <2>2, <2>3 DEF TypeOK
<1>3. Owned(a)' = {c} /\ \A b \in Arena \ {a} : Owned(b)' = Owned(b)
  BY <1>1 DEF Create, Owned, TypeOK
<1>4. \A b \in Arena : c \notin Owned(b)
  BY DEF Create, New, OwnedOnce
<1>5. OwnedOnce'
  <2>1. Owned(a) = {}
    BY <1>1 DEF Owned
  <2>2. \A d \in Chunk : heap'[d] = IF d = c THEN "owned" ELSE heap[d]
    BY DEF Create, TypeOK
  <2>3. \A d \in Chunk : heap'[d] = "owned" <=> \E b \in Arena : d \in Owned(b)'
    BY <1>3, <1>4, <2>1, <2>2 DEF OwnedOnce
  <2>4. \A b, d \in Arena : b # d => Owned(b)' \cap Owned(d)' = {}
    BY <1>3, <1>4, <2>1 DEF OwnedOnce
  <2>5. \A b \in Arena : start'[b] \notin retired'[b]
    BY <1>1 DEF OwnedOnce, Create, TypeOK
  <2> QED
    BY <2>2, <2>3, <2>4, <2>5 DEF OwnedOnce
<1>6. \A o \in objects : o.arena \in Arena \ {a}
  BY OwnersLive DEF Create
<1>7. ObjectsInOwnedChunks' /\ CursorBelowObjects'
  BY <1>3, <1>6 DEF ObjectsInOwnedChunks, CursorBelowObjects, Create, TypeOK
<1>8. CursorInChunk'
  <2>1. Start[c] <= Top(c) /\ Top(c) <= Top(c)
    BY DEF Top
  <2> QED
    BY <2>1 DEF CursorInChunk, Create, TypeOK
<1>9. NoOverlap' /\ FailsOnlyIfHuge'
  BY DEF NoOverlap, FailsOnlyIfHuge, Create
<1> QED
  BY <1>2, <1>5, <1>7, <1>8, <1>9

\* A served request: the new object is in the chunk of the cursor, below it.
LEMMA Served ==
    ASSUME IInv, NEW c \in Chunk, NEW f \in Nat, NEW size \in Request,
           f <= Top(c), Fits(c, f, size)
    PROVE  /\ Bump(f, size) \in Nat /\ Bump(f, size) % Align = 0
           /\ Start[c] <= Bump(f, size) /\ Bump(f, size) + size <= f
<1>1. size \in Nat /\ f >= size
  BY ArenaAssumption DEF Fits
<1> QED
  BY <1>1, BumpReserves, ArenaAssumption DEF Fits

\* A new object below the cursor of c is disjoint from the others, if those in
\* c lie above the cursor.
LEMMA ServedApart ==
    ASSUME IInv, NEW c \in Chunk, NEW f \in Nat, NEW size \in Request,
           f <= Top(c), Fits(c, f, size),
           \A o \in objects : o.chunk = c => f <= o.at,
           NEW p \in objects
    PROVE  \/ Bump(f, size) + size <= p.at
           \/ p.at + p.size <= Bump(f, size)
<1>1. p.chunk \in Chunk /\ p.at \in Nat /\ p.size \in Nat /\ size \in Nat
  BY OwnersLive, ArenaAssumption
<1>2. Start[p.chunk] <= p.at /\ p.at + p.size <= Start[p.chunk] + SIZE
  BY DEF IInv, ObjectsInOwnedChunks
<1>3. CASE p.chunk = c
  BY <1>1, <1>3, Served
<1>4. CASE p.chunk # c
  <2>1. Start[p.chunk] + SIZE <= Start[c] \/ Start[c] + SIZE <= Start[p.chunk]
    BY <1>1, <1>4, ArenaAssumption
  <2>2. Start[c] \in Nat /\ Start[p.chunk] \in Nat /\ SIZE \in Nat
    BY <1>1, ArenaAssumption
  <2> QED
    BY <1>1, <1>2, <2>1, <2>2, Served DEF Top
<1> QED
  BY <1>3, <1>4

\* The cursor only goes down, below the objects of its chunk.
LEMMA AllocHereKeeps ==
    ASSUME IInv, NEW a \in Arena, NEW size \in Request, AllocHere(a, size)
    PROVE  IInv'
<1> USE ArenaAssumption DEF IInv
<1> DEFINE c == start[a]
           f == free[a]
           new == [arena |-> a, chunk |-> c, at |-> Bump(f, size), size |-> size]
<1>1. c \in Chunk /\ f \in Nat /\ f <= Top(c) /\ Start[c] <= f /\ Fits(c, f, size)
  BY DEF AllocHere, TypeOK, CursorInChunk
<1>2. /\ Bump(f, size) \in Nat /\ Bump(f, size) % Align = 0
      /\ Start[c] <= Bump(f, size) /\ Bump(f, size) + size <= f
  BY <1>1, Served
<1>3. /\ free' = [free EXCEPT ![a] = Bump(f, size)]
      /\ objects' = objects \cup {new}
      /\ refused' = {}
      /\ UNCHANGED <<state, start, retired, heap>>
  BY DEF AllocHere, Serve
<1>4. \A b \in Arena : Owned(b)' = Owned(b)
  BY <1>3 DEF Owned
<1>5. c \in Owned(a)
  BY <1>1 DEF Owned
<1> HIDE DEF c, f
<1>6. TypeOK'
  <2>1. new \in Object
    BY <1>1, <1>2 DEF Object
  <2> QED
    BY <1>2, <1>3, <2>1 DEF TypeOK
<1>7. OwnedOnce'
  BY <1>3, <1>4 DEF OwnedOnce
<1>8. ObjectsInOwnedChunks'
  <2>1. Bump(f, size) + size <= Start[c] + SIZE
    BY <1>1, <1>2 DEF Top
  <2>2. \A o \in objects : o.arena \in Arena
    BY OwnersLive
  <2> QED
    BY <1>2, <1>3, <1>4, <1>5, <2>1, <2>2 DEF ObjectsInOwnedChunks
<1>9. \A o \in objects : o.chunk = c => f <= o.at
  <2> SUFFICES ASSUME NEW o \in objects, o.chunk = c PROVE f <= o.at
    OBVIOUS
  <2>1. o.arena \in Arena /\ o.chunk \in Owned(o.arena)
    BY OwnersLive DEF ObjectsInOwnedChunks
  <2>2. o.arena = a
    BY <1>5, <2>1 DEF OwnedOnce
  <2> QED
    BY <2>2 DEF CursorBelowObjects, c, f
<1>10. NoOverlap'
  <2>1. \A p \in objects : \/ new.at + new.size <= p.at
                           \/ p.at + p.size <= new.at
    BY <1>1, <1>9, ServedApart
  <2> QED
    BY <1>3, <2>1 DEF NoOverlap
<1>11. CursorInChunk'
  <2>1. Start[c] <= Bump(f, size) /\ Bump(f, size) <= Top(c)
    BY <1>1, <1>2 DEF Top
  <2> QED
    BY <1>3, <2>1 DEF CursorInChunk, TypeOK, c
<1>12. CursorBelowObjects'
  <2> SUFFICES ASSUME NEW o \in objects', o.chunk = start[o.arena]
               PROVE  free'[o.arena] <= o.at
    BY <1>3 DEF CursorBelowObjects
  <2>1. CASE o = new
    BY <1>2, <1>3, <2>1 DEF TypeOK
  <2>2. CASE o \in objects /\ o.arena = a
    <3>1. free[a] <= o.at /\ o.at \in Nat
      BY <2>2, OwnersLive DEF CursorBelowObjects
    <3> QED
      BY <1>1, <1>2, <1>3, <2>2, <3>1 DEF TypeOK, f
  <2>3. CASE o \in objects /\ o.arena # a
    BY <1>3, <2>3, OwnersLive DEF CursorBelowObjects, TypeOK
  <2> QED
    BY <1>3, <2>1, <2>2, <2>3
<1>13. FailsOnlyIfHuge'
  BY <1>3 DEF FailsOnlyIfHuge
<1> QED
  BY <1>6, <1>7, <1>8, <1>10, <1>11, <1>12, <1>13

\* A retirement keeps the old chunk and adds an unused one that holds nothing.
LEMMA RetireOwns ==
    ASSUME IInv, NEW a \in Arena, NEW c \in Chunk, state[a] = "live", Retire(a, c)
    PROVE  /\ Owned(a)' = Owned(a) \cup {c}
           /\ \A b \in Arena \ {a} : Owned(b)' = Owned(b)
           /\ OwnedOnce'
           /\ start' \in [Arena -> Chunk \cup {Null}]
           /\ retired' \in [Arena -> SUBSET Chunk]
           /\ heap' \in [Chunk -> {"unused", "owned", "deleted", "corrupt"}]
           /\ \A b \in Arena : IF state'[b] = "live"
                               THEN start'[b] # Null
                               ELSE start'[b] = Null /\ retired'[b] = {}
           /\ \A o \in objects : o.chunk # c
<1> USE ArenaAssumption DEF IInv
<1>1. c # Null
  OBVIOUS
<1>2. Owned(a)' = Owned(a) \cup {c} /\ \A b \in Arena \ {a} : Owned(b)' = Owned(b)
  BY <1>1 DEF Retire, Owned, TypeOK
<1>3. \A b \in Arena : c \notin Owned(b)
  BY DEF Retire, New, OwnedOnce
<1>4. OwnedOnce'
  <2>1. \A d \in Chunk : heap'[d] = IF d = c THEN "owned" ELSE heap[d]
    BY DEF Retire, TypeOK
  <2>2. \A d \in Chunk : heap'[d] = "owned" <=> \E b \in Arena : d \in Owned(b)'
    BY <1>2, <1>3, <2>1 DEF OwnedOnce
  <2>3. \A b, d \in Arena : b # d => Owned(b)' \cap Owned(d)' = {}
    BY <1>2, <1>3 DEF OwnedOnce
  <2>4. \A b \in Arena : start'[b] \notin retired'[b]
    BY <1>3 DEF OwnedOnce, Retire, TypeOK
  <2> QED
    BY <2>1, <2>2, <2>3, <2>4 DEF OwnedOnce
<1>5. /\ start' \in [Arena -> Chunk \cup {Null}]
      /\ retired' \in [Arena -> SUBSET Chunk]
      /\ heap' \in [Chunk -> {"unused", "owned", "deleted", "corrupt"}]
  BY DEF Retire, TypeOK, Owned
<1>6. \A b \in Arena : IF state'[b] = "live"
                       THEN start'[b] # Null
                       ELSE start'[b] = Null /\ retired'[b] = {}
  BY <1>1 DEF Retire, TypeOK
<1>7. \A o \in objects : o.chunk # c
  BY OwnersLive DEF Retire, New
<1> QED
  BY <1>2, <1>4, <1>5, <1>6, <1>7

\* A retired chunk stays owned, and the new one is empty.
LEMMA AllocNextKeeps ==
    ASSUME IInv, NEW a \in Arena, NEW size \in Request, NEW c \in Chunk,
           AllocNext(a, size, c)
    PROVE  IInv'
<1> USE ArenaAssumption DEF IInv
<1> DEFINE f == Top(c)
           new == [arena |-> a, chunk |-> c, at |-> Bump(f, size), size |-> size]
<1>1. f \in Nat /\ f <= Top(c) /\ Start[c] <= f /\ Fits(c, f, size)
  BY DEF AllocNext, Top
<1>2. /\ Bump(f, size) \in Nat /\ Bump(f, size) % Align = 0
      /\ Start[c] <= Bump(f, size) /\ Bump(f, size) + size <= f
  BY <1>1, Served
<1>3. /\ free' = [free EXCEPT ![a] = Bump(f, size)]
      /\ objects' = objects \cup {new}
      /\ refused' = {}
      /\ state[a] = "live" /\ Retire(a, c)
  BY DEF AllocNext, Overflows, Serve
<1>4. state' = state /\ start' = [start EXCEPT ![a] = c]
  BY <1>3 DEF Retire
<1>5. /\ Owned(a)' = Owned(a) \cup {c}
      /\ \A b \in Arena \ {a} : Owned(b)' = Owned(b)
      /\ \A o \in objects : o.chunk # c
  BY <1>3, RetireOwns
<1> HIDE DEF f
<1>6. TypeOK'
  <2>1. new \in Object
    BY <1>1, <1>2 DEF Object
  <2>2. /\ state' \in [Arena -> {"none", "live", "moved", "dead"}]
        /\ free' \in [Arena -> Nat]
        /\ objects' \subseteq Object
        /\ refused' \subseteq Request
    BY <1>2, <1>3, <1>4, <2>1 DEF TypeOK
  <2> QED
    BY <1>3, <2>2, RetireOwns DEF TypeOK
<1>7. OwnedOnce'
  BY <1>3, RetireOwns
<1>8. ObjectsInOwnedChunks'
  <2>1. Bump(f, size) + size <= Start[c] + SIZE
    BY <1>1, <1>2 DEF Top, f
  <2>2. \A o \in objects : o.arena \in Arena
    BY OwnersLive
  <2> QED
    BY <1>2, <1>3, <1>5, <2>1, <2>2 DEF ObjectsInOwnedChunks
<1>9. NoOverlap'
  <2>1. \A p \in objects : \/ new.at + new.size <= p.at
                           \/ p.at + p.size <= new.at
    BY <1>1, <1>5, ServedApart
  <2> QED
    BY <1>3, <2>1 DEF NoOverlap
<1>10. CursorInChunk'
  <2>1. Start[c] <= Bump(f, size) /\ Bump(f, size) <= Top(c)
    BY <1>1, <1>2 DEF Top
  <2> QED
    BY <1>3, <1>4, <2>1 DEF CursorInChunk, TypeOK
<1>11. CursorBelowObjects'
  <2> SUFFICES ASSUME NEW o \in objects', o.chunk = start'[o.arena]
               PROVE  free'[o.arena] <= o.at
    BY DEF CursorBelowObjects
  <2>1. CASE o = new
    BY <1>2, <1>3, <2>1 DEF TypeOK
  <2>2. CASE o \in objects
    <3>1. o.arena # a
      BY <1>4, <1>5, <2>2 DEF TypeOK
    <3> QED
      BY <1>3, <1>4, <2>2, <3>1, OwnersLive DEF CursorBelowObjects, TypeOK
  <2> QED
    BY <1>3, <2>1, <2>2
<1>12. FailsOnlyIfHuge'
  BY <1>3 DEF FailsOnlyIfHuge
<1> QED
  BY <1>6, <1>7, <1>8, <1>9, <1>10, <1>11, <1>12

\* A retry that fails still replaces the current chunk.
LEMMA AllocFailsKeeps ==
    ASSUME IInv, NEW a \in Arena, NEW size \in Request, NEW c \in Chunk,
           AllocFails(a, size, c)
    PROVE  IInv'
<1> USE ArenaAssumption DEF IInv
<1>1. /\ state[a] = "live" /\ Retire(a, c)
      /\ free' = [free EXCEPT ![a] = Top(c)]
      /\ objects' = objects /\ refused' = {size}
      /\ ~Fits(c, Top(c), size)
  BY DEF AllocFails, Overflows
<1>2. state' = state /\ start' = [start EXCEPT ![a] = c]
  BY <1>1 DEF Retire
<1>3. /\ Owned(a)' = Owned(a) \cup {c}
      /\ \A b \in Arena \ {a} : Owned(b)' = Owned(b)
      /\ \A o \in objects : o.chunk # c
  BY <1>1, RetireOwns
<1>4. Top(c) \in Nat /\ Start[c] <= Top(c)
  BY DEF Top
<1>5. TypeOK'
  <2>1. /\ state' \in [Arena -> {"none", "live", "moved", "dead"}]
        /\ free' \in [Arena -> Nat]
        /\ objects' \subseteq Object
        /\ refused' \subseteq Request
    BY <1>1, <1>2, <1>4 DEF TypeOK
  <2> QED
    BY <1>1, <2>1, RetireOwns DEF TypeOK
<1>6. OwnedOnce'
  BY <1>1, RetireOwns
<1>7. ObjectsInOwnedChunks' /\ NoOverlap'
  BY <1>1, <1>3, OwnersLive DEF ObjectsInOwnedChunks, NoOverlap
<1>8. CursorInChunk'
  BY <1>1, <1>2, <1>4 DEF CursorInChunk, TypeOK
<1>9. CursorBelowObjects'
  BY <1>1, <1>2, <1>3, OwnersLive DEF CursorBelowObjects, TypeOK
<1>10. FailsOnlyIfHuge'
  BY <1>1, EmptyChunkFits DEF FailsOnlyIfHuge
<1> QED
  BY <1>5, <1>6, <1>7, <1>8, <1>9, <1>10

\* A move hands over chunks, cursor and objects together.
LEMMA MoveKeeps ==
    ASSUME IInv, NEW a \in Arena, NEW b \in Arena, Move(a, b)
    PROVE  IInv'
<1> USE ArenaAssumption DEF IInv
<1>1. a # b /\ start[b] = Null /\ retired[b] = {} /\ start[a] \in Chunk
  BY DEF Move, TypeOK
<1> DEFINE renamed(o) == IF o.arena = a THEN [o EXCEPT !.arena = b] ELSE o
<1>2. objects' = {renamed(o) : o \in objects}
  BY DEF Move
<1>3. \A o \in objects :
        /\ renamed(o) \in Object
        /\ renamed(o).arena = IF o.arena = a THEN b ELSE o.arena
        /\ renamed(o).at = o.at /\ renamed(o).size = o.size
        /\ renamed(o).chunk = o.chunk
        /\ o.arena \in Arena /\ o.arena # b
  <2> SUFFICES ASSUME NEW o \in objects
               PROVE  /\ renamed(o) \in Object
                      /\ renamed(o).arena = IF o.arena = a THEN b ELSE o.arena
                      /\ renamed(o).at = o.at /\ renamed(o).size = o.size
                      /\ renamed(o).chunk = o.chunk
                      /\ o.arena \in Arena /\ o.arena # b
    OBVIOUS
  <2>1. o \in Object
    BY DEF TypeOK
  <2>2. o.arena \in Arena /\ o.arena # b
    BY OwnersLive DEF Move
  <2> QED
    BY <2>1, <2>2 DEF Object
<1>4. /\ Owned(a)' = {} /\ Owned(b)' = Owned(a) /\ Owned(b) = {}
      /\ \A d \in Arena \ {a, b} : Owned(d)' = Owned(d)
  BY <1>1 DEF Move, Owned, TypeOK
<1> HIDE DEF renamed
<1>5. TypeOK'
  <2>1. /\ state' \in [Arena -> {"none", "live", "moved", "dead"}]
        /\ start' \in [Arena -> Chunk \cup {Null}]
        /\ free' \in [Arena -> Nat]
        /\ retired' \in [Arena -> SUBSET Chunk]
        /\ heap' \in [Chunk -> {"unused", "owned", "deleted", "corrupt"}]
        /\ refused' \subseteq Request
    BY DEF Move, TypeOK
  <2>2. objects' \subseteq Object
    BY <1>2, <1>3
  <2>3. \A d \in Arena : IF state'[d] = "live"
                         THEN start'[d] # Null
                         ELSE start'[d] = Null /\ retired'[d] = {}
    BY <1>1 DEF Move, TypeOK
  <2> QED
    BY <2>1, <2>2, <2>3 DEF TypeOK
<1>6. OwnedOnce'
  <2>1. \A c \in Chunk : heap'[c] = "owned" <=> \E d \in Arena : c \in Owned(d)'
    BY <1>4 DEF OwnedOnce, Move
  <2>2. \A d, e \in Arena : d # e => Owned(d)' \cap Owned(e)' = {}
    BY <1>4 DEF OwnedOnce
  <2>3. \A d \in Arena : start'[d] \notin retired'[d]
    BY <1>1 DEF OwnedOnce, Move, TypeOK
  <2>4. \A c \in Chunk : heap'[c] # "corrupt"
    BY DEF OwnedOnce, Move
  <2> QED
    BY <2>1, <2>2, <2>3, <2>4 DEF OwnedOnce
<1>7. ObjectsInOwnedChunks'
  BY <1>2, <1>3, <1>4 DEF ObjectsInOwnedChunks
<1>8. NoOverlap'
  BY <1>2, <1>3 DEF NoOverlap
<1>9. CursorInChunk'
  BY <1>1 DEF CursorInChunk, Move, TypeOK
<1>10. CursorBelowObjects'
  BY <1>1, <1>2, <1>3, SMTT(30) DEF CursorBelowObjects, Move, TypeOK
<1>11. FailsOnlyIfHuge'
  BY DEF FailsOnlyIfHuge, Move
<1> QED
  BY <1>5, <1>6, <1>7, <1>8, <1>9, <1>10, <1>11

\* Chunks and objects of an arena go at the same time.
LEMMA DestroyKeeps ==
    ASSUME IInv, NEW a \in Arena, Destroy(a)
    PROVE  IInv'
<1> USE ArenaAssumption DEF IInv
<1>1. Owned(a) \subseteq Chunk /\ \A c \in Owned(a) : heap[c] = "owned"
  BY DEF Owned, OwnedOnce, TypeOK
<1>2. \A c \in Chunk : heap'[c] = IF c \in Owned(a) THEN "deleted" ELSE heap[c]
  BY <1>1 DEF Destroy
<1>3. Owned(a)' = {} /\ \A b \in Arena \ {a} : Owned(b)' = Owned(b)
  BY DEF Destroy, Owned, TypeOK
<1>4. objects' = {o \in objects : o.arena # a}
  BY DEF Destroy
<1>5. TypeOK'
  <2>1. /\ state' \in [Arena -> {"none", "live", "moved", "dead"}]
        /\ start' \in [Arena -> Chunk \cup {Null}]
        /\ free' \in [Arena -> Nat]
        /\ retired' \in [Arena -> SUBSET Chunk]
        /\ objects' \subseteq Object
        /\ refused' \subseteq Request
    BY DEF Destroy, TypeOK
  <2>2. heap' \in [Chunk -> {"unused", "owned", "deleted", "corrupt"}]
    BY DEF Destroy, TypeOK
  <2>3. \A b \in Arena : IF state'[b] = "live"
                         THEN start'[b] # Null
                         ELSE start'[b] = Null /\ retired'[b] = {}
    BY DEF Destroy, TypeOK
  <2> QED
    BY <2>1, <2>2, <2>3 DEF TypeOK
<1>6. OwnedOnce'
  <2>1. \A c \in Chunk : heap'[c] = "owned" <=> \E b \in Arena : c \in Owned(b)'
    BY <1>2, <1>3 DEF OwnedOnce
  <2>2. \A b, d \in Arena : b # d => Owned(b)' \cap Owned(d)' = {}
    BY <1>3 DEF OwnedOnce
  <2>3. \A b \in Arena : start'[b] \notin retired'[b]
    BY DEF OwnedOnce, Destroy, TypeOK
  <2>4. \A c \in Chunk : heap'[c] # "corrupt"
    BY <1>2 DEF OwnedOnce
  <2> QED
    BY <2>1, <2>2, <2>3, <2>4 DEF OwnedOnce
<1>7. ObjectsInOwnedChunks' /\ NoOverlap'
  BY <1>3, <1>4, OwnersLive DEF ObjectsInOwnedChunks, NoOverlap
<1>8. CursorInChunk'
  BY DEF CursorInChunk, Destroy, TypeOK
<1>9. CursorBelowObjects'
  BY <1>4, OwnersLive DEF CursorBelowObjects, Destroy, TypeOK
<1>10. FailsOnlyIfHuge'
  BY DEF FailsOnlyIfHuge, Destroy
<1> QED
  BY <1>5, <1>6, <1>7, <1>8, <1>9, <1>10

\* The invariant is inductive.
LEMMA NextKeeps == IInv /\ [Next]_vars => IInv'
<1> SUFFICES ASSUME IInv, [Next]_vars PROVE IInv'
  OBVIOUS
<1>1. CASE UNCHANGED vars
  BY <1>1 DEF vars, IInv, TypeOK, OwnedOnce, ObjectsInOwnedChunks, NoOverlap,
     FailsOnlyIfHuge, CursorInChunk, CursorBelowObjects, Owned
<1>2. CASE Next
  BY <1>2, CreateKeeps, AllocHereKeeps, AllocNextKeeps, AllocFailsKeeps,
     MoveKeeps, DestroyKeeps DEF Next
<1> QED
  BY <1>1, <1>2

\* The invariant holds in every state of every run.
LEMMA Invariance == Spec => []IInv
  BY InitInv, NextKeeps, PTL DEF Spec

-----------------------------------------------------------------------------
(* The arena never leaves its states: a live arena has a current chunk, any *)
(* other arena has none (BumpArena, Bumper(Bumper&&), ~Bumper).             *)
THEOREM TypesCorrect == Spec => []TypeOK
  BY Invariance, PTL DEF IInv

\* Retirement, moves and destruction neither leak a chunk nor delete one twice.
THEOREM ChunksOwnedOnce == Spec => []OwnedOnce
  BY Invariance, PTL DEF IInv

\* Two allocations that are both alive never overlap.
THEOREM ObjectsApart == Spec => []NoOverlap
  BY Invariance, PTL DEF IInv

\* Objects are aligned, inside a chunk, and freed no earlier than their arena:
\* the move into a Program or a DomTree takes the chunks of the nodes along.
THEOREM ObjectsOwned == Spec => []ObjectsInOwnedChunks
  BY Invariance, PTL DEF IInv

\* nullptr is only answered to a request larger than a chunk.
THEOREM FailuresHuge == Spec => []FailsOnlyIfHuge
  BY Invariance, PTL DEF IInv
=============================================================================
