---------------------------- MODULE MessageCache ----------------------------
(***************************************************************************)
(* MessageCache: the message ids a channel has met, in an OrderedDict of   *)
(* bounded size.  The handlers call it from coroutines of one event loop   *)
(* and it never awaits, so each call is atomic.  The text kept with an id  *)
(* is the first one stored, and never empty; it is left out.               *)
(***************************************************************************)
EXTENDS Integers, SequencesExt

CONSTANTS Ids,     \* message ids
          MaxSize  \* max_size

\* The callers pass 7000 and 15000.  With 0, popitem would raise KeyError.
ASSUME MaxSizeAssumption == MaxSize \in Nat \ {0}

VARIABLE cache   \* the ids in the cache, next victim first

CacheInit == cache = <<>>

\* Mutant of Insert: popitem() with its default, last=True.
InsertOverNewest(c, k) == Append(IF Len(c) >= MaxSize THEN Front(c) ELSE c, k)
\* Mutant of Insert: the bound is tested as `>`.
InsertBeyond(c, k) == Append(IF Len(c) > MaxSize THEN Tail(c) ELSE c, k)

\* A new id goes to the end, in the place of the first one if the cache is full.
Insert(c, k) == Append(IF Len(c) >= MaxSize THEN Tail(c) ELSE c, k)

\* move_to_end
MoveToEnd(c, k) == Append(RemoveFirst(c, k), k)

\* Mutant of AfterGet: get takes the id out.
Popped(c, k) == RemoveFirst(c, k)

\* The cache after get(k).
AfterGet(c, k) == IF Contains(c, k) THEN MoveToEnd(c, k) ELSE c

\* set_if_absent(k) returns True; when k is present nothing changes.
SetIfAbsent(k) ==
    /\ ~Contains(cache, k)
    /\ cache' = Insert(cache, k)

\* get(k) finds k; when k is absent nothing changes.
Get(k) ==
    /\ Contains(cache, k)
    /\ cache' = AfterGet(cache, k)
=============================================================================
