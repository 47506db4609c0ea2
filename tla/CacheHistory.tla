---------------------------- MODULE CacheHistory ----------------------------
(***************************************************************************)
(* What MessageCache promises, stated over the history of its calls: it is *)
(* an LRU cache.  `used` is that history: every id ever stored or found, in*)
(* the order of its last use.                                              *)
(***************************************************************************)
EXTENDS MessageCache

VARIABLE used

historyVars == <<cache, used>>

HistoryInit == CacheInit /\ used = <<>>

HistoryNext ==
    \E k \in Ids : /\ SetIfAbsent(k) \/ Get(k)
                   /\ used' = MoveToEnd(used, k)

HistorySpec == HistoryInit /\ [][HistoryNext]_historyVars

Smaller(a, b) == IF a < b THEN a ELSE b

(* The cache holds the MaxSize ids most recently used (all, while they are     *)
(* fewer), and the next victim is the least recently used of them: an id is    *)
(* forgotten, and its message answered again, only after MaxSize others were   *)
(* used.  "LRU eviction when the cache fills" and "get() promotes an element"  *)
(* in tests/unit/test_cache.py.                                                *)
MostRecentlyUsed ==
    LET n == Smaller(MaxSize, Len(used)) IN
    cache = SubSeq(used, Len(used) - n + 1, Len(used))
=============================================================================
