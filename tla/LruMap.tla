------------------------------- MODULE LruMap -------------------------------
(***************************************************************************)
(* LruMap<K, V> (common/LruMap.h): the bounded cache under PeerCache and   *)
(* the two caches of ReadShortCircuitInfo.  The code keeps a list, most    *)
(* recently used first, a hash map from a key to its list node, and their  *)
(* common size `count'.  A map is modelled by its list alone, a sequence   *)
(* of <<key, value>> pairs with distinct keys: the hash map is an index of *)
(* it, count its length.  Every method holds the mutex throughout.         *)
(***************************************************************************)
EXTENDS Naturals, Sequences, SequencesExt, FiniteSets

EmptyLru == <<>>

LruKeys(m) == {m[i][1] : i \in DOMAIN m}
LruValue(m, k) == (CHOOSE e \in ToSet(m) : e[1] = k)[2]

\* LruMap::erase, and the erasing half of insert and findAndErase.
LruErase(m, k) == SelectSeq(m, LAMBDA e : e[1] # k)

\* LruMap::insert: an old value of the key is dropped, the new one goes to
\* the front, and one entry falls off the back when the map is over its size.
LruInsert(m, k, v, maxSize) ==
    LET s == <<<<k, v>>>> \o LruErase(m, k)
    IN  IF Len(s) > maxSize THEN Front(s) ELSE s

\* LruMap::setMaxSize
LruSetMaxSize(m, s) == IF Len(m) > s THEN SubSeq(m, 1, s) ELSE m

\* LruMap::find moves what it finds to the front; findAndErase removes it.
LruFind(m, k) ==
    IF k \in LruKeys(m) THEN <<<<k, LruValue(m, k)>>>> \o LruErase(m, k) ELSE m
=============================================================================
