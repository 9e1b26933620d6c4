---------------------------- MODULE MCCacheList ----------------------------
(* Small instances of CacheList for TLC.                                   *)
EXTENDS CacheList, TLC

CONSTANTS main, t1, t2, pax, framed, junk

ThreeThreads == {main, t1, t2}

FramedOnly == {framed}
PaxAndJunk == {pax, junk}

TypeOfFramed     == framed :> "framed"
TypeOfPaxAndJunk == (pax :> "pax") @@ (junk :> "unknown")

(* The threads other than the main one are alike.                          *)
Symmetry == Permutations({t1, t2})
=============================================================================
