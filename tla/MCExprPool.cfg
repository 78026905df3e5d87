\* Three threads, one call each: three contents share a hash (one of them NaN,
\* equal to nothing), 0.0 and -0.0 are equal under two hashes, and every
\* bucket shares one shard.
SPECIFICATION FairSpec
CONSTANTS
  Threads = {t1, t2, t3}
  None = None
  x = x  seven = seven  nine = nine  pzero = pzero  nzero = nzero  nan = nan
  hA = hA  hB = hB
  sA = sA
  Data = {seven, nine, pzero, nzero, nan}
  Hashes = {hA, hB}
  Hash <- HashMC
  Equal <- EqualMC
  Shards = {sA}
  Shard <- ShardMC
  MaxCalls = 1
INVARIANTS
  HashConsed
  CanonicalAnswers
PROPERTIES
  RefinesHashConsing
  InternReturns
