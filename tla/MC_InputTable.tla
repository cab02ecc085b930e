--------------------------- MODULE MC_InputTable ---------------------------
EXTENDS InputTableSpec

CONSTANTS k1, k2, k3, v1, v2

MCKeys   == {k1, k2, k3}
MCValues == {v1, v2}

\* Distinct keys, distinct hashes: what the code assumes of GetHash.
DistinctHash(k) == CASE k = k1 -> 1 [] k = k2 -> 2 [] k = k3 -> 3

\* Two keys with one FNV-64a hash: hashstructure's hash is not
\* collision-resistant, so a client that registers chosen pure bytes can
\* produce such a pair.
ClashingHash(k) == IF k = k3 THEN 2 ELSE 1
=============================================================================
