------------------------------- MODULE KvDisk -------------------------------
(***************************************************************************)
(* The VHT2 files a KvCache is saved to and loaded from (the disk section  *)
(* of shannon_prime.c): one file per layer and plane, K before V, layer by *)
(* layer, each with the number of positions and a hash in its header.      *)
(* Nothing ties the files of one save together.  The hash is that of the   *)
(* model's path (FNV-1a, in main.cpp): models that have stood at one path  *)
(* share it, and one value, 0, passes every check.                         *)
(***************************************************************************)
EXTENDS KvCache

CONSTANTS Hashes, \* the hashes of paths
          NoHash, \* the hash 0, which is one of them
          Hash    \* sp_fnv1a_hash of the path each model stands at

ASSUME HashAssumption == NoHash \in Hashes /\ Hash \in [Models -> Hashes]

VARIABLE disk   \* plane -> file

NoFile == [n |-> -1]
Torn == [n |-> 0]          \* created or truncated, header not written
File == [n : 1..Cap, hash : Hashes, data : Slots] \cup {NoFile, Torn}

\* The order in which save and load go through the files.
Index(f) == 2 * f[1] + (IF f[2] = "v" THEN 1 ELSE 0)
PlaneAt(i) == <<i \div 2, IF i % 2 = 0 THEN "k" ELSE "v">>
NFiles == 2 * NLayers

\* One file of save_to_disk(prefix, n, hash): the first n positions.
Saved(f, n) ==
    [n |-> n, hash |-> Hash[model],
     data |-> [p \in 0..(Cap - 1) |-> IF p < n THEN cache[f][p] ELSE Empty]]

\* A file whose writing was cut off after its first m positions.
CutOff(f, n, m) ==
    [Saved(f, n) EXCEPT !.data =
        [p \in 0..(Cap - 1) |-> IF p < m THEN cache[f][p] ELSE Empty]]

HeaderRead(f) == disk[f].n > 0

\* The V file is opened only if the layer's K file was ("ship") or was valid.
Opened(f) ==
    /\ disk[f] # NoFile
    /\ f[2] = "v" => IF kind = "ship" THEN disk[<<f[1], "k">>] # NoFile
                                      ELSE HeaderRead(<<f[1], "k">>)

\* Mutant: the hash is not compared.
RefusesNever(f, strict) == FALSE

\* The load is aborted at the first file of another hash, but for files and
\* models without one; with SP_DISK_HASH_STRICT=0 the difference is only noted.
Refuses(f, strict) ==
    /\ strict
    /\ Opened(f) /\ HeaderRead(f)
    /\ Hash[model] # NoHash /\ disk[f].hash # NoHash
    /\ disk[f].hash # Hash[model]
Aborts(strict) == \E f \in Planes : Refuses(f, strict)
Takes(f, strict) ==
    /\ Opened(f) /\ HeaderRead(f)
    /\ \A g \in Planes : Index(g) <= Index(f) => ~Refuses(g, strict)

\* A load that may take files whose hash is not compared, or not insisted on.
Lax(strict) ==
    \E f \in Planes :
        HeaderRead(f) /\ (~strict \/ NoHash \in {Hash[model], disk[f].hash})

\* What load_from_disk leaves in the planes: what was read before an abort
\* stays, and a short read leaves the old bytes.
LoadedPlanes(strict) ==
    [f \in Planes |-> [p \in 0..(Cap - 1) |->
        IF Takes(f, strict) /\ p < disk[f].n /\ disk[f].data[p].pos >= 0
        THEN disk[f].data[p] ELSE cache[f][p]]]

\* n is what it returns when not aborted: the most positions of a K file taken.
KFilesTaken(strict) == {f \in Planes : f[2] = "k" /\ Takes(f, strict)}
IsLoadedCount(n, strict) ==
    /\ \A f \in KFilesTaken(strict) : disk[f].n <= n
    /\ IF KFilesTaken(strict) = {} THEN n = 0
       ELSE \E f \in KFilesTaken(strict) : n = disk[f].n
=============================================================================
