-------------------------- MODULE MC_MemoryLimits --------------------------
(* Small instances of MemoryLimits for TLC: a megabyte is two bytes.       *)
EXTENDS MemoryLimits

MCService == {"target-api", "target-worker", "target-db"}
MCManagedVolumes == [s \in MCService |->
                        IF s = "target-db" THEN "sovops_pgdata" ELSE None]

\* No limit, less than a megabyte, both sides of each end of the clamp, odd
\* bytes, the limits of docker-compose.yml, and limits above the clamp.
MCDeployed == {0, 1, 63 * Mb, 64 * Mb, 64 * Mb + 1, 128 * Mb, 256 * Mb,
               2048 * Mb, 2049 * Mb + 1, 4095 * Mb + 1, 4096 * Mb, 4097 * Mb,
               8192 * Mb}
MCAsked == {-1, 0, 63, 64, 65, 300, 4096, 4097}

\* Readings true of no container, or of one at another time.
MCClaimed == {1, 64 * Mb + 1, 300 * Mb, 2049 * Mb + 1, 4097 * Mb}
=============================================================================
