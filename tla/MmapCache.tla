----------------------------- MODULE MmapCache -----------------------------
(***************************************************************************)
(* mmap_cache.c: the open-addressing table of mapped files that requests   *)
(* share.  find_mmap gives a request a reference to the entry of its file, *)
(* release_mmap (called by free_request) takes it back; the mapping goes   *)
(* with the last reference.  A probe ends at the first empty slot and      *)
(* misses an entry of the same file further on, so a file may be mapped    *)
(* twice; the comment in find_mmap accepts that.                           *)
(***************************************************************************)
EXTENDS Integers, FiniteSets

CONSTANTS
    Holders,     \* the requests that can hold a reference
    Files,       \* what identifies a file: device, inode and size
    Size,        \* MMAP_LIST_SIZE
    UseMax,      \* MMAP_LIST_USE_MAX
    Hash,        \* MMAP_LIST_HASH of each file
    NONE         \* no entry, no mapping

Slots == 0 .. Size - 1

ASSUME CacheAssumption ==
    /\ IsFiniteSet(Holders)
    /\ Size \in Nat \ {0}
    /\ UseMax \in Nat
    /\ Hash \in [Files -> Slots]
    /\ NONE \notin Slots \cup Files

VARIABLES
    use_count, file,           \* the fields of mmap_list (file: dev, ino, len)
    mmap_list_entries_used,
    mapping,                   \* what the kernel has mapped at each entry's address
    entry,                     \* req->mmap_entry_var
    wants                      \* the file each holder asked for

cacheVars == <<use_count, file, mmap_list_entries_used, mapping, entry, wants>>

CacheTypeOK ==
    /\ use_count \in [Slots -> Nat]
    /\ file \in [Slots -> Files \cup {NONE}]
    /\ mmap_list_entries_used \in Int
    /\ mapping \in [Slots -> Files \cup {NONE}]
    /\ entry \in [Holders -> Slots \cup {NONE}]
    /\ wants \in [Holders -> Files \cup {NONE}]

CacheInit ==
    /\ use_count = [i \in Slots |-> 0]
    /\ file = [i \in Slots |-> NONE]
    /\ mmap_list_entries_used = 0
    /\ mapping = [i \in Slots |-> NONE]
    /\ entry = [h \in Holders |-> NONE]
    /\ wants = [h \in Holders |-> NONE]

(* The slot that the probe for f reaches after k bounces.                  *)
MMAP_LIST_NEXT(f, k) == (Hash[f] + k) % Size

(* A comparison by hash value only.                                        *)
StopsByHash(f, i) == use_count[i] = 0 \/ Hash[file[i]] = Hash[f]

(* A probe ends at an empty slot or at the entry of the file.              *)
Stops(f, i) == use_count[i] = 0 \/ file[i] = f

(* Where the loop of find_mmap ends: at the first stop after k bounces;    *)
(* NONE when it comes round to its start.                                  *)
FirstStop(f) == {k \in Slots : /\ Stops(f, MMAP_LIST_NEXT(f, k))
                               /\ \A j \in 0 .. k - 1 : ~Stops(f, MMAP_LIST_NEXT(f, j))}

Probe(f) == IF FirstStop(f) = {} THEN NONE
            ELSE MMAP_LIST_NEXT(f, CHOOSE k \in FirstStop(f) : TRUE)

(* A hit that is not counted.                                              *)
FindOldUncounted(h, f) ==
    LET i == Probe(f)
    IN  /\ entry[h] = NONE
        /\ i # NONE /\ use_count[i] > 0
        /\ entry' = [entry EXCEPT ![h] = i]
        /\ wants' = [wants EXCEPT ![h] = f]
        /\ UNCHANGED <<use_count, file, mmap_list_entries_used, mapping>>

(* The file is mapped already.                                             *)
FindOld(h, f) ==
    LET i == Probe(f)
    IN  /\ entry[h] = NONE
        /\ i # NONE /\ use_count[i] > 0
        /\ use_count' = [use_count EXCEPT ![i] = @ + 1]
        /\ entry' = [entry EXCEPT ![h] = i]
        /\ wants' = [wants EXCEPT ![h] = f]
        /\ UNCHANGED <<file, mmap_list_entries_used, mapping>>

(* A new entry, while the limit allows one.                                *)
FindNew(h, f) ==
    LET i == Probe(f)
    IN  /\ entry[h] = NONE
        /\ i # NONE /\ use_count[i] = 0
        /\ ~(mmap_list_entries_used > UseMax)
        /\ mmap_list_entries_used' = mmap_list_entries_used + 1
        /\ use_count' = [use_count EXCEPT ![i] = 1]
        /\ file' = [file EXCEPT ![i] = f]
        /\ mapping' = [mapping EXCEPT ![i] = f]
        /\ entry' = [entry EXCEPT ![h] = i]
        /\ wants' = [wants EXCEPT ![h] = f]

(* The table is full, the limit is reached, or mmap or madvise fails: the  *)
(* request reads the file through its descriptor instead (IOSHUFFLE) and   *)
(* the cache is as it was.                                                 *)
FindFails(h, f) ==
    /\ entry[h] = NONE
    /\ Probe(f) = NONE \/ use_count[Probe(f)] = 0
    /\ UNCHANGED cacheVars

(* Releases that do part of the work: the memory stays mapped, the entry   *)
(* stays counted.                                                          *)
ReleasePart(h, unmap, uncount) ==
    LET i == entry[h]
        last == use_count[i] <= 1
    IN  /\ i # NONE
        /\ entry' = [entry EXCEPT ![h] = NONE]
        /\ wants' = [wants EXCEPT ![h] = NONE]
        /\ use_count' = [use_count EXCEPT ![i] = @ - 1]
        /\ mapping' = IF last /\ unmap THEN [mapping EXCEPT ![i] = NONE] ELSE mapping
        /\ mmap_list_entries_used' = mmap_list_entries_used - (IF last /\ uncount THEN 1 ELSE 0)
        /\ UNCHANGED file

release_mmapLeaks(h) == ReleasePart(h, FALSE, TRUE)
release_mmapUncounted(h) == ReleasePart(h, TRUE, FALSE)

(* free_request: the reference is given back.                              *)
release_mmap(h) ==
    LET i == entry[h]
    IN  /\ i # NONE
        /\ entry' = [entry EXCEPT ![h] = NONE]
        /\ wants' = [wants EXCEPT ![h] = NONE]
        /\ IF use_count[i] = 0
           THEN UNCHANGED <<use_count, mapping, mmap_list_entries_used>>
           ELSE /\ use_count' = [use_count EXCEPT ![i] = @ - 1]
                /\ IF use_count[i] = 1
                   THEN /\ mapping' = [mapping EXCEPT ![i] = NONE]
                        /\ mmap_list_entries_used' = mmap_list_entries_used - 1
                   ELSE UNCHANGED <<mapping, mmap_list_entries_used>>
        /\ UNCHANGED file

CacheNext ==
    \E h \in Holders :
       \/ \E f \in Files : FindOld(h, f) \/ FindNew(h, f) \/ FindFails(h, f)
       \/ release_mmap(h)

CacheSpec == CacheInit /\ [][CacheNext]_cacheVars
-----------------------------------------------------------------------------
HoldersOf(i) == {h \in Holders : entry[h] = i}
Used == {i \in Slots : use_count[i] > 0}

(* Each use_count is the number of requests that refer to the entry: no    *)
(* reference is lost or counted twice, in any order of calls.              *)
RefCounts == \A i \in Slots : use_count[i] = Cardinality(HoldersOf(i))

(* mmap_list_entries_used, the number the limit is tested against, is the  *)
(* number of entries in use.  It may exceed the limit: see WithinLimit.    *)
EntriesUsed == mmap_list_entries_used = Cardinality(Used)

(* As long as a request holds an entry, the entry's memory is mapped, and  *)
(* it is the file this request asked for: no other request's release       *)
(* unmaps it and no other request's file replaces it.                      *)
DataMapped == \A h \in Holders : entry[h] # NONE => mapping[entry[h]] = wants[h]

(* A mapping that nobody refers to is gone: the cache leaks no mapping.    *)
NoOrphan == \A i \in Slots : mapping[i] # NONE => \E h \in Holders : entry[h] = i
-----------------------------------------------------------------------------
(* mmap_cache.c: more entries than MMAP_LIST_USE_MAX are disallowed.       *)
WithinLimit == mmap_list_entries_used <= UseMax
=============================================================================
