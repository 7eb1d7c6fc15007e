------------------------------ MODULE Inventory ------------------------------
(***************************************************************************)
(* The inventory of the media folder (calc_duration.py): one record for each    *)
(* distinct content, under the first of the paths that hold it.  A run hashes    *)
(* the files its hash cache does not know, probes the contents its last output   *)
(* does not know, and writes both files; files may be replaced meanwhile, and     *)
(* the run may be killed.  Paths are numbered in the order the program sorts      *)
(* them; a content is named by what its SHA-256 stands for.                    *)
(***************************************************************************)
EXTENDS Naturals, FiniteSetsExt

CONSTANTS PathCount, Contents, Undecodable,
          MaxEdits, MaxKills, MaxTimeouts,   \* bounds of a behaviour
          MaxFaults                          \* bound on all three together

Absent == "absent"      \* no file under the path
NoId == "None"          \* str(None), the id of a file that could not be read
Torn == "torn"          \* the hash of a file that was replaced while it was read
Pending == "pending"

ASSUME InventoryAssumption ==
    /\ Undecodable \subseteq Contents
    /\ Contents \cap {Absent, NoId, Torn, Pending} = {}
    /\ {PathCount, MaxEdits, MaxKills, MaxTimeouts, MaxFaults} \subseteq Nat

Paths == 1..PathCount

VARIABLES
    disk,        \* per path: what the file holds, and the stat fields of file_identity as one stamp
    cache,       \* the hash cache file, per path: the identity and the id; stamp 0 without a line
    inventory,   \* data.jsonl: a set of records, each with its own path
    phase,       \* of the run: "down" without one, "listed", "hashing", "probing"
    flags,       \* --resume and --retry-failures
    listed, stats, ids, probed,     \* what the run has found so far
    edits, kills, timeouts,
    quiet,       \* no file was replaced and no probe timed out in this run
    untouched    \* no file was ever replaced between its hash and the end of its run

run == <<phase, flags, listed, stats, ids, probed>>
inventoryVars == <<disk, cache, inventory, run, edits, kills, timeouts, quiet, untouched>>

Unstated == [p \in Paths |-> 0]
Unhashed == [p \in Paths |-> Pending]
NoEntry == [stamp |-> 0, id |-> NoId]

InventoryInit ==
    /\ disk \in [Paths -> [content : Contents \cup {Absent}, stamp : {1}]]
    /\ cache = [p \in Paths |-> NoEntry] /\ inventory = {}
    /\ phase = "down" /\ flags = [resume |-> FALSE, retry |-> FALSE]
    /\ listed = {} /\ stats = Unstated /\ ids = Unhashed /\ probed = {}
    /\ edits = 0 /\ kills = 0 /\ timeouts = 0 /\ quiet = TRUE /\ untouched = TRUE
-----------------------------------------------------------------------------
(* The steps of main, in order. *)

Present(p) == disk[p].content # Absent

ScanMedia(resume, retry) ==
    /\ phase = "down" /\ phase' = "listed"
    /\ flags' = [resume |-> resume, retry |-> retry]
    /\ listed' = {p \in Paths : Present(p)} /\ quiet' = TRUE
    /\ UNCHANGED <<disk, cache, inventory, stats, ids, probed, edits, kills, timeouts, untouched>>

\* resolve_content_ids, first pass: every file's identity, before any byte of it is read.
Identity(p) == IF p \in listed /\ Present(p) THEN disk[p].stamp ELSE 0

Known(p) == CASE Identity(p) = 0 -> NoId
              [] Identity(p) # 0 /\ flags.resume /\ cache[p].stamp = Identity(p) -> cache[p].id
              [] OTHER -> Pending

StatFiles == /\ phase = "listed" /\ phase' = "hashing"
             /\ stats' = [p \in Paths |-> Identity(p)] /\ ids' = [p \in Paths |-> Known(p)]
             /\ UNCHANGED <<disk, cache, inventory, flags, listed, probed,
                            edits, kills, timeouts, quiet, untouched>>

\* hash_one, in a thread of its own; a file replaced since its stat may be read half old, half new.
Digests(p) == {IF Present(p) THEN disk[p].content ELSE NoId}
              \cup IF disk[p].stamp = stats[p] THEN {} ELSE {Torn}

HashOne(p) == /\ phase = "hashing" /\ ids[p] = Pending
              /\ \E id \in Digests(p) : ids' = [ids EXCEPT ![p] = id]
              /\ UNCHANGED <<disk, cache, inventory, phase, flags, listed, stats, probed,
                             edits, kills, timeouts, quiet, untouched>>

\* Faulty: the identity is read again when the cache is written.
CacheEntryStatLast(p) == IF stats[p] = 0 \/ ids[p] = NoId THEN NoEntry
                         ELSE [stamp |-> disk[p].stamp, id |-> ids[p]]

\* The identity written beside the hash is that of the first pass.
CacheEntry(p) == IF stats[p] = 0 \/ ids[p] = NoId THEN NoEntry ELSE [stamp |-> stats[p], id |-> ids[p]]

WriteHashCache == /\ phase = "hashing" /\ \A p \in Paths : ids[p] # Pending
                  /\ phase' = "probing" /\ cache' = [p \in Paths |-> CacheEntry(p)]
                  /\ UNCHANGED <<disk, inventory, flags, listed, stats, ids, probed,
                                 edits, kills, timeouts, quiet, untouched>>

\* Equal ids are one asset, under the first of its paths; an unreadable file is its own.
SameAsset(p) == IF ids[p] \in {NoId, Torn} THEN {p} ELSE {q \in listed : ids[q] = ids[p]}
Canonical == {p \in listed : p = Min(SameAsset(p))}

\* Faulty: the record of the same path; and a failure reused although it was to be tried again.
ReusableByPath(p) == {r \in inventory : flags.resume /\ r.path = p /\ (r.status = "ok" \/ ~flags.retry)}
ReusableFailure(p) == {r \in inventory : flags.resume /\ r.id = ids[p] /\ ids[p] \notin {NoId, Torn}}

\* reusable_inventory_record: an old record of the same content, wherever it was found.
Reusable(p) == {r \in inventory : /\ flags.resume /\ r.id = ids[p] /\ ids[p] \notin {NoId, Torn}
                                  /\ r.status = "ok" \/ ~flags.retry}

\* attach_duplicate_metadata: the paths are those of this run.
Attach(p, r) == [path |-> p, id |-> r.id, status |-> r.status, duplicates |-> SameAsset(p) \ {p}]

Cached(p) == {Attach(p, r) : r \in Reusable(p)}
Unprobed == {p \in Canonical : Cached(p) = {} /\ \A r \in probed : r.path # p}

\* inventory_one, in a process of the pool: the id is the one of the hashing.
Record(p, status) == Attach(p, [id |-> ids[p], status |-> status])
ProbedStatus(p) == IF disk[p].content \in Contents \ Undecodable THEN "ok" ELSE "failed"

Probe(p) == /\ phase = "probing" /\ p \in Unprobed
            /\ probed' = probed \cup {Record(p, ProbedStatus(p))}
            /\ UNCHANGED <<disk, cache, inventory, phase, flags, listed, stats, ids,
                           edits, kills, timeouts, quiet, untouched>>

\* ffprobe or ffmpeg takes longer than its time.
ProbeTimesOut(p) == /\ phase = "probing" /\ p \in Unprobed /\ timeouts < MaxTimeouts
                    /\ probed' = probed \cup {Record(p, "failed")}
                    /\ timeouts' = timeouts + 1 /\ quiet' = FALSE
                    /\ UNCHANGED <<disk, cache, inventory, phase, flags, listed, stats, ids,
                                   edits, kills, untouched>>

FinalRecords == probed \cup UNION {Cached(p) : p \in Canonical}

Reset == /\ phase' = "down" /\ flags' = [resume |-> FALSE, retry |-> FALSE]
         /\ listed' = {} /\ stats' = Unstated /\ ids' = Unhashed /\ probed' = {}

WriteInventory == /\ phase = "probing" /\ Unprobed = {} /\ inventory' = FinalRecords /\ Reset
                  /\ UNCHANGED <<disk, cache, edits, kills, timeouts, quiet, untouched>>

\* With --resume the output is replaced at once; without, it is truncated and written line by line.
Leftovers == {inventory} \cup IF phase = "probing" /\ Unprobed = {} /\ ~flags.resume
                              THEN {{r \in FinalRecords : r.path < n} : n \in Paths} ELSE {}

Kill == /\ phase # "down" /\ kills < MaxKills /\ kills' = kills + 1
        /\ inventory' \in Leftovers /\ Reset
        /\ UNCHANGED <<disk, cache, edits, timeouts, quiet, untouched>>

\* A file is written, replaced, renamed or removed; ctime, size or inode tell.
Edit(p, content) ==
    /\ edits < MaxEdits /\ disk[p].content # content /\ edits' = edits + 1
    /\ disk' = [disk EXCEPT ![p] = [content |-> content, stamp |-> edits + 2]]
    /\ quiet' = FALSE
    /\ untouched' = (untouched /\ (phase \in {"down", "listed"} \/ ids[p] = Pending))
    /\ UNCHANGED <<cache, inventory, run, kills, timeouts>>

InventoryStep == \/ StatFiles \/ WriteHashCache \/ WriteInventory
                 \/ \E p \in Paths : HashOne(p) \/ Probe(p) \/ ProbeTimesOut(p)

InventoryNext == /\ \/ \E resume, retry \in BOOLEAN : ScanMedia(resume, retry)
                    \/ InventoryStep \/ Kill
                    \/ \E p \in Paths, c \in Contents \cup {Absent} : Edit(p, c)
                 /\ edits' + kills' + timeouts' <= MaxFaults

InventorySpec == InventoryInit /\ [][InventoryNext]_inventoryVars
-----------------------------------------------------------------------------
\* A line of the cache that matches a file states what the file holds, whenever it was replaced
\* (file_identity, and the order of the two passes of resolve_content_ids).
CacheIsTrue == \A p \in Paths :
    cache[p].stamp = disk[p].stamp => cache[p].id = disk[p].content

Ends == phase = "probing" /\ phase' = "down" /\ kills' = kills

Holding(c) == {p \in Paths : disk[p].content = c}

\* The paths, contents and duplicates of a run during which nothing was replaced are those of the
\* folder, whatever earlier runs cached, were killed in, or saw change under them.
PathsAreCurrent ==
    [][Ends /\ quiet =>
        {<<r.path, r.id, r.duplicates>> : r \in inventory'} =
        {<<Min(Holding(c)), c, Holding(c) \ {Min(Holding(c))}>> :
            c \in {disk[p].content : p \in Paths} \ {Absent}}]_inventoryVars

\* Nothing is called decodable that is not; and with --retry-failures, or without --resume, such a
\* run leaves no failure of an earlier one behind (calc_duration.py:128-140, :437-455).
StatusesAreTrue ==
    [][Ends /\ quiet /\ untouched => \A r \in inventory' :
        /\ r.status = "ok" => r.id \notin Undecodable
        /\ r.status = "failed" /\ (flags.retry \/ ~flags.resume) => r.id \in Undecodable
      ]_inventoryVars
=============================================================================
