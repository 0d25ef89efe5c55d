--------------------------- MODULE BatchProcessorInv ---------------------------
(***************************************************************************)
(* The inductive invariant behind the agreement of the index with the      *)
(* files: what is known of one path p in every state of the scan and the   *)
(* batch.  It holds where an edit brings back no earlier content and a     *)
(* scan and a batch do not miss each other (FirstTimeGap, SilentRules).    *)
(***************************************************************************)
EXTENDS BatchProcessor

Version == [c : Nat, t : Nat]
ScanShape ==
  [on : BOOLEAN, todo : SUBSET Paths, known : SUBSET Paths, vec : SUBSET Paths, seen : SUBSET Paths]

\* The scan is idle when it is off, and a batch is marked only while it runs.
IndexShape ==
  /\ disk \in [Paths -> Version] /\ meta \in [Paths -> Version] /\ res \in [Paths -> Version]
  /\ rows \in [Paths -> SUBSET Nat] /\ counts \in [edits : Nat, faults : Nat]
  /\ gap \in BOOLEAN /\ lost \subseteq Paths /\ news \in BOOLEAN /\ dirty \in BOOLEAN
  /\ scan \in ScanShape
  /\ ~scan.on => scan = Idle
  /\ scan.todo \intersect scan.seen = {}
  /\ dirty => phase \notin {"none", "waiting"}

\* Rules that were not read are announced, or a scan will read them, or failed.
PolicyIsRead == Open /\ loaded # rules => news \/ gap \/ lost = Paths

\* A scan that will look at p is due, or the latest one missed p.
Due(p) == gap \/ p \in lost

\* Contents are numbered as they are written: neither store holds one that is
\* newer than the file, and no vectors are older than the meta entry.
Ordered(p) ==
  /\ disk[p].c = 0 => disk[p] = Absent
  /\ meta[p].c = 0 => meta[p] = Absent
  /\ disk[p].c <= counts.edits /\ meta[p].c <= counts.edits /\ res[p].c <= counts.edits
  /\ \A c \in rows[p] : 0 < c /\ c <= counts.edits /\ meta[p].c <= c
  /\ disk[p].c # 0 => meta[p].c <= disk[p].c /\ res[p].c <= disk[p].c /\ \A c \in rows[p] : c <= disk[p].c

\* What an outcome says of the result and of the vectors.
Results(p) ==
  /\ job[p] \in {"read", "stamp", "write"} => res[p].c # 0 /\ meta[p].c <= res[p].c
  /\ job[p] = "stamp" => res[p].c = meta[p].c
  /\ p \in jf => job[p] \notin {"none", "stamp"} /\ (job[p] = "cached" => meta[p] = Absent)
  /\ phase = "commit" /\ job[p] = "gone" => rows[p] = {}
  /\ phase = "commit" /\ job[p] = "write" => rows[p] = {res[p].c}

\* A meta entry without vectors: only a scan or a repair finds out.
Backed(p) ==
  Open /\ Seen(p) # Absent /\ meta[p].c = disk[p].c /\ rows[p] = {}
    => \/ Due(p) \/ p \in (scan.todo \intersect scan.known) \ scan.vec \/ p \in forced
       \/ phase = "commit" /\ job[p] = "gone"

\* The scan will purge p unless it meets it.
ToPurge(p) == p \in scan.known \ scan.seen

Flushing == phase \in {"tasks", "insert", "verify", "delete", "commit"}
Settled(p) == job[p] = "left" /\ phase # "tasks"

\* Vectors without a meta entry, of a file that is not to be seen: an event that
\* says no more than "change" would leave them, so one that says more is on its
\* way, or is being done, or was given up.
Removal(p) == Due(p) \/ ToPurge(p) \/ (p \in told /\ p \notin loaded) \/ pend[p] = "unlink"
Unlinking(p) ==
  /\ p \in Batch \ Pending /\ ev[p] = "unlink" /\ Flushing /\ ~dirty
  /\ job[p] \notin {"cached", "stamp", "write"} /\ ~Settled(p)
Dropped(p) == p \in terminal \ Pending /\ (p \in Batch => ~dirty /\ (Settled(p) \/ phase = "end"))
Purged(p) ==
  /\ Open /\ meta[p] = Absent /\ Seen(p) = Absent
  /\ rows[p] # {} \/ (job[p] = "write" /\ Flushing)
  => Removal(p) \/ Unlinking(p) \/ Dropped(p)

\* A removal that was verified twice is right, or the batch will be repeated, or
\* the file is another one by now.
Removed(p) ==
  Open /\ phase \in {"delete", "commit"} /\ job[p] = "gone"
    => \/ dirty \/ p \in Pending \/ Seen(p) = Absent
       \/ disk[p].c # meta[p].c /\ (p \in told \/ Due(p) \/ ToPurge(p))

\* What is written is the content of the file, or the path will come up again.
Written(p) ==
  Open /\ Flushing /\ job[p] = "write"
    => \/ Due(p) \/ p \in Pending \/ ToPurge(p)
       \/ p \notin loaded /\ (p \in told \/ news \/ (disk[p].c = res[p].c /\ p \notin rules))

\* Until the index agrees with the file somebody has still to look at it, or the
\* latest scan missed it.
Watched(p) == p \in told \/ Due(p) \/ news \/ p \in Pending \/ ToPurge(p)
GivenUp(p) == p \in terminal /\ (p \notin Batch \/ Settled(p) \/ phase = "end")
Unvisited(p) == p \in scan.todo /\ meta[p] = Absent /\ rows[p] = {}
InWork(p) == p \in Batch /\ (dirty \/ (Flushing /\ job[p] \notin {"cached", "stamp"}))
Followed(p) == Open => InSync(p) \/ Watched(p) \/ GivenUp(p) \/ Unvisited(p) \/ InWork(p)

\* The inductive invariant, beside that of the queue.
IndexInv ==
  /\ IndexShape /\ PolicyIsRead
  /\ \A p \in Paths : /\ Ordered(p) /\ Results(p) /\ Backed(p)
                      /\ Purged(p) /\ Removed(p) /\ Written(p) /\ Followed(p)
================================================================================
