---------------------------- MODULE FfmpegSources ----------------------------
(***************************************************************************)
(* FFmpeg sources: FFmpegSourceControl (crates/core/src/ffmpeg_source.rs), *)
(* the addFFmpegSource and delFFmpegSource handlers that call it           *)
(* (crates/http/src/session.rs) and the supervisor that runs the           *)
(* processes (run_ffmpeg_supervisor, crates/server/src/main.rs).  Handlers *)
(* and supervisor share the table and are joined by a command queue; a     *)
(* process is [key, state], and ends whenever it likes.                    *)
(***************************************************************************)
EXTENDS Integers, Sequences, FiniteSets

CONSTANTS
  FfKeys,       \* vhost/app/stream
  FfCalls,      \* concurrent API calls
  MaxProcesses  \* processes started in a behaviour

VARIABLES
  ffActive,     \* the table: keys listed
  ffQueue,      \* commands sent and not received
  ffAdding,     \* per call: the key it found free and has not inserted, or none
  ffProcs,      \* processes started: "running", "finished", "killed"
  ffOwner,      \* the key each was started for
  ffChildren    \* the supervisor's children: key -> process, 0 for none

ffVars == <<ffActive, ffQueue, ffAdding, ffProcs, ffOwner, ffChildren>>

NoKey == "no key"

FfInit ==
  /\ ffActive = {}
  /\ ffQueue = <<>>
  /\ ffAdding = [c \in FfCalls |-> NoKey]
  /\ ffProcs = <<>>
  /\ ffOwner = <<>>
  /\ ffChildren = [k \in FfKeys |-> 0]

\* add looks the key up, and refuses one that is listed.
add_check(c, k) ==
  /\ ffAdding[c] = NoKey
  /\ k \notin ffActive
  /\ ffAdding' = [ffAdding EXCEPT ![c] = k]
  /\ UNCHANGED <<ffActive, ffQueue, ffProcs, ffOwner, ffChildren>>

\* It inserts the entry and sends the command, unless another call got between.
add_insert(c) ==
  /\ ffAdding[c] # NoKey
  /\ ffActive' = ffActive \cup {ffAdding[c]}
  /\ ffQueue' = Append(ffQueue, ffAdding[c])
  /\ ffAdding' = [ffAdding EXCEPT ![c] = NoKey]
  /\ UNCHANGED <<ffProcs, ffOwner, ffChildren>>

\* delFFmpegSource: remove takes the entry out; the process is not told.
ff_remove(k) ==
  /\ k \in ffActive
  /\ ffActive' = ffActive \ {k}
  /\ UNCHANGED <<ffQueue, ffAdding, ffProcs, ffOwner, ffChildren>>

process_ends(p) ==
  /\ p \in DOMAIN ffProcs /\ ffProcs[p] = "running"
  /\ ffProcs' = [ffProcs EXCEPT ![p] = "finished"]
  /\ UNCHANGED <<ffActive, ffQueue, ffAdding, ffOwner, ffChildren>>

\* The children that have finished, at the end of a command.
Finished(procs, children) == {k \in FfKeys : children[k] > 0 /\ procs[children[k]] = "finished"}

\* Mutant: a finished process stays listed.
unlisted_kept(active, done) == active

unlisted(active, done) == active \ done

\* children.insert drops the child it displaces (kill_on_drop).
replaced(old) ==
  [p \in DOMAIN ffProcs |-> IF p = old /\ ffProcs[p] = "running" THEN "killed" ELSE ffProcs[p]]

\* One command: spawn, and drop the child it replaces, which kills it; or, when
\* the spawn fails, unlist the key.  Then unlist and forget finished children.
supervise(spawned) ==
  /\ ffQueue # <<>>
  /\ spawned => Len(ffProcs) < MaxProcesses
  /\ LET k == Head(ffQueue)
         old == ffChildren[k]
         procs == IF spawned THEN Append(replaced(old), "running") ELSE ffProcs
         children == IF spawned THEN [ffChildren EXCEPT ![k] = Len(procs)] ELSE ffChildren
         listed == IF spawned THEN ffActive ELSE ffActive \ {k}
         done == Finished(procs, children)
     IN /\ ffQueue' = Tail(ffQueue)
        /\ ffProcs' = procs
        /\ ffOwner' = IF spawned THEN Append(ffOwner, k) ELSE ffOwner
        /\ ffActive' = unlisted(listed, done)
        /\ ffChildren' = [j \in FfKeys |-> IF j \in done THEN 0 ELSE children[j]]
  /\ UNCHANGED ffAdding

MaxCommands == 2
FfNext ==
  \/ \E c \in FfCalls, k \in FfKeys : add_check(c, k)
  \/ \E c \in FfCalls : Len(ffQueue) < MaxCommands /\ add_insert(c)
  \/ \E k \in FfKeys : ff_remove(k)
  \/ \E p \in 1 .. MaxProcesses : process_ends(p)
  \/ \E b \in BOOLEAN : supervise(b)

-----------------------------------------------------------------------------
(* Properties. *)

\* No entry blocks its key for nothing: behind every listed key there is a
\* command on its way or a process, through failed spawns, processes that end,
\* deletions and additions in between (run_ffmpeg_supervisor).
FfEntryBacked ==
  \A k \in ffActive : (\E i \in 1 .. Len(ffQueue) : ffQueue[i] = k) \/ ffChildren[k] > 0

\* Two processes never push to the same stream, even when two calls find the key
\* free, or one deletes and another adds while the old process still runs.
FfOneProcess ==
  \A p, q \in DOMAIN ffProcs :
    p # q /\ ffProcs[p] = "running" /\ ffProcs[q] = "running" => ffOwner[p] # ffOwner[q]

\* The table and the processes agree as far as the supervisor is in charge: an
\* entry has something behind it, and a stream has one process at most.
FfAccounted == FfEntryBacked /\ FfOneProcess

\* delFFmpegSource ends the process: each is tracked by its key for later
\* cleanup via delFFmpegSource (main.rs:1183), which answers that it stopped.
FfDelStops ==
  \A k \in FfKeys : ffChildren[k] > 0 /\ ffProcs[ffChildren[k]] = "running" => k \in ffActive
=============================================================================
