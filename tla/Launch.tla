------------------------------- MODULE Launch -------------------------------
(* The aos command (main.rs, lib.rs, status.rs of unicity-aos-bootstrap): how
   a command puts the product manifest in place before it hands over to the
   bundled runtime, and how `aos stop` and `aos status` find out that the
   runtime is down.  Commands are processes that share an AOS home; each may be
   killed, or return an error, between any two of the file operations below, and
   each may come from a different installed release.  The runtime itself is
   external: what matters of it are its coordination markers and its lock.

   An edition is what materialize_manifest makes of a release and the capsule
   directory it was installed with.  A file holds an edition, the beginning of
   one (Cut), or what several writers at once left in it (Torn).              *)
EXTENDS Naturals, Sequences

CONSTANTS
    Commands,   \* slots for running aos processes
    Kinds,      \* asked of aos: "run", "init", "stop", "status", "update"
    Editions,   \* installed releases with their capsules
    Markers,    \* the runtime's coordination markers, in the order looked at
    None

Cut == "cut"
Torn == "torn"
Daemon == "daemon"

Contents == Editions \cup {Cut, Torn}
Saving == {"clear", "create", "write", "rename"}
Asking == {"look", "lock", "unlock"}
Points == {"idle", "verify", "compare", "prepare", "exec", "ask", "connect",
           "install", "stopped"} \cup Saving \cup Asking

Idle == [at |-> "idle", kind |-> None, edition |-> None, seen |-> 0]

VARIABLES
    manifest, temp,     \* Distro.toml and Distro.toml.tmp: contents, or None
    job,                \* job[c]: where in the source process c is, what it was
                        \* asked, its release, and how many markers
                        \* confirm_stopped has found absent
    open,               \* open[c]: the name its written file now has, or None
    complete,           \* editions whose capsule directory has the exact set
    daemon,             \* the runtime: "down", "up" or "closing"
    markers, lock,      \* coordination markers; who holds the lock, or None
    lockfile,           \* whether the lock file has been made
    alone,              \* alone[c]: nobody else has been saving while c ran
    freed               \* freed[c]: the daemon was without its lock at some
                        \* moment since c asked (both history)

files == <<manifest, temp, open>>
runtime == <<daemon, markers, lock, lockfile>>
vars == <<manifest, temp, job, open, complete, daemon, markers, lock, lockfile,
          alone, freed>>

Init ==
    /\ manifest = None /\ temp = None
    /\ job = [c \in Commands |-> Idle]
    /\ open = [c \in Commands |-> None]
    /\ complete = Editions
    /\ daemon = "down" /\ markers = {} /\ lock = None /\ lockfile = FALSE
    /\ alone = [c \in Commands |-> FALSE]
    /\ freed = [c \in Commands |-> FALSE]

At(c, point) == job[c].at = point
Goto(c, point) == job' = [job EXCEPT ![c].at = point]
Quit(c) == job' = [job EXCEPT ![c] = Idle]

(* main and handle_product_command. *)
Start(c) ==
    /\ At(c, "idle")
    /\ \E k \in Kinds, e \in Editions :
          job' = [job EXCEPT ![c] =
                    [at |-> CASE k = "stop" -> "ask" [] k = "status" -> "connect"
                              [] k = "update" -> "install" [] OTHER -> "verify",
                     kind |-> k, edition |-> e, seen |-> 0]]
    /\ UNCHANGED <<files, complete, runtime>>

\* validate_capsule_dir: the regular files the embedded manifest names, no more.
SetIsExact(c) == job[c].edition \in complete

(* capsule_dir: a command goes on only with the exact set. *)
Verify(c) ==
    /\ At(c, "verify")
    /\ IF SetIsExact(c) THEN Goto(c, "compare") ELSE Quit(c)
    /\ UNCHANGED <<files, complete, runtime>>

Handover(c) == IF job[c].kind = "init" THEN "prepare" ELSE "exec"

\* Seeded bug: any manifest that is there will do.
AnyIsCurrent(c) == manifest # None

\* ensure_unicity_ce_manifest: nothing to do when the bytes are the same.
Current(c) == manifest = job[c].edition

Compare(c) ==
    /\ At(c, "compare")
    /\ Goto(c, IF Current(c) THEN Handover(c) ELSE "clear")
    /\ UNCHANGED <<files, complete, runtime>>

\* What is left of an earlier attempt is unlinked; its writer keeps the file.
Clear(c) ==
    /\ At(c, "clear")
    /\ temp' = None
    /\ open' = [d \in Commands |-> IF open[d] = "temp" THEN None ELSE open[d]]
    /\ Goto(c, "create")
    /\ UNCHANGED <<manifest, complete, runtime>>

\* fs::write, in two steps: made or truncated, and then filled.
Create(c) ==
    /\ At(c, "create")
    /\ temp' = Cut
    /\ open' = [open EXCEPT ![c] = "temp"]
    /\ Goto(c, "write")
    /\ UNCHANGED <<manifest, complete, runtime>>

\* Two writers at once may leave a mixture.
Filled(c, old) == IF old \in {Cut, job[c].edition} THEN {job[c].edition}
                  ELSE {job[c].edition, Torn}

WriteManifest(c) ==
    /\ At(c, "write")
    /\ CASE open[c] = "temp" -> temp' \in Filled(c, temp) /\ UNCHANGED manifest
         [] open[c] = "manifest" ->
               manifest' \in Filled(c, manifest) /\ UNCHANGED temp
         [] OTHER -> UNCHANGED <<manifest, temp>>
    /\ open' = [open EXCEPT ![c] = None]
    /\ Goto(c, "rename")
    /\ UNCHANGED <<complete, runtime>>

\* Whatever now bears the temporary name becomes the manifest.
Rename(c) ==
    /\ At(c, "rename")
    /\ IF temp = None
       THEN Quit(c) /\ UNCHANGED files
       ELSE /\ manifest' = temp /\ temp' = None
            /\ open' = [d \in Commands |->
                          IF open[d] = "temp" THEN "manifest" ELSE None]
            /\ Goto(c, Handover(c))
    /\ UNCHANGED <<complete, runtime>>

(* prepare_unicity_ce_init: `init` runs the runtime once without the daemon and
   waits for it; the second pass checks the manifest again.                   *)
Prepare(c) ==
    /\ At(c, "prepare")
    /\ \/ job' = [job EXCEPT ![c].at = "verify", ![c].kind = "run"]
       \/ Quit(c)
    /\ UNCHANGED <<files, complete, runtime>>

\* The daemon comes up under its lock, or not at all.
DaemonStarts ==
    \/ /\ daemon = "down" /\ lock = None
       /\ daemon' = "up" /\ lock' = Daemon /\ lockfile' = TRUE
       /\ markers' \in {{}, markers}
    \/ UNCHANGED runtime

(* exec_runtime_with_args: the process becomes the runtime's. *)
Exec(c) ==
    /\ At(c, "exec")
    /\ DaemonStarts
    /\ Quit(c)
    /\ UNCHANGED <<files, complete>>

(* handle_runtime_stop: the runtime's own `stop` succeeds or fails by itself, or
   loses the connection to a daemon that is shutting down.                    *)
RuntimeStop(c) ==
    /\ At(c, "ask")
    /\ \/ daemon # "down" /\ daemon' = "closing" /\ Goto(c, "look")
       \/ UNCHANGED daemon /\ Quit(c)
    /\ UNCHANGED <<files, complete, markers, lock, lockfile>>

(* read_for_principal: asked when it can be reached, looked for when not. *)
ReadStatus(c) ==
    /\ At(c, "connect")
    /\ \/ daemon = "up" /\ Quit(c)
       \/ Goto(c, "look")
    /\ UNCHANGED <<files, complete, runtime>>

\* A stop looks again (100 times in all); a status looks once.
NotConfirmed(c) ==
    \/ job[c].kind = "stop" /\ job' = [job EXCEPT ![c].at = "look", ![c].seen = 0]
    \/ Quit(c)

(* confirm_stopped: the markers, in turn, *)
LookForMarker(c) ==
    /\ At(c, "look")
    /\ LET i == job[c].seen + 1
       IN  IF Markers[i] \in markers
           THEN NotConfirmed(c)
           ELSE job' = [job EXCEPT ![c].seen = i,
                          ![c].at = IF i = Len(Markers) THEN "lock" ELSE "look"]
    /\ UNCHANGED <<files, complete, runtime>>

\* and then the lock, which is held for a moment.
TryLock(c) ==
    /\ At(c, "lock")
    /\ \/ ~lockfile /\ Goto(c, "stopped") /\ UNCHANGED lock
       \/ lockfile /\ lock = None /\ lock' = c /\ Goto(c, "unlock")
       \/ lockfile /\ lock # None /\ NotConfirmed(c) /\ UNCHANGED lock
    /\ UNCHANGED <<files, complete, daemon, markers, lockfile>>

Unlock(c) ==
    /\ At(c, "unlock")
    /\ lock' = None
    /\ Goto(c, "stopped")
    /\ UNCHANGED <<files, complete, daemon, markers, lockfile>>

(* handle_self_update: the installer puts a release in place, or fails. *)
SelfUpdate(c) ==
    /\ At(c, "install")
    /\ \E e \in Editions :
          complete' \in {complete, complete \cup {e}, complete \ {e}}
    /\ Quit(c)
    /\ UNCHANGED <<files, runtime>>

\* An error return, a kill, or the end of a command that has reported.
Ends(c) ==
    /\ ~At(c, "idle")
    /\ Quit(c)
    /\ open' = [open EXCEPT ![c] = None]
    /\ lock' = IF lock = c THEN None ELSE lock
    /\ UNCHANGED <<manifest, temp, complete, daemon, markers, lockfile>>

DaemonMarks ==
    /\ daemon = "up"
    /\ \E i \in DOMAIN Markers :
          Markers[i] \notin markers /\ markers' = markers \cup {Markers[i]}
    /\ UNCHANGED <<files, job, complete, daemon, lock, lockfile>>

\* A closing daemon takes its markers away and releases its lock last; one that
\* dies leaves them.
DaemonCloses ==
    /\ \/ /\ daemon = "closing"
          /\ \E m \in markers : markers' = markers \ {m}
          /\ UNCHANGED <<daemon, lock>>
       \/ /\ daemon # "down"
          /\ daemon' = "down" /\ lock' = None
          /\ UNCHANGED markers
    /\ UNCHANGED <<files, job, complete, lockfile>>

Step ==
    \/ \E c \in Commands :
          \/ Start(c) \/ Verify(c) \/ Compare(c) \/ Clear(c) \/ Create(c)
          \/ WriteManifest(c) \/ Rename(c) \/ Prepare(c) \/ Exec(c)
          \/ RuntimeStop(c) \/ ReadStatus(c) \/ LookForMarker(c) \/ TryLock(c)
          \/ Unlock(c) \/ SelfUpdate(c) \/ Ends(c)
    \/ DaemonMarks \/ DaemonCloses

Watched ==
    /\ alone' = [c \in Commands |->
          /\ job'[c] # Idle
          /\ job[c] = Idle \/ alone[c]
          /\ \A d \in Commands \ {c} : job'[d].at \notin Saving]
    /\ freed' = [c \in Commands |->
          /\ job'[c].at \in Asking \cup {"stopped"}
          /\ freed[c] \/ lock' # Daemon]

Next == Step /\ Watched

Spec == Init /\ [][Next]_vars

TypeOK ==
    /\ manifest \in Contents \cup {None} /\ temp \in Contents \cup {None}
    /\ \A c \in Commands :
          \/ job[c] = Idle
          \/ job[c] \in [at : Points, kind : Kinds \cup {"run"}, edition : Editions,
                         seen : 0 .. Len(Markers)]
    /\ open \in [Commands -> {"temp", "manifest", None}]
    /\ complete \subseteq Editions
    /\ daemon \in {"down", "up", "closing"}
    /\ lock \in Commands \cup {Daemon, None}

(* What the runtime is handed (ASTRID_ENFORCED_DISTRO): a command that nobody
   else was saving a manifest beside starts the runtime, and the first pass of
   init, with the whole manifest of its own release, whatever earlier commands
   of other releases, killed anywhere or racing each other, left behind.  Two
   that save at once share one temporary name and promise nothing.            *)
HandedManifestIsOurs ==
    \A c \in Commands :
        job[c].at \in {"prepare", "exec"} /\ alone[c] => manifest = job[c].edition

(* "a shutdown is complete only after every transient marker is gone and the
   runtime lock can be acquired" (status.rs:108-109): when stop or status says the
   runtime is down, its daemon has been without the lock at some moment since
   the question, however markers and a restart fell between the checks.       *)
StoppedMeansReleased ==
    \A c \in Commands : At(c, "stopped") => freed[c]

(* What the aos command promises of the runtime it starts and stops. *)
LaunchIsSound == HandedManifestIsOurs /\ StoppedMeansReleased
=============================================================================
