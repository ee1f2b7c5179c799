----------------------------- MODULE BanPromise -----------------------------
(***************************************************************************)
(* What the ban list promises, whoever writes it and whatever crashes: one *)
(* book of bans.  `force[s]` is the end of the ban in force on s, `due[s]` *)
(* the latest end anybody decided for s that has not been forgotten.       *)
(* BanLifecycle implements this with a kernel map, a daemon's memory, a    *)
(* state file and a command line.                                          *)
(***************************************************************************)
EXTENDS Integers

CONSTANT Sources

FOREVER == 0
None == -1

VARIABLES now, force, due

book == <<now, force, due>>

\* e ends no later than d
Within(e, d) == e = None \/ d = FOREVER \/ (e # FOREVER /\ e <= d)

Init ==
  /\ now = 0
  /\ force = [s \in Sources |-> None] /\ due = [s \in Sources |-> None]

\* Somebody decides a ban; an end that was promised before is not shortened in
\* the book, since a file may still hold it
Decide(s) ==
  /\ force'[s] = FOREVER \/ force'[s] > now
  /\ due'[s] = IF Within(force'[s], due[s]) THEN due[s] ELSE force'[s]

\* A ban ends: it ran out, was lifted, or its map is lost
Release(s) == force'[s] = None /\ due'[s] = due[s]

\* A ban comes back after its map was lost, never past what was decided, and
\* never over one that is in force
Return(s) ==
  /\ force[s] = None
  /\ force'[s] = FOREVER \/ force'[s] > now
  /\ Within(force'[s], due[s])
  /\ due'[s] = due[s]

\* Nothing is in force and nothing remembers the ban any more
Forget(s) == force[s] = None /\ force'[s] = None /\ due'[s] = None

Keep(s) == force'[s] = force[s] /\ due'[s] = due[s]

\* A step decides, releases, returns or forgets any number of bans at one moment
Write ==
  /\ now' = now
  /\ \A s \in Sources : Decide(s) \/ Release(s) \/ Return(s) \/ Forget(s) \/ Keep(s)

Tick == now' = now + 1 /\ UNCHANGED <<force, due>>

Next == Write \/ Tick

Spec == Init /\ [][Next]_book
=============================================================================
