------------------------------- MODULE Archive -------------------------------
(***************************************************************************)
(* What ingestion promises of the archive, without scans, a queue, workers *)
(* or attempts: an original is kept as some file held it, or as a mixture  *)
(* of which nothing comes; what is derived from it comes later, and        *)
(* nothing is ever taken away.  Each version of a file is worked on from   *)
(* the time it is asked for until it is finished, which it is only with    *)
(* its text, or given up; a finished version is never asked for or written *)
(* again.                                                                  *)
(***************************************************************************)
CONSTANTS Path, Content, NoFile, Torn

VARIABLES
  folder,     \* what each path holds
  state,      \* of each version: "unknown", "open" or "finished"
  originals,  \* contents that are kept
  known,      \* versions that have an artifact
  read        \* versions whose text is stored

vars == <<folder, state, originals, known, read>>

Version == Path \X Content

Init ==
  /\ folder \in [Path -> Content \cup {NoFile}]
  /\ state = [v \in Version |-> "unknown"]
  /\ originals = {}
  /\ known = {}
  /\ read = {}

(* The user, whose edits touch nothing that is kept. *)
Edit ==
  /\ folder' \in [Path -> Content \cup {NoFile}]
  /\ UNCHANGED <<state, originals, known, read>>

Ask(v) ==
  /\ state[v] = "unknown"
  /\ state' = [state EXCEPT ![v] = "open"]
  /\ UNCHANGED <<folder, originals, known, read>>

(* Whatever the file of an open version holds by now. *)
Keep(v) ==
  /\ state[v] = "open"
  /\ folder[v[1]] # NoFile
  /\ originals' = originals \cup {folder[v[1]]}
  /\ UNCHANGED <<folder, state, known, read>>

(* Bytes read while the file was written: no version is made of them. *)
Mix(v) ==
  /\ state[v] = "open"
  /\ originals' = originals \cup {Torn}
  /\ UNCHANGED <<folder, state, known, read>>

Register(v) ==
  /\ state[v] = "open"
  /\ v[2] \in originals
  /\ known' = known \cup {v}
  /\ UNCHANGED <<folder, state, originals, read>>

Read(v) ==
  /\ state[v] = "open"
  /\ v \in known
  /\ read' = read \cup {v}
  /\ UNCHANGED <<folder, state, originals, known>>

Finish(v) ==
  /\ state[v] = "open"
  /\ v \in read
  /\ state' = [state EXCEPT ![v] = "finished"]
  /\ UNCHANGED <<folder, originals, known, read>>

(* What was kept of it stays, and it may be asked for again. *)
GiveUp(v) ==
  /\ state[v] = "open"
  /\ state' = [state EXCEPT ![v] = "unknown"]
  /\ UNCHANGED <<folder, originals, known, read>>

Next ==
  \/ Edit
  \/ \E v \in Version : \/ Ask(v) \/ Keep(v) \/ Mix(v) \/ Register(v)
                        \/ Read(v) \/ Finish(v) \/ GiveUp(v)

Spec == Init /\ [][Next]_vars

=============================================================================
