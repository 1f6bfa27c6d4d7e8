-------------------------- MODULE ConflictRegister --------------------------
(***************************************************************************)
(* What the timeline promises about its conflicts, events and evidence     *)
(* left out: a conflict has at any time one state, every change of it and  *)
(* every return has a new version, and a disposition is about the version  *)
(* that stands and goes with it.                                           *)
(***************************************************************************)
EXTENDS Naturals

CONSTANTS None, Statuses

VARIABLES shown,        \* the conflicts that are active
          about,        \* [known conflicts -> state]
          version,      \* [known conflicts -> 1, 2, ...]
          disposition   \* [known conflicts -> None or the status decided on]

vars == <<shown, about, version, disposition>>

Known == DOMAIN version

Init == /\ shown = {}
        /\ about = <<>> /\ version = <<>> /\ disposition = <<>>

\* What changes or comes back is open at a new version; what stays shown with
\* its state keeps version and disposition, and so does what is hidden.
Rebuild ==
    /\ Known \subseteq DOMAIN version' /\ DOMAIN about' = DOMAIN version'
    /\ DOMAIN disposition' = DOMAIN version'
    /\ DOMAIN version' \ Known \subseteq shown'
    /\ \A k \in DOMAIN version' :
         IF k \notin Known
         THEN version'[k] = 1 /\ disposition'[k] = None
         ELSE IF k \in shown' /\ (k \notin shown \/ about'[k] # about[k])
         THEN version'[k] = version[k] + 1 /\ disposition'[k] = None
         ELSE /\ version'[k] = version[k] /\ disposition'[k] = disposition[k]
              /\ about'[k] = about[k]

Retire == shown' \subseteq shown /\ UNCHANGED <<about, version, disposition>>

Dispose(k, s) == /\ disposition' = [disposition EXCEPT ![k] = s]
                 /\ UNCHANGED <<shown, about, version>>

Next == \/ Rebuild \/ Retire
        \/ \E k \in shown, s \in Statuses : Dispose(k, s)

Spec == Init /\ [][Next]_vars

=============================================================================
