----------------------------- MODULE SkillUpdate -----------------------------
(***************************************************************************)
(* src/scripts/update_installed_skill.py: runs of the updater on one       *)
(* installed Skill directory.  A run copies its source to a staging        *)
(* directory of its own, moves the installation to a backup of its own,    *)
(* moves the staged tree in, and rolls back when that fails.  Runs may     *)
(* overlap, and each may be interrupted or killed between any two calls.   *)
(*                                                                         *)
(* A directory is absent or holds one tree: a whole version, or a mixture. *)
(* A rename is atomic and fails over a directory that is not empty.        *)
(***************************************************************************)
CONSTANTS
  Run,          \* the executions of the script
  Version,      \* the whole trees: what a source or the installation can be
  Absent,       \* no such directory
  Mixed         \* some of the files of a tree, or files of several

ASSUME SkillUpdateAssumption == Absent # Mixed /\ {Absent, Mixed} \cap Version = {}

VARIABLES
  target,       \* the installed Skill directory
  staging,      \* the staging directory of each run
  backup,       \* the backup directory of each run
  wanted,       \* the version that each run has validated as its source
  step,         \* where each run is in update_skill
  installed     \* every tree that target has held

vars == <<target, staging, backup, wanted, step, installed>>

Step == {"new", "copy", "verify", "look", "replace", "swap", "rollback", "install",
         "finally", "done", "killed"}

TypeOK ==
  /\ target \in Version \cup {Absent}
  /\ staging \in [Run -> Version \cup {Absent, Mixed}]
  /\ backup \in [Run -> Version \cup {Absent}]
  /\ wanted \in [Run -> Version \cup {Absent}]
  /\ step \in [Run -> Step]
  /\ installed \subseteq Version

Init ==
  /\ target \in Version \cup {Absent}
  /\ staging = [u \in Run |-> Absent]
  /\ backup = [u \in Run |-> Absent]
  /\ wanted = [u \in Run |-> Absent]
  /\ step = [u \in Run |-> "new"]
  /\ installed = {target} \ {Absent}

Goto(u, s) == step' = [step EXCEPT ![u] = s]

(* Source, target and backup paths are validated, and the installation is  *)
(* compared with the source: a run that finds a fault, the same manifest   *)
(* or --dry-run changes nothing.                                           *)
plan(u) ==
  /\ step[u] = "new"
  /\ \E v \in Version :
       /\ wanted' = [wanted EXCEPT ![u] = v]
       /\ \/ Goto(u, "done")
          \/ target # v /\ Goto(u, "copy")
  /\ UNCHANGED <<target, staging, backup, installed>>

(* copytree stops half-way, or copies a source that changes meanwhile. *)
copytree(u) ==
  /\ step[u] = "copy"
  /\ \/ \E t \in {wanted[u], Mixed} :
          staging' = [staging EXCEPT ![u] = t] /\ Goto(u, "verify")
     \/ staging' = [staging EXCEPT ![u] = Mixed] /\ Goto(u, "finally")
  /\ UNCHANGED <<target, backup, wanted, installed>>

verify_staging(u) ==
  /\ step[u] = "verify"
  /\ Goto(u, IF staging[u] = wanted[u] THEN "look" ELSE "finally")
  /\ UNCHANGED <<target, staging, backup, wanted, installed>>

(* target.exists(), and mkdir of the backup root, which may fail. *)
look_at_target(u) ==
  /\ step[u] = "look"
  /\ IF target = Absent THEN Goto(u, "install") ELSE \E s \in {"replace", "finally"} : Goto(u, s)
  /\ UNCHANGED <<target, staging, backup, wanted, installed>>

(* The old tree removed to make room for the new one. *)
move_away_Removed(u) ==
  /\ step[u] = "replace"
  /\ target' = Absent
  /\ Goto(u, "swap")
  /\ UNCHANGED <<staging, backup, wanted, installed>>

(* target.rename(backup): fails also when another run has moved it.  After *)
(* it an interrupt may come before the inner try.                          *)
move_away(u) ==
  /\ step[u] = "replace"
  /\ \/ /\ target # Absent
        /\ backup' = [backup EXCEPT ![u] = target]
        /\ target' = Absent
        /\ \E s \in {"swap", "finally"} : Goto(u, s)
     \/ /\ Goto(u, "finally")
        /\ UNCHANGED <<target, backup>>
  /\ UNCHANGED <<staging, wanted, installed>>

(* staging.rename(target), which another run may have filled meanwhile.    *)
(* An interrupt may come when the rename has happened.                     *)
move_in(u, ok, failed) ==
  \/ /\ target = Absent
     /\ target' = staging[u]
     /\ staging' = [staging EXCEPT ![u] = Absent]
     /\ installed' = installed \cup {staging[u]}
     /\ \E s \in {ok, failed} : Goto(u, s)
  \/ /\ Goto(u, failed)
     /\ UNCHANGED <<target, staging, installed>>

swap_in(u) ==
  /\ step[u] = "swap"
  /\ move_in(u, "finally", "rollback")
  /\ UNCHANGED <<backup, wanted>>

first_install(u) ==
  /\ step[u] = "install"
  /\ move_in(u, "finally", "finally")
  /\ UNCHANGED <<backup, wanted>>

(* backup.rename(target): when it fails too, the backup is left in place. *)
roll_back(u) ==
  /\ step[u] = "rollback"
  /\ \/ /\ target = Absent
        /\ target' = backup[u]
        /\ backup' = [backup EXCEPT ![u] = Absent]
     \/ UNCHANGED <<target, backup>>
  /\ Goto(u, "finally")
  /\ UNCHANGED <<staging, wanted, installed>>

(* _remove_owned_staging; rmtree may fail half-way. *)
remove_staging(u) ==
  /\ step[u] = "finally"
  /\ \/ staging' = [staging EXCEPT ![u] = Absent]
     \/ staging[u] # Absent /\ staging' = [staging EXCEPT ![u] = Mixed]
  /\ Goto(u, "done")
  /\ UNCHANGED <<target, backup, wanted, installed>>

(* The process is killed; what it has asked of the file system stays. *)
Kill(u) ==
  /\ step[u] \notin {"new", "done", "killed"}
  /\ Goto(u, "killed")
  /\ UNCHANGED <<target, staging, backup, wanted, installed>>

Next ==
  \E u \in Run :
    \/ plan(u) \/ copytree(u) \/ verify_staging(u) \/ look_at_target(u)
    \/ move_away(u) \/ swap_in(u) \/ roll_back(u) \/ first_install(u)
    \/ remove_staging(u) \/ Kill(u)

Spec == Init /\ [][Next]_vars

-----------------------------------------------------------------------------
(* However runs overlap, fail, are interrupted or killed, the installed    *)
(* directory holds a whole version or nothing, and every tree it ever held *)
(* is still there or whole in some backup.                                 *)
InstallationsNeverLost ==
  /\ target \in Version \cup {Absent}
  /\ \A t \in installed : t = target \/ \E u \in Run : backup[u] = t
=============================================================================
