------------------------- MODULE SkillUpdate_proofs -------------------------
(* No installed tree is lost, for any number of overlapping runs of the   *)
(* updater and any versions.                                              *)
EXTENDS SkillUpdate, TLAPS

(* What each run holds: a validated version, a whole tree while it may     *)
(* still be moved in, and a free backup path until the old tree goes there.*)
Staged ==
  \A u \in Run :
    /\ step[u] \in {"copy", "verify"} => wanted[u] \in Version
    /\ step[u] \in {"look", "replace", "swap", "install"} => staging[u] \in Version

BackupFree ==
  \A u \in Run :
    step[u] \in {"new", "copy", "verify", "look", "replace", "install"} => backup[u] = Absent

Owned == Staged /\ BackupFree

(* The inductive invariant. *)
Inv == TypeOK /\ Owned /\ InstallationsNeverLost

(* The initial states satisfy the invariant. *)
LEMMA InitInv == Init => Inv
  BY SkillUpdateAssumption
  DEF Init, Inv, Owned, TypeOK, Step, Staged, BackupFree, InstallationsNeverLost

(* Every step preserves the types. *)
LEMMA NextTypes == Inv /\ [Next]_vars => TypeOK'
  <1> SUFFICES ASSUME Inv, [Next]_vars PROVE TypeOK'
    OBVIOUS
  <1> USE SkillUpdateAssumption DEF Inv, Owned, TypeOK, Step, Staged, Goto
  <1>1. CASE UNCHANGED vars
    BY <1>1 DEF vars
  <1>2. ASSUME NEW u \in Run, plan(u) \/ copytree(u) \/ verify_staging(u) \/ look_at_target(u)
        PROVE TypeOK'
    BY <1>2 DEF plan, copytree, verify_staging, look_at_target
  <1>3. ASSUME NEW u \in Run, move_away(u) PROVE TypeOK'
    BY <1>3 DEF move_away
  <1>4. ASSUME NEW u \in Run, swap_in(u) \/ first_install(u) PROVE TypeOK'
    BY <1>4 DEF swap_in, first_install, move_in
  <1>5. ASSUME NEW u \in Run, roll_back(u) PROVE TypeOK'
    BY <1>5 DEF roll_back
  <1>6. ASSUME NEW u \in Run, remove_staging(u) \/ Kill(u) PROVE TypeOK'
    BY <1>6 DEF remove_staging, Kill
  <1> QED BY <1>1, <1>2, <1>3, <1>4, <1>5, <1>6 DEF Next

(* Every step preserves what each run holds. *)
LEMMA NextOwned == Inv /\ [Next]_vars => Owned'
  <1> SUFFICES ASSUME Inv, [Next]_vars PROVE Owned'
    OBVIOUS
  <1> USE SkillUpdateAssumption DEF Inv, Owned, TypeOK, Step, Staged, BackupFree, Goto
  <1>1. CASE UNCHANGED vars
    BY <1>1 DEF vars
  <1>2. ASSUME NEW u \in Run, plan(u) \/ look_at_target(u) PROVE Owned'
    BY <1>2 DEF plan, look_at_target
  <1>3. ASSUME NEW u \in Run, copytree(u) PROVE Owned'
    BY <1>3 DEF copytree
  <1>4. ASSUME NEW u \in Run, verify_staging(u) PROVE Owned'
    BY <1>4 DEF verify_staging
  <1>5. ASSUME NEW u \in Run, move_away(u) PROVE Owned'
    BY <1>5 DEF move_away
  <1>6. ASSUME NEW u \in Run, swap_in(u) \/ first_install(u) PROVE Owned'
    BY <1>6 DEF swap_in, first_install, move_in
  <1>7. ASSUME NEW u \in Run, roll_back(u) PROVE Owned'
    BY <1>7 DEF roll_back
  <1>8. ASSUME NEW u \in Run, remove_staging(u) \/ Kill(u) PROVE Owned'
    BY <1>8 DEF remove_staging, Kill
  <1> QED BY <1>1, <1>2, <1>3, <1>4, <1>5, <1>6, <1>7, <1>8 DEF Next

(* Every step keeps each installed tree at the target or in a backup.  A   *)
(* tree leaves the target only for a backup path that was free, and leaves *)
(* the backup only for a target that was absent.                           *)
LEMMA NextKept == Inv /\ [Next]_vars => InstallationsNeverLost'
  <1> SUFFICES ASSUME Inv, [Next]_vars PROVE InstallationsNeverLost'
    OBVIOUS
  <1> USE SkillUpdateAssumption DEF Inv, Owned, TypeOK, InstallationsNeverLost
  <1>1. CASE UNCHANGED <<target, backup, installed>>
    BY <1>1
  <1>2. ASSUME NEW u \in Run, move_away(u) PROVE InstallationsNeverLost'
    <2>1. CASE UNCHANGED <<target, backup>>
      BY <1>2, <1>1, <2>1 DEF move_away
    <2>2. CASE backup' = [backup EXCEPT ![u] = target] /\ target' = Absent
      <3>1. backup[u] = Absent /\ installed' = installed
        BY <1>2 DEF move_away, BackupFree
      <3>2. ASSUME NEW t \in installed PROVE \E w \in Run : backup'[w] = t
        <4>1. CASE t = target
          BY <2>2, <4>1
        <4>2. CASE t # target
          <5>1. PICK w \in Run : backup[w] = t
            BY <4>2
          <5>2. w # u
            BY <3>1, <5>1
          <5> QED BY <2>2, <5>1, <5>2
        <4> QED BY <4>1, <4>2
      <3> QED BY <2>2, <3>1, <3>2
    <2> QED BY <1>2, <2>1, <2>2 DEF move_away
  <1>3. ASSUME NEW u \in Run, swap_in(u) \/ first_install(u) PROVE InstallationsNeverLost'
    <2>1. CASE UNCHANGED <<target, installed>>
      BY <1>1, <1>3, <2>1 DEF swap_in, first_install
    <2>2. CASE target = Absent /\ target' = staging[u] /\ installed' = installed \cup {staging[u]}
      BY <1>3, <2>2 DEF swap_in, first_install, Staged
    <2> QED BY <1>3, <2>1, <2>2 DEF swap_in, first_install, move_in
  <1>4. ASSUME NEW u \in Run, roll_back(u) PROVE InstallationsNeverLost'
    <2>1. CASE UNCHANGED <<target, backup>>
      BY <1>1, <1>4, <2>1 DEF roll_back
    <2>2. CASE target = Absent /\ target' = backup[u] /\ backup' = [backup EXCEPT ![u] = Absent]
      <3>1. installed' = installed
        BY <1>4 DEF roll_back
      <3>2. ASSUME NEW t \in installed PROVE t = target' \/ \E w \in Run : backup'[w] = t
        <4>1. PICK w \in Run : backup[w] = t
          BY <2>2
        <4> QED BY <2>2, <4>1
      <3> QED BY <2>2, <3>1, <3>2
    <2> QED BY <1>4, <2>1, <2>2 DEF roll_back
  <1>5. ASSUME NEW u \in Run,
               \/ plan(u) \/ copytree(u) \/ verify_staging(u) \/ look_at_target(u)
               \/ remove_staging(u) \/ Kill(u)
        PROVE UNCHANGED <<target, backup, installed>>
    BY <1>5 DEF plan, copytree, verify_staging, look_at_target, remove_staging, Kill
  <1>6. CASE UNCHANGED vars
    BY <1>1, <1>6 DEF vars
  <1> QED BY <1>1, <1>2, <1>3, <1>4, <1>5, <1>6 DEF Next

(* However runs of update_skill overlap, fail, are interrupted or killed,  *)
(* the installed directory is whole or absent and no tree it held is lost. *)
THEOREM NoInstallationLost == Spec => []InstallationsNeverLost
  <1>1. Init => Inv
    BY InitInv
  <1>2. Inv /\ [Next]_vars => Inv'
    BY NextTypes, NextOwned, NextKept DEF Inv
  <1>3. Inv => InstallationsNeverLost
    BY DEF Inv
  <1> QED BY <1>1, <1>2, <1>3, PTL DEF Spec
=============================================================================
