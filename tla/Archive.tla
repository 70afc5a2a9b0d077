-------------------------------- MODULE Archive --------------------------------
(***************************************************************************)
(* What publication promises, over every run of the game process on one    *)
(* set of destinations: a run seals the private archive, once and for      *)
(* ever, when its owners have joined; it says done to the world when the   *)
(* archive it was asked for is there; and it writes artifacts afterwards.  *)
(* docs/TRAINING.md:20-24 and docs/PROTOCOL.md:192-195.                     *)
(***************************************************************************)
EXTENDS Naturals

CONSTANTS Runs, NoRun

VARIABLES
    journaled,  \* the environment asks for a private archive
    joined,     \* the runs whose engine and players have joined
    archive,    \* the run whose complete archive stands at the final path
    told,       \* the runs that said done
    written     \* the runs whose artifacts stand, whole or not

archiveVars == <<journaled, joined, archive, told, written>>

ArchiveInit ==
    /\ journaled \in BOOLEAN
    /\ joined = {}
    /\ archive = NoRun
    /\ told = {}
    /\ written = {}

Join(r) ==
    /\ joined' = joined \cup {r}
    /\ UNCHANGED <<journaled, archive, told, written>>

Seal(r) ==
    /\ journaled
    /\ r \in joined
    /\ archive = NoRun
    /\ archive' = r
    /\ UNCHANGED <<journaled, joined, told, written>>

Announce(r) ==
    /\ r \in joined
    /\ journaled => archive = r
    /\ told' = told \cup {r}
    /\ UNCHANGED <<journaled, joined, archive, written>>

\* An artifact of a run may replace an earlier run's.
Write(r) ==
    /\ r \in told
    /\ \E kept \in SUBSET written : written' = kept \cup {r}
    /\ UNCHANGED <<journaled, joined, archive, told>>

ArchiveNext == \E r \in Runs : Join(r) \/ Seal(r) \/ Announce(r) \/ Write(r)

ArchiveSpec == ArchiveInit /\ [][ArchiveNext]_archiveVars
================================================================================
