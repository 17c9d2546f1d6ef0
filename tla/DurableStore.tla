---------------------------- MODULE DurableStore ----------------------------
(***************************************************************************)
(* What a triplestore adapter promises its callers, whatever its queues    *)
(* and batches do inside: a dataset in memory that only grows in age, a    *)
(* file that trails it and never goes back, and durability promises that   *)
(* are made only for what the file already holds.  A crash costs exactly   *)
(* the mutations the file does not hold.                                   *)
(*                                                                         *)
(* A dataset is identified by its version, the number of mutations that    *)
(* led to it.                                                              *)
(***************************************************************************)
EXTENDS Naturals

CONSTANT Callers  \* whom promises are made to

VARIABLES
    mem,      \* version of the dataset in memory
    disk,     \* version of the dataset file
    promised  \* promised[c]: newest version c was told is durable

dsVars == <<mem, disk, promised>>

DSInit == mem = 0 /\ disk = 0 /\ promised = [c \in Callers |-> 0]

\* A mutation: the next version exists in memory only.
Mutate == mem' = mem + 1 /\ UNCHANGED <<disk, promised>>

\* The file is replaced by a newer version; promises may be made up to it.
Persist ==
    /\ disk' \in disk .. mem
    /\ promised' \in [Callers -> Nat]
    /\ \A c \in Callers : promised'[c] \in promised[c] .. disk'
    /\ UNCHANGED mem

\* The process dies and the next one reads the file.
Reload == mem' = disk /\ UNCHANGED <<disk, promised>>

DSNext == Mutate \/ Persist \/ Reload

DSSpec == DSInit /\ [][DSNext]_dsVars
=============================================================================
