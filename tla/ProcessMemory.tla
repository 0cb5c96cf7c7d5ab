------------------------------ MODULE ProcessMemory ----------------------------
(***************************************************************************)
(* What a process keeps in memory, and how: the tables that list objects   *)
(* without keeping them alive and the memory managers (MemoryManagers),    *)
(* and protocol messages, whose builders withdraw what they no longer need *)
(* (Protobufs).  They share no state, so that each behaviour is one of one *)
(* of them.                                                                *)
(***************************************************************************)
EXTENDS MemoryManagers

CONSTANTS Programs, Numbers, EnumValue, HoldsBuilders, MaxCells, MaxHeld, MaxTracked, MaxSets

VARIABLES heap, current, frames, handles, fields

Messages == INSTANCE Protobufs

tableAndPartVars == <<prompt, trackedVars, workerVars, registryVars, destroyed, atomVars, part>>
messageVars == <<heap, current, frames, handles, fields>>
processVars == <<tableAndPartVars, collectorVars, messageVars, memoryVars, focus>>

(* What does not move starts in one way.                                   *)
ProcessInit ==
  /\ focus \in {"tables", "collector", "messages", "memory"}
  /\ TablesInit
  /\ focus # "tables" => prompt /\ part = "atoms"
  /\ Collector!Init
  /\ Messages!Init
  /\ focus # "messages" => fields = CHOOSE program \in Programs : TRUE
  /\ Memory!Init
  /\ focus # "memory" => layer = "pool"

ProcessNext ==
  /\ \/ focus = "tables" /\ TablesNext /\ UNCHANGED <<collectorVars, messageVars, memoryVars>>
     \/ focus = "collector" /\ Collector!Next
          /\ UNCHANGED <<tableAndPartVars, messageVars, memoryVars>>
     \/ focus = "messages" /\ Messages!Next /\ Messages!Bounded
          /\ UNCHANGED <<tableAndPartVars, collectorVars, memoryVars>>
     \/ focus = "memory" /\ Memory!Next
          /\ UNCHANGED <<tableAndPartVars, collectorVars, messageVars>>
  /\ UNCHANGED focus

ProcessSpec == ProcessInit /\ [][ProcessNext]_processVars

(* Of messages and builders: they stay what they were made to be.          *)
MessagesKeepMeaning == focus = "messages" => Messages!MessagesKeepMeaning
=============================================================================
