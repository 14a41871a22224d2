-------------------------------- MODULE MemClock -------------------------------
(***************************************************************************)
(* System and memory cycles in the memory controller (ddr_mem.h:265-276).  *)
(* Events run on system cycles; a memory cycle is longer than two of them, *)
(* which the constructor makes sure of (ddr_mem.cpp:163).                  *)
(***************************************************************************)
EXTENDS Integers

CONSTANTS SysFreq, MemFreq

sysToMemCycle(c) == (c * MemFreq) \div SysFreq + 1
memToSysCycle(c) == ((c + 1) * SysFreq) \div MemFreq
(* (Before it, a fault: rounded up to the memory cycle.)                   *)
lateMemToSysCycle(c) == (c * SysFreq) \div MemFreq + 1
matchingMemToSysCycle(c) == (((2 * c - 1) * SysFreq) \div MemFreq) \div 2

(* "Produces a sysCycle that, when translated back using sysToMemCycle,    *)
(* will produce the same memCycle": an event put on the system cycle of a  *)
(* memory cycle, or now if that has passed, runs on the memory cycle       *)
(* (ddr_mem.h:271, ddr_mem.cpp:428).                                       *)
RunsOnItsCycle(c, now) ==
  c >= sysToMemCycle(now) =>
    LET m == matchingMemToSysCycle(c)
    IN sysToMemCycle(IF m > now THEN m ELSE now) = c
=============================================================================
