---------------------------- MODULE MCClientPool ----------------------------
EXTENDS ClientPool

(* A pool that runs dry and is refilled one worker at a time, one that is  *)
(* first filled to less than worker_count_low, one that starts empty, and  *)
(* one that is filled up beyond its mark by refills that overlap.          *)
OpenConfigs ==
  {[initial |-> 3, low |-> 3, more |-> 1, maxWorkers |-> 4],
   [initial |-> 3, low |-> 4, more |-> 1, maxWorkers |-> 4],
   [initial |-> 0, low |-> 1, more |-> 2, maxWorkers |-> 3],
   [initial |-> 2, low |-> 1, more |-> 2, maxWorkers |-> 3]}

(* A pool that grows to two workers and one that stays empty, with all     *)
(* that may be under way in them when the stop comes.                      *)
StopConfigs ==
  {[initial |-> 1, low |-> 2, more |-> 1, maxWorkers |-> 2],
   [initial |-> 0, low |-> 1, more |-> 1, maxWorkers |-> 2]}

MCConfigs == OpenConfigs \cup StopConfigs

(* The first four are left alone when they are stopped.                    *)
StoppedIsSmall == closing => cfg \in StopConfigs
=============================================================================
