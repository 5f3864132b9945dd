------------------------------- MODULE Indexer -------------------------------
(***************************************************************************)
(* crates/indexer: polls the event log block range by block range and      *)
(* writes into the coordinator's job map, which it shares.                 *)
(***************************************************************************)
EXTENDS CoordinatorNode

VARIABLES lastBlock,  \* Indexer.last_block
          poll        \* the poll_events call: which query comes next, and to_block

indexerVars == <<lastBlock, poll>>

Waiting == [at |-> "wait", to |-> 0]

IndexerTypeOK == /\ lastBlock \in 0..Len(events)
                 /\ poll \in [at : {"wait", "completed", "expired"}, to : 0..Len(events)]

IndexerInit == lastBlock = 0 /\ poll = Waiting

(* What an eth_getLogs query over the range of this poll returns.          *)
LogsOf(type) == {events[i] : i \in {k \in lastBlock + 1 .. poll.to : events[k].type = type}}

NoteCompletedIfPending(s, by) ==
  IF s.state \in {"Absent", "Pending"} THEN Completed(by) ELSE s

NoteCompleted(s, by) == IF s.state = "Completed" THEN s ELSE Completed(by)

NoteExpired(s) == IF s.state \in {"Absent", "Completed", "Expired"} THEN s ELSE Expired

StartPoll ==
  /\ OnChain
  /\ poll = Waiting
  /\ Len(events) > lastBlock
  /\ poll' = [at |-> "completed", to |-> Len(events)]
  /\ UNCHANGED <<chainVars, linkVars, coordinatorVars, lastBlock>>

OneTooFar == poll.to + 1

Processed == poll.to

(* A completed job that is not in the map is inserted.                     *)
ProcessJobCompletedEvents ==
  /\ poll.at = "completed"
  /\ LET settled(j) == {e \in LogsOf("JobCompleted") : e.job = j}
     IN jobs' = [j \in Job |-> IF settled(j) = {} THEN jobs[j]
                               ELSE NoteCompleted(jobs[j], (CHOOSE e \in settled(j) : TRUE).by)]
  /\ poll' = [poll EXCEPT !.at = "expired"]
  /\ UNCHANGED <<chainVars, linkVars, running, disk, request, pending, handler, lastBlock>>

ProcessJobExpiredEvents ==
  /\ poll.at = "expired"
  /\ LET expired == {e.job : e \in LogsOf("JobExpired")}
     IN jobs' = [j \in Job |-> IF j \in expired THEN NoteExpired(jobs[j]) ELSE jobs[j]]
  /\ lastBlock' = Processed
  /\ poll' = Waiting
  /\ UNCHANGED <<chainVars, linkVars, running, disk, request, pending, handler>>

(* A query fails: the same blocks are asked for again at the next tick.    *)
PollFails ==
  /\ "rpc" \in Faults
  /\ poll # Waiting
  /\ poll' = Waiting
  /\ UNCHANGED <<chainVars, linkVars, coordinatorVars, lastBlock>>

IndexerStep == StartPoll \/ ProcessJobCompletedEvents \/ ProcessJobExpiredEvents \/ PollFails
=============================================================================
