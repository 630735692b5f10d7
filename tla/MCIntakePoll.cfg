SPECIFICATION FairSpec
CONSTANTS
  Identity = {i1}
  Issue = {n1}
  Rule = {r1, r2}
  MaxMsg = 1
  MaxDeliver = 2
  Setups <- PollOrHook
  Faults = {"fail"}
  MaxFaults = 1
  MaxChanges = 2
  NoMsg = NoMsg
  Unseen = Unseen
INVARIANTS RunByOne DeclinedWasWithdrawn AcceptedIsKept
PROPERTIES DeclinedIsFinal EligibleIsTaken QueuedIsRun
CHECK_DEADLOCK FALSE
