----------------------------- MODULE CallCycles -----------------------------
(***************************************************************************)
(* refuseCallCycles: the depth-first walk that refuses a set of workflows  *)
(* in which one reaches itself through calls, and names the path.  The     *)
(* walk keeps its path, and for each workflow on it the callees it has not *)
(* looked at; a workflow's callees come in the order of its steps.         *)
(***************************************************************************)
EXTENDS Naturals, Sequences, FiniteSetsExt, Functions

CONSTANT Workflows  \* the highest of the workflows' ids, which sort as numbers

ASSUME CyclesAssumption == Workflows \in Nat

Workflow == 1 .. Workflows

VARIABLES graph,  \* the workflows each calls, fixed
          mark,   \* unseen, open or done
          path,   \* the walk
          left,   \*   the callees left to look at, of each on the path
          report  \* the answer: the path of a cycle, or that there is none

cycleVars == <<graph, mark, path, left, report>>

Walking == <<0>>
Accepted == <<>>

CyclesInit ==
    /\ graph \in [Workflow -> SUBSET Workflow]
    /\ mark = [w \in Workflow |-> "unseen"]
    /\ path = <<>> /\ left = <<>> /\ report = Walking

\* The walk enters a workflow.
Enter(w) ==
    /\ mark' = [mark EXCEPT ![w] = "open"]
    /\ path' = Append(path, w)

\* The next root, in the order of the ids, or the end.
WalkRoot ==
    /\ report = Walking /\ path = <<>>
    /\ LET unseen == {w \in Workflow : mark[w] = "unseen"} IN
       IF unseen = {}
       THEN report' = Accepted /\ UNCHANGED <<mark, path, left>>
       ELSE Enter(Min(unseen)) /\ left' = <<graph[Min(unseen)]>> /\ UNCHANGED report
    /\ UNCHANGED graph

cycleStart(callee) == Min({i \in DOMAIN path : path[i] = callee})

\* The callees left to the last workflow of the path, without this one.
LookedAt(callee) == [left EXCEPT ![Len(left)] = @ \ {callee}]

MutWalkCallee(callee) ==
    /\ report = Walking /\ path # <<>> /\ callee \in left[Len(left)]
    /\ IF mark[callee] = "unseen"
       THEN Enter(callee) /\ left' = Append(LookedAt(callee), graph[callee])
       ELSE left' = LookedAt(callee) /\ UNCHANGED <<mark, path>>
    /\ UNCHANGED <<graph, report>>

WalkCallee(callee) ==
    /\ report = Walking /\ path # <<>> /\ callee \in left[Len(left)]
    /\ \/ /\ mark[callee] = "open"
          /\ report' = Append(SubSeq(path, cycleStart(callee), Len(path)), callee)
          /\ UNCHANGED <<mark, path, left>>
       \/ /\ mark[callee] = "unseen"
          /\ Enter(callee) /\ left' = Append(LookedAt(callee), graph[callee]) /\ UNCHANGED report
       \/ /\ mark[callee] = "done"
          /\ left' = LookedAt(callee) /\ UNCHANGED <<mark, path, report>>
    /\ UNCHANGED graph

\* Every callee was looked at.
WalkReturns ==
    /\ report = Walking /\ path # <<>> /\ left[Len(left)] = {}
    /\ mark' = [mark EXCEPT ![path[Len(path)]] = "done"]
    /\ path' = SubSeq(path, 1, Len(path) - 1) /\ left' = SubSeq(left, 1, Len(left) - 1)
    /\ UNCHANGED <<graph, report>>

CyclesNext == WalkRoot \/ (\E w \in Workflow : WalkCallee(w)) \/ WalkReturns

CyclesSpec == CyclesInit /\ [][CyclesNext]_cycleVars
-----------------------------------------------------------------------------
(***************************************************************************)
(* Properties                                                              *)
(***************************************************************************)

\* The reference: a workflow reaches itself when a path of calls, none of whose
\* workflows repeats, comes back to where it began.
Calls(p) == \A i \in 1 .. Len(p) - 1 : p[i + 1] \in graph[p[i]]
IsCycle(p) == Len(p) > 1 /\ p[1] = p[Len(p)] /\ Calls(p) /\ IsInjective(SubSeq(p, 1, Len(p) - 1))
Loops(w) == \E n \in 0 .. Workflows - 1 : \E p \in [1 .. n -> Workflow] : IsCycle(<<w>> \o p \o <<w>>)

\* A set of workflows is accepted only if it has no cycle, through however many
\* of them, and refused only for a cycle: the path named is one, from its own
\* first workflow and no workflow twice.
VerdictIsRight ==
    /\ report = Accepted => \A w \in Workflow : ~Loops(w)
    /\ report \notin {Walking, Accepted} => IsCycle(report)
=============================================================================
