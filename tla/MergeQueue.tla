------------------------------ MODULE MergeQueue ------------------------------
(***************************************************************************)
(* The merge queue of the branch main, as the rule that the repository     *)
(* pins in configs/github/merge-queue-policy.json sets it up: a pull       *)
(* request is checked on its own, queued, checked again on the commit that *)
(* main would become, and merged together with the green entries before    *)
(* it.  An entry that fails, or whose checks do not answer in time, leaves *)
(* the queue, and the commits of all entries behind it are built anew.     *)
(***************************************************************************)
EXTENDS Naturals, Sequences, FiniteSets

CONSTANTS
  PR,                  \* the pull requests
  Contents,            \* what the pull requests may contain: functions on PR
  Conclusion(_, _),    \* "green", "red" or "missing": what the required checks
                       \* of an event say of a commit, given by its changes
  HeadEvent(_),        \* the event that runs the checks of a pull request itself
  MaxEntriesToBuild,   \* max_entries_to_build
  MaxEntriesToMerge    \* max_entries_to_merge

VARIABLES
  content,   \* what each pull request contains
  head,      \* what its own checks said of each
  main,      \* the pull requests merged so far, in order
  queue      \* the entries: pull request, commit and what its checks said

queueVars == <<content, head, main, queue>>

Heads == {"unchecked", "green", "red"}
Entry == [pr : PR, on : Seq(PR), report : {"pending", "green", "red"}]

\* A commit is the sequence of pull requests that led to it.
Tree(commit) == {content[commit[i]] : i \in DOMAIN commit}
Queued(p) == \E i \in DOMAIN queue : queue[i].pr = p
Merged(p) == \E i \in DOMAIN main : main[i] = p
Tip == IF queue = <<>> THEN main ELSE queue[Len(queue)].on

QueueTypeOK ==
  /\ content \in Contents /\ head \in [PR -> Heads]
  /\ main \in Seq(PR) /\ queue \in Seq(Entry)

QueueInit ==
  /\ content \in Contents
  /\ head = [p \in PR |-> "unchecked"] /\ main = <<>> /\ queue = <<>>

\* A check of the pull request that takes the answer as it comes.
CheckHeadAsReported(p) ==
  /\ ~Merged(p) /\ ~Queued(p)
  /\ head' = [head EXCEPT ![p] = Conclusion(Tree(Append(main, p)), HeadEvent(p))]
  /\ UNCHANGED <<content, main, queue>>

\* The checks of the pull request, on its merge with main as it is now.
CheckHead(p) ==
  /\ ~Merged(p) /\ ~Queued(p)
  /\ head' = [head EXCEPT ![p] =
       IF Conclusion(Tree(Append(main, p)), HeadEvent(p)) = "green" THEN "green" ELSE "red"]
  /\ UNCHANGED <<content, main, queue>>

\* The verdict that lets it in may be older than main.
Enqueue(p) ==
  /\ head[p] = "green" /\ ~Merged(p) /\ ~Queued(p)
  /\ queue' = Append(queue, [pr |-> p, on |-> Append(Tip, p), report |-> "pending"])
  /\ UNCHANGED <<content, head, main>>

\* The required checks of an entry's commit have all answered.
CheckGroup(i) ==
  LET conclusion == Conclusion(Tree(queue[i].on), "merge_group") IN
    /\ i <= MaxEntriesToBuild /\ queue[i].report = "pending" /\ conclusion # "missing"
    /\ queue' = [queue EXCEPT ![i].report = IF conclusion = "green" THEN "green" ELSE "red"]
    /\ UNCHANGED <<content, head, main>>

\* grouping_strategy ALLGREEN: every entry of the merged group is green.
Merge(n) ==
  /\ n <= MaxEntriesToMerge /\ \A i \in 1..n : queue[i].report = "green"
  /\ main' = queue[n].on
  /\ queue' = SubSeq(queue, n + 1, Len(queue))
  /\ UNCHANGED <<content, head>>

\* The queue without its entry i: what is behind it is tested again, without it.
Without(s, i) == [k \in 1..(Len(s) - 1) |-> IF k < i THEN s[k] ELSE s[k + 1]]

Rebuilt(i) ==
  [k \in 1..(Len(queue) - 1) |->
     IF k < i THEN queue[k]
     ELSE [queue[k + 1] EXCEPT !.on = Without(@, Len(main) + i), !.report = "pending"]]

Fail(i) ==
  /\ queue[i].report = "red"
  /\ queue' = Rebuilt(i)
  /\ UNCHANGED <<content, head, main>>

\* A rule without check_response_timeout_minutes waits for the answer.
TimeOutNever(i) == FALSE /\ i \in DOMAIN queue /\ UNCHANGED queueVars

\* check_response_timeout_minutes
TimeOut(i) ==
  /\ i <= MaxEntriesToBuild /\ queue[i].report = "pending"
  /\ queue' = Rebuilt(i)
  /\ UNCHANGED <<content, head, main>>

QueueNext ==
  \/ \E p \in PR : CheckHead(p) \/ Enqueue(p)
  \/ \E i \in DOMAIN queue : CheckGroup(i) \/ Merge(i) \/ Fail(i) \/ TimeOut(i)

QueueSpec == QueueInit /\ [][QueueNext]_queueVars

-------------------------------------------------------------------------------

\* The queue is one line of commits: each entry's commit is main followed by
\* the entries up to it, whoever left before.
OneLine ==
  \A i \in DOMAIN queue :
    /\ Len(queue[i].on) = Len(main) + i
    /\ \A k \in DOMAIN main : queue[i].on[k] = main[k]
    /\ \A k \in 1..i : queue[i].on[Len(main) + k] = queue[k].pr

\* A green entry is one whose commit, as it is now, was found green.
GreenIsTrue ==
  \A i \in DOMAIN queue :
    queue[i].report = "green" => Conclusion(Tree(queue[i].on), "merge_group") = "green"

\* What main is, and ever was, passed the checks of the merge group.
MainIsValidated ==
  \A n \in DOMAIN main :
    Conclusion({content[main[i]] : i \in 1..n}, "merge_group") = "green"
===============================================================================
