------------------------------ MODULE WorkItems ------------------------------
(***************************************************************************)
(* What the users of SceneUtil::WorkQueue rely on, without threads, locks  *)
(* or condition variables: items are begun in the order of the queue, each *)
(* is worked on once, and who waits for an item goes on when it is done.   *)
(***************************************************************************)
EXTENDS Sequences, SequencesExt

CONSTANTS
    Item,   \* work items: one that nobody refers to may stand for a new one
    NoItem  \* model value: the null reference

VARIABLES pending, running, finished, awaited

vars == <<pending, running, finished, awaited>>

Init == pending = <<>> /\ running = {} /\ finished = {} /\ awaited = NoItem

Submit(i, front) ==
    /\ i \notin ToSet(pending) \cup running
    /\ pending' = IF front THEN <<i>> \o pending ELSE Append(pending, i)
    /\ finished' = finished \ {i}
    /\ UNCHANGED <<running, awaited>>

Begin ==
    /\ pending # <<>>
    /\ Head(pending) \notin running
    /\ running' = running \cup {Head(pending)}
    /\ pending' = Tail(pending)
    /\ UNCHANGED <<finished, awaited>>

Finish ==
    \E i \in running :
        /\ running' = running \ {i}
        /\ finished' = finished \cup {i}
        /\ UNCHANGED <<pending, awaited>>

Await(i) ==
    /\ awaited = NoItem
    /\ i \in (ToSet(pending) \cup running) \ finished
    /\ awaited' = i
    /\ UNCHANGED <<pending, running, finished>>

Proceed ==
    /\ awaited \in finished
    /\ awaited' = NoItem
    /\ UNCHANGED <<pending, running, finished>>

\* The queue is destroyed: what was not begun never will be, so nobody waits for it.
Release ==
    /\ awaited \notin ToSet(pending)
    /\ pending' = <<>>
    /\ UNCHANGED <<running, finished, awaited>>

Next ==
    \/ \E i \in Item, front \in BOOLEAN : Submit(i, front)
    \/ Begin
    \/ Finish
    \/ \E i \in Item : Await(i)
    \/ Proceed
    \/ Release

Spec == Init /\ [][Next]_vars

=============================================================================
