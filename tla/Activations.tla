---------------------------- MODULE Activations ----------------------------
(***************************************************************************)
(* What calls and try regions promise, whatever the machine: every try      *)
(* region belongs to one activation of one function, a return closes the    *)
(* regions of its own activation and no other, and an exception goes to the *)
(* region opened last and ends the activations above it.  This is what the  *)
(* flat arrays fr and try_stack of vm_run_program (src/src/vm.c) stand for. *)
(*                                                                         *)
(* Open regions are numbered in the order they were entered.                *)
(***************************************************************************)
EXTENDS Naturals, Sequences

VARIABLES
    calls,  \* the activations, oldest first, with the regions each has open
    count   \* how many activations there have been after the first

avars == <<calls, count>>

Activation(id) == [id |-> id, open |-> {}]

Opened == UNION {calls[i].open : i \in DOMAIN calls}

IsLast(r) == r \in Opened /\ \A q \in Opened : q <= r

Fresh == {r \in {1} \cup {q + 1 : q \in Opened} : \A q \in Opened : q < r}

Init ==
    /\ calls \in {<<>>, <<Activation(0)>>}
    /\ count = 0

Call ==
    /\ calls # <<>>
    /\ calls' = Append(calls, Activation(count + 1))
    /\ count' = count + 1

Return ==
    /\ Len(calls) > 1
    /\ calls' = SubSeq(calls, 1, Len(calls) - 1)
    /\ UNCHANGED count

Enter ==
    /\ calls # <<>>
    /\ \E r \in Fresh : calls' = [calls EXCEPT ![Len(calls)].open = @ \cup {r}]
    /\ UNCHANGED count

\* The region opened last is closed; in bytecode that the compiler made it is
\* one of the activation that runs.
Exit ==
    /\ \E i \in DOMAIN calls : \E r \in calls[i].open :
          IsLast(r) /\ calls' = [calls EXCEPT ![i].open = @ \ {r}]
    /\ UNCHANGED count

Throw ==
    /\ \E i \in DOMAIN calls : \E r \in calls[i].open :
          IsLast(r) /\ calls' = [SubSeq(calls, 1, i) EXCEPT ![i].open = @ \ {r}]
    /\ UNCHANGED count

\* The outermost call returns, or the program fails.
Over == calls' = <<>> /\ UNCHANGED count

Next == Call \/ Return \/ Enter \/ Exit \/ Throw \/ Over

Spec == Init /\ [][Next]_avars
=============================================================================
