------------------------------ MODULE KeyStacks ------------------------------
(***************************************************************************)
(* What the shared hash map promises: under every key a stack of values, of *)
(* which a search sees the newest.  Insert pushes, SetValue changes the top *)
(* or begins the stack, Delete removes the top; an entry met while walking  *)
(* the map can be changed or removed wherever it lies.  Any of them may     *)
(* also fail and change nothing.  Whoever opens the map may find it empty.  *)
(* Once an operation was cut short in the middle of its pointers, nothing   *)
(* is promised any more.                                                    *)
(***************************************************************************)
EXTENDS Integers, Sequences, SequencesExt

CONSTANTS Key, Value

VARIABLES
  stacks,
  asked,   \* the operation at work that has not had its effect: [op, key, val]
  trusted

Init == stacks = [k \in Key |-> <<>>] /\ asked.op = "none" /\ trusted = TRUE

Push == stacks' = [stacks EXCEPT ![asked.key] = <<asked.val>> \o @]
Change(k, i) == i \in DOMAIN stacks[k] /\ stacks' = [stacks EXCEPT ![k][i] = asked.val]
Drop(k, i) == i \in DOMAIN stacks[k] /\ stacks' = [stacks EXCEPT ![k] = RemoveAt(@, i)]

Effect ==
  \/ asked.op = "insert" /\ Push
  \/ asked.op = "set" /\ IF stacks[asked.key] = <<>> THEN Push ELSE Change(asked.key, 1)
  \/ asked.op = "delete" /\ Drop(asked.key, 1)
  \/ asked.op = "visit" /\ \E k \in Key : \E i \in DOMAIN stacks[k] : Change(k, i) \/ Drop(k, i)
  \/ asked.op = "open" /\ stacks' = [k \in Key |-> <<>>]

Next ==
  \/ trusted /\ trusted' /\ (UNCHANGED stacks \/ Effect)
  \/ trusted /\ ~ trusted' /\ UNCHANGED stacks
  \/ ~ trusted

Spec == Init /\ [][Next]_<<stacks, asked, trusted>>
=============================================================================
