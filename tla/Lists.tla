------------------------------- MODULE Lists -------------------------------
(***************************************************************************)
(* What the models do with lists and the community modules do not offer in *)
(* a form that can be reasoned about.                                      *)
(***************************************************************************)
EXTENDS Naturals, FiniteSets, SequencesExt

\* The elements at some places of a list, in their order.
Sublist(list, places) ==
  LET upTo[n \in 0 .. Len(list)] == IF n = 0 THEN <<>>
                                    ELSE IF n \in places THEN Append(upTo[n - 1], list[n])
                                    ELSE upTo[n - 1]
  IN  upTo[Len(list)]

\* The elements that are in S.
Only(list, S) == Sublist(list, {i \in 1 .. Len(list) : list[i] \in S})

\* All but the first occurrence of each element of S: LREM key 1 e for each e.
WithoutFirsts(list, S) ==
  Sublist(list, {i \in 1 .. Len(list) : list[i] \in S => \E j \in 1 .. i - 1 : list[j] = list[i]})

\* How often an element is in a list.
Occurrences(list, e) == Cardinality({i \in 1 .. Len(list) : list[i] = e})
=============================================================================
