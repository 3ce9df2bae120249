------------------------------ MODULE MCCalls ------------------------------
(***************************************************************************)
(* Calls for TLC.  Target memories hold a root at page 6 of 8, whose       *)
(* neighbours are tables that lead back to it, on to page 0 or nowhere,    *)
(* leaves and components of other formats.                                 *)
(***************************************************************************)
EXTENDS Calls

End == [form |-> "end", offset |-> 0, power |-> FALSE]
AnEntry(form, raw, power) == [form |-> form, offset |-> raw, power |-> power]

\* Offsets of -1 are 7 in a wide and 3 in a narrow table.
EntriesOf(wide) ==
  {End, AnEntry("absent", 0, FALSE), AnEntry("invalid", 0, FALSE), AnEntry("present", 0, FALSE), AnEntry("present", 1, TRUE)}
  \cup {AnEntry("present", o, FALSE) : o \in IF wide THEN {1, 7} ELSE {1, 3}}

Table(wide, s) == [class |-> "table", wide |-> wide, entries |-> s]

Roots == UNION {{Table(w, <<e, f>>) : e \in EntriesOf(w), f \in EntriesOf(w)} : w \in BOOLEAN}
Others ==
  {[class |-> "leaf"], [class |-> "unsupported"], Table(TRUE, <<AnEntry("present", 1, FALSE)>>),
   Table(FALSE, <<AnEntry("present", 3, FALSE), End>>), Table(FALSE, <<AnEntry("present", 3, TRUE)>>)}

MCRoms ==
  {[p \in {0, 5, 6, 7} |-> CASE p = 0 -> [class |-> "leaf"] [] p = 5 -> a [] p = 6 -> r [] p = 7 -> b]
     : a \in Others, b \in Others, r \in Roots \cup Others}

MCLimits == {[MaxDepth |-> d, MaxComponents |-> c, MaxEntries |-> e] : d \in {0, 2}, c \in {2, 4}, e \in {2, 6}}

MCInit == CallInit /\ (call = "walk" => base = 6)
MCSpec == MCInit /\ [][CallNext]_callVars

=============================================================================
